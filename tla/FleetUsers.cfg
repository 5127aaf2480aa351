\* Three runs of the command line, two at a time, over two nodes.
SPECIFICATION Spec
CONSTANTS
  MaxRuns = 3
  n1 = n1
  n2 = n2
  alice = alice
  bob = bob
  u1 = u1
  u2 = u2
  r1 = r1
  r2 = r2
  s1 = s1
  s2 = s2
  Node = {n1, n2}
  Tag = {alice}
  Uid = {u1, u2}
  Run = {r1, r2}
  Slot = {s1, s2}
SYMMETRY Symmetry
INVARIANTS
  TypeOK
  SuccessIsTrue
  DisableSticks
PROPERTY
  IdentityIsStable
CHECK_DEADLOCK FALSE
