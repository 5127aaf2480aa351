\* Two nodes and two keys, eight commands, two migrations broken off.
SPECIFICATION Spec
CONSTANTS
  n1 = n1
  n2 = n2
  k1 = k1
  k2 = k2
  None = None
  Node = {n1, n2}
  Key = {k1, k2}
  MaxRuns = 8
  MaxFaults = 2
SYMMETRY Symmetry
INVARIANTS
  TypeOK
  BrokenIsRefused
PROPERTIES
  NothingDestroyed
  OkIsWhole
CHECK_DEADLOCK FALSE
