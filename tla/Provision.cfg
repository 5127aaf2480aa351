\* Two commands at a time on the node, two controllers, one fault.
SPECIFICATION Spec
CONSTANTS
  c1 = c1
  c2 = c2
  k1 = k1
  k2 = k2
  Cmd = {c1, c2}
  Ctl = {k1, k2}
  MaxRuns = 4
  MaxFaults = 1
SYMMETRY Symmetry
CONSTRAINT Followed
INVARIANTS
  TypeOK
  InstalledIsWhole
PROPERTIES
  RollbackIsExact
  InstalledKeepsIdentity
  ReportIsTrue
CHECK_DEADLOCK FALSE
