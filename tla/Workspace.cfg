\* Four commands on two machines, one of them killed, one failed write.
SPECIFICATION Spec
CONSTANTS
  m1 = m1
  m2 = m2
  a = a
  b = b
  Machine = {m1, m2}
  Proc = {a, b}
  MaxRuns = 4
  MaxFaults = 1
SYMMETRY Symmetry
CONSTRAINT Followed
INVARIANTS
  TypeOK
  CleanIsCommitted
  ArchiveIsARevision
PROPERTIES
  SeenOnlyAdvances
  FailedWriteRestores
CHECK_DEADLOCK FALSE
