\* A node that syncs, is reseeded, retired and moved, on two machines.
SPECIFICATION Spec
CONSTANTS
  Host = {h1, h2}
  First = h1
  EventId = {e1, e2}
  FromBackup = FALSE
SYMMETRY Symmetry
INVARIANTS
  TypeOK
  NothingSkipped
  HistorySound
PROPERTIES
  EventsKept
  HandsOver
CHECK_DEADLOCK FALSE
