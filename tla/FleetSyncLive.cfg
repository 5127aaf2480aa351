\* Repeated syncs under fairness, with failures at every step, while the node moves.
SPECIFICATION LiveSpec
CONSTANTS
  Host = {h1, h2}
  First = h1
  EventId = {e1}
  FromBackup = TRUE
PROPERTY CatchesUp
CHECK_DEADLOCK FALSE
