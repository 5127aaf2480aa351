\* Retention runs between two statements of `vcl audit export`.
SPECIFICATION Spec
CONSTANTS
  Host = {h1}
  First = h1
  EventId = {e1, e2, e3}
  FromBackup = FALSE
INVARIANT NoSilentLoss
CHECK_DEADLOCK FALSE
