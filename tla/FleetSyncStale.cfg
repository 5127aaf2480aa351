\* The node is moved to a backup older than the cursor, and closes connections.
SPECIFICATION Spec
CONSTANTS
  Host = {h1, h2}
  First = h1
  EventId = {e1, e2}
  FromBackup = TRUE
SYMMETRY Symmetry
PROPERTY StaleCursorRefused
CHECK_DEADLOCK FALSE
