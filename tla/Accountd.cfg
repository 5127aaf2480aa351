\* One connection id, reused, with both counters, through failures and retention.
SPECIFICATION LiveSpec
CONSTANTS
  Conn = {c1}
  Dir = {up, dn}
  RawDays = 1
  Batch = 1
  MaxTraffic = 1
  MaxIncarnation = 2
  MaxDay = 2
INVARIANTS
  IndInv
  NoOvercount
  ExportSeqSound
PROPERTIES
  DeltaOnce
  GoneIsClosed
  BacklogDrains
  ImplementsAuditLog
