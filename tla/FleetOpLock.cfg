\* Two UI threads and one vcl-fleet process, nesting, dying at any point.
SPECIFICATION Spec
CONSTANTS
  t1 = t1
  t2 = t2
  t3 = t3
  ui = ui
  cli = cli
  Thread = {t1, t2, t3}
  Process = {ui, cli}
  Home <- MCHome
  MaxDepth = 3
INVARIANTS
  Mutex
  LockInv
PROPERTY NestedIsGranted
