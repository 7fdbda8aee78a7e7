\* two objects, each sent twice, proxies dropped by any thread, one request back
SPECIFICATION Spec
CONSTANTS
  Objs = {o1, o2}
  OtherThreads = TRUE
  MaxBoxes = 2
  MaxCalls = 1
SYMMETRY Symmetry
INVARIANTS
  Accounting
  LiveProxyHasObject
  SyncArgsFound
CHECK_DEADLOCK FALSE
