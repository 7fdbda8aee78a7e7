\* a request with an async handler and the HANDLE_DEL behind it
SPECIFICATION Spec
CONSTANTS
  Objs = {o1}
  OtherThreads = FALSE
  MaxBoxes = 1
  MaxCalls = 1
INVARIANTS
  AsyncArgsFound
CHECK_DEADLOCK FALSE
