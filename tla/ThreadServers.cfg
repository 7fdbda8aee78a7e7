\* four pools, a thread per client, and one client; see MCServers
SPECIFICATION FairSpec
CONSTANTS
  c1 = c1
  c2 = c2
  c3 = c3
  w1 = w1
  w2 = w2
  Clients = {c1, c2, c3}
  Fds = {3, 4}
  Workers = {w1, w2}
  ThreadSetups <- MCThreads
  LoopSetups <- MCNone
INVARIANTS
  OnePlace
PROPERTIES
  RequestsRead
  CloseReturns
CHECK_DEADLOCK FALSE
