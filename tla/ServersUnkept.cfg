\* a ThreadedServer closed while a client comes, and a pool whose two clients share one
\* descriptor, one after the other; with a loop, async_connect cancelled, two clients and
\* descriptors for one, and a server that ends the connection before it answers
\* (TLC stops at the first violation: leave out that property to see the others)
SPECIFICATION FairSpec
CONSTANTS
  c1 = c1
  c2 = c2
  c3 = c3
  w1 = w1
  w2 = w2
  Clients = {c1, c2, c3}
  Fds = {3, 4}
  Workers = {w1, w2}
  ThreadSetups <- MCUnkept
  LoopSetups <- MCShort
INVARIANTS
  ClientsClosed
  DropsOnlyClosed
  NothingLeft
  LoopRuns
PROPERTIES
  DropsClose
  ConnectEnds
CHECK_DEADLOCK FALSE
