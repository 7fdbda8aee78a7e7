\* what the comments say of the close and does not hold: a thread in close(), and on the
\* loop an aclose(), the EOF, and a reply that finds the channel dead
\* (TLC stops at the first violation: leave that property out to see the next)
SPECIFICATION FairSpec
CONSTANTS
  thread = thread
  writer = writer
  coroutine = coroutine
  peer = peer
  socket = socket
  reply = reply
  Closers = {thread, coroutine, socket, reply}
  KindOf <- MCKindOf
  Callbacks = {callback}
  Waiters = {waiter}
  CloseCatchall = FALSE
INVARIANTS
  ToldAfterTeardown
  ReaderRemoved
PROPERTIES
  AcloseCloses
  EveryoneTold
CHECK_DEADLOCK FALSE
