\* all kinds of closers, two of them threads of their own, and a waiter
SPECIFICATION FairSpec
CONSTANTS
  thread = thread
  writer = writer
  coroutine = coroutine
  peer = peer
  socket = socket
  reply = reply
  Closers = {thread, writer, coroutine, peer, socket, reply}
  KindOf <- MCKindOf
  Callbacks = {}
  Waiters = {waiter}
  CloseCatchall = FALSE
INVARIANTS
  ToldOnce
  ToldInTeardown
  ReaderOwed
PROPERTIES
  ReaderGoes
  CloserTells
CHECK_DEADLOCK FALSE
