\* clients that are cancelled, a server that is stopped or out of descriptors
SPECIFICATION FairSpec
CONSTANTS
  c1 = c1
  c2 = c2
  c3 = c3
  w1 = w1
  w2 = w2
  Clients = {c1, c2, c3}
  Fds = {3, 4}
  Workers = {w1, w2}
  ThreadSetups <- MCNone
  LoopSetups <- MCLoops
INVARIANTS
  ReaderHasSocket
PROPERTIES
  HandshakeAnswered
  SessionsEnd
CHECK_DEADLOCK FALSE
