\* two calls without timeouts, which may raise at the peer
SPECIFICATION FairSpec
CONSTANTS
  c1 = c1
  c2 = c2
  s1 = s1
  b1 = b1
  w1 = w1
  Callers = {c1, c2}
  Servers = {s1}
  Background = {b1}
  Workers = {w1}
  LockSetups <- MCErrors
  BoundSetups <- MCNone
PROPERTIES
  CallsEnd
CHECK_DEADLOCK FALSE
