\* with bind_threads: closing while a worker waits in the pool
SPECIFICATION FairSpec
CONSTANTS
  c1 = c1
  c2 = c2
  s1 = s1
  b1 = b1
  w1 = w1
  Callers = {c1, c2}
  Servers = {s1}
  Background = {b1}
  Workers = {w1}
  LockSetups <- MCNone
  BoundSetups <- MCBoundSetups
PROPERTIES
  CloseEnds
CHECK_DEADLOCK FALSE
