\* callers, serve_all and BgServingThread share one connection
SPECIFICATION FairSpec
CONSTANTS
  c1 = c1
  c2 = c2
  s1 = s1
  b1 = b1
  w1 = w1
  Callers = {c1, c2}
  Servers = {s1}
  Background = {b1}
  Workers = {w1}
  LockSetups <- MCLockSetups
  BoundSetups <- MCBoundSetups
INVARIANTS
  OneReceiver
  LockGivenBack
  SleepersOwed
  ReplyAtAsker
  OccupationExact
  PoolServed
PROPERTIES
  CallsEnd
CHECK_DEADLOCK FALSE
