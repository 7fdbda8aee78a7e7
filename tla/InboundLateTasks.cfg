\* one request whose late coroutine waits for the peer when the connection closes
SPECIFICATION FairSpec
CONSTANTS
  c1 = c1
  c2 = c2
  r1 = r1
  r2 = r2
  r3 = r3
  r4 = r4
  Conns = {c1}
  Requests = {r3}
  ConnOf <- MCConnOf
  KindOf <- MCKindOf
  MaxInflight = 2
  Ending = {c1}
  MaxFrames = 1
PROPERTIES
  EveryTaskEnds
CHECK_DEADLOCK FALSE
