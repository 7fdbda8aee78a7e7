\* two awaiters of a request that may expire, and another request
SPECIFICATION FairSpec
CONSTANTS
  r1 = r1
  r2 = r2
  a1 = a1
  a2 = a2
  Reqs = {r1, r2}
  Awaiters = {a1, a2}
  Of <- MCOf
  Expiring = {r1}
  Dispatchers = {"loop", "thread"}
INVARIANTS
  NothingLeft
  NoLostWakeup
  StillExpected
PROPERTIES
  AnsweredWakes
CHECK_DEADLOCK FALSE
