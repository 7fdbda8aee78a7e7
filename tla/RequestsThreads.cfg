\* an awaiter of the loop while a thread dispatches the reply
SPECIFICATION Spec
CONSTANTS
  r1 = r1
  r2 = r2
  a1 = a1
  a2 = a2
  Reqs = {r1}
  Awaiters = {a1, a2}
  Of <- MCOf
  Expiring = {}
  Dispatchers = {"loop", "thread"}
INVARIANTS
  ThreadSafeAwait
CHECK_DEADLOCK FALSE
