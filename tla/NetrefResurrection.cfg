\* the invariant of DESIGN_REFCOUNT_RACE_FIX.md, one thread
SPECIFICATION Spec
CONSTANTS
  Objs = {o1}
  OtherThreads = FALSE
  MaxBoxes = 2
  MaxCalls = 0
INVARIANTS
  IncrementsMatchDecrements
CHECK_DEADLOCK FALSE
