\* one object sent three times, one request back, both loops fair
SPECIFICATION FairSpec
CONSTANTS
  Objs = {o1}
  OtherThreads = TRUE
  MaxBoxes = 3
  MaxCalls = 1
PROPERTIES
  QueueServed
  EventuallyReleased
CHECK_DEADLOCK FALSE
