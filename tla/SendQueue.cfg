\* three threads, the stream and the cleanup fail at any point; refinement
SPECIFICATION FairSpec
CONSTANTS
  Threads = {t1, t2, t3}
  MaxSends = 1
INVARIANTS
  NoStranded
PROPERTIES
  DeliversInOrder
  DeliversAll
CHECK_DEADLOCK FALSE
