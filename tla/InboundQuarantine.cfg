\* two connections on one loop, a cap of one request, chunks of two frames
SPECIFICATION FairSpec
CONSTANTS
  c1 = c1
  c2 = c2
  r1 = r1
  r2 = r2
  r3 = r3
  r4 = r4
  Conns = {c1, c2}
  Requests = {r1, r2, r3, r4}
  ConnOf <- MCConnOf
  KindOf <- MCKindOf
  MaxInflight = 1
  Ending = {c1}
  MaxFrames = 2
INVARIANTS
  CounterExact
  InflightBounded
  AnsweredOnce
PROPERTIES
  DrainEnds
CHECK_DEADLOCK FALSE
