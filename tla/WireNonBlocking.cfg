\* a message larger than the send buffer, on a loop
SPECIFICATION FairSpec
CONSTANTS
  MaxChunk = 9
  Threshold = 4
  Room = 11
  Setups <- MCLoops
INVARIANTS
  SendWaits
CHECK_DEADLOCK FALSE
