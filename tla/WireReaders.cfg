\* a synchronous request on the loop inside a frame
SPECIFICATION FairSpec
CONSTANTS
  MaxChunk = 9
  Threshold = 4
  Room = 11
  Setups <- MCBoth
INVARIANTS
  ReadAsSent
CHECK_DEADLOCK FALSE
