\* a value at every limit of the encodings, two conversations, either reader; see MCWire
SPECIFICATION FairSpec
CONSTANTS
  MaxChunk = 9
  Threshold = 4
  Room = 11
  Setups <- MCCases
INVARIANTS
  ReadAsSent
  LoadsBack
PROPERTIES
  AllArrives
CHECK_DEADLOCK FALSE
