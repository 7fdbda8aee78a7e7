\* lost, doubled and late datagrams, restarts, and two servers over TCP; see MCRegistry
SPECIFICATION FairSpec
CONSTANTS
  s1 = s1
  s2 = s2
  n1 = n1
  n2 = n2
  Servers = {s1, s2}
  Names = {n1, n2}
  Offers <- MCOffers
  Interval = 2
  Pruning = 5
  Timeout = 1
  MaxLine = 3
  Setups <- MCCases
INVARIANTS
  AckedIsListed
PROPERTIES
  FoundInTheEnd
  GoneInTheEnd
CHECK_DEADLOCK FALSE
