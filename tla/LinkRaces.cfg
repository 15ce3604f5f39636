SPECIFICATION FairSpec
CONSTANTS
  Conns = {c1, c2, c3}
  NoConn = NoConn
  NoRequest = NoRequest
  Blocked = Blocked
  Lists <- Mutual
  MaxFaults = 0
  MaxMeets = 1
  MaxEdits = 0
  MaxCalls = 3
INVARIANTS
  TypeOK
PROPERTIES
  Converges
CHECK_DEADLOCK FALSE
