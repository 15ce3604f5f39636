SPECIFICATION Spec
CONSTANTS
  Conns = {c1, c2}
  NoConn = NoConn
  NoRequest = NoRequest
  Blocked = Blocked
  Lists <- Asking
  MaxFaults = 1
  MaxMeets = 0
  MaxEdits = 0
  MaxCalls = 3
INVARIANTS
  PendingIsRetried
CHECK_DEADLOCK FALSE
