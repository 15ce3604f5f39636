SPECIFICATION Spec
CONSTANTS
  Conns = {c1, c2}
  NoConn = NoConn
  NoRequest = NoRequest
  Blocked = Blocked
  Lists <- AnyLists
  MaxFaults = 1
  MaxMeets = 1
  MaxEdits = 1
  MaxCalls = 3
SYMMETRY
  Alike
INVARIANTS
  OneTrusted
  StatusIsTrue
  KnownAtBoth
CHECK_DEADLOCK FALSE
