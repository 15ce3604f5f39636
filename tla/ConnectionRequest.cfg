SPECIFICATION FairSpec
CONSTANTS
  MaxId = 3
  UserTypes = {"chat"}
  Regards <- AllRegards
  MaxWire = 5
INVARIANTS
  TrustIsMutual
PROPERTIES
  OpensResolve
  StrangersLeave
  AcceptanceArrives
CHECK_DEADLOCK FALSE
