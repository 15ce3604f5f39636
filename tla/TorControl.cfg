SPECIFICATION FairSpec
CONSTANTS
  TickLimit = 1
  MaxFaults = 1
  MaxLogins = 1
INVARIANTS
  TypeOK
  RepliesMatch
  RetryPending
  ConnectivityIsTrue
PROPERTIES
  Recovers
  DialsAgain
CHECK_DEADLOCK FALSE
