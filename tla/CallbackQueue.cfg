SPECIFICATION FairSpec
CONSTANTS
  MaxCalls = 6
INVARIANTS
  TypeOK
  NoneLost
PROPERTIES
  InOrder
  Handled
