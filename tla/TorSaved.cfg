SPECIFICATION Spec
CONSTANTS
  TickLimit = 1
  MaxFaults = 0
  MaxLogins = 1
INVARIANTS
  SavedIsSet
CHECK_DEADLOCK FALSE
