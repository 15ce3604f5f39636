SPECIFICATION FairSpec
CONSTANTS
  MaxFiles = 2
  Chunks = 2
  BadNames = {2}
  MaxDrops = 2
  MaxCancels = 2
  MaxErrors = 1
INVARIANTS
  TypeOK
  RecordsMeet
  InStep
  SuccessIsShared
PROPERTIES
  SenderIsTold
CHECK_DEADLOCK FALSE
