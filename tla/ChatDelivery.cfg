SPECIFICATION FairSpec
CONSTANTS
  MaxSent = 2
  MaxReplies = 1
  MaxDrops = 1
  MaxCloses = 1
  HistoryLimit = 6
INVARIANTS
  TypeOK
  SendingIsPending
PROPERTIES
  KeepsPromise
  Settles
CHECK_DEADLOCK FALSE
