SPECIFICATION FairSpec
CONSTANTS
  MaxChunks = 4
  Word = 8
INVARIANTS
  BacklogIsExact
  NothingDroppedOrReordered
  IdleMeansFlushed
PROPERTY EverythingIsDelivered
CHECK_DEADLOCK FALSE
