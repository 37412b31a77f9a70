SPECIFICATION FairSpec
CONSTANTS
  MaxChanges = 3
  OneShots = {initialized}
  MaxFailures = 1
CHECK_DEADLOCK FALSE
INVARIANTS
  OneLeader
  LastChangeIsCovered
PROPERTY EveryChangeIsReloaded
