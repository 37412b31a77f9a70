SPECIFICATION FairSpec
CONSTANTS
  None = None
  Workers = {w1}
  Texts = {t1}
  Panicking = {}
  Attempts = 4
  MaxOpens = 1
  MaxEdits = 1
  MaxCloses = 0
  MaxReloads = 1
  MaxPulls = 0
  MaxRemarks = 1
CHECK_DEADLOCK FALSE
INVARIANTS
  StampIsHonest
  NoOrphanedWork
PROPERTY
  Converges
