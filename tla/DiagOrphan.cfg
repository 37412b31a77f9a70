SPECIFICATION Spec
CONSTANTS
  None = None
  Workers = {w1, w2}
  Texts = {t1}
  Panicking = {}
  Attempts = 4
  MaxOpens = 2
  MaxEdits = 0
  MaxCloses = 1
  MaxReloads = 0
  MaxPulls = 0
  MaxRemarks = 1
CHECK_DEADLOCK FALSE
INVARIANT NoOrphanedWork
