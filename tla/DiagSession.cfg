SPECIFICATION Spec
CONSTANTS
  None = None
  Workers = {w1, w2}
  Texts = {t1, t2}
  Panicking = {t2}
  Attempts = 4
  MaxOpens = 2
  MaxEdits = 1
  MaxCloses = 1
  MaxReloads = 0
  MaxPulls = 1
  MaxRemarks = 0
CHECK_DEADLOCK FALSE
INVARIANTS
  OneWorker
  CacheServesLiveText
PROPERTY DeliveriesAreCurrent
