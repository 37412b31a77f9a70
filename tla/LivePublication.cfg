SPECIFICATION FairSpec
CONSTANTS
  Texts = {t1, t2}
  Dialects = {d1, d2}
  InitialDialect = d1
  Disk = Disk
  None = None
  MaxMessages = 3
  MaxWatched = 2
  BusyLocks = {"index"}
  MaxOthers = 1
INVARIANTS
  ReadyMeansSource
  IndexedMeansView
  RestAgrees
PROPERTY PublicationsEnd
CHECK_DEADLOCK FALSE
