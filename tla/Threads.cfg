SPECIFICATION FairSpec
CONSTANTS
  Workers = {2, 3}
  PoolWorkers = {4, 5}
  Main = 1
  Scripts <- MCScripts
  Programs <- MCPrograms
INVARIANTS
  LockExcludes
  SenderIsBacked
PROPERTY ScriptsFinish
CHECK_DEADLOCK FALSE
