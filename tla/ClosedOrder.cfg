SPECIFICATION ClosedSpec
CONSTANTS
  None = None
  Buffer = Buffer
  MaxOpens = 1
  MaxReloads = 1
  MaxWrites = 1
  MaxDeletes = 1
CHECK_DEADLOCK FALSE
PROPERTY NewerRunWins
