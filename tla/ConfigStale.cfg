SPECIFICATION Spec
CONSTANTS
  MaxChanges = 1
  OneShots = {initialized}
  MaxFailures = 0
CHECK_DEADLOCK FALSE
INVARIANT LastSettingsWin
