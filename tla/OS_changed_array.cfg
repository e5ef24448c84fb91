SPECIFICATION SettingsSpec
CONSTANTS
  Operators = {"MovingAverage"}
  MaxGiven = 1
  MaxChanges = 1
  MaxOps = 2
  MaxCopies = 1
INVARIANT FilesKeepSettings
CHECK_DEADLOCK FALSE
