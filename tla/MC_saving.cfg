SPECIFICATION MCSpec
CONSTANTS
  Names = {a, b}
  NoName = NoName
  Saves = {s1, s2}
  Modes = {m, d}
  NoMode = NoMode
  Default = d
  MaxHops = 2
  Faults = {"import", "readlink", "stat", "open", "write", "chmod", "sync", "close", "rename", "rm"}
  MaxCrashes = 1
  Operators <- AllOperators
  Graphs <- SomeGraphs
  MaxGiven = 1
  MaxChanges = 1
  MaxOps = 2
  MaxCopies = 1
  MaxTaken = 1
INVARIANTS TargetWhole NoLitter SettingsKept LoadedContinues FailedLoadKeeps
PROPERTY LinksAndModesKept
CHECK_DEADLOCK FALSE
