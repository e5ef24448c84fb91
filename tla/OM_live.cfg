CONSTANTS
  N = 2
  kMin = 0
  kMax = 3
  Indexes = {0, 1, 2}
  Widths = {1, 2}
  MaxEvents = 2
  MaxPending = 2
  InOrder = {0}
  NeverAhead = {0, 1}
  Modes = {FALSE, TRUE}
SPECIFICATION Spec
INVARIANTS TypeOK OutputOrdered NothingLost NothingWaitsInVain SavedStateLoads
PROPERTIES WatermarkKept MergedSpec EndDelivers
