SPECIFICATION Spec
CONSTANTS
  N = 2
  kMin = 0
  kMax = 3
  Indexes = {1, 2, 3}
  Vals = {"pass", "block"}
  MaxEvents = 2
  MaxPending = 2
  WhenAll = TRUE
  Gated = TRUE
  Passing = {"pass"}
  Columns = {1, 2}
  TickMax = 4
  TickIndexes = {1, 2, 3}
  MaxAge = {1}
  InOrder = {0}
  NeverAhead = {0, 1}
  Modes = {FALSE, TRUE}
  Count = 1
  RowIndexes = {0, 1, 3}
INVARIANTS RowsPrompt EndEmitsAll RowsOneLayout SavedStateLoads BarsRight
PROPERTIES RowsAlign SettledPrompt EndFlushes
