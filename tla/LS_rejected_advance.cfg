CONSTANTS
  N = 2
  kMin = 0
  kMax = 6
  Indexes = {0, 1, 5}
  Widths = {1}
  MaxEvents = 2
  MaxPending = 1
  InOrder = {}
  NeverAhead = {}
  Modes = {FALSE}
  BarWidth = 1
  MaxFill = 1
SPECIFICATION SessionSpec
INVARIANT RejectedAdvanceKeeps
