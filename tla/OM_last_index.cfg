CONSTANTS
  N = 2
  kMin = 0
  kMax = 2
  Indexes = {0, 1, 2}
  Widths = {1}
  MaxEvents = 1
  MaxPending = 2
  InOrder = {}
  NeverAhead = {}
  Modes = {FALSE}
SPECIFICATION Spec
INVARIANT FlushReleasesAll
