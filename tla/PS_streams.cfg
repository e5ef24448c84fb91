CONSTANTS
  N = 2
  kMin = 0
  kMax = 3
  Indexes = {1, 2}
  WhenAll = TRUE
  Forms = {"merge", "join", "zip", "feed"}
  MaxEvents = 2
  MaxRequests = 5
  Faulty = TRUE
SPECIFICATION Spec
INVARIANTS RowsPaired LeavesNothing
PROPERTIES MergeImplements JoinImplements Answered
CHECK_DEADLOCK FALSE
