CONSTANTS
  Kinds = {"op", "reducer", "row"}
  Streams = {1, 2}
  MaxColumns = 2
  MaxEvents = 2
  MaxLive = 1
  Faulty = TRUE
  PipeKinds = {"pipeline", "once", "iterators", "loaded"}
  MaxRuns = 2
  MaxDepth = 2
SPECIFICATION MCSpec
INVARIANTS StreamsAlone CopiesFreedOnce ReleasedOnce HeldStaysOpen
PROPERTIES NoUseAfterRelease Collected
CHECK_DEADLOCK FALSE
