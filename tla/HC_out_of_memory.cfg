SPECIFICATION Spec
CONSTANTS
  Functions = {"opEvent", "reducerEvent"}
  Nested = {}
  MaxFrames = 1
  MaxLost = 0
  MayFail = {"reducerEvent"}
INVARIANT OwnedLive
CHECK_DEADLOCK FALSE
