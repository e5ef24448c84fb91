SPECIFICATION Spec
CONSTANTS
  Functions = {"mergeArrays", "combineArrays", "split", "opEvent", "opBatch", "assetEvent", "reducerEvent",
               "reducerBatch", "rowEvent", "rowBatch", "pipelineCall", "pushWide", "surrogates", "barsBlock",
               "returnsBlock", "positionTest", "strategyTest", "walkForward", "probabilisticSharpe",
               "deflatedSharpe", "timeSplits", "backtestReport", "backtestTrades"}
  Nested = {"opEvent", "opBatch", "reducerEvent", "strategyTest", "rowBatch"}
  MaxFrames = 4
  MaxLost = 0
  MayFail = {"mergeArrays", "combineArrays", "split", "opBatch", "assetEvent", "reducerBatch", "rowBatch",
             "pipelineCall", "pushWide", "surrogates",
             "barsBlock", "returnsBlock", "positionTest", "strategyTest", "walkForward",
             "probabilisticSharpe", "deflatedSharpe", "timeSplits", "backtestReport", "backtestTrades"}
INVARIANTS UsesFresh StackKept
PROPERTY NothingLeaks
CHECK_DEADLOCK FALSE
