SPECIFICATION FairSpec
CONSTANTS
  Threads = {w1, w2}
  Main = main
  source = source
  filter = filter
  sink = sink
  Blocks = {source, sink}
  Edges <- Pair
  NoBlock = NoBlock
  Capacity = 3
  SuggestedSize = 2
  MinExtraQueueLoad = 0
  Faulty = {}
  Supply = 1
  Endless = TRUE
  Script = {"pause", "quiet reset", "stop"}
  MaxPauses = 2
INVARIANTS NoCheckFails SomebodyAwake WaitersCounted
PROPERTIES EveryBlockRuns PauseQuiesces StopReturns
