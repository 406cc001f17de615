SPECIFICATION Spec
CONSTANTS
  Threads = {w1, w2}
  Main = main
  source = source
  filter = filter
  sink = sink
  Blocks = {source, sink}
  Edges <- Pair
  NoBlock = NoBlock
  Capacity = 3
  SuggestedSize = 2
  MinExtraQueueLoad = 0
  Faulty = {}
  Supply = 1
  Endless = TRUE
  Script = {"pause", "reset"}
  MaxPauses = 1
INVARIANTS RunsOnlyScheduled
