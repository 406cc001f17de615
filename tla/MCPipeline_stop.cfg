SPECIFICATION Spec
CONSTANTS
  Threads = {w1, w2}
  Main = main
  source = source
  filter = filter
  sink = sink
  Blocks = {source, sink}
  Edges <- Pair
  NoBlock = NoBlock
  Capacity = 3
  SuggestedSize = 2
  MinExtraQueueLoad = 0
  Faulty = {}
  Supply = 1
  Endless = FALSE
  Script = {"stop"}
  MaxPauses = 2
INVARIANTS StopAccepted
