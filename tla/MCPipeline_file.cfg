SPECIFICATION FairSpec
CONSTANTS
  Threads = {w1, w2}
  Main = main
  source = source
  filter = filter
  sink = sink
  Blocks = {source, filter, sink}
  Edges <- Fork
  NoBlock = NoBlock
  Capacity = 3
  SuggestedSize = 2
  MinExtraQueueLoad = 0
  Faulty = {sink}
  Supply = 4
  Endless = FALSE
  Script = {}
  MaxPauses = 0
INVARIANTS TypeOK OneOwner NoCheckFails NoMissedBlock RunningCounted FinishedMeansDrained
PROPERTIES RelaxedOnlyWhenDry Ends
