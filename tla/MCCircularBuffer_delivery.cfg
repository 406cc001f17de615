CONSTANTS
  r1 = r1
  r2 = r2
  source = source
  Source = source
  Readers <- TwoReaders
  DataSize = 10
  Alignment = 1
  MinOutputSize = 2
  SuggestedOutputSize = 2
  HistorySize <- FilterHistory
  Delay <- FilterDelay
  RequiredSize <- FilterRequired
  SuggestedSize <- FilterSuggested
  StreamLength = 14
  ResetAfterSource = {}
  MaxResets = 1
SPECIFICATION FairSpec
INVARIANTS TypeOK VerifyHolds SliceReady AdvanceReady Fifo SlicesDisjointUnlessMoved Progress
PROPERTIES EventuallyDrained Implements
CHECK_DEADLOCK FALSE
