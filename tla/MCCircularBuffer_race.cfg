CONSTANTS
  r1 = r1
  r2 = r2
  source = source
  Source = source
  Readers <- TwoReaders
  DataSize = 7
  Alignment = 1
  MinOutputSize = 1
  SuggestedOutputSize = 2
  HistorySize <- FilterHistory
  Delay <- FilterDelay
  RequiredSize <- FilterRequired
  SuggestedSize <- FilterSuggested
  StreamLength = 10
  ResetAfterSource = {}
  MaxResets = 0
SPECIFICATION Spec
INVARIANT SlicesDisjoint
CHECK_DEADLOCK FALSE
