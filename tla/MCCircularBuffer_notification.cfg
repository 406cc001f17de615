CONSTANTS
  r1 = r1
  r2 = r2
  source = source
  Source = source
  Readers <- OneReader
  DataSize = 12
  Alignment = 2
  MinOutputSize = 1
  SuggestedOutputSize = 3
  HistorySize <- PlainHistory
  Delay <- PlainDelay
  RequiredSize <- PlainRequired
  SuggestedSize <- PlainSuggested
  StreamLength = 30
  ResetAfterSource = {}
  MaxResets = 0
SPECIFICATION Spec
INVARIANT RelaxingHelps
CHECK_DEADLOCK FALSE
