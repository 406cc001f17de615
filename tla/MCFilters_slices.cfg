SPECIFICATION Spec
CONSTANTS
  Total = 16
  MaxRoom = 8
  Rate = 3
  WindowSize = 2
  Interpolation = 2
  SkipRate = 2
  SumSize = 7
  MaxIterations = 4
  OutputBlock = 4
  Shift = 2
  Delay = 3
  FileSize = 11
  Divider = 4
  BlockBits = 1
  MaxFailed = 4
  Infos <- MCInfos
  Bursts <- MCBursts
  TapsCount = 4
  MinTapsInterval = 2
  MaxTapsInterval = 4
  TapsDivider = 2
  MinGainInterval = 1
  MaxGainInterval = 2
  DisabledInterval = 2
  MinWeight = 2
INVARIANTS
  AsWhole
  Accepted
CHECK_DEADLOCK FALSE
