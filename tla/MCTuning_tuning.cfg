SPECIFICATION Spec
CONSTANTS
  BuffersCount = 2
  BufferSize = 2
  Suggested = 2
  FftSize = 1
  Window = 3
  Capacity = 4
  Changes = 2
  Channels = 3
  Strongest = 2
INVARIANTS
  TypeOK
  NoCheckFails
  OneHolder
  OldSamplesFew
  LevelIsWindow
  ReadingWhole
  EveryPeakOnce
PROPERTY
  SearchEnds
CHECK_DEADLOCK FALSE
