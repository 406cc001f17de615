SPECIFICATION Spec
CONSTANTS
  Unset = Unset
  Validity <- MCValidity
  TmcImmediateTimeout = 0
  Programmes <- MCProgrammes
  TmcSent <- MCTmcSent
  MaxTime = 3
  MaxPause = 1
  Pauses = {4}
  MaxCount = 3
INVARIANTS
  TypeOK
  NoCheckFailsUnlessTorn
  ReportedFresh
  TextOfOneFlag
  AnnouncedWhole
  AnnouncedOnEvidence
PROPERTIES
  BelievedOnEvidence
