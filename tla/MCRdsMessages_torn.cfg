SPECIFICATION Spec
CONSTANTS
  Unset = Unset
  Validity <- MCValidity
  TmcImmediateTimeout = 0
  Programmes <- MCOneChannel
  TmcSent <- MCTmcSent
  MaxTime = 3
  MaxPause = 1
  Pauses = {4}
  MaxCount = 3
INVARIANTS
  NoCheckFails
