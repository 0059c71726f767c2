SPECIFICATION Spec
CONSTANTS
  MaxBlocks = 3
  MaxPieces = 3
  Usages <- UsagesCounted
INVARIANT StopIsTheModelsOwn
CHECK_DEADLOCK FALSE
