CONSTANTS
  Stream <- Generations
  Processes = 1
  Sizes = {328}
  MaxLookups = 0
SPECIFICATION Spec
INVARIANT OffsetIsPosition
CHECK_DEADLOCK FALSE
