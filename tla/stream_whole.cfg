SPECIFICATION Spec
CONSTANTS
  Loops = {loop}
  Accessors = {usage}
  MaxSent = 2
  MaxChunk = 2
INVARIANTS
  WholeIsNotRetried
CHECK_DEADLOCK FALSE
