SPECIFICATION FairSpec
CONSTANTS
  Loops = {loop, other}
  Accessors = {text, usage}
  MaxSent = 4
  MaxChunk = 3
INVARIANTS
  AnswersAreWhole
PROPERTIES
  AbortIsFinal
  AbortStopsTheAnswer
  EveryAccessorSettles
  ImplementsAnswer
CHECK_DEADLOCK FALSE
