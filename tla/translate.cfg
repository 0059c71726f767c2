SPECIFICATION Spec
CONSTANTS
  MaxBlocks = 3
  MaxPieces = 3
  Usages <- UsagesCounted
INVARIANTS
  AnswerIsReassembled
  WholeAnswersEndAlike
  TranslationIsAStream
CHECK_DEADLOCK FALSE
