SPECIFICATION Spec
CONSTANTS
  MaxLen = 4
  MaxTurns = 3
INVARIANTS
  WindowIsTheNewestInBudget
  RequestKeepsWhatWasAsked
  ConversationSurvivesTheWire
  AnswerIsExplained
  DelayHonoursTheServer
  AnswerIsToldAsItIs
  MediaIsWhatWasNamed
  SourcesAreWhatWasFound
  CallIsSentAsConfigured
CHECK_DEADLOCK FALSE
