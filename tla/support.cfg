SPECIFICATION FairSpec
CONSTANTS
  Requests = {r1, r2}
  WebSearch = TRUE
  MaxTokens = 1
INVARIANTS
  DoneEndsTheStream
  SessionIsTheDialogue
  RememberedWasDelivered
PROPERTIES
  EveryRequestEnds
CHECK_DEADLOCK FALSE
