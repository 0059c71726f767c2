SPECIFICATION Spec
CONSTANTS
  Requests = {r1, r2}
  WebSearch = FALSE
  MaxTokens = 1
INVARIANTS
  NoQuestionLost
CHECK_DEADLOCK FALSE
