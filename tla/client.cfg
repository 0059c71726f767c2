SPECIFICATION Spec
CONSTANTS
  Chats = {c1, c2}
  Poll = get
  Keys = {k1, k2}
  MaxRetries = 1
  MaxTries = 2
  MaxChunks = 2
  IdleTimeout = 2
  PollInterval = 1
  WaitTimeout = 4
INVARIANTS
  OnePostPerCall
  CompareKeepsPaidAnswers
PROPERTIES
  KeyIsLive
  FailureIsWhatHappened
  EveryCallSettles
