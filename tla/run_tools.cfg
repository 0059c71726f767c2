SPECIFICATION FairSpec
CONSTANTS
  MaxSteps = 3
  MaxCalls = 2
  MaxRuns = 2
INVARIANTS
  ConversationIsWellFormed
  TextIsTheRunsOwn
  CostCoversTheRun
  CeilingHolds
PROPERTIES
  EveryRunEnds
CHECK_DEADLOCK FALSE
