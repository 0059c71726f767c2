SPECIFICATION FairSpec
CONSTANTS
  MaxCalls = 4
  MaxForeign = 1
  Limits <- MCLimits
  AddedRoles <- MCAddedRoles
INVARIANTS
  TurnsAreKept
  ReadsOwnWrites
PROPERTIES
  EveryCallSettles
  ImplementsLog
CHECK_DEADLOCK FALSE
