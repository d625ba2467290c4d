SPECIFICATION FairSpec
CONSTANTS
  Calls = {c1, c2, c3}
  Admins = {a1}
  MaxConcurrent = 2
INVARIANTS
  TokensFollowGuards
PROPERTIES
  SlotsSpec
  CleanedUpAlone
  ResetMissesNewcomersOnly
  CallsReturn
  TimedOutSlotsReturn
