SPECIFICATION ElectSpec
CONSTANTS
  NumSibs = 3
  MaxCrashes = 1
  Crashers = {1}
  Ties = TRUE
  MaxLost = 1
  Debug = TRUE
INVARIANTS
  OneLeader
  LeaderKnown
  BossLeads
  EarlyIdsOnly
  LeaderRemains
CHECK_DEADLOCK FALSE
