SPECIFICATION FairSpec
CONSTANTS
  SNDBUF = 5
  MaxFwd = 1
  RECVS = 2
  Nothing = Nothing
INVARIANTS StateIsRepliesSeen DroppedForCause RouterIsAwaited
PROPERTIES IsChannel ReachesRouting
CHECK_DEADLOCK FALSE
