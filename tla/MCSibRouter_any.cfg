SPECIFICATION Spec
CONSTANTS
  NumSibs = 2
  VoterAll = FALSE
  MaxSlots = 2
  MaxXid = 2
  MaxQueue = 1
  Payload = {"hello", "route"}
  RouteSet = {"route"}
INVARIANTS HostsCounted IInv
CHECK_DEADLOCK FALSE
