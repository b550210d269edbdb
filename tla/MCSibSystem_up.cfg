SPECIFICATION SysSpec
CONSTANTS
  NumSibs = 2
  VoterAll = TRUE
  MaxSlots = 2
  MaxXid = 6
  MaxQueue = 3
  Payload = {"hello", "route"}
  RouteSet = {"route"}
  Hello = "hello"
  Route = "route"
  RouteXids = {4}
  Faulty = {}
  Crashers = {}
  MaxCrashes = 0
  MaxRestarts = 0
INVARIANTS ControllerUp
CHECK_DEADLOCK FALSE
