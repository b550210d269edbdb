SPECIFICATION FairSteadySpec
CONSTANTS
  NumSibs = 3
  VoterAll = TRUE
  MaxSlots = 3
  MaxXid = 6
  MaxQueue = 3
  Payload = {"hello", "route"}
  RouteSet = {"route"}
  Hello = "hello"
  Route = "route"
  RouteXids = {4}
  Faulty = {}
  Crashers = {1, 2, 3}
  MaxCrashes = 1
  MaxRestarts = 0
PROPERTIES Progress
CHECK_DEADLOCK FALSE
