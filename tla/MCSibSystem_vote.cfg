SPECIFICATION VoteSpec
CONSTANTS
  NumSibs = 3
  VoterAll = TRUE
  MaxSlots = 4
  MaxXid = 6
  MaxQueue = 3
  Payload = {"hello", "route"}
  RouteSet = {"route"}
  Hello = "hello"
  Route = "route"
  RouteXids = {4}
  Faulty = {2}
  Crashers = {3}
  MaxCrashes = 1
  MaxRestarts = 1
INVARIANTS Integrity InOrder DbCurrent QueueAligned
CHECK_DEADLOCK FALSE
