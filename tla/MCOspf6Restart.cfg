SPECIFICATION MCSpec
CONSTANTS
  Word = 8
  Sibs = {1, 2}
  Scripts <- MCScripts
  Interface <- MCInterface
  Configs <- MCConfigs
  Crashers = {1}
  MaxCrashes = 1
  Lapsing = {1}
INVARIANTS
  TailInOrder
  CaughtUp
  CheckpointCovers
  AckedIsStored
  GreetedIsTaken
PROPERTIES
  HelloAfterRestart
  RestartEnds
CHECK_DEADLOCK FALSE
