SPECIFICATION MCSpec
CONSTANTS
  Peers <- MCPeers
  BgpMessages <- MCBgpMessages
  SNDBUF = 1
  MaxUp = 2
  MaxDown = 2
  MaxCrashes = 1
  MaxStarts = 3
INVARIANTS
  RelayedInOrder
  LossForCause
  
PROPERTIES
  Relayed
CHECK_DEADLOCK FALSE
