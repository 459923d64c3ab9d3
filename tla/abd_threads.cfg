CONSTANTS
  NNodes = 4
  NThreads = 2
  NOps = 2
  NIds = 2
  CountMod = 8
  MIdMod = 8
  SizeMod = 16
  MaxRequest = 2
  MaxNest = 1
  MaxDown = 0
  NoValue = NoValue
  KeyBytes = KeyBytes
  Node <- MCNode
  Thread <- MCThread
  NodeOf <- MCNodeOf
  Peer <- MCPeer
  MId <- MCMId
  Key <- MCKey
  Group <- MCGroup
  Op <- MCOp
  Traces <- ThreadTraces
SPECIFICATION Spec
INVARIANTS
  AckedOnMajority
  RealTimeOrder
  OnlyOverlapDiverges
  CountersMatch
PROPERTIES
  ImplementsRegister
CHECK_DEADLOCK FALSE
