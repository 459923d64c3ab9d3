CONSTANTS
  NNodes = 3
  NThreads = 1
  NOps = 3
  NIds = 3
  CountMod = 8
  MIdMod = 8
  SizeMod = 16
  MaxRequest = 1
  MaxNest = 0
  MaxDown = 0
  NoValue = NoValue
  KeyBytes = KeyBytes
  Node <- MCNode
  Thread <- MCThread
  NodeOf <- MCNodeOf
  Peer <- MCPeer
  MId <- MCMId
  Key <- MCKey
  Group <- MCGroup
  Op <- MCOp
  Traces <- PutGetTraces
SPECIFICATION Spec
INVARIANTS
  GetReturnsPutValue
CHECK_DEADLOCK FALSE
