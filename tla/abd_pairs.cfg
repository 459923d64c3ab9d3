CONSTANTS
  NNodes = 4
  NThreads = 1
  NOps = 2
  NIds = 4
  CountMod = 2
  MIdMod = 8
  SizeMod = 16
  MaxRequest = 1
  MaxNest = 0
  MaxDown = 1
  NoValue = NoValue
  KeyBytes = KeyBytes
  Node <- MCNode
  Thread <- MCThread
  NodeOf <- MCNodeOf
  Peer <- MCPeer
  MId <- MCMId
  Key <- MCKey
  Group <- MCGroup
  Op <- MCOp
  Traces <- PairTraces
SPECIFICATION FairSpec
INVARIANTS
  TypeOK
  AckedOnMajority
  ReplicaAgreement
  CountersMatch
  WrapIsFinal
PROPERTIES
  EveryOpReturns
CHECK_DEADLOCK FALSE
