CONSTANTS
  NOps = 2
  Op <- MCOp
  Kinds <- MCKinds
  Replica <- MCReplica
  Incoming = {h1}
  Pool = 13
  MaxRequest = 2
  MaxDown = 1
SPECIFICATION FairSpec
INVARIANTS
  BuffersAccounted
  ContextsOutliveUse
  NothingLeaks
PROPERTIES
  NoBufferStarvation
CHECK_DEADLOCK FALSE
