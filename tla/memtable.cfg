CONSTANTS
  CountMod = 4
  MIdMod = 2
  NoValue = NoValue
  None = None
  Key <- MCKey
  Op <- MCOp
  Calls <- MCCalls
SPECIFICATION FairSpec
INVARIANTS
  ReturnedPutsCovered
PROPERTIES
  ImplementsStore
  CallsReturn
CHECK_DEADLOCK FALSE
