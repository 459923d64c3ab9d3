CONSTANTS
  Op <- MCOp
  Thread <- MCThread
  ThreadOf <- MCThreadOf
  max_request = 2
  SizeMod = 4
SPECIFICATION FairSpec
INVARIANTS
  SlotsCounted
PROPERTIES
  ImplementsSlots
  EveryCommandAdmitted
CHECK_DEADLOCK FALSE
