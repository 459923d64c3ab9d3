CONSTANTS
  Setups <- MCSetups
  Scale = 60
  RandMax = 15
  ReadPermille <- MCReadPermille
  Garbage <- MCGarbage
SPECIFICATION FairSpec
INVARIANTS
  InverseOfSums
  
PROPERTIES
  TraceIsFinished
CHECK_DEADLOCK FALSE
