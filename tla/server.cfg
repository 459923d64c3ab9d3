CONSTANTS
  Machine = {1, 2, 3}
  NThread = 1
  FirstOctet = 2
  Octet <- MCOctet
  NCmds = 1
  Trace <- ThreeTraces
  MaxRequest = 1
SPECIFICATION FairSpec
INVARIANTS
  NobodyStranded
PROPERTIES
  AllLeave
CHECK_DEADLOCK FALSE
