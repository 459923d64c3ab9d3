CONSTANTS
  Machine = {1, 2, 3}
  NThread = 2
  FirstOctet = 1
  Octet <- MCOctet
  NCmds = 2
  Trace <- PutsAndGets
  MaxRequest = 1
SPECIFICATION Spec
INVARIANTS
  SessionsFollowThreadCount
CHECK_DEADLOCK FALSE
