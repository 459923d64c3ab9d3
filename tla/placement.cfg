CONSTANTS
  ClusterSizes <- MCClusterSizes
  Keys <- MCKeys
SPECIFICATION Spec
INVARIANTS
  OneGroupPerKey
  EveryGroupReachable
  CrashOnlyBelowThree
CHECK_DEADLOCK FALSE
