CONSTANTS
  Threads = {t1, t2}
  Keys = {1, 2, 3, 4}
  Values = {a, b}
  size = 2
  hash <- MCHash
  key_hash <- MCKeyHash
  None = None
  MaxPuts = 4
SPECIFICATION Spec
INVARIANTS
  FoundIsLatest
  OneEntryPerKey
