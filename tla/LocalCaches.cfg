SPECIFICATION FairSpec
CONSTANTS
  Procs = {p1, p2}
  Keys = {k1, k2, k3}
  Capacity = 2
  Shards = {{k1, k2, k3}}
  FewKeys = {k1, k2}
  SampleSize = 2
  MaxRounds = 2
  ContinueRatio = 4
  Capacities = {1, 2, 3, 4}
  ColdStarts = {0, 1, 2}
  MaxFails = 2
INVARIANTS ListsMatch
PROPERTIES KeepsEntries EvictsByUse Ends
CHECK_DEADLOCK FALSE
