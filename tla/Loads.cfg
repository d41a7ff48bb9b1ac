SPECIFICATION FairSpec
CONSTANTS
  p1 = p1
  p2 = p2
  p3 = p3
  Procs = {p1, p2, p3}
  MaxCalls = 2
  LoadsFail = TRUE
  Panics = TRUE
  Removals = TRUE
  Users = {p1, p2}
  UseLock = TRUE
  LockTimeouts = TRUE
  LeaseLost = TRUE
  AsyncUpdates = TRUE
  Refreshes = TRUE
  Penetration = TRUE
  RedisFails = TRUE
  MaxVersion = 2
  MaxUses = 1
  Instance <- CallersInstance
  MaxLoads = 1
  MaxMishaps = 2
INVARIANT OneLoader
PROPERTIES LockGivenBack CallsReturn
CHECK_DEADLOCK FALSE
