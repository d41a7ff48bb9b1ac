SPECIFICATION Spec
CONSTANTS
  p1 = p1
  p2 = p2
  p3 = p3
  o1 = o1
  o2 = o2
  t1 = t1
  t2 = t2
  t3 = t3
  Procs = {p1, p2, p3}
  Locks = {o1, o2}
  LockOf <- TwoShareOne
  Tokens = {t1, t2}
  NoToken = NoToken
  NoLock = NoLock
  TTL = 2
  Interval = 1
  ExtendTTLs = {0, 2}
  EnableWatchdog = TRUE
  UseTimeout = FALSE
  CallerCancels = TRUE
  RedisFaults = TRUE
  Crashes = TRUE
  Prompt = FALSE
SYMMETRY Symmetry
INVARIANT OneHolder
PROPERTIES
  OnlyOwnerTouchesKey
  GrantedOnlyIfRedisAgrees
  ImplementsLease
