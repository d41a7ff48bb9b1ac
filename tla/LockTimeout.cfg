SPECIFICATION Spec
CONSTANTS
  p1 = p1
  p2 = p2
  p3 = p3
  o1 = o1
  o2 = o2
  t1 = t1
  t2 = t2
  t3 = t3
  Procs = {p1, p2}
  Locks = {o1, o2}
  LockOf <- OwnObject
  Tokens = {t1, t2, t3}
  NoToken = NoToken
  NoLock = NoLock
  TTL = 3
  Interval = 2
  ExtendTTLs = {3}
  EnableWatchdog = TRUE
  UseTimeout = TRUE
  CallerCancels = FALSE
  RedisFaults = FALSE
  Crashes = FALSE
  Prompt = TRUE
INVARIANT LeaseKept
