SPECIFICATION Spec
CONSTANTS
  k1 = k1
  k2 = k2
  q1 = q1
  q2 = q2
  Keys = {k1, k2}
  Pods = {q1, q2}
  Workers = 1
  MaxRetries = 1
  RetryDelay = 1
  Visibility = 2
  BatchSize = 2
  Orderings = {FALSE}
  Delays = {0, 1}
  MaxVersion = 1
  MaxCrashes = 0
  Reschedules = FALSE
  Stops = TRUE
  RedisFaults = FALSE
  SlowHandlers = FALSE
SYMMETRY KeyPodSymmetry
INVARIANTS
  NothingDropped
CHECK_DEADLOCK FALSE
