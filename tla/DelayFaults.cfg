SPECIFICATION Spec
CONSTANTS
  k1 = k1
  k2 = k2
  q1 = q1
  q2 = q2
  Keys = {k1, k2}
  Pods = {q1}
  Workers = 2
  MaxRetries = 0
  RetryDelay = 1
  Visibility = 1
  BatchSize = 2
  Orderings = {FALSE, TRUE}
  Delays = {0}
  MaxVersion = 1
  MaxCrashes = 1
  Reschedules = FALSE
  Stops = TRUE
  RedisFaults = TRUE
  SlowHandlers = TRUE
SYMMETRY KeySymmetry
INVARIANTS
  TaskKept
CHECK_DEADLOCK FALSE
