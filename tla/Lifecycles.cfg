SPECIFICATION FairSpec
CONSTANTS
  Starts = {a1, a2, a3}
  Callers = {p1, p2}
  Subs = {s1, s2}
  c1 = c1
  Channels = {c1}
  On <- Same
  PoolSize = 1
  MaxTries = 1
  MaxEvents = 1
  MaxCalls = 3
INVARIANTS OneConsumer StopWaits StaysSubscribed
PROPERTIES OneLoop CallsEnd
CHECK_DEADLOCK FALSE
