SPECIFICATION FairSpec
CONSTANTS
  i1 = i1
  i2 = i2
  Items = {i1, i2}
  Priority <- ItemPriority
  NoWorker = NoWorker
  Workers = {w1, w2}
  Types = {"fifo", "lifo", "priority", "delayed"}
  BatchSize = 2
  MaxRetries = 1
  MaxMishaps = 1
  Pushers = {w1, w2}
  MaxSize = 1
  MaxLetters = 4
  MaxErrors = 1
  Messages = {m1, m2, m3}
  Movers = {v1, v2}
  Modes = {"sync", "async", "hybrid"}
  BufferSize = 1
  PoolSize = 1
  Closes = TRUE
  MaxCrashes = 2
  RedisFaults = TRUE
  Procs = {p1, p2}
  SeqStart = 5
  BatchSizes = {2}
  Window = 2
  Expire = 4
  Lag = 1
  ResetsAlone = TRUE
  Horizon = 7
  MaxIds = 6
INVARIANTS
  GivenOnce RetriesSpent TrimsToMax
  AcceptedKept NoSendOnClosed AtMostTwoCopies
  UniqueIds DenseSequence
PROPERTIES InOrder CloseCompletes
CHECK_DEADLOCK FALSE
