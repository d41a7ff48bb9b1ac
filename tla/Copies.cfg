SPECIFICATION FairSpec
CONSTANTS
  n1 = n1
  n2 = n2
  p1 = p1
  p2 = p2
  r2 = r2
  Nodes = {n1, n2}
  Keys = {k1, k2}
  Procs = {p1, p2, r2}
  HomeOf <- Homes
  May <- Calls
  Kinds = {"names", "ids", "batch"}
  Written = {k1}
  MaxVersion = 2
  Callers = {c1, c2}
  Values = {1, 2}
  MaxLate = 1
  MaxWrites = 2
  Called = {n1}
  FewKeys = {k1}
  Rows = {1}
  MaxLocal = 1
  MaxChanges = 2
  Alone = {n1}
  ManyKeys = {1, 2}
  NoFaults = 0
  Readers = {p1, p2}
  MaxFaults = 1
INVARIANTS GetFindsRow QuietLevelsAgree KeysEvictable
PROPERTY Heals
CHECK_DEADLOCK FALSE
