-------------------------------- MODULE Copies --------------------------------
(***************************************************************************)
(* The caches that keep copies of rows in memory and in Redis.  They share *)
(* nothing but the server, so one of them runs, and the others stay as     *)
(* they begin.  HotKey runs as several instances, and as one, alone, that  *)
(* has more keys than it is to keep.                                       *)
(***************************************************************************)
EXTENDS Naturals, FiniteSets

CONSTANTS
  Nodes, Keys, Procs, HomeOf, May, Kinds, Written, MaxVersion,     \* KVCache
  Callers, Values, MaxLate,                                        \* TwoLevel
  MaxWrites,                                                       \* MultiLevel
  Called, FewKeys, Rows, MaxLocal, MaxChanges,                     \* HotKey
  Alone, ManyKeys, NoFaults,                                       \* HotKey, evicting
  Readers,                                                         \* GenericTTL
  MaxFaults

VARIABLES
  runs,
  kind, source, redis, local, inbox, call, version, faults,
  writeThrough, tl1, tl2, tcall, late, truth, raced, tfaults,
  db, l1, l2, agent, written, mfaults,
  hsource, hredis, localCache, accessOrder, stopped, hagent, changes, hfaults,
  esource, eredis, elocal, eorder, estopped, eagent, echanges, efaults,
  grow, gm, ginbox, gcall, graced, gfaults,
  index, cached, icall, ilate, missed, ifaults

K == INSTANCE KVCache
T == INSTANCE TwoLevel WITH l1 <- tl1, l2 <- tl2, call <- tcall, faults <- tfaults
M == INSTANCE MultiLevel WITH faults <- mfaults
H == INSTANCE HotKey WITH Keys <- FewKeys, Values <- Rows,
       source <- hsource, redis <- hredis, agent <- hagent, faults <- hfaults
E == INSTANCE HotKey WITH Nodes <- Alone, Called <- Alone, Keys <- ManyKeys, Values <- Rows,
       MaxFaults <- NoFaults,
       source <- esource, redis <- eredis, localCache <- elocal, accessOrder <- eorder,
       stopped <- estopped, agent <- eagent, changes <- echanges, faults <- efaults
G == INSTANCE GenericTTL WITH Callers <- Readers, row <- grow, m <- gm, inbox <- ginbox,
       call <- gcall, raced <- graced, faults <- gfaults
I == INSTANCE CacheIndex WITH Keys <- ManyKeys, call <- icall, late <- ilate, faults <- ifaults

kvars == <<kind, source, redis, local, inbox, call, version, faults>>
tvars == <<writeThrough, tl1, tl2, tcall, late, truth, raced, tfaults>>
mvars == <<db, l1, l2, agent, written, mfaults>>
hvars == <<hsource, hredis, localCache, accessOrder, stopped, hagent, changes, hfaults>>
evars == <<esource, eredis, elocal, eorder, estopped, eagent, echanges, efaults>>
gvars == <<grow, gm, ginbox, gcall, graced, gfaults>>
ivars == <<index, cached, icall, ilate, missed, ifaults>>
vars == <<runs, kvars, tvars, mvars, hvars, evars, gvars, ivars>>

(* What does not run begins in one way only. *)
Init ==
  /\ runs \in {"kv", "twolevel", "multilevel", "hotkey", "evicting", "generic", "index"}
  /\ K!Init /\ (runs # "kv" => kind = (CHOOSE k \in Kinds : TRUE))
  /\ T!Init /\ (runs # "twolevel" => writeThrough)
  /\ M!Init /\ H!Init /\ E!Init /\ G!Init /\ I!Init

KV(step) == runs = "kv" /\ step /\ UNCHANGED <<runs, tvars, mvars, hvars, evars, gvars, ivars>>
TwoLevel(step) ==
  runs = "twolevel" /\ step /\ UNCHANGED <<runs, kvars, mvars, hvars, evars, gvars, ivars>>
MultiLevel(step) ==
  runs = "multilevel" /\ step /\ UNCHANGED <<runs, kvars, tvars, hvars, evars, gvars, ivars>>
HotKey(step) ==
  runs = "hotkey" /\ step /\ UNCHANGED <<runs, kvars, tvars, mvars, evars, gvars, ivars>>
Evicting(step) ==
  runs = "evicting" /\ step /\ UNCHANGED <<runs, kvars, tvars, mvars, hvars, gvars, ivars>>
Generic(step) ==
  runs = "generic" /\ step /\ UNCHANGED <<runs, kvars, tvars, mvars, hvars, evars, ivars>>
Index(step) ==
  runs = "index" /\ step /\ UNCHANGED <<runs, kvars, tvars, mvars, hvars, evars, gvars>>
Next ==
  KV(K!Next) \/ TwoLevel(T!Next) \/ MultiLevel(M!Next) \/ HotKey(H!Next) \/ Evicting(E!Next)
  \/ Generic(G!Next) \/ Index(I!Next)
Spec == Init /\ [][Next]_vars

(* The fairness of the six: goroutines that refresh, and TTLs. *)
FairSpec ==
  /\ Spec
  /\ \A p \in K!Refreshers : WF_vars(KV(K!Step(p))) /\ WF_vars(KV(K!RefreshCall(p, "refresh")))
  /\ WF_vars(MultiLevel(M!Expire1)) /\ WF_vars(MultiLevel(M!Expire2))
  /\ \A n \in Nodes : /\ WF_vars(HotKey(H!Step(<<n, "refresh">>)))
                      /\ WF_vars(HotKey(H!BeginRefresh(<<n, "refresh">>)))
                      /\ WF_vars(Generic(G!Lapse(n)))
  /\ \A n \in Alone : /\ WF_vars(Evicting(E!Step(<<n, "refresh">>)))
                      /\ WF_vars(Evicting(E!BeginRefresh(<<n, "refresh">>)))

-----------------------------------------------------------------------------
(* The properties of the six: see KVCache, TwoLevel, MultiLevel, HotKey, GenericTTL and
   CacheIndex. *)
GetFindsRow == K!GetFindsRow
QuietLevelsAgree == T!QuietLevelsAgree /\ G!QuietCopiesFresh /\ I!CachedIsIndexed
KeysEvictable == H!KeysEvictable /\ E!KeysEvictable
Heals == K!RefreshHeals /\ M!StaleExpires /\ H!RefreshHeals /\ E!RefreshHeals /\ G!StaleExpires
=============================================================================
