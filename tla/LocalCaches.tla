----------------------------- MODULE LocalCaches -----------------------------
(***************************************************************************)
(* The three in-memory handlers and the object pool.  They share nothing,  *)
(* so one of them runs, and the others stay as they begin.                 *)
(***************************************************************************)
EXTENDS Naturals, FiniteSets

CONSTANTS
  Procs,
  Keys, Capacity,                                        \* LRUCache
  Shards,                                                \* ClockCache, Capacity each
  FewKeys, SampleSize, MaxRounds, ContinueRatio,         \* ExpiringCache
  Capacities, ColdStarts, MaxFails                       \* ObjectPool

VARIABLES
  kind,
  lLife, lClosed, lCall, order, since,
  cLife, cClosed, cCall, ring, size, bit, used,
  eLife, eClosed, eCall, stop, tick, sweeper,
  capacity, cold, pool, fill, task, stopped, fails

L == INSTANCE LRUCache WITH MaxEntries <- Capacity,
       Lives <- {"kept", "ttl", "expired"},
       life <- lLife, closed <- lClosed, call <- lCall
C == INSTANCE ClockCache WITH Room <- Capacity, Lives <- {"ttl", "expired"},
       life <- cLife, closed <- cClosed, call <- cCall
E == INSTANCE ExpiringCache WITH Keys <- FewKeys, Lives <- {"kept", "ttl", "expired"},
       life <- eLife, closed <- eClosed, call <- eCall
P == INSTANCE ObjectPool WITH Capacity <- capacity, ColdStartCount <- cold

lvars == <<lLife, lClosed, lCall, order, since>>
cvars == <<cLife, cClosed, cCall, ring, size, bit, used>>
evars == <<eLife, eClosed, eCall, stop, tick, sweeper>>
pvars == <<capacity, cold, pool, fill, task, stopped, fails>>
vars == <<kind, lvars, cvars, evars, pvars>>

Init ==
  /\ kind \in {"lru", "clock", "expiring", "pool"}
  /\ L!Init /\ C!Init /\ E!Init
  /\ P!Init /\ (kind # "pool" => capacity = 1 /\ cold = 0)

Expiring(step) == kind = "expiring" /\ step /\ UNCHANGED <<kind, lvars, cvars, pvars>>
Pool(step) == kind = "pool" /\ step /\ UNCHANGED <<kind, lvars, cvars, evars>>
Next ==
  \/ kind = "lru" /\ L!Next /\ UNCHANGED <<kind, cvars, evars, pvars>>
  \/ kind = "clock" /\ C!Next /\ UNCHANGED <<kind, lvars, evars, pvars>>
  \/ Expiring(E!Next)
  \/ Pool(P!Next)

Spec == Init /\ [][Next]_vars

(* Goroutines run and the ticker ticks: see ExpiringCache and ObjectPool. *)
FairSpec ==
  /\ Spec
  /\ WF_vars(Expiring(E!Tick)) /\ WF_vars(Expiring(E!Wake \/ E!Sweep))
  /\ \A p \in Procs : WF_vars(Expiring(E!Step(p)))
  /\ WF_vars(Pool(P!Refill)) /\ \A f \in P!Fillers : WF_vars(Pool(P!Fill(f)))

-----------------------------------------------------------------------------
(* The properties of the four: see LRUCache, ClockCache, ExpiringCache and ObjectPool. *)
KeepsEntries == L!KeepsEntries /\ C!KeepsEntries /\ E!KeepsEntries
ListsMatch == L!ListMatches /\ C!RingMatches
EvictsByUse == L!EvictsLeastRecent /\ C!UsedSurvives
Ends == E!CloseReturns /\ E!ExpiredGoes /\ P!Refills
=============================================================================
