---------------------------- MODULE CacheWrapper ----------------------------
(***************************************************************************)
(* wrapper.go: the function CacheWrapper returns, and updateCache.         *)
(*                                                                         *)
(* One cache key in Redis in front of one row of a database.  Values are   *)
(* versions of the row; encoding and compression give back what went in.   *)
(* Every call makes a DistributedLock of its own, which is taken at its    *)
(* word (module DistributedLock says when that is right); with LeaseLost   *)
(* it may slip from its holder.                                            *)
(***************************************************************************)
EXTENDS Naturals, FiniteSets

CONSTANTS
  Procs,         \* concurrent callers
  UseLock,       \* WithDistributedLock
  LockTimeouts,  \* Lock may fail, when its context ends or Redis does
  LeaseLost,     \* the lock may expire under its holder
  AsyncUpdates,  \* callers may use WithAsyncUpdate
  Refreshes,     \* callers may use WithForceRefresh
  Penetration,   \* WithCachePenetration: a missing row is cached as a default
  LoadsFail,     \* cacheFunc may fail
  RedisFails,    \* a DEL, a SET (retries included) and Unlock's script may fail
  MaxVersion,    \* bound: versions of the row
  MaxCalls       \* bound: calls of a caller

VARIABLES
  row,      \* the version in the database
  cache,    \* the version at the key, or Missing
  holder,   \* who holds the lock, Nobody, or Gone: the key has the token of a call that is over
  call,     \* [Procs -> where its call is, the value it has loaded, its options
            \* ForceRefresh and UseAsync, whether Lock has succeeded]
  updates,  \* background updateCache runs: where each is, its value and the
            \* call it comes from
  delayed,  \* second deletions to come, likewise
  lapsed,   \* a lease has been lost (history)
  calls     \* [Procs -> calls begun]

vars == <<row, cache, holder, call, updates, delayed, lapsed, calls>>

Missing == 0
Default == MaxVersion + 1   \* the default value of WithCachePenetration
Nobody == "nobody"
Gone == "gone"
Idle == [pc |-> "idle", value |-> Missing, forced |-> FALSE, async |-> FALSE,
         locked |-> FALSE]
Init ==
  /\ row = 1 /\ cache = Missing /\ holder = Nobody
  /\ call = [p \in Procs |-> Idle]
  /\ updates = {} /\ delayed = {} /\ lapsed = FALSE
  /\ calls = [p \in Procs |-> 0]

At(p, l) == call[p].pc = l
Goto(p, l) == call' = [call EXCEPT ![p].pc = l]

(* Leaving the function: the deferred Unlock runs when the lock was taken. *)
Leave(p) == IF call[p].locked THEN Goto(p, "unlock")
                              ELSE call' = [call EXCEPT ![p] = Idle]

-----------------------------------------------------------------------------
Begin(p) ==
  /\ At(p, "idle") /\ calls[p] < MaxCalls
  /\ calls' = [calls EXCEPT ![p] = @ + 1]
  /\ \E forced, async \in BOOLEAN :
       /\ (forced => Refreshes) /\ (async => AsyncUpdates)
       /\ call' = [call EXCEPT ![p].pc = IF forced THEN "refresh" ELSE "get",
                               ![p].forced = forced, ![p].async = async]
  /\ UNCHANGED <<row, cache, holder, updates, delayed, lapsed>>

Miss(p) == Goto(p, IF UseLock THEN "lock" ELSE "load")

(* GET: a hit returns; an error other than Nil returns too, and changes nothing. *)
Get(p) ==
  /\ At(p, "get")
  /\ IF cache # Missing THEN call' = [call EXCEPT ![p] = Idle] ELSE Miss(p)
  /\ UNCHANGED <<row, cache, holder, updates, delayed, lapsed, calls>>

(* DEL, whose error nobody looks at. *)
Delete == cache' = Missing \/ (RedisFails /\ UNCHANGED cache)

(* WithForceRefresh: DEL, and straight on to loading. *)
Refresh(p) ==
  /\ At(p, "refresh")
  /\ Delete
  /\ Miss(p)
  /\ UNCHANGED <<row, holder, updates, delayed, lapsed, calls>>

(* lock.Lock: taken, or it fails; its SETNX may have set the key even so. *)
Lock(p) ==
  /\ At(p, "lock")
  /\ \/ /\ holder = Nobody
        /\ holder' = p
        /\ call' = [call EXCEPT ![p].pc = "check", ![p].locked = TRUE]
     \/ LockTimeouts /\ Goto(p, "poll") /\ UNCHANGED holder
     \/ RedisFails /\ holder = Nobody /\ holder' = Gone /\ Goto(p, "poll")
  /\ UNCHANGED <<row, cache, updates, delayed, lapsed, calls>>

(* The double check under the lock. *)
Check(p) ==
  /\ At(p, "check")
  /\ IF cache # Missing THEN Goto(p, "unlock") ELSE Goto(p, "load")
  /\ UNCHANGED <<row, cache, holder, updates, delayed, lapsed, calls>>

(* Without the lock: up to five looks at the cache, then the database. *)
PollCache(p) ==
  /\ At(p, "poll")
  /\ IF cache # Missing THEN call' = [call EXCEPT ![p] = Idle] ELSE Goto(p, "load")
  /\ UNCHANGED <<row, cache, holder, updates, delayed, lapsed, calls>>

(* With WithAsyncUpdate the update goes on in the background. *)
Store(p, v) ==
  IF call[p].async
  THEN updates' = updates \cup {[pc |-> "del", value |-> v, of |-> <<p, calls[p]>>]} /\ Leave(p)
  ELSE call' = [call EXCEPT ![p].pc = "del", ![p].value = v] /\ UNCHANGED updates

(* cacheFunc: the row as it is, an error, or nothing. *)
Load(p) ==
  /\ At(p, "load")
  /\ \/ Store(p, row)
     \/ LoadsFail /\ Leave(p) /\ UNCHANGED updates
     \/ Penetration /\ Goto(p, "reget") /\ UNCHANGED updates
  /\ UNCHANGED <<row, cache, holder, delayed, lapsed, calls>>

(* The recursive CacheWrapper that caches the default value has the options of the
   outer one but for the lock: it looks in the cache first, or deletes the key. *)
Reget(p) ==
  /\ At(p, "reget")
  /\ \/ call[p].forced /\ Delete /\ Store(p, Default)
     \/ ~call[p].forced /\ cache = Missing /\ Store(p, Default) /\ UNCHANGED cache
     \/ ~call[p].forced /\ cache # Missing /\ Leave(p) /\ UNCHANGED <<cache, updates>>
  /\ UNCHANGED <<row, holder, delayed, lapsed, calls>>

(* updateCache: DEL, then SET; when that succeeds the second deletion follows. *)
SetCache(v, of) ==
  \/ /\ cache' = v
     /\ delayed' = delayed \cup {[pc |-> "del", value |-> v, of |-> of]}
  \/ RedisFails /\ UNCHANGED <<cache, delayed>>

UpdateDel(p) ==
  /\ At(p, "del")
  /\ Delete
  /\ Goto(p, "set")
  /\ UNCHANGED <<row, holder, updates, delayed, lapsed, calls>>

UpdateSet(p) ==
  /\ At(p, "set")
  /\ SetCache(call[p].value, <<p, calls[p]>>)
  /\ Leave(p)
  /\ UNCHANGED <<row, holder, updates, lapsed, calls>>

AsyncDel(u) ==
  /\ u.pc = "del"
  /\ Delete
  /\ updates' = (updates \ {u}) \cup {[u EXCEPT !.pc = "set"]}
  /\ UNCHANGED <<row, holder, call, delayed, lapsed, calls>>

AsyncSet(u) ==
  /\ u.pc = "set"
  /\ SetCache(u.value, u.of)
  /\ updates' = updates \ {u}
  /\ UNCHANGED <<row, holder, call, lapsed, calls>>

(* The goroutine that sleeps 100 ms: DEL, then SET of the data it was given. *)
DelayedDel(d) ==
  /\ d.pc = "del"
  /\ Delete
  /\ delayed' = (delayed \ {d}) \cup {[d EXCEPT !.pc = "set"]}
  /\ UNCHANGED <<row, holder, call, updates, lapsed, calls>>

DelayedSet(d) ==
  /\ d.pc = "set"
  /\ cache' = d.value \/ (RedisFails /\ UNCHANGED cache)
  /\ delayed' = delayed \ {d}
  /\ UNCHANGED <<row, holder, call, updates, lapsed, calls>>

(* With the caller's context, which may have ended: then, and when Redis fails, the key
   stays as it is and nobody is told. *)
Unlock(p) ==
  /\ At(p, "unlock")
  /\ \/ holder' = IF holder = p THEN Nobody ELSE holder
     \/ RedisFails /\ holder' = IF holder = p THEN Gone ELSE holder
  /\ call' = [call EXCEPT ![p] = Idle]
  /\ UNCHANGED <<row, cache, updates, delayed, lapsed, calls>>

(* The lock's TTL runs out under its holder, or when its call is over. *)
LoseLease ==
  /\ LeaseLost /\ holder \notin {Nobody, Gone}
  /\ holder' = Nobody
  /\ lapsed' = TRUE
  /\ UNCHANGED <<row, cache, call, updates, delayed, calls>>
ExpireGone ==
  /\ holder = Gone
  /\ holder' = Nobody
  /\ UNCHANGED <<row, cache, call, updates, delayed, lapsed, calls>>

(* The application changes the row; the cached copy is left to refreshes. *)
WriteRow ==
  /\ row < MaxVersion
  /\ row' = row + 1
  /\ UNCHANGED <<cache, holder, call, updates, delayed, lapsed, calls>>

(* The key's TTL. *)
Expire ==
  /\ cache # Missing
  /\ cache' = Missing
  /\ UNCHANGED <<row, holder, call, updates, delayed, lapsed, calls>>

-----------------------------------------------------------------------------
Step(p) == Get(p) \/ Refresh(p) \/ Lock(p) \/ Check(p) \/ PollCache(p) \/ Load(p)
             \/ Reget(p) \/ UpdateDel(p) \/ UpdateSet(p) \/ Unlock(p)
Background ==
  \/ \E u \in updates : AsyncDel(u) \/ AsyncSet(u)
  \/ \E d \in delayed : DelayedDel(d) \/ DelayedSet(d)

Next ==
  \/ \E p \in Procs : Begin(p) \/ Step(p)
  \/ Background \/ LoseLease \/ ExpireGone \/ WriteRow \/ Expire

(* Callers and background goroutines run, and keys with a TTL expire; the lock context has
   a deadline, so a caller waiting for the lock can always go on. *)
Spec ==
  /\ Init /\ [][Next]_vars
  /\ \A p \in Procs : WF_vars(Step(p))
  /\ WF_vars(Background) /\ WF_vars(ExpireGone)

-----------------------------------------------------------------------------
Loading(p) == call[p].pc \in {"load", "reget", "del", "set"}

(* As long as no lease has been lost, one of the callers whose Lock succeeded is
   between looking at the database and having stored what it found: a key that
   many find missing is loaded by one of them, whatever errors, refreshes, default
   values and callers without the lock come in between. *)
OneLoad ==
  \A p, q \in Procs :
    ~lapsed /\ call[p].locked /\ Loading(p) /\ call[q].locked /\ Loading(q) => p = q

LeftBehind(p) == holder = p /\ (call[p].locked => At(p, "idle"))

(* Every path out of the function with the lock leads through Unlock, lost leases or not,
   and when Unlock or Lock has failed in Redis the TTL frees what it left there. *)
LockGivenBack == [](\A p \in Procs : ~LeftBehind(p)) /\ []<>(holder = Nobody)

(* Every call returns, also when the lock is never free in time. *)
CallsReturn == []<>(\A p \in Procs : At(p, "idle"))
=============================================================================
