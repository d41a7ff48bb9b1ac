------------------------------ MODULE LoadOnce ------------------------------
(***************************************************************************)
(* The other ways to compute a missing value once, for one key:            *)
(*   "local"     LRUOptimizedHandler.GetOrComputeWithCtx (lru_optimized.go)*)
(*   "redis"     RedisHandler.GetOrComputeWithCtx (redis.go)               *)
(*   "smart"     SmartCache.Get and GetOrSet, doCall (cache_builder.go)    *)
(*   "advanced"  AdvancedCache.GetOrSet (advanced_cache.go)                *)
(* The first three merge the calls of one instance in loadGroup; all but   *)
(* the first, and SmartCache with EnableLock only, take a lock in Redis.   *)
(* A read of Redis that fails counts as a miss.                            *)
(***************************************************************************)
EXTENDS Naturals, FiniteSets

CONSTANTS
  Procs,
  Instance,    \* [Procs -> the handler or cache it calls]
  MaxCalls,    \* bound: calls of a caller
  MaxMishaps   \* bound: loaders, Redis commands and contexts that fail, values removed

VARIABLES
  flavour,
  useLock,     \* EnableLock, for SmartCache
  cached,      \* the value is there
  loadGroup,   \* [instances -> the load in the map, if any]
  lock,        \* whose token the key in Redis has: that of the call that set it, or Nobody
  token,       \* [instances -> the token its lock object, or call, believes to have, or Nobody]
  shared,      \* history: instances whose object has said yes to a call beside another, until
               \* no call of theirs has the lock
  call,        \* [Procs -> where its call is]
  lapsed,      \* history: the key has expired under its holder, was set and not acknowledged,
               \* or Unlock or a look at it has failed
  calls, mishaps

conf == <<flavour, useLock>>
locks == <<lock, token, shared, lapsed>>
vars == <<conf, cached, loadGroup, locks, call, calls, mishaps>>

Nobody == "nobody"
Instances == {Instance[p] : p \in Procs}
NoLoad == [leader |-> Nobody, result |-> "none"]
Idle == [at |-> "idle", leader |-> Nobody, result |-> "none", locked |-> FALSE]

Init ==
  /\ flavour \in {"local", "redis", "smart", "advanced"}
  /\ useLock \in BOOLEAN /\ (flavour # "smart" => useLock = (flavour # "local"))
  /\ cached = FALSE /\ loadGroup = [i \in Instances |-> NoLoad]
  /\ lock = Nobody /\ token = [i \in Instances |-> Nobody] /\ shared = {}
  /\ call = [p \in Procs |-> Idle]
  /\ lapsed = FALSE /\ calls = [p \in Procs |-> 0] /\ mishaps = 0

At(p, l) == call[p].at = l
Goto(p, l) == call' = [call EXCEPT ![p].at = l]
Mishap == mishaps < MaxMishaps /\ mishaps' = mishaps + 1
Hit == cached /\ UNCHANGED mishaps
Miss == (~cached /\ UNCHANGED mishaps) \/ (cached /\ flavour # "local" /\ Mishap)

(* The value, an error, or, when the loader panics, neither: the deferred functions
   unlock and then complete the load. *)
Finish(p, r) ==
  call' = [call EXCEPT ![p].result = r, ![p].at = IF call[p].locked THEN "unlock" ELSE "done"]

Begin(p) ==
  /\ At(p, "idle") /\ calls[p] < MaxCalls
  /\ calls' = [calls EXCEPT ![p] = @ + 1]
  /\ Goto(p, "get")
  /\ UNCHANGED <<conf, cached, loadGroup, locks, mishaps>>

(* The first look.  A SmartCache returns an error of Redis. *)
Get(p) ==
  /\ At(p, "get")
  /\ \/ Hit /\ call' = [call EXCEPT ![p] = Idle]
     \/ Miss /\ (flavour = "smart" => ~cached) /\ Goto(p, IF flavour = "advanced" THEN "lock" ELSE "join")
     \/ flavour = "smart" /\ Mishap /\ call' = [call EXCEPT ![p] = Idle]
  /\ UNCHANGED <<conf, cached, loadGroup, locks, calls>>

(* Load and LoadOrStore: wait for the load in the map, one that is over included, or be
   its leader. *)
JoinRunning(p) ==   \* mutated: a finished load is replaced, a running one is too
  /\ At(p, "join")
  /\ loadGroup' = [loadGroup EXCEPT ![Instance[p]] = [leader |-> p, result |-> "none"]]
  /\ Goto(p, "get2")
  /\ UNCHANGED <<conf, cached, locks, calls, mishaps>>

WaitFor(q) == [at |-> "wait", leader |-> q, result |-> "none", locked |-> FALSE]
Join(p) ==
  LET load == loadGroup[Instance[p]] IN
  /\ At(p, "join")
  /\ IF load = NoLoad
     THEN /\ loadGroup' = [loadGroup EXCEPT ![Instance[p]] = [leader |-> p, result |-> "none"]]
          /\ Goto(p, "get2")
     ELSE /\ call' = [call EXCEPT ![p] = IF load.result # "none" THEN Idle ELSE WaitFor(load.leader)]
          /\ UNCHANGED loadGroup
  /\ UNCHANGED <<conf, cached, locks, calls, mishaps>>

(* The double check of the leader; the local handler looks at its context too, and a
   SmartCache that uses the lock gives up on an error of Redis. *)
Get2(p) ==
  /\ At(p, "get2")
  /\ \/ Hit /\ Finish(p, "value")
     \/ Miss /\ Goto(p, IF useLock THEN "lock" ELSE "load")
     \/ (flavour = "local" \/ (flavour = "smart" /\ useLock)) /\ Mishap /\ Finish(p, "error")
  /\ UNCHANGED <<conf, cached, loadGroup, locks, calls>>

(* SETNX, of a value of the call's own in a RedisHandler and of a fresh token of the
   instance's DistributedLock (LockManager.GetLock) in the others. *)
Locked(p) == call' = [call EXCEPT ![p].at = "get3", ![p].locked = TRUE]
SetNX(p) ==
  /\ lock = Nobody /\ lock' = p
  /\ token' = [token EXCEPT ![Instance[p]] = p]
  /\ Locked(p)
  /\ UNCHANGED <<shared, lapsed, mishaps>>

(* TryLock of an object that has the lock, and Redis agrees, says yes to whoever asks. *)
Share(p) ==
  /\ flavour # "redis" /\ token[Instance[p]] = lock /\ lock # Nobody
  /\ shared' = shared \cup {Instance[p]}
  /\ Locked(p)
  /\ UNCHANGED <<lock, token, lapsed, mishaps>>

(* An object whose look at the key fails forgets its token, and tries SETNX. *)
ForgetToken(p) ==
  /\ token[Instance[p]] # Nobody
  /\ token' = [token EXCEPT ![Instance[p]] = Nobody]
  /\ lapsed' = TRUE
  /\ UNCHANGED <<lock, shared>>

(* A command fails, or the context ends; a SETNX may have been executed. *)
LockFails(p) ==
  /\ Mishap
  /\ \/ UNCHANGED locks
     \/ flavour # "redis" /\ ForgetToken(p)
     \/ lock = Nobody /\ lock' = p /\ lapsed' = TRUE /\ UNCHANGED <<token, shared>>

(* A RedisHandler without the lock backs off.  DistributedLock.Lock tries again until it
   fails, and then SmartCache and AdvancedCache load all the same. *)
Lock(p) ==
  /\ At(p, "lock")
  /\ \/ SetNX(p) \/ Share(p)
     \/ flavour = "redis" /\ lock # Nobody /\ Goto(p, "backoff") /\ UNCHANGED <<locks, mishaps>>
     \/ LockFails(p) /\ Goto(p, IF flavour = "redis" THEN "backoff" ELSE "load")
     \/ flavour # "redis" /\ Mishap /\ ForgetToken(p) /\ UNCHANGED call
  /\ UNCHANGED <<conf, cached, loadGroup, calls>>

(* The third look, with the lock. *)
Get3(p) ==
  /\ At(p, "get3")
  /\ \/ Hit /\ Finish(p, "value")
     \/ Miss /\ Goto(p, "load")
  /\ UNCHANGED <<conf, cached, loadGroup, locks, calls>>

(* Ten looks at the value, until the lock is gone (or EXISTS fails), the context ends or
   they are used up; then SETNX once more and, without the lock, a last look. *)
Backoff(p) ==
  /\ At(p, "backoff")
  /\ \/ Hit /\ Finish(p, "value")
     \/ ~cached /\ Goto(p, "again") /\ UNCHANGED mishaps
     \/ Mishap /\ Finish(p, "error")
  /\ UNCHANGED <<conf, cached, loadGroup, locks, calls>>

LockAgain(p) ==
  /\ At(p, "again")
  /\ \/ SetNX(p)
     \/ /\ (lock # Nobody /\ UNCHANGED <<locks, mishaps>>) \/ LockFails(p)
        /\ Finish(p, IF cached THEN "value" ELSE "error")
  /\ UNCHANGED <<conf, cached, loadGroup, calls>>

LoadLosesLock(p) ==   \* mutated: an error path without the deferred unlock
  /\ At(p, "load")
  /\ \/ Goto(p, "set") /\ UNCHANGED mishaps
     \/ Mishap /\ call' = [call EXCEPT ![p].result = "error", ![p].at = "done"]
  /\ UNCHANGED <<conf, cached, loadGroup, locks, calls>>

(* The loader returns, fails or panics; AdvancedCache returns what it loaded without the
   lock as it is. *)
Load(p) ==
  /\ At(p, "load")
  /\ \/ /\ IF flavour = "advanced" /\ ~call[p].locked THEN Finish(p, "value") ELSE Goto(p, "set")
        /\ UNCHANGED mishaps
     \/ Mishap /\ \E r \in {"error", "empty"} : Finish(p, r)
  /\ UNCHANGED <<conf, cached, loadGroup, locks, calls>>

(* The value is stored, or it is not and nobody is told. *)
Store(p) ==
  /\ At(p, "set")
  /\ \/ cached' = TRUE /\ UNCHANGED mishaps
     \/ Mishap /\ UNCHANGED cached
  /\ Finish(p, "value")
  /\ UNCHANGED <<conf, loadGroup, locks, calls>>

(* The script that deletes the key while it has the token; that it fails, as it does when
   the context has ended, is ignored, and the object lets go all the same.  One that has
   let go does nothing. *)
Unlock(p) ==
  LET i == Instance[p] IN
  /\ At(p, "unlock")
  /\ \/ /\ lock' = IF lock = token[i] THEN Nobody ELSE lock
        /\ UNCHANGED <<lapsed, mishaps>>
     \/ Mishap /\ lapsed' = TRUE /\ UNCHANGED lock
  /\ token' = [token EXCEPT ![i] = Nobody]
  /\ shared' = {j \in shared : \E q \in Procs : q # p /\ Instance[q] = j /\ call[q].locked}
  /\ call' = [call EXCEPT ![p].at = "done", ![p].locked = FALSE]
  /\ UNCHANGED <<conf, cached, loadGroup, calls>>

DoneButEmpty(p) ==   \* mutated: wg.Done is skipped when the loader has panicked
  LET i == Instance[p] IN
  /\ At(p, "done")
  /\ loadGroup' = IF loadGroup[i].leader = p THEN [loadGroup EXCEPT ![i].result = call[p].result]
                                             ELSE loadGroup
  /\ call' = [q \in Procs |-> IF q = p \/ (At(q, "wait") /\ call[q].leader = p /\ call[p].result # "empty")
                              THEN Idle ELSE call[q]]
  /\ UNCHANGED <<conf, cached, locks, calls, mishaps>>

(* wg.Done: whoever waits has the result; the load stays in the map for 10 ms. *)
Done(p) ==
  LET i == Instance[p] IN
  /\ At(p, "done")
  /\ loadGroup' = IF loadGroup[i].leader = p THEN [loadGroup EXCEPT ![i].result = call[p].result]
                                             ELSE loadGroup
  /\ call' = [q \in Procs |-> IF q = p \/ (At(q, "wait") /\ call[q].leader = p) THEN Idle ELSE call[q]]
  /\ UNCHANGED <<conf, cached, locks, calls, mishaps>>

(* time.AfterFunc: the entry of the map goes. *)
Forget(i) ==
  /\ loadGroup[i].result # "none"
  /\ loadGroup' = [loadGroup EXCEPT ![i] = NoLoad]
  /\ UNCHANGED <<conf, cached, locks, call, calls, mishaps>>

(* The value expires or is deleted; the lock's TTL runs out, under the call that set it or
   when that is over.  The object finds out when it next looks at the key. *)
Remove ==
  /\ cached /\ cached' = FALSE /\ Mishap
  /\ UNCHANGED <<conf, loadGroup, locks, call, calls>>
ExpireLock ==
  /\ lock # Nobody /\ call[lock].locked /\ Mishap
  /\ lock' = Nobody /\ lapsed' = TRUE
  /\ UNCHANGED <<conf, cached, loadGroup, token, shared, call, calls>>
ExpireLeft ==
  /\ lock # Nobody /\ ~call[lock].locked
  /\ lock' = Nobody
  /\ UNCHANGED <<conf, cached, loadGroup, token, shared, lapsed, call, calls, mishaps>>

Step(p) == Get(p) \/ Join(p) \/ Get2(p) \/ Lock(p) \/ Get3(p) \/ Backoff(p) \/ LockAgain(p)
           \/ Load(p) \/ Store(p) \/ Unlock(p) \/ Done(p)
Next ==
  \/ \E p \in Procs : Begin(p) \/ Step(p)
  \/ \E i \in Instances : Forget(i)
  \/ Remove \/ ExpireLock \/ ExpireLeft

(* Goroutines run, and a lock that nobody holds any more expires. *)
Spec == Init /\ [][Next]_vars /\ WF_vars(ExpireLeft) /\ \A p \in Procs : WF_vars(Step(p))

-----------------------------------------------------------------------------
(* Two callers of one instance never load at the same time where loadGroup merges them,
   and of the callers whose Lock said yes one loads, but where an AdvancedCache has said yes
   to several of its own: they load side by side, and the first to end opens the lock for
   other instances. *)
Loading(p) == call[p].at \in {"load", "set"}
OneLoader ==
  \A p, q \in Procs : Loading(p) /\ Loading(q) /\ p # q =>
    /\ flavour # "advanced" => Instance[p] # Instance[q]
    /\ ~lapsed /\ call[p].locked /\ call[q].locked =>
         flavour = "advanced" /\ {Instance[p], Instance[q]} \cap shared # {}

LeftBehind(p) == lock = p /\ ~lapsed /\ (call[p].locked => At(p, "done"))

(* The lock is given back whatever the loader does: a call that is over has left its token
   in the key only if a command failed (lapsed), and then the TTL frees it. *)
LockGivenBack == [](\A p \in Procs : ~LeftBehind(p)) /\ []<>(lock = Nobody)

(* Everybody returns, those who wait for a load that fails or panics too. *)
CallsReturn == []<>(\A p \in Procs : At(p, "idle"))
=============================================================================
