-------------------------- MODULE DistributedLock --------------------------
(***************************************************************************)
(* distributed_lock.go: the Redis lock with owner token, TTL and watchdog. *)
(*                                                                         *)
(* One Redis key is contended for by the DistributedLock objects in Locks. *)
(* The goroutines in Procs call the object LockOf[p]; two goroutines share *)
(* an object exactly when a LockManager handed them the same pointer.      *)
(*                                                                         *)
(* Every method of an object runs under l.mu.  A method that sends one     *)
(* Redis command is one action; TryLock sends two (GET, then SETNX), so it *)
(* is two actions and l.mu is held between them.  With RedisFaults a       *)
(* command may return an error, in which case Redis may or may not have    *)
(* executed it.                                                            *)
(*                                                                         *)
(* Time is counted in ticks.  With Prompt, no tick passes while a watchdog *)
(* has work it could do; without it, goroutines may be delayed at will.    *)
(***************************************************************************)
EXTENDS Integers

CONSTANTS
  Procs,         \* goroutines that use the lock
  Locks,         \* DistributedLock objects, all with the same key
  LockOf,        \* [Procs -> Locks], the object a goroutine calls
  Tokens,        \* idgen trace ids; also names the stop channel and the
                 \* watchdog goroutine of the acquisition made with it
  NoToken,       \* the empty token, a missing key, a nil channel
  NoLock,        \* no object
  TTL,           \* config.TTL, in ticks
  Interval,      \* config.WatchdogInterval, in ticks
  ExtendTTLs,    \* durations a caller passes to Extend
  EnableWatchdog,\* config.EnableWatchdog
  UseTimeout,    \* callers acquire with LockWithTimeout instead of Lock
  CallerCancels, \* a caller's context may be cancelled while it holds
  RedisFaults,   \* Redis commands may fail
  Crashes,       \* a process may die
  Prompt         \* goroutines are scheduled without delay

ASSUME ConstantsAssumption ==
  /\ LockOf \in [Procs -> Locks]
  /\ NoToken \notin Tokens
  /\ NoLock \notin Locks
  /\ TTL \in Nat \ {0}
  /\ Interval \in Nat \ {0}
  /\ ExtendTTLs \subseteq Nat
  /\ {EnableWatchdog, UseTimeout, CallerCancels, RedisFaults, Crashes, Prompt}
        \subseteq BOOLEAN

VARIABLES
  \* Redis (external)
  owner,      \* value of the lock key, NoToken when the key is missing
  ttl,        \* ticks until the key expires, 0 when it is missing
  \* DistributedLock
  acquired,   \* l.acquired
  token,      \* l.token
  stopChan,   \* l.stopChan
  signalled,  \* stop channels whose one-slot buffer holds a signal
  \* goroutines
  pc,         \* where a caller is
  wd          \* the watchdog goroutine of each acquisition: where it is, the
              \* object it watches, its snapshot of stopChan, the ticks until
              \* its ticker fires, whether its context has been cancelled

redisVars == <<owner, ttl>>
lockVars == <<acquired, token, stopChan, signalled>>
vars == <<owner, ttl, acquired, token, stopChan, signalled, pc, wd>>

PcStates == {"idle", "try", "setnx", "wait", "held"}
WdStates == {"none", "start", "select", "check", "extend"}
MaybeToken == Tokens \cup {NoToken}

WatchdogState == [pc : WdStates, lock : Locks \cup {NoLock}, snap : MaybeToken,
                  timer : Nat, cancelled : BOOLEAN]

(* A goroutine that has not been started or has returned. *)
Ended == [pc |-> "none", lock |-> NoLock, snap |-> NoToken, timer |-> 0,
          cancelled |-> FALSE]

TypeOK ==
  /\ owner \in MaybeToken
  /\ ttl \in Nat
  /\ acquired \in [Locks -> BOOLEAN]
  /\ token \in [Locks -> MaybeToken]
  /\ stopChan \in [Locks -> MaybeToken]
  /\ signalled \subseteq Tokens
  /\ pc \in [Procs -> PcStates]
  /\ wd \in [Tokens -> WatchdogState]

Init ==
  /\ owner = NoToken
  /\ ttl = 0
  /\ acquired = [o \in Locks |-> FALSE]
  /\ token = [o \in Locks |-> NoToken]
  /\ stopChan = [o \in Locks |-> NoToken]
  /\ signalled = {}
  /\ pc = [p \in Procs |-> "idle"]
  /\ wd = [t \in Tokens |-> Ended]

-----------------------------------------------------------------------------
(***************************************************************************)
(* Pieces of the handlers.                                                 *)
(***************************************************************************)

(* l.mu is free: no TryLock is between its two commands. *)
MuFree(o) == \A p \in Procs : LockOf[p] = o => pc[p] # "setnx"

(* A token that others may be using too, as if it were made from the key. *)
AnyToken(t) == \A o \in Locks : t # stopChan[o]

(* GenerateTraceID never repeats: the new token is one that nothing which can
   still act refers to (the key, a holder, a TryLock in flight, a watchdog). *)
FreshToken(t) ==
  /\ t # owner
  /\ \A o \in Locks : /\ t # stopChan[o]
                      /\ t = token[o] => ~acquired[o] /\ MuFree(o)
  /\ wd[t].pc = "none"
  /\ \A u \in Tokens : wd[u].snap # t

Goto(p, label) == pc' = [pc EXCEPT ![p] = label]

(* The condition of SETNX, and a SET without it. *)
Unconditional == TRUE
KeyAbsent == owner = NoToken

(* The comparison GET(key) = token of TryLock, IsLocked and the Lua scripts. *)
KeyPresent(o) == owner # NoToken
KeyMine(o) == owner = token[o]

(* stopWatchdogLocked: a non-blocking send on the buffered channel. *)
StopWatchdogLocked(o) ==
  /\ signalled' = IF stopChan[o] = NoToken THEN signalled
                                           ELSE signalled \cup {stopChan[o]}
  /\ stopChan' = [stopChan EXCEPT ![o] = NoToken]

(* What resetState does before a new token t is assigned (t is NoToken when
   none is: resetState on its own). *)
DropState(o, t) ==
  /\ acquired' = [acquired EXCEPT ![o] = FALSE]
  /\ token' = [token EXCEPT ![o] = t]
  /\ StopWatchdogLocked(o)

ResetState(o) == DropState(o, NoToken)

(* The Lua script of Unlock: compare and DEL. *)
UnlockScript(o) ==
  IF KeyMine(o) THEN owner' = NoToken /\ ttl' = 0 ELSE UNCHANGED redisVars

(* The Lua script of Extend: compare and PEXPIRE; PEXPIRE 0 deletes the key. *)
ExtendScript(o, d) ==
  /\ KeyMine(o)
  /\ ttl' = d
  /\ owner' = IF d = 0 THEN NoToken ELSE owner

-----------------------------------------------------------------------------
(***************************************************************************)
(* The callers.                                                            *)
(***************************************************************************)

(* Lock and LockWithTimeout enter the retry loop. *)
LockCall(p) ==
  /\ pc[p] = "idle"
  /\ Goto(p, "try")
  /\ UNCHANGED <<redisVars, lockVars, wd>>

(* TryLock trusting acquired without asking Redis. *)
TryLockGetTrusting(p) ==
  LET o == LockOf[p] IN
  /\ pc[p] = "try"
  /\ MuFree(o)
  /\ UNCHANGED <<redisVars, wd>>
  /\ \/ acquired[o] /\ Goto(p, "held") /\ UNCHANGED lockVars
     \/ /\ ~acquired[o]
        /\ \E t \in Tokens : FreshToken(t) /\ DropState(o, t)
        /\ Goto(p, "setnx")

(* TryLock up to the SETNX: if the object thinks it holds the lock, Redis has
   the last word; when it disagrees or fails, the local state is dropped.  The
   new token is assigned before SETNX is sent, whatever SETNX then answers. *)
TryLockGet(p) ==
  LET o == LockOf[p] IN
  /\ pc[p] = "try"
  /\ MuFree(o)
  /\ UNCHANGED <<redisVars, wd>>
  /\ \/ /\ acquired[o] /\ KeyMine(o)
        /\ Goto(p, "held")
        /\ UNCHANGED lockVars
     \/ \E t \in Tokens :
          /\ FreshToken(t)
          /\ Goto(p, "setnx")
          /\ \/ acquired[o] /\ (~KeyMine(o) \/ RedisFaults) /\ DropState(o, t)
             \/ /\ ~acquired[o]
                /\ token' = [token EXCEPT ![o] = t]
                /\ UNCHANGED <<acquired, stopChan, signalled>>

(* Starting the watchdog of acquisition t with the context of the caller, a
   context that LockWithTimeout cancels when it returns. *)
SpawnWatchdog(o, t) ==
  /\ stopChan' = [stopChan EXCEPT ![o] = t]
  /\ signalled' = signalled \ {t}
  /\ wd' = [wd EXCEPT ![t] = [pc |-> "start", lock |-> o, snap |-> NoToken,
                              timer |-> 0, cancelled |-> UseTimeout]]

(* TryLock from the SETNX on. *)
TryLockSetNX(p) ==
  LET o == LockOf[p]
      t == token[o] IN
  /\ pc[p] = "setnx"
  /\ UNCHANGED token
  /\ \/ /\ KeyAbsent
        /\ owner' = t /\ ttl' = TTL
        /\ acquired' = [acquired EXCEPT ![o] = TRUE]
        /\ IF EnableWatchdog THEN SpawnWatchdog(o, t)
                             ELSE UNCHANGED <<stopChan, signalled, wd>>
        /\ Goto(p, "held")
     \/ /\ ~KeyAbsent
        /\ Goto(p, "wait")
        /\ UNCHANGED <<redisVars, acquired, stopChan, signalled, wd>>
     \/ /\ RedisFaults
        /\ Goto(p, "idle")
        /\ \/ KeyAbsent /\ owner' = t /\ ttl' = TTL
           \/ UNCHANGED redisVars
        /\ UNCHANGED <<acquired, stopChan, signalled, wd>>

(* The select of Lock: the retry ticker, or the context is done. *)
LockRetry(p) ==
  /\ pc[p] = "wait"
  /\ Goto(p, "try")
  /\ UNCHANGED <<redisVars, lockVars, wd>>

LockGiveUp(p) ==
  /\ pc[p] = "wait"
  /\ Goto(p, "idle")
  /\ UNCHANGED <<redisVars, lockVars, wd>>

(* Unlock resets the local state whatever the script answered. *)
Unlock(p) ==
  LET o == LockOf[p] IN
  /\ pc[p] = "held"
  /\ MuFree(o)
  /\ Goto(p, "idle")
  /\ UNCHANGED wd
  /\ \/ ~acquired[o] /\ UNCHANGED <<redisVars, lockVars>>
     \/ acquired[o] /\ UnlockScript(o) /\ ResetState(o)
     \/ acquired[o] /\ RedisFaults /\ UNCHANGED redisVars /\ ResetState(o)

(* Extend: the outcomes that leave the object holding, and the others. *)
ExtendOk(o, d) ==
  /\ acquired[o]
  /\ ExtendScript(o, d)
  /\ UNCHANGED lockVars

ExtendFailed(o, d) ==
  \/ ~acquired[o] /\ UNCHANGED <<redisVars, lockVars>>
  \/ /\ acquired[o]
     /\ ResetState(o)
     /\ \/ (~KeyMine(o) \/ RedisFaults) /\ UNCHANGED redisVars
        \/ RedisFaults /\ ExtendScript(o, d)

(* IsLocked: confirmed, refuted, or an error that changes nothing. *)
IsLockedTrue(o) == acquired[o] /\ KeyMine(o) /\ UNCHANGED lockVars

IsLockedFalse(o) ==
  \/ ~acquired[o] /\ UNCHANGED lockVars
  \/ acquired[o] /\ ~KeyMine(o) /\ ResetState(o)

(* A caller that holds the lock may extend it or ask about it. *)
ExtendCall(p) ==
  /\ pc[p] = "held"
  /\ MuFree(LockOf[p])
  /\ \E d \in ExtendTTLs :
       ExtendOk(LockOf[p], d) \/ ExtendFailed(LockOf[p], d)
  /\ UNCHANGED <<pc, wd>>

IsLockedCall(p) ==
  /\ pc[p] = "held"
  /\ MuFree(LockOf[p])
  /\ IsLockedTrue(LockOf[p]) \/ IsLockedFalse(LockOf[p])
  /\ UNCHANGED <<redisVars, pc, wd>>

-----------------------------------------------------------------------------
(***************************************************************************)
(* The watchdog goroutine t.                                               *)
(***************************************************************************)
(* A ticker as slow as the TTL. *)
WholeTTL == TTL

(* Ticks to the next firing; not counted when delays are arbitrary. *)
Period == IF Prompt THEN Interval ELSE 0

WdGoto(t, label) == wd' = [wd EXCEPT ![t].pc = label]
WdExit(t) == wd' = [wd EXCEPT ![t] = Ended]

(* First statements: the snapshot is of whatever stopChan is by now. *)
WdStart(t) ==
  LET o == wd[t].lock IN
  /\ wd[t].pc = "start"
  /\ MuFree(o)
  /\ IF stopChan[o] = NoToken
       THEN WdExit(t)
       ELSE wd' = [wd EXCEPT ![t].pc = "select", ![t].snap = stopChan[o],
                             ![t].timer = Period]
  /\ UNCHANGED <<redisVars, lockVars, pc>>

(* The ticker has fired; a delayed goroutine may find a tick at any time. *)
TickerFired(t) == wd[t].pc = "select" /\ (Prompt => wd[t].timer = 0)

(* A tick that does not look whether the lock has been released. *)
WdTickUnchecked(t) ==
  /\ TickerFired(t)
  /\ MuFree(wd[t].lock)
  /\ wd' = [wd EXCEPT ![t].pc = IF acquired[wd[t].lock] THEN "check" ELSE "select",
                       ![t].timer = Period]
  /\ UNCHANGED <<redisVars, lockVars, pc>>

(* case <-ticker.C, first look at acquired. *)
WdTick(t) ==
  /\ TickerFired(t)
  /\ MuFree(wd[t].lock)
  /\ IF acquired[wd[t].lock]
       THEN wd' = [wd EXCEPT ![t].pc = "check", ![t].timer = Period]
       ELSE WdExit(t)
  /\ UNCHANGED <<redisVars, lockVars, pc>>

(* IsLocked; a transient error skips this round, a closed client ends it. *)
WdCheck(t) ==
  LET o == wd[t].lock IN
  /\ wd[t].pc = "check"
  /\ MuFree(o)
  /\ \/ IsLockedTrue(o) /\ WdGoto(t, "extend")
     \/ IsLockedFalse(o) /\ WdExit(t)
     \/ /\ RedisFaults /\ acquired[o]
        /\ WdGoto(t, "select") \/ WdExit(t)
        /\ UNCHANGED lockVars
  /\ UNCHANGED <<redisVars, pc>>

WdExtend(t) ==
  LET o == wd[t].lock IN
  /\ wd[t].pc = "extend"
  /\ MuFree(o)
  /\ \/ ExtendOk(o, TTL) /\ WdGoto(t, "select")
     \/ ExtendFailed(o, TTL) /\ WdExit(t)
  /\ UNCHANGED pc

(* case <-stopChan *)
WdStop(t) ==
  /\ wd[t].pc = "select"
  /\ wd[t].snap \in signalled
  /\ signalled' = signalled \ {wd[t].snap}
  /\ WdExit(t)
  /\ UNCHANGED <<redisVars, acquired, token, stopChan, pc>>

(* case <-ctx.Done() *)
WdCtxDone(t) ==
  /\ wd[t].pc = "select"
  /\ wd[t].cancelled
  /\ WdExit(t)
  /\ UNCHANGED <<redisVars, lockVars, pc>>

Watchdog(t) == WdStart(t) \/ WdTick(t) \/ WdCheck(t) \/ WdExtend(t)
                 \/ WdStop(t) \/ WdCtxDone(t)

-----------------------------------------------------------------------------
(***************************************************************************)
(* The environment.                                                        *)
(***************************************************************************)

(* The context handed to acquisition t is cancelled by its caller. *)
CancelCtx(t) ==
  /\ CallerCancels
  /\ wd[t].pc # "none" /\ ~wd[t].cancelled
  /\ wd' = [wd EXCEPT ![t].cancelled = TRUE]
  /\ UNCHANGED <<redisVars, lockVars, pc>>

(* The process of object o dies: goroutines and local state are gone, the key
   stays until its TTL runs out.  What restarts is a new object. *)
Crash(o) ==
  /\ Crashes
  /\ pc' = [p \in Procs |-> IF LockOf[p] = o THEN "idle" ELSE pc[p]]
  /\ acquired' = [acquired EXCEPT ![o] = FALSE]
  /\ token' = [token EXCEPT ![o] = NoToken]
  /\ stopChan' = [stopChan EXCEPT ![o] = NoToken]
  /\ wd' = [t \in Tokens |-> IF wd[t].lock = o THEN Ended ELSE wd[t]]
  /\ UNCHANGED <<redisVars, signalled>>

(* Nothing a promptly scheduled goroutine would do is outstanding. *)
Quiet ==
  /\ \A p \in Procs : pc[p] # "setnx"
  /\ \A t \in Tokens : \/ wd[t].pc = "none"
                       \/ wd[t].pc = "select" /\ wd[t].timer > 0

(* Counting down, and doing so without stopping at zero. *)
MinusOne(n) == n - 1
Countdown(n) == IF n > 0 THEN n - 1 ELSE 0

Tick ==
  /\ Prompt => Quiet
  /\ ttl > 0 \/ \E t \in Tokens : wd[t].timer > 0
  /\ ttl' = Countdown(ttl)
  /\ owner' = IF ttl > 1 THEN owner ELSE NoToken
  /\ wd' = [t \in Tokens |-> [wd[t] EXCEPT !.timer = Countdown(@)]]
  /\ UNCHANGED <<lockVars, pc>>

Next ==
  \/ \E p \in Procs : \/ LockCall(p) \/ TryLockGet(p) \/ TryLockSetNX(p)
                      \/ LockRetry(p) \/ LockGiveUp(p) \/ Unlock(p)
                      \/ ExtendCall(p) \/ IsLockedCall(p)
  \/ \E t \in Tokens : Watchdog(t) \/ CancelCtx(t)
  \/ \E o \in Locks : Crash(o)
  \/ Tick

Spec == Init /\ [][Next]_vars

(* Time passes - under Prompt, the goroutines catch up with it again and again -
   and every goroutine that can run eventually runs; a watchdog waiting for l.mu
   gets it in the end (sync.Mutex hands itself to a waiter it has starved), which
   is strong fairness of its steps. *)
FairSpec ==
  /\ Spec
  /\ SF_vars(Tick)
  /\ Prompt => []<>Quiet
  /\ \A t \in Tokens : SF_vars(Watchdog(t))
  /\ \A p \in Procs : WF_vars(TryLockGet(p)) /\ WF_vars(TryLockSetNX(p))

-----------------------------------------------------------------------------
(***************************************************************************)
(* Properties.                                                             *)
(***************************************************************************)
Holds(o) == acquired[o] /\ owner = token[o]

(* Safety under any delay, fault or crash: at most one object holds the lock
   in the eyes of both itself and Redis, so Unlock and Extend of any other
   object leave the key alone (TryLock, Unlock, Extend and the uniqueness of
   l.token). *)
OneHolder == \A a, b \in Locks : Holds(a) /\ Holds(b) => a = b

(* A step that ends the key or prolongs its life is its TTL running out, or
   is taken for the object that holds it and changes no other object. *)
KeyChangedByOwner ==
  owner # NoToken /\ (owner' # owner \/ ttl' > ttl)
    => \/ ttl = 1 /\ owner' = NoToken
       \/ \E o \in Locks : /\ Holds(o)
                           /\ \A q \in Locks \ {o} : /\ acquired'[q] = acquired[q]
                                                     /\ token'[q] = token[q]

(* Only the object whose token is in the key removes the key or prolongs its
   life; anything else that ends the key is its TTL running out.  This is what
   the compare-and-DEL and compare-and-PEXPIRE scripts are for. *)
OnlyOwnerTouchesKey == [][KeyChangedByOwner]_vars

GrantConfirmed ==
  \A p \in Procs : pc[p] # "held" /\ pc'[p] = "held" => owner' = token'[LockOf[p]]

(* A goroutine comes to hold the lock only at a moment when Redis holds the
   token of its object: stale local state never lets TryLock succeed. *)
GrantedOnlyIfRedisAgrees == [][GrantConfirmed]_vars

(* Together the objects are one lease: it is granted when the key is free, goes with
   its TTL, and only what the object that has it does ends or prolongs it before; an
   object that only believes it has it leaves the key and the other objects alone. *)
Holders == {o \in Locks : Holds(o)}
Claims == {o \in Locks : acquired[o]}
Lease == INSTANCE LeaseLock WITH Extensions <- ExtendTTLs \cup {TTL},
                                 left <- ttl, holders <- Holders, claims <- Claims
ImplementsLease == Lease!Spec

(* What the watchdog needs to keep a lease: it is on, goroutines run promptly,
   Redis answers, nobody cancels the context Lock was given, and both its
   interval and the TTLs callers ask for leave it time to act. *)
LeaseConditions ==
  /\ EnableWatchdog /\ Prompt
  /\ ~UseTimeout /\ ~CallerCancels /\ ~RedisFaults
  /\ Interval < TTL
  /\ \A d \in ExtendTTLs : Interval < d

(* No two goroutines use the same DistributedLock. *)
OwnObjects == \A p, q \in Procs : LockOf[p] = LockOf[q] => p = q

(* Under LeaseConditions the watchdog never lets a held lock lapse: what the
   object believes is what Redis has. *)
LeaseKept == \A o \in Locks : acquired[o] => owner = token[o]

(* Mutual exclusion of the goroutines themselves: between the return of Lock
   and the call of Unlock nobody else is there (LeaseConditions, OwnObjects). *)
MutualExclusion ==
  \A p, q \in Procs : pc[p] = "held" /\ pc[q] = "held" => p = q

(* No watchdog survives the last release of its object. *)
WatchdogsEnd ==
  \A o \in Locks :
    <>[](~acquired[o]) => <>[](\A t \in Tokens : wd[t].lock # o)
=============================================================================
