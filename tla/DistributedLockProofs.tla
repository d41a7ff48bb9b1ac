----------------------- MODULE DistributedLockProofs -----------------------
(***************************************************************************)
(* What holds of the distributed lock for any number of goroutines,        *)
(* objects and tokens.                                                     *)
(***************************************************************************)
EXTENDS DistributedLock, TLAPS

(* The two Boolean constants as members of BOOLEAN, for the backends. *)
LEMMA Booleans ==
  /\ Prompt \in BOOLEAN
  /\ RedisFaults \in BOOLEAN
  /\ UseTimeout \in BOOLEAN
  BY ConstantsAssumption

(* The state NewDistributedLock and an empty Redis leave is well typed. *)
LEMMA InitTypeOK == Init => TypeOK
  BY ConstantsAssumption
  DEF Init, TypeOK, MaybeToken, PcStates, WdStates, WatchdogState, Ended

(* A watchdog that has returned is a watchdog state. *)
LEMMA EndedTyped == Ended \in WatchdogState
  BY DEF Ended, WatchdogState, WdStates, MaybeToken

(* Assigning a token, or none, and clearing the rest keeps the types. *)
LEMMA DropStateTyped ==
  ASSUME TypeOK, NEW o \in Locks, NEW t \in MaybeToken, DropState(o, t)
  PROVE  /\ acquired' \in [Locks -> BOOLEAN]
         /\ token' \in [Locks -> MaybeToken]
         /\ stopChan' \in [Locks -> MaybeToken]
         /\ signalled' \subseteq Tokens
  BY DEF TypeOK, DropState, StopWatchdogLocked, MaybeToken

(* resetState keeps the object's fields typed. *)
LEMMA ResetStateTyped ==
  ASSUME TypeOK, NEW o \in Locks, ResetState(o)
  PROVE  /\ acquired' \in [Locks -> BOOLEAN]
         /\ token' \in [Locks -> MaybeToken]
         /\ stopChan' \in [Locks -> MaybeToken]
         /\ signalled' \subseteq Tokens
  BY DropStateTyped DEF ResetState, MaybeToken

(* Moving a watchdog to another point keeps the watchdogs typed. *)
LEMMA WdGotoTyped ==
  ASSUME TypeOK, NEW t \in Tokens, NEW label \in WdStates, WdGoto(t, label)
  PROVE  wd' \in [Tokens -> WatchdogState]
  BY DEF TypeOK, WdGoto, WatchdogState

(* A returning watchdog keeps the watchdogs typed. *)
LEMMA WdExitTyped ==
  ASSUME TypeOK, NEW t \in Tokens, WdExit(t)
  PROVE  wd' \in [Tokens -> WatchdogState]
  BY EndedTyped DEF TypeOK, WdExit

(***************************************************************************)
(* The inductive invariant behind the safety theorems.                     *)
(***************************************************************************)

(* A watchdog that is running watches one of the objects. *)
WatchedLock == \A t \in Tokens : wd[t].pc # "none" => wd[t].lock \in Locks

(* The key exists exactly as long as it has time to live. *)
KeyHasTTL == owner # NoToken <=> ttl > 0

(* l.mu admits one TryLock at a time. *)
OneInFlight ==
  \A p, q \in Procs :
    pc[p] = "setnx" /\ pc[q] = "setnx" /\ LockOf[p] = LockOf[q] => p = q

(* Between GET and SETNX the object has a new token and does not hold. *)
InFlightState ==
  \A p \in Procs :
    pc[p] = "setnx" => ~acquired[LockOf[p]] /\ token[LockOf[p]] \in Tokens

HolderHasToken == \A o \in Locks : acquired[o] => token[o] \in Tokens

(* Objects whose token can be, or become, the value of the key. *)
Active(o) == acquired[o] \/ ~MuFree(o)

DistinctTokens ==
  \A a, b \in Locks : Active(a) /\ Active(b) /\ token[a] = token[b] => a = b

SafeInv ==
  /\ TypeOK
  /\ WatchedLock
  /\ KeyHasTTL
  /\ OneInFlight
  /\ InFlightState
  /\ HolderHasToken
  /\ DistinctTokens

(* The inductive invariant holds initially. *)
LEMMA InitSafeInv == Init => SafeInv
<1> SUFFICES ASSUME Init PROVE SafeInv
  OBVIOUS
<1>1. TypeOK
  BY InitTypeOK
<1>2. WatchedLock /\ KeyHasTTL /\ OneInFlight /\ InFlightState /\ HolderHasToken
  BY ConstantsAssumption
  DEF Init, WatchedLock, KeyHasTTL, OneInFlight, InFlightState, HolderHasToken,
      Ended
<1>3. DistinctTokens
  BY DEF Init, DistinctTokens, Active, MuFree
<1> QED
  BY <1>1, <1>2, <1>3 DEF SafeInv

(* resetState, from a method that holds l.mu, on an otherwise unchanged
   caller state. *)
LEMMA ResetSafe ==
  ASSUME SafeInv, NEW o \in Locks, MuFree(o), ResetState(o),
         UNCHANGED pc
  PROVE  OneInFlight' /\ InFlightState' /\ HolderHasToken' /\ DistinctTokens'
<1>1. /\ acquired' = [acquired EXCEPT ![o] = FALSE]
      /\ token' = [token EXCEPT ![o] = NoToken]
  BY DEF ResetState, DropState
<1>2. OneInFlight'
  BY DEF SafeInv, OneInFlight
<1>3. InFlightState'
  BY <1>1, ConstantsAssumption DEF SafeInv, TypeOK, InFlightState, MuFree
<1>4. HolderHasToken'
  BY <1>1 DEF SafeInv, TypeOK, HolderHasToken
<1>5. ASSUME NEW a \in Locks PROVE Active(a)' => Active(a) /\ a # o
  BY <1>1 DEF SafeInv, TypeOK, Active, MuFree
<1>6. DistinctTokens'
  BY <1>1, <1>5 DEF SafeInv, TypeOK, DistinctTokens
<1> QED
  BY <1>2, <1>3, <1>4, <1>6

(* A step that leaves the lock objects and the callers alone. *)
LEMMA LocalUnchangedSafe ==
  ASSUME SafeInv, UNCHANGED <<acquired, token, pc>>
  PROVE  OneInFlight' /\ InFlightState' /\ HolderHasToken' /\ DistinctTokens'
<1>1. OneInFlight' /\ InFlightState' /\ HolderHasToken'
  BY DEF SafeInv, OneInFlight, InFlightState, HolderHasToken
<1>2. DistinctTokens'
  BY DEF SafeInv, DistinctTokens, Active, MuFree
<1> QED
  BY <1>1, <1>2

(* A caller moves between states outside TryLock, objects unchanged. *)
LEMMA GotoSafe ==
  ASSUME SafeInv, NEW p \in Procs, NEW label \in PcStates \ {"setnx"},
         Goto(p, label), UNCHANGED <<acquired, token>>
  PROVE  OneInFlight' /\ InFlightState' /\ HolderHasToken' /\ DistinctTokens'
<1>1. \A q \in Procs : pc'[q] = "setnx" => pc[q] = "setnx"
  BY DEF SafeInv, TypeOK, Goto
<1>2. OneInFlight' /\ InFlightState' /\ HolderHasToken'
  BY <1>1 DEF SafeInv, OneInFlight, InFlightState, HolderHasToken
<1>3. \A a \in Locks : Active(a)' => Active(a)
  BY <1>1 DEF Active, MuFree
<1>4. DistinctTokens'
  BY <1>3 DEF SafeInv, DistinctTokens
<1> QED
  BY <1>2, <1>4

-----------------------------------------------------------------------------
(***************************************************************************)
(* One lemma per action.                                                   *)
(***************************************************************************)

(* Redis commands keep the key and its TTL together. *)
LEMMA UnlockScriptSafe ==
  ASSUME TypeOK, KeyHasTTL, NEW o \in Locks, UnlockScript(o)
  PROVE  owner' \in MaybeToken /\ ttl' \in Nat /\ KeyHasTTL'
  BY DEF TypeOK, KeyHasTTL, UnlockScript, MaybeToken, redisVars

(* The script of Extend keeps the key and its TTL in step. *)
LEMMA ExtendScriptSafe ==
  ASSUME TypeOK, KeyHasTTL, HolderHasToken, NEW o \in Locks, acquired[o],
         NEW d \in Nat, ExtendScript(o, d)
  PROVE  owner' \in MaybeToken /\ ttl' \in Nat /\ KeyHasTTL'
  BY ConstantsAssumption
  DEF TypeOK, KeyHasTTL, HolderHasToken, ExtendScript, KeyMine, MaybeToken

(* A step that leaves Redis alone keeps the key and its TTL in step. *)
LEMMA RedisUnchangedSafe ==
  ASSUME TypeOK, KeyHasTTL, UNCHANGED redisVars
  PROVE  owner' \in MaybeToken /\ ttl' \in Nat /\ KeyHasTTL'
  BY DEF TypeOK, KeyHasTTL, redisVars

(* A step that leaves the objects alone keeps their fields typed. *)
LEMMA LockVarsUnchangedTyped ==
  ASSUME TypeOK, UNCHANGED lockVars
  PROVE  /\ acquired' \in [Locks -> BOOLEAN]
         /\ token' \in [Locks -> MaybeToken]
         /\ stopChan' \in [Locks -> MaybeToken]
         /\ signalled' \subseteq Tokens
  BY DEF TypeOK, lockVars

(* Extend, by a caller or by a watchdog. *)
LEMMA ExtendSafe ==
  ASSUME SafeInv, NEW o \in Locks, MuFree(o), NEW d \in Nat, UNCHANGED pc,
         ExtendOk(o, d) \/ ExtendFailed(o, d)
  PROVE  /\ owner' \in MaybeToken /\ ttl' \in Nat
         /\ acquired' \in [Locks -> BOOLEAN]
         /\ token' \in [Locks -> MaybeToken]
         /\ stopChan' \in [Locks -> MaybeToken]
         /\ signalled' \subseteq Tokens
         /\ KeyHasTTL' /\ OneInFlight' /\ InFlightState' /\ HolderHasToken'
         /\ DistinctTokens'
<1> USE DEF SafeInv
<1>1. CASE ExtendOk(o, d)
  BY <1>1, ExtendScriptSafe, LockVarsUnchangedTyped, LocalUnchangedSafe
  DEF ExtendOk, lockVars
<1>2. CASE ~acquired[o] /\ UNCHANGED <<redisVars, lockVars>>
  BY <1>2, RedisUnchangedSafe, LockVarsUnchangedTyped, LocalUnchangedSafe
  DEF lockVars
<1>3. CASE acquired[o] /\ ResetState(o) /\ UNCHANGED redisVars
  BY <1>3, RedisUnchangedSafe, ResetStateTyped, ResetSafe
<1>4. CASE acquired[o] /\ ResetState(o) /\ ExtendScript(o, d)
  BY <1>4, ExtendScriptSafe, ResetStateTyped, ResetSafe
<1> QED
  BY <1>1, <1>2, <1>3, <1>4 DEF ExtendFailed

(* IsLocked, by a caller or by a watchdog, error included. *)
LEMMA IsLockedSafe ==
  ASSUME SafeInv, NEW o \in Locks, MuFree(o), UNCHANGED pc,
         IsLockedTrue(o) \/ IsLockedFalse(o) \/ UNCHANGED lockVars
  PROVE  /\ acquired' \in [Locks -> BOOLEAN]
         /\ token' \in [Locks -> MaybeToken]
         /\ stopChan' \in [Locks -> MaybeToken]
         /\ signalled' \subseteq Tokens
         /\ OneInFlight' /\ InFlightState' /\ HolderHasToken' /\ DistinctTokens'
<1> USE DEF SafeInv
<1>1. CASE UNCHANGED lockVars
  BY <1>1, LockVarsUnchangedTyped, LocalUnchangedSafe DEF lockVars
<1>2. CASE ResetState(o)
  BY <1>2, ResetStateTyped, ResetSafe
<1> QED
  BY <1>1, <1>2 DEF IsLockedTrue, IsLockedFalse

(* The steps of a caller outside TryLock, the environment and Unlock. *)
LEMMA LockLoopSafe ==
  ASSUME SafeInv, NEW p \in Procs, LockCall(p) \/ LockRetry(p) \/ LockGiveUp(p)
  PROVE  SafeInv'
<1>1. PICK label \in {"try", "idle"} : Goto(p, label)
  BY DEF LockCall, LockRetry, LockGiveUp
<1>2. UNCHANGED <<redisVars, lockVars, wd>>
  BY DEF LockCall, LockRetry, LockGiveUp
<1>3. OneInFlight' /\ InFlightState' /\ HolderHasToken' /\ DistinctTokens'
  BY <1>1, <1>2, GotoSafe DEF PcStates, lockVars
<1>4. TypeOK'
  BY <1>1, <1>2, RedisUnchangedSafe, LockVarsUnchangedTyped
  DEF SafeInv, TypeOK, Goto, PcStates
<1>5. WatchedLock' /\ KeyHasTTL'
  BY <1>2 DEF SafeInv, WatchedLock, KeyHasTTL, redisVars
<1> QED
  BY <1>3, <1>4, <1>5 DEF SafeInv

(* Unlock keeps the invariant, whether or not Redis answered. *)
LEMMA UnlockSafe ==
  ASSUME SafeInv, NEW p \in Procs, Unlock(p)
  PROVE  SafeInv'
<1> DEFINE o == LockOf[p]
<1>0. o \in Locks /\ MuFree(o) /\ Goto(p, "idle") /\ UNCHANGED wd /\ pc[p] = "held"
  BY ConstantsAssumption DEF Unlock
<1>1. pc' \in [Procs -> PcStates] /\ wd' \in [Tokens -> WatchdogState] /\ WatchedLock'
  BY <1>0 DEF SafeInv, TypeOK, Goto, PcStates, WatchedLock
<1>2. CASE UNCHANGED <<redisVars, lockVars>>
  <2>1. OneInFlight' /\ InFlightState' /\ HolderHasToken' /\ DistinctTokens'
    BY <1>0, <1>2, GotoSafe DEF PcStates, lockVars
  <2>2. TypeOK' /\ KeyHasTTL'
    BY <1>1, <1>2, RedisUnchangedSafe, LockVarsUnchangedTyped DEF SafeInv, TypeOK
  <2> QED
    BY <1>1, <2>1, <2>2 DEF SafeInv
<1>3. CASE ResetState(o) /\ (UnlockScript(o) \/ UNCHANGED redisVars)
  <2>1. TypeOK' /\ KeyHasTTL'
    BY <1>0, <1>1, <1>3, UnlockScriptSafe, RedisUnchangedSafe, ResetStateTyped
    DEF SafeInv, TypeOK
  <2>2. /\ acquired' = [acquired EXCEPT ![o] = FALSE]
        /\ token' = [token EXCEPT ![o] = NoToken]
    BY <1>3 DEF ResetState, DropState
  <2>3. \A q \in Procs : pc'[q] = "setnx" => pc[q] = "setnx" /\ LockOf[q] # o
    BY <1>0 DEF SafeInv, TypeOK, Goto, MuFree
  <2>4. OneInFlight' /\ InFlightState' /\ HolderHasToken'
    BY <1>0, <2>2, <2>3, ConstantsAssumption
    DEF SafeInv, TypeOK, OneInFlight, InFlightState, HolderHasToken
  <2>5. \A a \in Locks : Active(a)' => Active(a) /\ a # o
    BY <1>0, <2>2, <2>3 DEF SafeInv, TypeOK, Active, MuFree
  <2>6. DistinctTokens'
    BY <2>2, <2>5 DEF SafeInv, TypeOK, DistinctTokens
  <2> QED
    BY <1>1, <2>1, <2>4, <2>6 DEF SafeInv
<1> QED
  BY <1>2, <1>3 DEF Unlock

(* A caller's Extend keeps the invariant. *)
LEMMA ExtendCallSafe ==
  ASSUME SafeInv, NEW p \in Procs, ExtendCall(p)
  PROVE  SafeInv'
<1>1. LockOf[p] \in Locks /\ MuFree(LockOf[p]) /\ UNCHANGED <<pc, wd>>
  BY ConstantsAssumption DEF ExtendCall
<1>2. PICK d \in ExtendTTLs :
        ExtendOk(LockOf[p], d) \/ ExtendFailed(LockOf[p], d)
  BY DEF ExtendCall
<1>3. d \in Nat
  BY ConstantsAssumption
<1>4. WatchedLock'
  BY <1>1 DEF SafeInv, WatchedLock
<1> QED
  BY <1>1, <1>2, <1>3, <1>4, ExtendSafe DEF SafeInv, TypeOK

(* A caller's IsLocked keeps the invariant. *)
LEMMA IsLockedCallSafe ==
  ASSUME SafeInv, NEW p \in Procs, IsLockedCall(p)
  PROVE  SafeInv'
<1>1. LockOf[p] \in Locks /\ MuFree(LockOf[p]) /\ UNCHANGED <<redisVars, pc, wd>>
  BY ConstantsAssumption DEF IsLockedCall
<1>2. WatchedLock'
  BY <1>1 DEF SafeInv, WatchedLock
<1> QED
  BY <1>1, <1>2, IsLockedSafe, RedisUnchangedSafe DEF SafeInv, TypeOK, IsLockedCall

(* The GET half of TryLock keeps the invariant; l.mu is held afterwards. *)
LEMMA TryLockGetSafe ==
  ASSUME SafeInv, NEW p \in Procs, TryLockGet(p)
  PROVE  SafeInv'
<1> DEFINE o == LockOf[p]
<1>0. o \in Locks /\ MuFree(o) /\ UNCHANGED <<redisVars, wd>> /\ pc[p] = "try"
  BY ConstantsAssumption DEF TryLockGet
<1>1. /\ wd' \in [Tokens -> WatchdogState] /\ WatchedLock' /\ KeyHasTTL'
      /\ owner' \in MaybeToken /\ ttl' \in Nat
  BY <1>0, RedisUnchangedSafe DEF SafeInv, TypeOK, WatchedLock
<1>2. CASE Goto(p, "held") /\ UNCHANGED lockVars
  <2>1. OneInFlight' /\ InFlightState' /\ HolderHasToken' /\ DistinctTokens'
    BY <1>2, GotoSafe DEF PcStates, lockVars
  <2>2. TypeOK'
    BY <1>1, <1>2, LockVarsUnchangedTyped DEF SafeInv, TypeOK, Goto, PcStates
  <2> QED
    BY <1>1, <2>1, <2>2 DEF SafeInv
<1>3. ASSUME NEW t \in Tokens, FreshToken(t), Goto(p, "setnx"),
             \/ DropState(o, t)
             \/ /\ ~acquired[o]
                /\ token' = [token EXCEPT ![o] = t]
                /\ UNCHANGED <<acquired, stopChan, signalled>>
      PROVE  SafeInv'
  <2>1. /\ acquired' = [acquired EXCEPT ![o] = FALSE]
        /\ token' = [token EXCEPT ![o] = t]
    BY <1>0, <1>3 DEF SafeInv, TypeOK, DropState
  <2>2. pc' = [pc EXCEPT ![p] = "setnx"]
    BY <1>3 DEF Goto
  <2>3. TypeOK'
    BY <1>0, <1>1, <1>3, <2>1, <2>2, DropStateTyped
    DEF SafeInv, TypeOK, PcStates, MaybeToken
  <2>4. \A q \in Procs \ {p} : LockOf[q] = o => pc'[q] # "setnx"
    BY <1>0, <2>2 DEF SafeInv, TypeOK, MuFree
  <2>5. OneInFlight'
    BY <2>2, <2>4 DEF SafeInv, TypeOK, OneInFlight
  <2>6. InFlightState' /\ HolderHasToken'
    BY <1>0, <2>1, <2>2, <2>4, ConstantsAssumption
    DEF SafeInv, TypeOK, InFlightState, HolderHasToken
  <2>7. \A a \in Locks \ {o} : /\ Active(a)' => Active(a) /\ token[a] # t
                               /\ token'[a] = token[a]
    BY <1>0, <1>3, <2>1, <2>2 DEF SafeInv, TypeOK, Active, MuFree, FreshToken
  <2>8. DistinctTokens'
    BY <1>0, <2>1, <2>7 DEF SafeInv, TypeOK, DistinctTokens
  <2> QED
    BY <1>1, <2>3, <2>5, <2>6, <2>8 DEF SafeInv
<1> QED
  BY <1>2, <1>3 DEF TryLockGet

(* The SETNX half keeps it: the token is fresh, so no other object has it. *)
LEMMA TryLockSetNXSafe ==
  ASSUME SafeInv, NEW p \in Procs, TryLockSetNX(p)
  PROVE  SafeInv'
<1> DEFINE o == LockOf[p]
           t == token[o]
<1>0. /\ o \in Locks /\ t \in Tokens /\ ~acquired[o] /\ UNCHANGED token
      /\ pc[p] = "setnx" /\ t # NoToken
  BY ConstantsAssumption DEF TryLockSetNX, SafeInv, InFlightState
<1>1. ASSUME NEW q \in Procs, q # p, LockOf[q] = o PROVE pc[q] # "setnx"
  BY <1>0, <1>1 DEF SafeInv, OneInFlight
<1>2. CASE /\ KeyAbsent
           /\ owner' = t /\ ttl' = TTL
           /\ acquired' = [acquired EXCEPT ![o] = TRUE]
           /\ IF EnableWatchdog THEN SpawnWatchdog(o, t)
                                ELSE UNCHANGED <<stopChan, signalled, wd>>
           /\ Goto(p, "held")
  <2>1. pc' = [pc EXCEPT ![p] = "held"]
    BY <1>2 DEF Goto
  <2>2. wd' \in [Tokens -> WatchdogState] /\ WatchedLock'
    <3>1. CASE SpawnWatchdog(o, t)
      <4> DEFINE w == [pc |-> "start", lock |-> o, snap |-> NoToken, timer |-> 0,
                       cancelled |-> UseTimeout]
      <4>1. w \in WatchdogState /\ w.lock \in Locks
        BY <1>0, Booleans DEF WatchdogState, WdStates, MaybeToken
      <4>2. wd' = [wd EXCEPT ![t] = w]
        BY <3>1 DEF SpawnWatchdog
      <4> HIDE DEF w
      <4> QED
        BY <1>0, <4>1, <4>2 DEF SafeInv, TypeOK, WatchedLock
    <3>2. CASE UNCHANGED wd
      BY <3>2 DEF SafeInv, TypeOK, WatchedLock
    <3> QED
      BY <1>2, <3>1, <3>2
  <2>3. stopChan' \in [Locks -> MaybeToken] /\ signalled' \subseteq Tokens
    BY <1>0, <1>2 DEF SafeInv, TypeOK, SpawnWatchdog, MaybeToken
  <2>4. TypeOK'
    BY <1>0, <1>2, <2>1, <2>2, <2>3, ConstantsAssumption
    DEF SafeInv, TypeOK, PcStates, MaybeToken
  <2>5. KeyHasTTL'
    BY <1>0, <1>2, ConstantsAssumption DEF KeyHasTTL
  <2>6. OneInFlight' /\ InFlightState' /\ HolderHasToken'
    BY <1>0, <1>1, <1>2, <2>1, ConstantsAssumption
    DEF SafeInv, TypeOK, OneInFlight, InFlightState, HolderHasToken
  <2>7. \A a \in Locks : Active(a)' => Active(a)
    BY <1>0, <1>2, <2>1 DEF SafeInv, TypeOK, Active, MuFree
  <2>8. DistinctTokens'
    BY <1>0, <2>7 DEF SafeInv, DistinctTokens
  <2> QED
    BY <2>2, <2>4, <2>5, <2>6, <2>8 DEF SafeInv
<1>3. ASSUME NEW label \in {"wait", "idle"}, Goto(p, label),
             UNCHANGED <<acquired, stopChan, signalled, wd>>,
             (KeyAbsent /\ owner' = t /\ ttl' = TTL) \/ UNCHANGED redisVars
      PROVE  SafeInv'
  <2>1. OneInFlight' /\ InFlightState' /\ HolderHasToken' /\ DistinctTokens'
    BY <1>0, <1>3, GotoSafe DEF PcStates
  <2>2. owner' \in MaybeToken /\ ttl' \in Nat /\ KeyHasTTL'
    BY <1>0, <1>3, RedisUnchangedSafe, ConstantsAssumption
    DEF SafeInv, MaybeToken, KeyHasTTL
  <2>3. TypeOK' /\ WatchedLock'
    BY <1>0, <1>3, <2>2 DEF SafeInv, TypeOK, Goto, PcStates, WatchedLock
  <2> QED
    BY <2>1, <2>2, <2>3 DEF SafeInv
<1> QED
  BY <1>2, <1>3 DEF TryLockSetNX

(* What the watchdog steps have in common. *)
LEMMA WatchdogSafe ==
  ASSUME SafeInv, NEW t \in Tokens, Watchdog(t)
  PROVE  SafeInv'
<1> DEFINE o == wd[t].lock
<1>0. wd[t].pc # "none" /\ o \in Locks /\ UNCHANGED pc
  BY DEF Watchdog, WdStart, WdTick, TickerFired, WdCheck, WdExtend, WdStop,
         WdCtxDone, SafeInv, WatchedLock
<1>1. Period \in Nat
  BY ConstantsAssumption DEF Period
<1>a. ASSUME WdExit(t)
      PROVE  wd' \in [Tokens -> WatchdogState] /\ WatchedLock'
  BY <1>a, WdExitTyped DEF SafeInv, TypeOK, WdExit, Ended, WatchedLock
<1>b. ASSUME NEW label \in WdStates, WdGoto(t, label)
      PROVE  wd' \in [Tokens -> WatchdogState] /\ WatchedLock'
  BY <1>0, <1>b, WdGotoTyped DEF SafeInv, TypeOK, WdGoto, WatchedLock, WatchdogState
<1>2. CASE WdStart(t)
  <2>1. UNCHANGED <<redisVars, lockVars>>
    BY <1>2 DEF WdStart
  <2>2. CASE wd' = [wd EXCEPT ![t].pc = "select", ![t].snap = stopChan[o],
                              ![t].timer = Period]
    <3>1. stopChan[o] \in MaybeToken
      BY <1>0 DEF SafeInv, TypeOK
    <3>2. [wd[t] EXCEPT !.pc = "select", !.snap = stopChan[o], !.timer = Period]
            \in WatchdogState
      BY <1>1, <3>1 DEF SafeInv, TypeOK, WatchdogState, WdStates
    <3>3. wd' = [wd EXCEPT ![t] = [wd[t] EXCEPT !.pc = "select",
                                    !.snap = stopChan[o], !.timer = Period]]
      BY <2>2 DEF SafeInv, TypeOK
    <3>4. wd' \in [Tokens -> WatchdogState]
      BY <3>2, <3>3 DEF SafeInv, TypeOK
    <3>5. WatchedLock'
      BY <1>0, <3>3 DEF SafeInv, TypeOK, WatchedLock, WatchdogState
    <3> QED
      BY <1>0, <2>1, <3>4, <3>5, LocalUnchangedSafe, RedisUnchangedSafe,
         LockVarsUnchangedTyped DEF SafeInv, TypeOK, lockVars
  <2>3. CASE WdExit(t)
    BY <1>0, <1>a, <2>1, <2>3, LocalUnchangedSafe, RedisUnchangedSafe,
       LockVarsUnchangedTyped DEF SafeInv, TypeOK, lockVars
  <2> QED
    BY <1>2, <2>2, <2>3 DEF WdStart
<1>3. CASE WdTick(t)
  <2>1. UNCHANGED <<redisVars, lockVars>>
    BY <1>3 DEF WdTick
  <2>2. CASE wd' = [wd EXCEPT ![t].pc = "check", ![t].timer = Period]
    <3>1. wd' \in [Tokens -> WatchdogState] /\ WatchedLock'
      <4>1. [wd[t] EXCEPT !.pc = "check", !.timer = Period] \in WatchdogState
        BY <1>1 DEF SafeInv, TypeOK, WatchdogState, WdStates
      <4>2. wd' = [wd EXCEPT ![t] = [wd[t] EXCEPT !.pc = "check", !.timer = Period]]
        BY <2>2 DEF SafeInv, TypeOK
      <4>3. wd' \in [Tokens -> WatchdogState]
        BY <4>1, <4>2 DEF SafeInv, TypeOK
      <4>4. WatchedLock'
        BY <1>0, <4>2 DEF SafeInv, TypeOK, WatchedLock, WatchdogState
      <4> QED BY <4>3, <4>4
    <3> QED
      BY <1>0, <2>1, <3>1, LocalUnchangedSafe, RedisUnchangedSafe,
         LockVarsUnchangedTyped DEF SafeInv, TypeOK, lockVars
  <2>3. CASE WdExit(t)
    BY <1>0, <1>a, <2>1, <2>3, LocalUnchangedSafe, RedisUnchangedSafe,
       LockVarsUnchangedTyped DEF SafeInv, TypeOK, lockVars
  <2> QED
    BY <1>3, <2>2, <2>3 DEF WdTick
<1>4. CASE WdCheck(t)
  <2>1. MuFree(o) /\ UNCHANGED redisVars
    BY <1>4 DEF WdCheck
  <2>2. IsLockedTrue(o) \/ IsLockedFalse(o) \/ UNCHANGED lockVars
    BY <1>4 DEF WdCheck
  <2>3. wd' \in [Tokens -> WatchdogState] /\ WatchedLock'
    BY <1>4, <1>a, <1>b DEF WdCheck, WdStates
  <2> QED
    BY <1>0, <2>1, <2>2, <2>3, IsLockedSafe, RedisUnchangedSafe
    DEF SafeInv, TypeOK
<1>5. CASE WdExtend(t)
  <2>1. MuFree(o) /\ TTL \in Nat
    BY <1>5, ConstantsAssumption DEF WdExtend
  <2>2. ExtendOk(o, TTL) \/ ExtendFailed(o, TTL)
    BY <1>5 DEF WdExtend
  <2>3. wd' \in [Tokens -> WatchdogState] /\ WatchedLock'
    BY <1>5, <1>a, <1>b DEF WdExtend, WdStates
  <2> QED
    BY <1>0, <2>1, <2>2, <2>3, ExtendSafe DEF SafeInv, TypeOK
<1>6. CASE WdStop(t) \/ WdCtxDone(t)
  <2>1. /\ UNCHANGED <<redisVars, acquired, token, stopChan>> /\ WdExit(t)
        /\ signalled' \subseteq signalled
    BY <1>6 DEF WdStop, WdCtxDone, lockVars
  <2> QED
    BY <1>0, <1>a, <2>1, LocalUnchangedSafe, RedisUnchangedSafe DEF SafeInv, TypeOK
<1> QED
  BY <1>2, <1>3, <1>4, <1>5, <1>6 DEF Watchdog

(* A cancelled context keeps the invariant. *)
LEMMA CancelCtxSafe ==
  ASSUME SafeInv, NEW t \in Tokens, CancelCtx(t)
  PROVE  SafeInv'
<1>1. /\ wd' = [wd EXCEPT ![t].cancelled = TRUE]
      /\ UNCHANGED <<redisVars, lockVars, pc>>
  BY DEF CancelCtx
<1>2. wd' \in [Tokens -> WatchdogState] /\ WatchedLock'
  BY <1>1 DEF SafeInv, TypeOK, WatchedLock, WatchdogState
<1> QED
  BY <1>1, <1>2, LocalUnchangedSafe, RedisUnchangedSafe, LockVarsUnchangedTyped
  DEF SafeInv, TypeOK, lockVars

(* A crash keeps the invariant: the key may stay, but nobody holds it. *)
LEMMA CrashSafe ==
  ASSUME SafeInv, NEW o \in Locks, Crash(o)
  PROVE  SafeInv'
<1>1. /\ pc' = [p \in Procs |-> IF LockOf[p] = o THEN "idle" ELSE pc[p]]
      /\ acquired' = [acquired EXCEPT ![o] = FALSE]
      /\ token' = [token EXCEPT ![o] = NoToken]
      /\ stopChan' = [stopChan EXCEPT ![o] = NoToken]
      /\ wd' = [t \in Tokens |-> IF wd[t].lock = o THEN Ended ELSE wd[t]]
      /\ UNCHANGED <<redisVars, signalled>>
  BY DEF Crash
<1>2. wd' \in [Tokens -> WatchdogState] /\ WatchedLock'
  BY <1>1, EndedTyped DEF SafeInv, TypeOK, WatchedLock, Ended
<1>3. pc' \in [Procs -> PcStates]
  BY <1>1 DEF SafeInv, TypeOK, PcStates
<1>4. TypeOK'
  BY <1>1, <1>2, <1>3, RedisUnchangedSafe DEF SafeInv, TypeOK, MaybeToken
<1>5. \A q \in Procs : pc'[q] = "setnx" => pc[q] = "setnx" /\ LockOf[q] # o
  BY <1>1
<1>6. OneInFlight' /\ InFlightState' /\ HolderHasToken'
  BY <1>1, <1>5, ConstantsAssumption
  DEF SafeInv, TypeOK, OneInFlight, InFlightState, HolderHasToken
<1>7. \A a \in Locks : Active(a)' => Active(a) /\ a # o
  BY <1>1, <1>5 DEF SafeInv, TypeOK, Active, MuFree
<1>8. DistinctTokens'
  BY <1>1, <1>7 DEF SafeInv, TypeOK, DistinctTokens
<1>9. KeyHasTTL'
  BY <1>1 DEF SafeInv, KeyHasTTL, redisVars
<1> QED
  BY <1>2, <1>4, <1>6, <1>8, <1>9 DEF SafeInv

(* Time keeps the invariant: the key goes when its TTL does. *)
LEMMA TickSafe ==
  ASSUME SafeInv, Tick
  PROVE  SafeInv'
<1>1. /\ ttl' = Countdown(ttl)
      /\ owner' = IF ttl > 1 THEN owner ELSE NoToken
      /\ wd' = [t \in Tokens |-> [wd[t] EXCEPT !.timer = Countdown(@)]]
      /\ UNCHANGED <<lockVars, pc>>
  BY DEF Tick
<1>2. \A n \in Nat : Countdown(n) \in Nat
  BY DEF Countdown
<1>3. wd' \in [Tokens -> WatchdogState] /\ WatchedLock'
  <2>1. wd \in [Tokens -> WatchdogState]
    BY DEF SafeInv, TypeOK
  <2>2. \A r \in WatchdogState :
          [r EXCEPT !.timer = Countdown(@)] \in WatchdogState
    BY <1>2 DEF WatchdogState
  <2>3. wd' \in [Tokens -> WatchdogState]
    BY <1>1, <2>1, <2>2
  <2>4. \A t \in Tokens : wd'[t].pc = wd[t].pc /\ wd'[t].lock = wd[t].lock
    BY <1>1, <2>1 DEF WatchdogState
  <2>5. WatchedLock'
    BY <2>4 DEF SafeInv, WatchedLock
  <2> QED BY <2>3, <2>5
<1>4. owner' \in MaybeToken /\ ttl' \in Nat /\ KeyHasTTL'
  BY <1>1, ConstantsAssumption DEF SafeInv, TypeOK, KeyHasTTL, MaybeToken, Countdown
<1> QED
  BY <1>1, <1>3, <1>4, LocalUnchangedSafe, LockVarsUnchangedTyped
  DEF SafeInv, TypeOK, lockVars

(* A stuttering step keeps the invariant. *)
LEMMA StutterSafe ==
  ASSUME SafeInv, UNCHANGED vars
  PROVE  SafeInv'
  BY LocalUnchangedSafe
  DEF vars, SafeInv, TypeOK, WatchedLock, KeyHasTTL

(* The invariant is inductive. *)
LEMMA NextSafe == SafeInv /\ [Next]_vars => SafeInv'
  BY LockLoopSafe, TryLockGetSafe, TryLockSetNXSafe, UnlockSafe, ExtendCallSafe,
     IsLockedCallSafe, WatchdogSafe, CancelCtxSafe, CrashSafe, TickSafe, StutterSafe
  DEF Next

(* The invariant holds of every behaviour, with any delays, faults, crashes. *)
THEOREM Safe == Spec => []SafeInv
  BY InitSafeInv, NextSafe, PTL DEF Spec

(* The state of the lock objects, of Redis and of the watchdogs stays within
   its types. *)
THEOREM TypeCorrect == Spec => []TypeOK
<1>1. SafeInv => TypeOK
  BY DEF SafeInv
<1> QED
  BY <1>1, Safe, PTL

(* At most one lock object holds the lock in the eyes of itself and Redis. *)
THEOREM AtMostOneHolder == Spec => []OneHolder
<1>1. SafeInv => OneHolder
  BY DEF SafeInv, DistinctTokens, Active, OneHolder, Holds
<1> QED
  BY <1>1, Safe, PTL

-----------------------------------------------------------------------------
(***************************************************************************)
(* Who touches the key.                                                    *)
(***************************************************************************)
LEMMA ResetOnlyOne ==
  ASSUME TypeOK, NEW o \in Locks, ResetState(o)
  PROVE  \A q \in Locks \ {o} : acquired'[q] = acquired[q] /\ token'[q] = token[q]
  BY DEF TypeOK, ResetState, DropState

(* The script of Extend changes the key only if it has the object's token. *)
LEMMA ExtendByOwner ==
  ASSUME SafeInv, NEW o \in Locks, NEW d \in Nat,
         ExtendOk(o, d) \/ ExtendFailed(o, d)
  PROVE  KeyChangedByOwner
<1> USE DEF SafeInv
<1>1. CASE UNCHANGED redisVars
  BY <1>1 DEF TypeOK, KeyChangedByOwner, redisVars
<1>2. CASE /\ acquired[o] /\ ExtendScript(o, d)
           /\ UNCHANGED lockVars \/ ResetState(o)
  <2>1. Holds(o)
    BY <1>2 DEF ExtendScript, KeyMine, Holds
  <2>2. \A q \in Locks \ {o} : acquired'[q] = acquired[q] /\ token'[q] = token[q]
    BY <1>2, ResetOnlyOne DEF lockVars
  <2> QED
    BY <2>1, <2>2 DEF KeyChangedByOwner
<1> QED
  BY <1>1, <1>2 DEF ExtendOk, ExtendFailed

(* The script of Unlock changes the key only if it has the object's token. *)
LEMMA UnlockByOwner ==
  ASSUME SafeInv, NEW p \in Procs, Unlock(p)
  PROVE  KeyChangedByOwner
<1> USE DEF SafeInv
<1> DEFINE o == LockOf[p]
<1>0. o \in Locks
  BY ConstantsAssumption
<1>1. CASE UNCHANGED redisVars
  BY <1>1 DEF TypeOK, KeyChangedByOwner, redisVars
<1>2. CASE acquired[o] /\ UnlockScript(o) /\ ResetState(o) /\ ~UNCHANGED redisVars
  <2>1. Holds(o)
    BY <1>2 DEF UnlockScript, KeyMine, Holds
  <2> QED
    BY <1>0, <1>2, <2>1, ResetOnlyOne DEF KeyChangedByOwner
<1> QED
  BY <1>1, <1>2 DEF Unlock

(* Every step changes the key only as OnlyOwnerTouchesKey allows. *)
LEMMA NextByOwner == SafeInv /\ [Next]_vars => [KeyChangedByOwner]_vars
<1> SUFFICES ASSUME SafeInv, [Next]_vars PROVE [KeyChangedByOwner]_vars
  OBVIOUS
<1>1. CASE UNCHANGED redisVars
  BY <1>1 DEF SafeInv, TypeOK, KeyChangedByOwner, redisVars
<1>2. ASSUME NEW p \in Procs, TryLockSetNX(p) PROVE KeyChangedByOwner
  BY <1>1, <1>2 DEF TryLockSetNX, KeyAbsent, KeyChangedByOwner, SafeInv, TypeOK,
                    redisVars
<1>3. ASSUME NEW p \in Procs, ExtendCall(p) PROVE KeyChangedByOwner
  BY <1>3, ExtendByOwner, ConstantsAssumption DEF ExtendCall
<1>4. ASSUME NEW t \in Tokens, Watchdog(t) PROVE KeyChangedByOwner \/ UNCHANGED redisVars
  <2>1. CASE WdExtend(t)
    BY <2>1, ExtendByOwner, ConstantsAssumption DEF WdExtend, SafeInv, WatchedLock
  <2>2. CASE ~WdExtend(t)
    BY <1>4, <2>2 DEF Watchdog, WdStart, WdTick, WdCheck, WdStop, WdCtxDone
  <2> QED
    BY <2>1, <2>2
<1>5. ASSUME Tick PROVE KeyChangedByOwner
  BY <1>5, ConstantsAssumption
  DEF Tick, Countdown, KeyChangedByOwner, SafeInv, TypeOK, KeyHasTTL
<1>6. ASSUME NEW p \in Procs, LockCall(p) \/ TryLockGet(p) \/ LockRetry(p)
                                \/ LockGiveUp(p) \/ IsLockedCall(p)
      PROVE  UNCHANGED redisVars
  BY <1>6 DEF LockCall, TryLockGet, LockRetry, LockGiveUp, IsLockedCall
<1>7. ASSUME NEW t \in Tokens, CancelCtx(t) PROVE UNCHANGED redisVars
  BY <1>7 DEF CancelCtx
<1>8. ASSUME NEW o \in Locks, Crash(o) PROVE UNCHANGED redisVars
  BY <1>8 DEF Crash
<1> QED
  BY <1>1, <1>2, <1>3, <1>4, <1>5, <1>6, <1>7, <1>8, UnlockByOwner DEF Next

(* The key is ended or prolonged only for the object whose token it holds, or
   by the end of its TTL. *)
THEOREM OwnerOnly == Spec => OnlyOwnerTouchesKey
  BY Safe, NextByOwner, PTL DEF Spec, OnlyOwnerTouchesKey

(* Only the two halves of TryLock make a goroutine a holder, the first when GET
   returned the token of the object, the second when SETNX has just set it. *)
LEMMA NextGrants == SafeInv /\ [Next]_vars => [GrantConfirmed]_vars
<1> SUFFICES ASSUME SafeInv, Next PROVE GrantConfirmed
  BY DEF vars, GrantConfirmed
<1> SUFFICES ASSUME NEW q \in Procs, pc[q] # "held", pc'[q] = "held"
             PROVE  owner' = token'[LockOf[q]]
  BY DEF GrantConfirmed
<1>1. pc \in [Procs -> PcStates]
  BY DEF SafeInv, TypeOK
<1>2. ASSUME NEW p \in Procs, TryLockGet(p) PROVE owner' = token'[LockOf[q]]
  BY <1>1, <1>2 DEF TryLockGet, Goto, KeyMine, redisVars, lockVars
<1>3. ASSUME NEW p \in Procs, TryLockSetNX(p) PROVE owner' = token'[LockOf[q]]
  BY <1>1, <1>3 DEF TryLockSetNX, Goto
<1>4. ASSUME NEW p \in Procs, LockCall(p) \/ LockRetry(p) \/ LockGiveUp(p) \/ Unlock(p)
                                \/ ExtendCall(p) \/ IsLockedCall(p)
      PROVE  FALSE
  BY <1>1, <1>4 DEF LockCall, LockRetry, LockGiveUp, Unlock, ExtendCall, IsLockedCall, Goto
<1>5. ASSUME NEW t \in Tokens, Watchdog(t) \/ CancelCtx(t) PROVE FALSE
  BY <1>5 DEF Watchdog, WdStart, WdTick, WdCheck, WdExtend, WdStop, WdCtxDone, CancelCtx
<1>6. ASSUME NEW o \in Locks, Crash(o) PROVE FALSE
  BY <1>1, <1>6 DEF Crash
<1>7. ASSUME Tick PROVE FALSE
  BY <1>7 DEF Tick
<1> QED
  BY <1>2, <1>3, <1>4, <1>5, <1>6, <1>7 DEF Next

(* Whatever is stale in the object, TryLock returns true only when Redis holds
   its token at that moment. *)
THEOREM GrantsAgreeWithRedis == Spec => GrantedOnlyIfRedisAgrees
  BY Safe, NextGrants, PTL DEF Spec, GrantedOnlyIfRedisAgrees

-----------------------------------------------------------------------------
(***************************************************************************)
(* The lease the objects implement.                                        *)
(***************************************************************************)

(* Who holds the lock holds it alone and with a real token; no key, no holder. *)
LEMMA HoldsAlone ==
  ASSUME SafeInv
  PROVE  /\ \A o \in Locks : Holds(o) => Holders = {o} /\ owner \in Tokens /\ ttl > 0
         /\ ttl = 0 => owner = NoToken /\ Holders = {}
<1>1. \A o \in Locks : Holds(o) => owner \in Tokens /\ ttl > 0
  BY ConstantsAssumption DEF SafeInv, TypeOK, HolderHasToken, KeyHasTTL, Holds
<1>2. \A a, b \in Locks : Holds(a) /\ Holds(b) => a = b
  BY DEF SafeInv, DistinctTokens, Active, Holds
<1>3. ttl = 0 => owner = NoToken
  BY DEF SafeInv, KeyHasTTL
<1> QED
  BY <1>1, <1>2, <1>3 DEF Holders

(* A step that moves no object and not the key is no step of the lease, and neither is
   one that gives a new token to an object that does not hold. *)
LEMMA NoLeaseStep ==
  ASSUME SafeInv, UNCHANGED <<redisVars, acquired>>,
         \A o \in Locks : acquired[o] => token'[o] = token[o]
  PROVE  UNCHANGED Lease!vars
<1>1. \A o \in Locks : Holds(o)' <=> Holds(o)
  BY DEF Holds, redisVars
<1>2. Holders' = Holders /\ Claims' = Claims
  BY <1>1 DEF Holders, Claims
<1> QED
  BY <1>2 DEF Lease!vars, redisVars

(* An object that believes it holds and lets go: the key stays, is extended or is
   deleted, the last two only if it is the object's. *)
LEMMA LetsGo ==
  ASSUME SafeInv, NEW o \in Locks, acquired[o],
         acquired' = [acquired EXCEPT ![o] = FALSE],
         \A q \in Locks \ {o} : token'[q] = token[q],
         \/ UNCHANGED redisVars
         \/ /\ KeyMine(o) /\ ttl' \in ExtendTTLs \cup {TTL, 0}
            /\ owner' = IF ttl' = 0 THEN NoToken ELSE owner
  PROVE  Lease!Next
<1>1. acquired \in [Locks -> BOOLEAN] /\ ttl \in Nat
  BY DEF SafeInv, TypeOK
<1>2. o \in Claims /\ Claims' = Claims \ {o}
  BY <1>1 DEF Claims
<1>3. CASE Holds(o)
  <2>1. Holders = {o} /\ owner \in Tokens /\ ttl > 0
    BY <1>3, HoldsAlone
  <2>2. owner' \in {owner, NoToken}
    BY DEF redisVars
  <2>3. ASSUME NEW q \in Locks, Holds(q)' PROVE FALSE
    <3>1. q # o /\ acquired[q] /\ token'[q] = token[q]
      BY <1>1, <2>3 DEF Holds
    <3>2. token[q] # NoToken
      BY <3>1, ConstantsAssumption DEF SafeInv, HolderHasToken
    <3>3. owner = token[q]
      BY <2>2, <2>3, <3>1, <3>2 DEF Holds
    <3> QED
      BY <2>1, <3>1, <3>3 DEF Holds, Holders
  <2>4. Holders' = {}
    BY <2>3 DEF Holders
  <2>5. CASE ttl' = 0
    BY <1>2, <2>1, <2>4, <2>5 DEF Lease!Next, Lease!Release
  <2>6. CASE ttl' # 0
    <3>1. ttl' \in {ttl} \cup ((ExtendTTLs \cup {TTL}) \ {0})
      BY <2>6 DEF redisVars
    <3> QED
      BY <1>2, <2>1, <2>4, <3>1 DEF Lease!Next, Lease!Desert
  <2> QED
    BY <2>5, <2>6
<1>4. CASE ~Holds(o)
  <2>1. UNCHANGED redisVars
    BY <1>4 DEF Holds, KeyMine
  <2>2. \A q \in Locks : Holds(q)' <=> Holds(q)
    BY <1>1, <1>4, <2>1 DEF Holds, redisVars
  <2>3. Holders' = Holders /\ o \notin Holders
    BY <1>4, <2>2 DEF Holders
  <2> QED
    BY <1>2, <2>1, <2>3 DEF Lease!Next, Lease!Learn, redisVars
<1> QED
  BY <1>3, <1>4

(* resetState of an object that believes it holds. *)
LEMMA ResetLetsGo ==
  ASSUME SafeInv, NEW o \in Locks, acquired[o], NEW t, DropState(o, t),
         \/ UNCHANGED redisVars
         \/ /\ KeyMine(o) /\ ttl' \in ExtendTTLs \cup {TTL, 0}
            /\ owner' = IF ttl' = 0 THEN NoToken ELSE owner
  PROVE  Lease!Next
<1>1. /\ acquired' = [acquired EXCEPT ![o] = FALSE]
      /\ token' = [token EXCEPT ![o] = t]
  BY DEF DropState
<1>2. \A q \in Locks \ {o} : token'[q] = token[q]
  BY <1>1 DEF SafeInv, TypeOK
<1> QED
  BY <1>1, <1>2, LetsGo

(* Extend prolongs the lease, ends it when it is prolonged to 0, or finds that it is lost. *)
LEMMA ExtendOnLease ==
  ASSUME SafeInv, NEW o \in Locks, NEW d \in ExtendTTLs \cup {TTL},
         ExtendOk(o, d) \/ ExtendFailed(o, d)
  PROVE  [Lease!Next]_(Lease!vars)
<1>1. CASE ExtendOk(o, d)
  <2>1. /\ acquired[o] /\ Holds(o) /\ UNCHANGED <<acquired, token>>
        /\ ttl' = d /\ owner' = IF d = 0 THEN NoToken ELSE owner
    BY <1>1 DEF ExtendOk, ExtendScript, KeyMine, Holds, lockVars
  <2>2. Holders = {o} /\ Claims' = Claims
    BY <2>1, HoldsAlone DEF Claims
  <2>3. CASE d = 0
    <3>1. \A q \in Locks : ~Holds(q)'
      BY <2>1, <2>3, ConstantsAssumption DEF Holds, SafeInv, HolderHasToken
    <3>2. Holders' = {}
      BY <3>1 DEF Holders
    <3> QED
      BY <2>1, <2>2, <2>3, <3>2 DEF Lease!Next, Lease!Release
  <2>4. CASE d # 0
    <3>1. \A q \in Locks : Holds(q)' <=> Holds(q)
      BY <2>1, <2>4 DEF Holds
    <3>2. Holders' = Holders
      BY <3>1 DEF Holders
    <3> QED
      BY <2>1, <2>2, <2>4, <3>2 DEF Lease!Next, Lease!Prolong
  <2> QED
    BY <2>3, <2>4
<1>2. CASE ~acquired[o] /\ UNCHANGED <<redisVars, lockVars>>
  BY <1>2, NoLeaseStep DEF lockVars
<1>3. CASE acquired[o] /\ ResetState(o) /\ UNCHANGED redisVars
  BY <1>3, ResetLetsGo DEF ResetState
<1>4. CASE acquired[o] /\ ResetState(o) /\ ExtendScript(o, d)
  BY <1>4, ResetLetsGo DEF ResetState, ExtendScript
<1> QED
  BY <1>1, <1>2, <1>3, <1>4 DEF ExtendFailed

(* IsLocked lets an object learn, or changes nothing. *)
LEMMA IsLockedOnLease ==
  ASSUME SafeInv, NEW o \in Locks, UNCHANGED redisVars,
         IsLockedTrue(o) \/ IsLockedFalse(o) \/ UNCHANGED lockVars
  PROVE  [Lease!Next]_(Lease!vars)
<1>1. CASE UNCHANGED lockVars
  BY <1>1, NoLeaseStep DEF lockVars
<1>2. CASE acquired[o] /\ ResetState(o)
  BY <1>2, ResetLetsGo DEF ResetState
<1> QED
  BY <1>1, <1>2 DEF IsLockedTrue, IsLockedFalse

(* The first half of TryLock drops what is stale, and never takes the lease. *)
LEMMA GetOnLease ==
  ASSUME SafeInv, NEW p \in Procs, TryLockGet(p)
  PROVE  [Lease!Next]_(Lease!vars)
<1> DEFINE o == LockOf[p]
<1>0. o \in Locks /\ UNCHANGED redisVars
  BY ConstantsAssumption DEF TryLockGet
<1>1. CASE UNCHANGED lockVars
  BY <1>0, <1>1, NoLeaseStep DEF lockVars
<1>2. ASSUME NEW t \in Tokens, acquired[o], DropState(o, t) PROVE Lease!Next
  BY <1>0, <1>2, ResetLetsGo
<1>3. ASSUME NEW t \in Tokens, ~acquired[o], token' = [token EXCEPT ![o] = t],
             UNCHANGED acquired
      PROVE  UNCHANGED Lease!vars
  <2>1. \A q \in Locks : acquired[q] => token'[q] = token[q]
    BY <1>3 DEF SafeInv, TypeOK
  <2> QED
    BY <1>0, <1>3, <2>1, NoLeaseStep
<1> QED
  BY <1>1, <1>2, <1>3 DEF TryLockGet

(* SETNX grants the lease, or leaves a key that nobody holds behind a lost answer. *)
LEMMA SetNXOnLease ==
  ASSUME SafeInv, NEW p \in Procs, TryLockSetNX(p)
  PROVE  [Lease!Next]_(Lease!vars)
<1> DEFINE o == LockOf[p]
<1>1. o \in Locks /\ ~acquired[o] /\ token[o] \in Tokens /\ token' = token
  BY ConstantsAssumption DEF TryLockSetNX, SafeInv, InFlightState
<1>2. Active(o)
  BY DEF TryLockSetNX, Active, MuFree
<1>3. \A q \in Locks \ {o} : acquired[q] => token[q] # token[o]
  BY <1>1, <1>2 DEF SafeInv, DistinctTokens, Active
<1>4. owner = NoToken => ttl = 0 /\ Holders = {}
  <2>1. owner = NoToken => ttl = 0
    BY DEF SafeInv, TypeOK, KeyHasTTL
  <2> QED
    BY <2>1, HoldsAlone
<1>5. acquired \in [Locks -> BOOLEAN]
  BY DEF SafeInv, TypeOK
<1>6. CASE /\ KeyAbsent /\ owner' = token[o] /\ ttl' = TTL
           /\ acquired' = [acquired EXCEPT ![o] = TRUE]
  <2>1. \A q \in Locks : Holds(q)' <=> q = o
    BY <1>1, <1>3, <1>5, <1>6 DEF Holds
  <2>2. Holders' = {o}
    BY <1>1, <2>1 DEF Holders
  <2>3. o \notin Claims /\ Claims' = Claims \cup {o}
    BY <1>1, <1>5, <1>6 DEF Claims
  <2> QED
    BY <1>1, <1>4, <1>6, <2>2, <2>3 DEF Lease!Next, Lease!Grant, KeyAbsent
<1>7. CASE KeyAbsent /\ owner' = token[o] /\ ttl' = TTL /\ UNCHANGED acquired
  <2>1. \A q \in Locks : ~Holds(q)'
    BY <1>1, <1>3, <1>7 DEF Holds
  <2>2. Holders' = {} /\ Claims' = Claims
    BY <1>7, <2>1 DEF Holders, Claims
  <2> QED
    BY <1>4, <1>7, <2>2 DEF Lease!Next, Lease!Strand, KeyAbsent
<1>8. CASE UNCHANGED <<redisVars, acquired>>
  BY <1>1, <1>8, NoLeaseStep
<1> QED
  BY <1>6, <1>7, <1>8 DEF TryLockSetNX

(* Unlock gives the lease back, leaves it behind, or finds that it is over. *)
LEMMA UnlockOnLease ==
  ASSUME SafeInv, NEW p \in Procs, Unlock(p)
  PROVE  [Lease!Next]_(Lease!vars)
<1> DEFINE o == LockOf[p]
<1>0. o \in Locks
  BY ConstantsAssumption
<1>1. CASE UNCHANGED <<redisVars, lockVars>>
  BY <1>1, NoLeaseStep DEF lockVars
<1>2. CASE acquired[o] /\ UnlockScript(o) /\ ResetState(o)
  BY <1>0, <1>2, ResetLetsGo DEF ResetState, UnlockScript
<1>3. CASE acquired[o] /\ UNCHANGED redisVars /\ ResetState(o)
  BY <1>0, <1>3, ResetLetsGo DEF ResetState
<1> QED
  BY <1>1, <1>2, <1>3 DEF Unlock

(* A process that dies leaves the key to its TTL. *)
LEMMA CrashOnLease ==
  ASSUME SafeInv, NEW o \in Locks, Crash(o)
  PROVE  [Lease!Next]_(Lease!vars)
<1>1. /\ acquired' = [acquired EXCEPT ![o] = FALSE]
      /\ \A q \in Locks \ {o} : token'[q] = token[q]
      /\ UNCHANGED redisVars
  BY DEF Crash, SafeInv, TypeOK
<1>2. CASE acquired[o]
  BY <1>1, <1>2, LetsGo
<1>3. CASE ~acquired[o]
  <2>1. acquired' = acquired /\ \A q \in Locks : acquired[q] => token'[q] = token[q]
    BY <1>1, <1>3 DEF SafeInv, TypeOK
  <2> QED
    BY <1>1, <2>1, NoLeaseStep
<1> QED
  BY <1>2, <1>3

(* Time runs for the lease while there is a key. *)
LEMMA TickOnLease ==
  ASSUME SafeInv, Tick
  PROVE  [Lease!Next]_(Lease!vars)
<1>1. /\ ttl \in Nat /\ ttl' = (IF ttl > 0 THEN ttl - 1 ELSE 0)
      /\ owner' = IF ttl > 1 THEN owner ELSE NoToken
      /\ UNCHANGED <<acquired, token>>
  BY DEF Tick, Countdown, SafeInv, TypeOK, lockVars
<1>2. Claims' = Claims
  BY <1>1 DEF Claims
<1>3. CASE ttl > 1
  <2>1. \A q \in Locks : Holds(q)' <=> Holds(q)
    BY <1>1, <1>3 DEF Holds
  <2>2. Holders' = Holders
    BY <2>1 DEF Holders
  <2> QED
    BY <1>1, <1>2, <1>3, <2>2 DEF Lease!Next, Lease!Pass
<1>4. CASE ttl = 1
  <2>1. \A q \in Locks : ~Holds(q)'
    BY <1>1, <1>4, ConstantsAssumption DEF Holds, SafeInv, HolderHasToken
  <2>2. Holders' = {}
    BY <2>1 DEF Holders
  <2> QED
    BY <1>1, <1>2, <1>4, <2>2 DEF Lease!Next, Lease!Lapse
<1>5. CASE ttl = 0
  <2>1. owner = NoToken
    BY <1>5, HoldsAlone
  <2>2. UNCHANGED redisVars
    BY <1>1, <1>5, <2>1 DEF redisVars
  <2> QED
    BY <1>1, <2>2, NoLeaseStep
<1> QED
  BY <1>1, <1>3, <1>4, <1>5

(* Every step of the implementation is a step of the lease, or none. *)
LEMMA NextOnLease == SafeInv /\ [Next]_vars => [Lease!Next]_(Lease!vars)
<1> SUFFICES ASSUME SafeInv, [Next]_vars PROVE [Lease!Next]_(Lease!vars)
  OBVIOUS
<1>1. ASSUME NEW p \in Procs, LockCall(p) \/ LockRetry(p) \/ LockGiveUp(p)
      PROVE  UNCHANGED Lease!vars
  BY <1>1, NoLeaseStep DEF LockCall, LockRetry, LockGiveUp, lockVars
<1>2. ASSUME NEW p \in Procs, ExtendCall(p) PROVE [Lease!Next]_(Lease!vars)
  BY <1>2, ExtendOnLease, ConstantsAssumption DEF ExtendCall
<1>3. ASSUME NEW p \in Procs, IsLockedCall(p) PROVE [Lease!Next]_(Lease!vars)
  BY <1>3, IsLockedOnLease, ConstantsAssumption DEF IsLockedCall
<1>4. ASSUME NEW t \in Tokens, Watchdog(t) PROVE [Lease!Next]_(Lease!vars)
  <2>1. CASE WdStart(t) \/ WdTick(t) \/ WdCtxDone(t)
    BY <2>1, NoLeaseStep DEF WdStart, WdTick, WdCtxDone, lockVars
  <2>2. CASE WdStop(t)
    BY <2>2, NoLeaseStep DEF WdStop
  <2>3. CASE WdCheck(t)
    BY <2>3, IsLockedOnLease DEF WdCheck, SafeInv, WatchedLock
  <2>4. CASE WdExtend(t)
    BY <2>4, ExtendOnLease DEF WdExtend, SafeInv, WatchedLock
  <2> QED
    BY <1>4, <2>1, <2>2, <2>3, <2>4 DEF Watchdog
<1>5. ASSUME NEW t \in Tokens, CancelCtx(t) PROVE UNCHANGED Lease!vars
  BY <1>5, NoLeaseStep DEF CancelCtx, lockVars
<1>6. CASE UNCHANGED vars
  BY <1>6, NoLeaseStep DEF vars, redisVars
<1> QED
  BY <1>1, <1>2, <1>3, <1>4, <1>5, <1>6, GetOnLease, SetNXOnLease, UnlockOnLease,
     CrashOnLease, TickOnLease DEF Next

(* Whatever fails and however late goroutines run, the objects of a key are one lease:
   it passes to another object only when the key is free, and an object that has lost
   it changes neither the key nor what other objects have. *)
THEOREM LocksAreALease == Spec => ImplementsLease
<1>1. Init => Lease!Init
  BY DEF Init, Lease!Init, Holders, Holds, Claims
<1> QED
  BY <1>1, Safe, NextOnLease, PTL DEF Spec, ImplementsLease, Lease!Spec

-----------------------------------------------------------------------------
(***************************************************************************)
(* The lease.  While an object holds the lock, the watchdog of that very   *)
(* acquisition is alive, listens to the channel nobody has signalled, and  *)
(* its ticker fires before the key expires.                                *)
(***************************************************************************)
Leased(o) ==
  LET t == token[o] IN
  /\ owner = t
  /\ stopChan[o] = t
  /\ t \notin signalled
  /\ wd[t].lock = o
  /\ wd[t].pc # "none"
  /\ ~wd[t].cancelled
  /\ wd[t].pc = "start" => ttl > Interval
  /\ wd[t].pc # "start" => wd[t].snap = t
  /\ wd[t].pc = "select" => ttl > wd[t].timer

TimersBounded == \A t \in Tokens : wd[t].timer <= Interval

LeaseInv == TimersBounded /\ \A o \in Locks : acquired[o] => Leased(o)

(* Under LeaseInv two objects never hold together. *)
LEMMA OneLeased ==
  ASSUME SafeInv, LeaseInv, NEW a \in Locks, NEW b \in Locks,
         acquired[a], acquired[b]
  PROVE  a = b
  BY DEF SafeInv, DistinctTokens, Active, LeaseInv, Leased

(* Releasing the one object that holds leaves nothing to show. *)
LEMMA ResetLease ==
  ASSUME SafeInv, LeaseInv, NEW o \in Locks, acquired[o], ResetState(o)
  PROVE  \A a \in Locks : ~acquired'[a]
  BY OneLeased DEF SafeInv, TypeOK, ResetState, DropState

(* Extend succeeds for a holder, and does nothing for the others. *)
LEMMA ExtendLease ==
  ASSUME LeaseConditions, SafeInv, LeaseInv, NEW o \in Locks, NEW d \in Nat,
         ExtendOk(o, d) \/ ExtendFailed(o, d)
  PROVE  /\ UNCHANGED lockVars
         /\ \/ ~acquired[o] /\ UNCHANGED redisVars /\ ExtendFailed(o, d)
            \/ acquired[o] /\ ttl' = d /\ (d > 0 => owner' = owner)
<1>1. CASE acquired[o]
  <2>1. KeyMine(o) /\ ~RedisFaults
    BY <1>1 DEF LeaseInv, Leased, KeyMine, LeaseConditions
  <2> QED
    BY <1>1, <2>1 DEF ExtendOk, ExtendFailed, ExtendScript
<1>2. CASE ~acquired[o]
  BY <1>2 DEF ExtendOk, ExtendFailed
<1> QED
  BY <1>1, <1>2

(* A step that changes neither a holding object nor its watchdog, and does
   not shorten the life of the key. *)
LEMMA FrameLease ==
  ASSUME LeaseInv, TimersBounded',
         UNCHANGED owner, ttl' = ttl,
         \A a \in Locks : acquired'[a] =>
            /\ acquired[a]
            /\ token'[a] = token[a] /\ stopChan'[a] = stopChan[a]
            /\ token[a] \notin signalled => token[a] \notin signalled'
            /\ wd'[token[a]] = wd[token[a]]
  PROVE  LeaseInv'
  BY DEF LeaseInv, Leased

(* Caller steps that touch neither object nor Redis keep the lease. *)
LEMMA CallerLease ==
  ASSUME LeaseConditions, SafeInv, LeaseInv, NEW p \in Procs,
         \/ LockCall(p) \/ TryLockGet(p) \/ LockRetry(p) \/ LockGiveUp(p)
         \/ IsLockedCall(p)
  PROVE  LeaseInv'
<1> DEFINE o == LockOf[p]
<1>0. o \in Locks /\ UNCHANGED <<redisVars, wd>>
  BY ConstantsAssumption
  DEF LockCall, TryLockGet, LockRetry, LockGiveUp, IsLockedCall
<1>1. CASE UNCHANGED lockVars
  BY <1>0, <1>1, FrameLease DEF lockVars, redisVars, LeaseInv, TimersBounded
<1>2. CASE /\ ~acquired[o] /\ UNCHANGED <<acquired, stopChan, signalled>>
           /\ \E t \in Tokens : token' = [token EXCEPT ![o] = t]
  BY <1>0, <1>2, FrameLease DEF redisVars, LeaseInv, TimersBounded, SafeInv, TypeOK
<1>3. acquired[o] => KeyMine(o) /\ ~RedisFaults
  BY <1>0 DEF LeaseInv, Leased, KeyMine, LeaseConditions
<1> QED
  BY <1>1, <1>2, <1>3
  DEF LockCall, TryLockGet, LockRetry, LockGiveUp, IsLockedCall,
      IsLockedTrue, IsLockedFalse

(* Unlock keeps every lease but the one it ends. *)
LEMMA UnlockLease ==
  ASSUME LeaseConditions, SafeInv, LeaseInv, NEW p \in Procs, Unlock(p)
  PROVE  LeaseInv'
<1> DEFINE o == LockOf[p]
<1>0. o \in Locks /\ UNCHANGED wd
  BY ConstantsAssumption DEF Unlock
<1>1. CASE UNCHANGED <<redisVars, lockVars>>
  BY <1>0, <1>1, FrameLease DEF lockVars, redisVars, LeaseInv, TimersBounded
<1>2. CASE acquired[o] /\ ResetState(o)
  BY <1>0, <1>2, ResetLease DEF LeaseInv, TimersBounded
<1> QED
  BY <1>1, <1>2 DEF Unlock

(* The acquisition: nobody holds, and the new watchdog starts in time. *)
LEMMA SetNXLease ==
  ASSUME LeaseConditions, SafeInv, LeaseInv, NEW p \in Procs, TryLockSetNX(p)
  PROVE  LeaseInv'
<1> DEFINE o == LockOf[p]
           t == token[o]
<1>0. o \in Locks /\ t \in Tokens /\ UNCHANGED token
  BY ConstantsAssumption DEF TryLockSetNX, SafeInv, InFlightState
<1>1. CASE UNCHANGED <<redisVars, acquired, stopChan, signalled, wd>>
  BY <1>0, <1>1, FrameLease DEF redisVars, LeaseInv, TimersBounded
<1>2. CASE /\ KeyAbsent
           /\ owner' = t /\ ttl' = TTL
           /\ acquired' = [acquired EXCEPT ![o] = TRUE]
           /\ SpawnWatchdog(o, t)
  <2>1. \A a \in Locks : ~acquired[a]
    BY <1>2, ConstantsAssumption
    DEF KeyAbsent, LeaseInv, Leased, SafeInv, HolderHasToken
  <2>2. \A a \in Locks : acquired'[a] => a = o
    BY <1>0, <1>2, <2>1 DEF SafeInv, TypeOK
  <2>3. wd' = [wd EXCEPT ![t] = [pc |-> "start", lock |-> o, snap |-> NoToken,
                                 timer |-> 0, cancelled |-> UseTimeout]]
    BY <1>2 DEF SpawnWatchdog
  <2>4. TimersBounded'
    BY <1>0, <2>3, ConstantsAssumption DEF LeaseInv, TimersBounded, SafeInv, TypeOK
  <2>5. stopChan'[o] = t /\ t \notin signalled'
    BY <1>0, <1>2 DEF SpawnWatchdog, SafeInv, TypeOK
  <2>6. Leased(o)'
    BY <1>0, <1>2, <2>3, <2>5 DEF Leased, SafeInv, TypeOK, LeaseConditions
  <2> QED
    BY <2>2, <2>4, <2>6 DEF LeaseInv
<1> QED
  BY <1>1, <1>2 DEF TryLockSetNX, LeaseConditions, KeyAbsent

(* A caller's Extend keeps every lease. *)
LEMMA ExtendCallLease ==
  ASSUME LeaseConditions, SafeInv, LeaseInv, NEW p \in Procs, ExtendCall(p)
  PROVE  LeaseInv'
<1> DEFINE o == LockOf[p]
<1>0. o \in Locks /\ UNCHANGED <<pc, wd>>
  BY ConstantsAssumption DEF ExtendCall
<1>1. PICK d \in ExtendTTLs : ExtendOk(o, d) \/ ExtendFailed(o, d)
  BY DEF ExtendCall
<1>2. d \in Nat /\ d > Interval /\ d > 0 /\ Interval \in Nat
  BY ConstantsAssumption DEF LeaseConditions
<1>3. UNCHANGED lockVars /\ (UNCHANGED redisVars \/ (ttl' = d /\ owner' = owner))
  BY <1>0, <1>1, <1>2, ExtendLease
<1>4. CASE UNCHANGED redisVars
  BY <1>0, <1>3, <1>4, FrameLease DEF lockVars, redisVars, LeaseInv, TimersBounded
<1>5. CASE ttl' = d /\ owner' = owner
  <2>1. \A t \in Tokens : wd[t].timer \in Nat /\ wd[t].timer <= Interval
    BY DEF SafeInv, TypeOK, WatchdogState, LeaseInv, TimersBounded
  <2>2. \A t \in Tokens : d > wd[t].timer
    BY <1>2, <2>1
  <2> QED
    BY <1>0, <1>2, <1>3, <1>5, <2>2
    DEF lockVars, LeaseInv, Leased, TimersBounded, SafeInv, HolderHasToken
<1> QED
  BY <1>3, <1>4, <1>5

(* A crash ends the leases of its object and keeps the others. *)
LEMMA CrashLease ==
  ASSUME LeaseConditions, SafeInv, LeaseInv, NEW o \in Locks, Crash(o)
  PROVE  LeaseInv'
<1>1. /\ acquired' = [acquired EXCEPT ![o] = FALSE]
      /\ token' = [token EXCEPT ![o] = NoToken]
      /\ stopChan' = [stopChan EXCEPT ![o] = NoToken]
      /\ wd' = [t \in Tokens |-> IF wd[t].lock = o THEN Ended ELSE wd[t]]
      /\ UNCHANGED <<redisVars, signalled>>
  BY DEF Crash
<1>2. TimersBounded'
  BY <1>1, ConstantsAssumption DEF LeaseInv, TimersBounded, Ended
<1>3. \A a \in Locks : acquired'[a] => a # o /\ acquired[a]
  BY <1>1 DEF SafeInv, TypeOK
<1>4. \A a \in Locks : acquired[a] /\ a # o => wd'[token[a]] = wd[token[a]]
  BY <1>1 DEF LeaseInv, Leased, SafeInv, HolderHasToken
<1> QED
  BY <1>1, <1>2, <1>3, <1>4, FrameLease DEF SafeInv, TypeOK, redisVars

(* A tick keeps every lease: the ticker fires before the TTL runs out. *)
LEMMA TickLease ==
  ASSUME LeaseConditions, SafeInv, LeaseInv, Tick
  PROVE  LeaseInv'
<1>1. /\ Quiet
      /\ ttl' = Countdown(ttl)
      /\ owner' = IF ttl > 1 THEN owner ELSE NoToken
      /\ wd' = [t \in Tokens |-> [wd[t] EXCEPT !.timer = Countdown(@)]]
      /\ UNCHANGED lockVars
  BY DEF Tick, LeaseConditions
<1>2. ASSUME NEW t \in Tokens
      PROVE  /\ wd'[t].pc = wd[t].pc /\ wd'[t].lock = wd[t].lock
             /\ wd'[t].snap = wd[t].snap /\ wd'[t].cancelled = wd[t].cancelled
             /\ wd'[t].timer = Countdown(wd[t].timer)
             /\ wd[t].timer \in Nat
  BY <1>1 DEF SafeInv, TypeOK, WatchdogState
<1>3. TimersBounded'
  BY <1>2, ConstantsAssumption DEF LeaseInv, TimersBounded, Countdown
<1>4. ASSUME NEW o \in Locks, acquired'[o]
      PROVE  Leased(o)'
  <2> DEFINE t == token[o]
  <2>1. acquired[o] /\ t \in Tokens /\ Leased(o) /\ token' = token
    BY <1>1, <1>4 DEF lockVars, LeaseInv, SafeInv, HolderHasToken
  <2>2. wd[t].pc = "select" /\ wd[t].timer > 0 /\ ttl > wd[t].timer /\ ttl \in Nat
    BY <1>1, <2>1 DEF Quiet, Leased, SafeInv, TypeOK
  <2>3. /\ ttl > 1 /\ owner' = owner
        /\ ttl' = ttl - 1 /\ wd'[t].timer = wd[t].timer - 1
    BY <1>1, <1>2, <2>1, <2>2 DEF Countdown
  <2>4. ttl' > wd'[t].timer
    BY <1>2, <2>1, <2>2, <2>3
  <2> QED
    BY <1>1, <1>2, <2>1, <2>2, <2>3, <2>4 DEF Leased, lockVars
<1> QED
  BY <1>3, <1>4 DEF LeaseInv

(* The steps of a watchdog keep every lease. *)
LEMMA WatchdogLease ==
  ASSUME LeaseConditions, SafeInv, LeaseInv, NEW u \in Tokens, Watchdog(u)
  PROVE  LeaseInv'
<1> DEFINE o == wd[u].lock
<1>0. o \in Locks /\ wd \in [Tokens -> WatchdogState]
  BY DEF Watchdog, WdStart, WdTick, TickerFired, WdCheck, WdExtend, WdStop,
         WdCtxDone, SafeInv, TypeOK, WatchedLock
<1>1. Period = Interval /\ Interval \in Nat /\ Interval < TTL /\ TTL \in Nat
  BY ConstantsAssumption DEF Period, LeaseConditions
<1>2. \A a \in Locks : acquired[a] => token[a] \in Tokens /\ Leased(a)
  BY DEF LeaseInv, SafeInv, HolderHasToken
<1>3. ASSUME WdExit(u)
      PROVE  TimersBounded' /\ \A t \in Tokens \ {u} : wd'[t] = wd[t]
  BY <1>0, <1>1, <1>3 DEF WdExit, Ended, LeaseInv, TimersBounded
<1>4. CASE WdStart(u)
  <2>1. UNCHANGED <<redisVars, lockVars>>
    BY <1>4 DEF WdStart
  <2>2. CASE stopChan[o] = NoToken
    <3>1. \A a \in Locks : acquired[a] => token[a] # u
      BY <1>2, <2>2, ConstantsAssumption DEF Leased
    <3> QED
      BY <1>2, <1>3, <1>4, <2>1, <2>2, <3>1, FrameLease
      DEF WdStart, lockVars, redisVars
  <2>3. CASE stopChan[o] # NoToken
    <3>1. wd' = [wd EXCEPT ![u] = [wd[u] EXCEPT !.pc = "select",
                                     !.snap = stopChan[o], !.timer = Period]]
      BY <1>4, <2>3 DEF WdStart
    <3>2. /\ wd'[u].pc = "select" /\ wd'[u].snap = stopChan[o]
          /\ wd'[u].timer = Interval /\ wd'[u].lock = o
          /\ wd'[u].cancelled = wd[u].cancelled
          /\ \A t \in Tokens \ {u} : wd'[t] = wd[t]
      BY <1>0, <1>1, <3>1 DEF WatchdogState
    <3>3. TimersBounded'
      BY <1>1, <3>2 DEF LeaseInv, TimersBounded
    <3>4. ASSUME NEW a \in Locks, acquired[a] PROVE Leased(a)'
      <4>1. CASE token[a] # u
        BY <1>2, <2>1, <3>2, <3>4, <4>1 DEF Leased, lockVars, redisVars
      <4>2. CASE token[a] = u
        BY <1>2, <1>4, <2>1, <3>2, <3>4, <4>2 DEF Leased, lockVars, redisVars, WdStart
      <4> QED
        BY <4>1, <4>2
    <3> QED
      BY <2>1, <3>3, <3>4 DEF LeaseInv, lockVars
  <2> QED
    BY <2>2, <2>3
<1>5. CASE WdTick(u)
  <2>1. UNCHANGED <<redisVars, lockVars>>
    BY <1>5 DEF WdTick
  <2>2. CASE ~acquired[o]
    <3>1. \A a \in Locks : acquired[a] => token[a] # u
      BY <1>2, <2>2 DEF Leased
    <3> QED
      BY <1>2, <1>3, <1>5, <2>1, <2>2, <3>1, FrameLease
      DEF WdTick, lockVars, redisVars
  <2>3. CASE acquired[o]
    <3>1. wd' = [wd EXCEPT ![u] = [wd[u] EXCEPT !.pc = "check", !.timer = Period]]
      BY <1>5, <2>3 DEF WdTick
    <3>2. /\ wd'[u].pc = "check" /\ wd'[u].snap = wd[u].snap
          /\ wd'[u].timer = Interval /\ wd'[u].lock = o
          /\ wd'[u].cancelled = wd[u].cancelled
          /\ \A t \in Tokens \ {u} : wd'[t] = wd[t]
      BY <1>0, <1>1, <3>1 DEF WatchdogState
    <3>3. TimersBounded'
      BY <1>1, <3>2 DEF LeaseInv, TimersBounded
    <3>4. ASSUME NEW a \in Locks, acquired[a] PROVE Leased(a)'
      <4>1. CASE token[a] # u
        BY <1>2, <2>1, <3>2, <3>4, <4>1 DEF Leased, lockVars, redisVars
      <4>2. CASE token[a] = u
        BY <1>2, <1>5, <2>1, <3>2, <3>4, <4>2
        DEF Leased, lockVars, redisVars, WdTick, TickerFired
      <4> QED
        BY <4>1, <4>2
    <3> QED
      BY <2>1, <3>3, <3>4 DEF LeaseInv, lockVars
  <2> QED
    BY <2>2, <2>3
<1>6. ASSUME NEW label \in WdStates \ {"none", "start", "select"}, WdGoto(u, label),
             wd[u].pc \in {"check", "extend"}, UNCHANGED <<redisVars, lockVars>>
      PROVE  LeaseInv'
  <2>1. /\ wd'[u].pc = label /\ wd'[u].snap = wd[u].snap
        /\ wd'[u].timer = wd[u].timer /\ wd'[u].lock = o
        /\ wd'[u].cancelled = wd[u].cancelled
        /\ \A t \in Tokens \ {u} : wd'[t] = wd[t]
    BY <1>0, <1>6 DEF WdGoto, WatchdogState
  <2>2. TimersBounded'
    BY <2>1 DEF LeaseInv, TimersBounded
  <2> QED
    BY <1>2, <1>6, <2>1, <2>2 DEF LeaseInv, Leased, lockVars, redisVars, WdStates
<1>7. CASE WdCheck(u)
  <2>1. CASE acquired[o]
    <3>1. KeyMine(o) /\ ~RedisFaults
      BY <1>0, <1>2, <2>1 DEF Leased, KeyMine, LeaseConditions
    <3> QED
      BY <1>6, <1>7, <2>1, <3>1 DEF WdCheck, IsLockedTrue, IsLockedFalse, WdStates
  <2>2. CASE ~acquired[o]
    <3>1. \A a \in Locks : acquired[a] => token[a] # u
      BY <1>2, <2>2 DEF Leased
    <3>2. WdExit(u) /\ UNCHANGED <<redisVars, lockVars>>
      BY <1>7, <2>2 DEF WdCheck, IsLockedTrue, IsLockedFalse
    <3> QED
      BY <1>2, <1>3, <3>1, <3>2, FrameLease DEF lockVars, redisVars
  <2> QED
    BY <2>1, <2>2
<1>8. CASE WdExtend(u)
  <2>0. ExtendOk(o, TTL) \/ ExtendFailed(o, TTL)
    BY <1>8 DEF WdExtend
  <2>1. UNCHANGED lockVars
    BY <1>0, <1>1, <2>0, ExtendLease
  <2>2. CASE acquired[o]
    <3>1. ttl' = TTL /\ owner' = owner
      BY <1>0, <1>1, <2>0, <2>2, ExtendLease
    <3>2. ExtendOk(o, TTL) /\ WdGoto(u, "select")
      BY <1>0, <1>2, <1>8, <2>2
      DEF WdExtend, ExtendFailed, Leased, KeyMine, LeaseConditions
    <3>3. /\ wd'[u].pc = "select" /\ wd'[u].snap = wd[u].snap
          /\ wd'[u].timer = wd[u].timer /\ wd'[u].lock = o
          /\ wd'[u].cancelled = wd[u].cancelled
          /\ \A t \in Tokens \ {u} : wd'[t] = wd[t]
      BY <1>0, <3>2 DEF WdGoto, WatchdogState
    <3>4. TimersBounded'
      BY <3>3 DEF LeaseInv, TimersBounded
    <3>5. \A t \in Tokens : TTL > wd'[t].timer
      BY <1>0, <1>1, <3>3 DEF LeaseInv, TimersBounded, WatchdogState
    <3>6. ASSUME NEW a \in Locks, acquired[a] PROVE Leased(a)'
      BY <1>1, <1>2, <1>8, <2>1, <3>1, <3>3, <3>5, <3>6 DEF Leased, lockVars, WdExtend
    <3> QED
      BY <2>1, <3>4, <3>6 DEF LeaseInv, lockVars
  <2>3. CASE ~acquired[o]
    <3>1. \A a \in Locks : acquired[a] => token[a] # u
      BY <1>2, <2>3 DEF Leased
    <3>2. WdExit(u) /\ UNCHANGED redisVars
      BY <1>8, <2>3 DEF WdExtend, ExtendOk, ExtendFailed
    <3> QED
      BY <1>2, <1>3, <2>1, <3>1, <3>2, FrameLease DEF lockVars, redisVars
  <2> QED
    BY <2>2, <2>3
<1>9. CASE WdStop(u) \/ WdCtxDone(u)
  <2>1. \A a \in Locks : acquired[a] => token[a] # u
    BY <1>2, <1>9 DEF WdStop, WdCtxDone, Leased
  <2>2. /\ WdExit(u) /\ UNCHANGED <<redisVars, acquired, token, stopChan>>
        /\ signalled' \subseteq signalled
    BY <1>9 DEF WdStop, WdCtxDone, lockVars
  <2> QED
    BY <1>2, <1>3, <2>1, <2>2, FrameLease DEF redisVars
<1> QED
  BY <1>4, <1>5, <1>7, <1>8, <1>9 DEF Watchdog

(* The lease invariant is inductive together with the safety invariant. *)
LEMMA NextLease ==
  ASSUME LeaseConditions
  PROVE  SafeInv /\ LeaseInv /\ [Next]_vars => LeaseInv'
<1> SUFFICES ASSUME SafeInv, LeaseInv, [Next]_vars PROVE LeaseInv'
  OBVIOUS
<1>1. CASE UNCHANGED vars
  BY <1>1, FrameLease DEF vars, LeaseInv, TimersBounded
<1>2. \A t \in Tokens : ~CancelCtx(t)
  BY DEF CancelCtx, LeaseConditions
<1> QED
  BY <1>1, <1>2, CallerLease, UnlockLease, SetNXLease, ExtendCallLease, CrashLease,
     TickLease, WatchdogLease DEF Next

(* Nobody has a lease initially. *)
LEMMA InitLease == Init => LeaseInv
  BY ConstantsAssumption DEF Init, LeaseInv, TimersBounded, Ended

(* With the watchdog on, prompt goroutines, a healthy Redis, a context that is
   not cancelled and an interval below the TTL, a lock object never believes
   it holds a lock that Redis has given up. *)
THEOREM LeaseIsKept ==
  ASSUME LeaseConditions
  PROVE  Spec => []LeaseKept
<1>1. LeaseInv => LeaseKept
  BY DEF LeaseInv, Leased, LeaseKept
<1> QED
  BY <1>1, InitLease, NextLease, Safe, PTL DEF Spec

(* A goroutine between Lock and Unlock uses an object that holds. *)
HeldInv == \A p \in Procs : pc[p] = "held" => acquired[LockOf[p]]

(* A goroutine that has been given the lock uses an object that has it. *)
LEMMA NextHeld ==
  ASSUME LeaseConditions, OwnObjects
  PROVE  SafeInv /\ LeaseInv /\ HeldInv /\ [Next]_vars => HeldInv'
<1> SUFFICES ASSUME SafeInv, LeaseInv, HeldInv, [Next]_vars PROVE HeldInv'
  OBVIOUS
<1>0. LockOf \in [Procs -> Locks] /\ ~RedisFaults
  BY ConstantsAssumption DEF LeaseConditions
<1>1. \A o \in Locks : acquired[o] => KeyMine(o)
  BY DEF LeaseInv, Leased, KeyMine
<1>2. CASE UNCHANGED <<pc, acquired>>
  BY <1>2 DEF HeldInv
<1>3. ASSUME NEW p \in Procs, LockCall(p) \/ LockRetry(p) \/ LockGiveUp(p)
      PROVE  HeldInv'
  BY <1>3 DEF LockCall, LockRetry, LockGiveUp, Goto, lockVars, HeldInv, SafeInv, TypeOK
<1>4. ASSUME NEW p \in Procs, TryLockGet(p) PROVE HeldInv'
  BY <1>0, <1>1, <1>4
  DEF TryLockGet, Goto, lockVars, HeldInv, SafeInv, TypeOK
<1>5. ASSUME NEW p \in Procs, TryLockSetNX(p) PROVE HeldInv'
  BY <1>0, <1>5 DEF TryLockSetNX, Goto, HeldInv, SafeInv, TypeOK
<1>6. ASSUME NEW p \in Procs, Unlock(p) PROVE HeldInv'
  BY <1>0, <1>6
  DEF Unlock, Goto, ResetState, DropState, lockVars, HeldInv, OwnObjects, SafeInv, TypeOK
<1>7. ASSUME NEW p \in Procs, ExtendCall(p) PROVE UNCHANGED <<pc, acquired>>
  BY <1>0, <1>7, ExtendLease, ConstantsAssumption DEF ExtendCall, lockVars
<1>8. ASSUME NEW p \in Procs, IsLockedCall(p) PROVE UNCHANGED <<pc, acquired>>
  BY <1>0, <1>1, <1>8 DEF IsLockedCall, IsLockedTrue, IsLockedFalse, lockVars
<1>9. ASSUME NEW t \in Tokens, Watchdog(t) PROVE UNCHANGED <<pc, acquired>>
  <2>1. CASE WdExtend(t)
    BY <1>0, <2>1, ExtendLease, ConstantsAssumption
    DEF WdExtend, SafeInv, WatchedLock, lockVars
  <2>2. CASE WdCheck(t)
    BY <1>0, <1>1, <2>2
    DEF WdCheck, IsLockedTrue, IsLockedFalse, lockVars, SafeInv, WatchedLock
  <2>3. CASE WdStart(t) \/ WdTick(t) \/ WdStop(t) \/ WdCtxDone(t)
    BY <2>3 DEF WdStart, WdTick, WdStop, WdCtxDone, lockVars
  <2> QED
    BY <1>9, <2>1, <2>2, <2>3 DEF Watchdog
<1>10. ASSUME NEW o \in Locks, Crash(o) PROVE HeldInv'
  BY <1>0, <1>10 DEF Crash, HeldInv, SafeInv, TypeOK
<1>11. ASSUME Tick \/ (\E t \in Tokens : CancelCtx(t)) PROVE UNCHANGED <<pc, acquired>>
  BY <1>11 DEF Tick, CancelCtx, lockVars
<1> QED
  BY <1>2, <1>3, <1>4, <1>5, <1>6, <1>7, <1>8, <1>9, <1>10, <1>11 DEF Next, vars

(* Under the conditions of the lease and with an object per goroutine, no two
   goroutines are between Lock and Unlock at the same time. *)
THEOREM GoroutinesExcludeEachOther ==
  ASSUME LeaseConditions, OwnObjects
  PROVE  Spec => []MutualExclusion
<1>1. Init => HeldInv
  BY DEF Init, HeldInv
<1>2. SafeInv /\ LeaseInv /\ HeldInv => MutualExclusion
  BY OneLeased, ConstantsAssumption DEF HeldInv, MutualExclusion, OwnObjects
<1> QED
  BY <1>1, <1>2, InitLease, NextLease, NextHeld, Safe, PTL DEF Spec
=============================================================================
