----------------------------- MODULE LoadsProofs -----------------------------
(* Proofs about the ways to compute a missing value once, for any callers, instances and
   numbers of calls and mishaps. *)
EXTENDS Loads, TLAPS

(* A step is one of the component that is used, and leaves the others alone. *)
LEMMA Steps ==
  ASSUME [Next]_vars
  PROVE  [C!Next]_(C!vars) /\ [W!Next]_(W!vars) /\ [L!Next]_(L!vars)
  BY DEF Next, CtxCache, Wrapper, Other, vars, cvars, wvars, lvars, C!vars, W!vars, L!vars,
         L!conf, L!locks

-----------------------------------------------------------------------------
(* CtxCache: the calls, and the map's entry. *)
CtxTyped ==
  /\ flight \in Procs \cup {C!Nobody}
  /\ call \in [Procs -> [pc : {"idle", "get", "do", "load", "wait", "set"},
                         leader : Procs \cup {C!Nobody}, result : C!Results \cup {"none"}]]

(* The caller that loads is the one whose entry is in the map.  (The converse fails after
   a panic, which leaves the entry of a caller that is gone.) *)
LoaderInMap == \A p \in Procs : C!At(p, "load") => flight = p
CtxInv == CtxTyped /\ LoaderInMap

(* A step of one caller keeps the types of all: TypeOK's part for call and flight. *)
LEMMA CtxTypedStep == CtxTyped /\ [C!Next]_(C!vars) => CtxTyped'
<1> SUFFICES ASSUME CtxTyped, [C!Next]_(C!vars) PROVE CtxTyped'
  OBVIOUS
<1> USE DEF CtxTyped
<1>1. CASE C!Remove
  BY <1>1 DEF C!Remove
<1>2. ASSUME NEW p \in Procs, C!Begin(p) PROVE CtxTyped'
  BY <1>2 DEF C!Begin
<1>3. ASSUME NEW p \in Procs, C!Get(p) PROVE CtxTyped'
  BY <1>3 DEF C!Get, C!Return, C!Idle
<1>4. ASSUME NEW p \in Procs, C!Do(p) PROVE CtxTyped'
  <2>1. CASE flight # C!Nobody
    BY <1>4, <2>1 DEF C!Do
  <2>2. CASE flight = C!Nobody
    BY <1>4, <2>2 DEF C!Do
  <2> QED BY <2>1, <2>2
<1>5. ASSUME NEW p \in Procs, C!LoadEnd(p) PROVE CtxTyped'
  <2> DEFINE Calls == [pc : {"idle", "get", "do", "load", "wait", "set"},
                       leader : Procs \cup {C!Nobody}, result : C!Results \cup {"none"}]
  <2>1. PICK r \in C!Results : C!Complete(p, r)
    BY <1>5 DEF C!LoadEnd
  <2>2. ASSUME NEW q \in Procs
        PROVE  /\ [call[q] EXCEPT !.pc = "set", !.result = r] \in Calls
               /\ [call[q] EXCEPT !.result = r] \in Calls
               /\ call[q] \in Calls
    OBVIOUS
  <2>3. call' \in [Procs -> Calls]
    <3> HIDE DEF Calls
    <3> QED BY <2>1, <2>2 DEF C!Complete
  <2>4. flight' = C!Nobody
    BY <1>5 DEF C!LoadEnd
  <2> QED BY <2>3, <2>4
<1>6. ASSUME NEW p \in Procs, C!LoadPanic(p) PROVE CtxTyped'
  BY <1>6 DEF C!LoadPanic, C!Return, C!Idle
<1>7. ASSUME NEW p \in Procs, C!Wait(p) PROVE CtxTyped'
  BY <1>7 DEF C!Wait, C!Return, C!Idle
<1>8. ASSUME NEW p \in Procs, C!Set(p) PROVE CtxTyped'
  BY <1>8 DEF C!Set, C!Return, C!Idle
<1>9. ASSUME NEW p \in Procs, C!CtxEnds(p) PROVE CtxTyped'
  BY <1>9 DEF C!CtxEnds
<1>10. CASE UNCHANGED C!vars
  BY <1>10 DEF C!vars
<1> HIDE DEF CtxTyped
<1> QED
  BY <1>1, <1>2, <1>3, <1>4, <1>5, <1>6, <1>7, <1>8, <1>9, <1>10 DEF C!Next, C!Step

(* A caller comes to load only when the map has no entry, and the entry goes only with
   its load; a loader that panics leaves it there (flightGroup.Do). *)
LEMMA LoaderStep ==
  ASSUME C!Nobody \notin Procs, CtxInv, [C!Next]_(C!vars)
  PROVE  LoaderInMap'
<1> USE DEF C!At, CtxInv, CtxTyped, LoaderInMap
<1>1. CASE C!Remove
  BY <1>1 DEF C!Remove
<1>2. ASSUME NEW p \in Procs, C!Begin(p) PROVE LoaderInMap'
  BY <1>2 DEF C!Begin
<1>3. ASSUME NEW p \in Procs, C!Get(p) PROVE LoaderInMap'
  BY <1>3 DEF C!Get, C!Return, C!Idle
<1>4. ASSUME NEW p \in Procs, C!Do(p) PROVE LoaderInMap'
  <2>1. CASE flight # C!Nobody
    BY <1>4, <2>1 DEF C!Do
  <2>2. CASE flight = C!Nobody
    <3>1. flight' = p /\ call' = [call EXCEPT ![p].pc = "load"]
      BY <1>4, <2>2 DEF C!Do
    <3>2. \A q \in Procs : call[q].pc # "load"
      BY <2>2
    <3> QED BY <3>1, <3>2
  <2> QED BY <2>1, <2>2
<1>5. ASSUME NEW p \in Procs, C!LoadEnd(p) PROVE LoaderInMap'
  <2>1. \A q \in Procs : q # p => call[q].pc # "load"
    BY <1>5 DEF C!LoadEnd
  <2>2. \A q \in Procs : call'[q].pc = IF q = p THEN "set" ELSE call[q].pc
    <3>1. PICK r \in C!Results : C!Complete(p, r)
      BY <1>5 DEF C!LoadEnd
    <3>2. ASSUME NEW q \in Procs PROVE call'[q].pc = IF q = p THEN "set" ELSE call[q].pc
      <4>1. CASE q = p
        BY <3>1, <4>1 DEF C!Complete
      <4>2. CASE q # p
        BY <3>1, <4>2 DEF C!Complete
      <4> QED BY <4>1, <4>2
    <3> QED BY <3>2
  <2> QED BY <2>1, <2>2
<1>6. ASSUME NEW p \in Procs, C!LoadPanic(p) PROVE LoaderInMap'
  BY <1>6 DEF C!LoadPanic, C!Return, C!Idle
<1>7. ASSUME NEW p \in Procs, C!Wait(p) PROVE LoaderInMap'
  BY <1>7 DEF C!Wait, C!Return, C!Idle
<1>8. ASSUME NEW p \in Procs, C!Set(p) PROVE LoaderInMap'
  BY <1>8 DEF C!Set, C!Return, C!Idle
<1>9. ASSUME NEW p \in Procs, C!CtxEnds(p) PROVE LoaderInMap'
  BY <1>9 DEF C!CtxEnds
<1>10. CASE UNCHANGED C!vars
  BY <1>10 DEF C!vars
<1> HIDE DEF C!At, CtxInv, CtxTyped, LoaderInMap
<1> QED
  BY <1>1, <1>2, <1>3, <1>4, <1>5, <1>6, <1>7, <1>8, <1>9, <1>10 DEF C!Next, C!Step

-----------------------------------------------------------------------------
(* CacheWrapper: who has the lock. *)
WrapperCalls ==
  [pc : {"idle", "get", "refresh", "lock", "check", "poll", "load", "reget", "del", "set", "unlock"},
   value : Nat, forced : BOOLEAN, async : BOOLEAN, locked : BOOLEAN]
WrapperTyped == row \in Nat /\ wcall \in [Users -> WrapperCalls]

(* Who has been given the lock has it, until a lease is lost. *)
LockedHolds == ~wlapsed => \A p \in Users : wcall[p].locked => holder = p

LEMMA BeginsWith ==
  ASSUME NEW p \in Users, W!Begin(p)
  PROVE  \E l \in {"refresh", "get"}, forced \in BOOLEAN, async \in BOOLEAN :
           wcall' = [wcall EXCEPT ![p].pc = l, ![p].forced = forced, ![p].async = async]
<1>1. PICK forced \in BOOLEAN, async \in BOOLEAN :
        wcall' = [wcall EXCEPT ![p].pc = IF forced THEN "refresh" ELSE "get",
                               ![p].forced = forced, ![p].async = async]
  BY DEF W!Begin
<1>2. CASE forced
  BY <1>1, <1>2
<1>3. CASE ~forced
  BY <1>1, <1>3
<1> QED BY <1>2, <1>3

LEMMA WrapperTypedStep ==
  ASSUME MaxVersion \in Nat, WrapperTyped, [W!Next]_(W!vars)
  PROVE  WrapperTyped'
<1> USE DEF WrapperTyped, WrapperCalls, W!Goto
<1>0. W!Idle \in WrapperCalls
  BY DEF W!Idle, W!Missing
<1>1. ASSUME NEW p \in Users, W!Leave(p), row' = row PROVE WrapperTyped'
  BY <1>0, <1>1 DEF W!Leave
<1>2. ASSUME NEW p \in Users, NEW v \in Nat, W!Store(p, v), row' = row PROVE WrapperTyped'
  <2>1. CASE wcall[p].async
    BY <1>1, <1>2, <2>1 DEF W!Store
  <2>2. CASE ~wcall[p].async
    BY <1>2, <2>2 DEF W!Store
  <2> QED BY <2>1, <2>2
<1>3. ASSUME NEW p \in Users, W!Begin(p) PROVE WrapperTyped'
  <2>1. PICK l \in {"refresh", "get"}, forced \in BOOLEAN, async \in BOOLEAN :
          wcall' = [wcall EXCEPT ![p].pc = l, ![p].forced = forced, ![p].async = async]
    BY <1>3, BeginsWith
  <2>2. row' = row
    BY <1>3 DEF W!Begin
  <2>3. [wcall[p] EXCEPT !.pc = l, !.forced = forced, !.async = async] \in WrapperCalls
    OBVIOUS
  <2>4. wcall' = [wcall EXCEPT ![p] = [wcall[p] EXCEPT !.pc = l, !.forced = forced, !.async = async]]
    BY <2>1
  <2>5. wcall' \in [Users -> WrapperCalls]
    <3> HIDE DEF WrapperCalls
    <3> QED BY <2>3, <2>4
  <2> QED BY <2>2, <2>5
<1>4. ASSUME NEW p \in Users, W!Get(p) PROVE WrapperTyped'
  BY <1>0, <1>4 DEF W!Get, W!Miss
<1>5. ASSUME NEW p \in Users, W!Refresh(p) PROVE WrapperTyped'
  BY <1>5 DEF W!Refresh, W!Miss
<1>6. ASSUME NEW p \in Users, W!Lock(p) PROVE WrapperTyped'
  BY <1>6 DEF W!Lock
<1>7. ASSUME NEW p \in Users, W!Check(p) PROVE WrapperTyped'
  BY <1>7 DEF W!Check
<1>8. ASSUME NEW p \in Users, W!PollCache(p) PROVE WrapperTyped'
  BY <1>0, <1>8 DEF W!PollCache
<1>9. ASSUME NEW p \in Users, W!Load(p) PROVE WrapperTyped'
  <2>1. row \in Nat /\ row' = row
    BY <1>9 DEF W!Load
  <2>2. W!Store(p, row) \/ W!Leave(p) \/ W!Goto(p, "reget")
    BY <1>9 DEF W!Load
  <2> QED BY <1>1, <1>2, <2>1, <2>2
<1>10. ASSUME NEW p \in Users, W!Reget(p) PROVE WrapperTyped'
  <2>1. W!Default \in Nat /\ row' = row
    BY <1>10 DEF W!Reget, W!Default
  <2>2. W!Store(p, W!Default) \/ W!Leave(p)
    BY <1>10 DEF W!Reget
  <2> QED BY <1>1, <1>2, <2>1, <2>2
<1>11. ASSUME NEW p \in Users, W!UpdateDel(p) PROVE WrapperTyped'
  BY <1>11 DEF W!UpdateDel
<1>12. ASSUME NEW p \in Users, W!UpdateSet(p) PROVE WrapperTyped'
  BY <1>1, <1>12 DEF W!UpdateSet
<1>13. ASSUME NEW p \in Users, W!Unlock(p) PROVE WrapperTyped'
  BY <1>0, <1>13 DEF W!Unlock
<1>14. CASE W!Background \/ W!LoseLease \/ W!ExpireGone \/ W!Expire \/ UNCHANGED W!vars
  BY <1>14 DEF W!Background, W!AsyncDel, W!AsyncSet, W!DelayedDel, W!DelayedSet, W!LoseLease,
               W!ExpireGone, W!Expire, W!vars
<1>15. CASE W!WriteRow
  BY <1>15 DEF W!WriteRow
<1> HIDE DEF WrapperTyped, WrapperCalls, W!Goto
<1> QED
  BY <1>3, <1>4, <1>5, <1>6, <1>7, <1>8, <1>9, <1>10, <1>11, <1>12, <1>13, <1>14, <1>15
     DEF W!Next, W!Step

(* Steps that leave the lock and who has been given it. *)
LEMMA LockUntouched ==
  ASSUME LockedHolds, holder' = holder, wlapsed' = wlapsed,
         \A p \in Users : wcall'[p].locked => wcall[p].locked
  PROVE  LockedHolds'
  BY DEF LockedHolds

LEMMA LockedHoldsStep ==
  ASSUME W!Nobody \notin Users, W!Gone \notin Users, WrapperTyped, LockedHolds, [W!Next]_(W!vars)
  PROVE  LockedHolds'
<1> USE DEF WrapperTyped, WrapperCalls, W!Goto, W!At
<1>0. ~W!Idle.locked
  BY DEF W!Idle
<1>1. ASSUME NEW p \in Users, W!Leave(p), holder' = holder, wlapsed' = wlapsed PROVE LockedHolds'
  <2>1. \A q \in Users : wcall'[q].locked => wcall[q].locked
    BY <1>0, <1>1 DEF W!Leave
  <2> QED BY <1>1, <2>1, LockUntouched
<1>2. ASSUME NEW p \in Users, NEW v, W!Store(p, v), holder' = holder, wlapsed' = wlapsed
      PROVE  LockedHolds'
  <2>1. CASE wcall[p].async
    BY <1>1, <1>2, <2>1 DEF W!Store
  <2>2. CASE ~wcall[p].async
    <3>1. \A q \in Users : wcall'[q].locked => wcall[q].locked
      BY <1>2, <2>2 DEF W!Store
    <3> QED BY <1>2, <3>1, LockUntouched
  <2> QED BY <2>1, <2>2
<1>3. ASSUME NEW p \in Users,
             W!Begin(p) \/ W!Get(p) \/ W!Refresh(p) \/ W!Check(p) \/ W!PollCache(p) \/ W!UpdateDel(p)
      PROVE  LockedHolds'
  <2>1. holder' = holder /\ wlapsed' = wlapsed
    BY <1>3 DEF W!Begin, W!Get, W!Refresh, W!Check, W!PollCache, W!UpdateDel
  <2>2. CASE W!Begin(p)
    <3>1. PICK l \in {"refresh", "get"}, forced \in BOOLEAN, async \in BOOLEAN :
            wcall' = [wcall EXCEPT ![p].pc = l, ![p].forced = forced, ![p].async = async]
      BY <2>2, BeginsWith
    <3>2. \A q \in Users : wcall'[q].locked => wcall[q].locked
      BY <3>1
    <3> QED BY <2>1, <3>2, LockUntouched
  <2>3. CASE ~W!Begin(p)
    <3>1. wcall' = [wcall EXCEPT ![p] = W!Idle] \/ \E l : W!Goto(p, l)
      BY <1>3, <2>3 DEF W!Get, W!Refresh, W!Check, W!PollCache, W!UpdateDel, W!Miss
    <3>2. \A q \in Users : wcall'[q].locked => wcall[q].locked
      BY <1>0, <3>1
    <3> QED BY <2>1, <3>2, LockUntouched
  <2> QED BY <2>2, <2>3
<1>4. ASSUME NEW p \in Users, W!Lock(p) PROVE LockedHolds'
  <2>1. CASE holder = W!Nobody /\ holder' = p
    <3>1. wlapsed' = wlapsed /\ \A q \in Users : q # p => wcall'[q] = wcall[q]
      BY <1>4 DEF W!Lock
    <3> QED BY <2>1, <3>1 DEF LockedHolds
  <2>2. CASE W!Goto(p, "poll") /\ holder' = holder
    <3>1. wlapsed' = wlapsed /\ \A q \in Users : wcall'[q].locked => wcall[q].locked
      BY <1>4, <2>2 DEF W!Lock
    <3> QED BY <2>2, <3>1, LockUntouched
  <2>3. CASE W!Goto(p, "poll") /\ holder = W!Nobody
    <3>1. wlapsed' = wlapsed /\ \A q \in Users : wcall'[q].locked => wcall[q].locked
      BY <1>4, <2>3 DEF W!Lock
    <3> QED BY <2>3, <3>1 DEF LockedHolds
  <2> QED BY <1>4, <2>1, <2>2, <2>3 DEF W!Lock
<1>5. ASSUME NEW p \in Users, W!Load(p) \/ W!Reget(p) PROVE LockedHolds'
  <2>1. holder' = holder /\ wlapsed' = wlapsed
    BY <1>5 DEF W!Load, W!Reget
  <2>2. (\E v : W!Store(p, v)) \/ W!Leave(p) \/ W!Goto(p, "reget")
    BY <1>5 DEF W!Load, W!Reget
  <2>3. CASE W!Goto(p, "reget")
    <3>1. \A q \in Users : wcall'[q].locked => wcall[q].locked
      BY <2>3
    <3> QED BY <2>1, <3>1, LockUntouched
  <2> QED BY <1>1, <1>2, <2>1, <2>2, <2>3
<1>6. ASSUME NEW p \in Users, W!UpdateSet(p) PROVE LockedHolds'
  BY <1>1, <1>6 DEF W!UpdateSet
<1>7. ASSUME NEW p \in Users, W!Unlock(p) PROVE LockedHolds'
  <2>1. /\ wlapsed' = wlapsed /\ ~wcall'[p].locked
        /\ \A q \in Users : q # p => wcall'[q] = wcall[q]
        /\ holder # p => holder' = holder
    BY <1>0, <1>7 DEF W!Unlock
  <2> QED BY <2>1 DEF LockedHolds
<1>8. CASE W!LoseLease \/ W!ExpireGone
  BY <1>8 DEF W!LoseLease, W!ExpireGone, LockedHolds
<1>9. CASE W!Background \/ W!WriteRow \/ W!Expire \/ UNCHANGED W!vars
  <2>1. holder' = holder /\ wlapsed' = wlapsed /\ wcall' = wcall
    BY <1>9 DEF W!Background, W!AsyncDel, W!AsyncSet, W!DelayedDel, W!DelayedSet, W!WriteRow,
                W!Expire, W!vars
  <2> QED BY <2>1, LockUntouched
<1> HIDE DEF WrapperTyped, WrapperCalls, W!Goto, W!At
<1> QED
  BY <1>3, <1>4, <1>5, <1>6, <1>7, <1>8, <1>9 DEF W!Next, W!Step

(* Who holds the lock has been given it and is on the way to Unlock; what a lost lease
   leaves behind is a call that thinks so. *)
LockedPlaces == {"check", "load", "reget", "del", "set", "unlock"}
WrapperLeft ==
  /\ \A p \in Users : wcall[p].locked => wcall[p].pc \in LockedPlaces
  /\ \A p \in Users : holder = p => wcall[p].locked

(* Every path of the function with the lock goes on to Unlock. *)
LEMMA GoesOnToUnlock ==
  ASSUME WrapperTyped, WrapperLeft, holder' = holder, NEW p \in Users,
         W!Leave(p) \/ (\E v : W!Store(p, v)) \/ (\E l \in LockedPlaces : W!Goto(p, l))
  PROVE  WrapperLeft'
<1> USE DEF WrapperTyped, WrapperCalls, WrapperLeft, W!Goto
<1>1. ASSUME W!Leave(p) PROVE WrapperLeft'
  <2>1. CASE wcall[p].locked
    BY <1>1, <2>1 DEF W!Leave, LockedPlaces
  <2>2. CASE ~wcall[p].locked
    BY <1>1, <2>2 DEF W!Leave, W!Idle
  <2> QED BY <2>1, <2>2
<1>2. ASSUME NEW v, W!Store(p, v) PROVE WrapperLeft'
  <2>1. CASE wcall[p].async
    BY <1>1, <1>2, <2>1 DEF W!Store
  <2>2. CASE ~wcall[p].async
    <3>1. wcall' = [wcall EXCEPT ![p].pc = "del", ![p].value = v]
      BY <1>2, <2>2 DEF W!Store
    <3>2. /\ \A q \in Users : wcall'[q].locked = wcall[q].locked
          /\ \A q \in Users : wcall'[q].pc \in {wcall[q].pc, "del"}
      BY <3>1
    <3> QED BY <3>2 DEF LockedPlaces
  <2> QED BY <2>1, <2>2
<1>3. ASSUME NEW l \in LockedPlaces, W!Goto(p, l) PROVE WrapperLeft'
  BY <1>3
<1> QED BY <1>1, <1>2, <1>3

(* Moving a call, with other options or not, gives nobody the lock. *)
LEMMA MovesWithoutLock ==
  ASSUME WrapperTyped, NEW p \in Users, NEW l, NEW forced, NEW async,
         \/ wcall' = [wcall EXCEPT ![p].pc = l]
         \/ wcall' = [wcall EXCEPT ![p].pc = l, ![p].forced = forced, ![p].async = async]
  PROVE  \A q \in Users : wcall'[q].locked => wcall[q].locked
<1> USE DEF WrapperTyped, WrapperCalls
<1>1. CASE wcall' = [wcall EXCEPT ![p].pc = l]
  BY <1>1
<1>2. CASE wcall' = [wcall EXCEPT ![p].pc = l, ![p].forced = forced, ![p].async = async]
  BY <1>2
<1> QED BY <1>1, <1>2

(* A call without the lock, which may end or go anywhere. *)
LEMMA NotLockedGoes ==
  ASSUME W!Gone \notin Users, WrapperTyped, WrapperLeft, holder' \in {holder, W!Gone}, NEW p \in Users,
         wcall[p].pc \notin LockedPlaces,
         \/ wcall' = [wcall EXCEPT ![p] = W!Idle]
         \/ \E l : wcall' = [wcall EXCEPT ![p].pc = l]
         \/ \E l, forced, async :
              wcall' = [wcall EXCEPT ![p].pc = l, ![p].forced = forced, ![p].async = async]
  PROVE  WrapperLeft'
<1>1. ~wcall[p].locked /\ holder # p
  BY DEF WrapperLeft
<1> USE DEF WrapperTyped, WrapperCalls
<1>2. \A q \in Users : q # p => wcall'[q] = wcall[q]
  OBVIOUS
<1>3. ASSUME wcall' = [wcall EXCEPT ![p] = W!Idle] PROVE WrapperLeft'
  BY <1>1, <1>2, <1>3 DEF W!Idle, WrapperLeft
<1>4. ASSUME \A q \in Users : wcall'[q].locked => wcall[q].locked PROVE WrapperLeft'
  <2>1. \A q \in Users : holder' = q => holder = q /\ q # p
    BY <1>1
  <2>2. \A q \in Users : wcall'[q].locked => q # p
    BY <1>1, <1>4
  <2> HIDE DEF WrapperTyped, WrapperCalls
  <2> QED BY <1>2, <1>4, <2>1, <2>2 DEF WrapperLeft
<1>5. ASSUME NEW l, wcall' = [wcall EXCEPT ![p].pc = l] PROVE WrapperLeft'
  <2>1. \A q \in Users : wcall'[q].locked => wcall[q].locked
    BY <1>5, MovesWithoutLock
  <2> QED BY <1>4, <2>1
<1>6. ASSUME NEW l, NEW forced, NEW async,
             wcall' = [wcall EXCEPT ![p].pc = l, ![p].forced = forced, ![p].async = async]
      PROVE  WrapperLeft'
  <2>1. \A q \in Users : wcall'[q].locked => wcall[q].locked
    BY <1>6, MovesWithoutLock
  <2> QED BY <1>4, <2>1
<1> QED
  BY <1>3, <1>5, <1>6

LEMMA WrapperLeftStep ==
  ASSUME W!Nobody \notin Users, W!Gone \notin Users, WrapperTyped, WrapperLeft, [W!Next]_(W!vars)
  PROVE  WrapperLeft'
<1> USE DEF W!At, LockedPlaces
<1>1. ASSUME NEW p \in Users, W!Begin(p) PROVE WrapperLeft'
  <2>1. holder' = holder /\ wcall[p].pc = "idle"
    BY <1>1 DEF W!Begin
  <2>2. PICK l \in {"refresh", "get"}, forced \in BOOLEAN, async \in BOOLEAN :
          wcall' = [wcall EXCEPT ![p].pc = l, ![p].forced = forced, ![p].async = async]
    BY <1>1, BeginsWith
  <2> QED BY <2>1, <2>2, NotLockedGoes
<1>2. ASSUME NEW p \in Users, W!Get(p) \/ W!Refresh(p) \/ W!PollCache(p) PROVE WrapperLeft'
  <2>1. holder' = holder /\ wcall[p].pc \in {"get", "refresh", "poll"}
    BY <1>2 DEF W!Get, W!Refresh, W!PollCache
  <2>2. wcall' = [wcall EXCEPT ![p] = W!Idle] \/ \E l : wcall' = [wcall EXCEPT ![p].pc = l]
    BY <1>2 DEF W!Get, W!Refresh, W!PollCache, W!Miss, W!Goto
  <2> QED BY <2>1, <2>2, NotLockedGoes
<1>3. ASSUME NEW p \in Users, W!Lock(p) PROVE WrapperLeft'
  <2>1. CASE holder = W!Nobody /\ holder' = p
             /\ wcall' = [wcall EXCEPT ![p].pc = "check", ![p].locked = TRUE]
    <3>1. /\ wcall'[p].locked /\ wcall'[p].pc = "check"
          /\ \A q \in Users : q # p => wcall'[q] = wcall[q]
      BY <2>1 DEF WrapperTyped, WrapperCalls
    <3> QED BY <2>1, <3>1 DEF WrapperLeft
  <2>2. CASE W!Goto(p, "poll") /\ holder' \in {holder, W!Gone}
    BY <1>3, <2>2, NotLockedGoes DEF W!Lock, W!Goto
  <2> QED BY <1>3, <2>1, <2>2 DEF W!Lock
<1>4. ASSUME NEW p \in Users, W!Check(p) \/ W!Load(p) \/ W!Reget(p) \/ W!UpdateDel(p) \/ W!UpdateSet(p)
      PROVE  WrapperLeft'
  <2>1. holder' = holder
    BY <1>4 DEF W!Check, W!Load, W!Reget, W!UpdateDel, W!UpdateSet
  <2>2. W!Leave(p) \/ (\E v : W!Store(p, v)) \/ (\E l \in LockedPlaces : W!Goto(p, l))
    BY <1>4 DEF W!Check, W!Load, W!Reget, W!UpdateDel, W!UpdateSet
  <2> HIDE DEF LockedPlaces
  <2> QED BY <2>1, <2>2, GoesOnToUnlock
<1>5. ASSUME NEW p \in Users, W!Unlock(p) PROVE WrapperLeft'
  <2>1. /\ holder' \in {W!Nobody, W!Gone} \/ (holder # p /\ holder' = holder)
        /\ ~wcall'[p].locked
        /\ \A q \in Users : q # p => wcall'[q] = wcall[q]
    BY <1>5 DEF W!Unlock, W!Idle, WrapperTyped
  <2> QED BY <2>1 DEF WrapperLeft
<1>6. CASE W!Background \/ W!WriteRow \/ W!Expire \/ W!LoseLease \/ W!ExpireGone \/ UNCHANGED W!vars
  <2>1. holder' \in {holder, W!Nobody} /\ wcall' = wcall
    BY <1>6 DEF W!Background, W!AsyncDel, W!AsyncSet, W!DelayedDel, W!DelayedSet, W!WriteRow,
                W!Expire, W!LoseLease, W!ExpireGone, W!vars
  <2> QED BY <2>1 DEF WrapperLeft
<1> QED
  BY <1>1, <1>2, <1>3, <1>4, <1>5, <1>6 DEF W!Next, W!Step

-----------------------------------------------------------------------------
(* LoadOnce: the leaders of loads, and who has the lock. *)
LoadCalls ==
  [at : {"idle", "get", "join", "get2", "lock", "get3", "backoff", "again", "load", "set", "unlock",
         "done", "wait"},
   leader : Procs \cup {L!Nobody}, result : {"none", "value", "error", "empty"}, locked : BOOLEAN]
MapLoads == [leader : Procs \cup {L!Nobody}, result : {"none", "value", "error", "empty"}]
LoadsTyped ==
  /\ lcall \in [Procs -> LoadCalls]
  /\ loadGroup \in [L!Instances -> MapLoads]
  /\ token \in [L!Instances -> Procs \cup {L!Nobody}]

(* Where a call is its instance's leader, the load in the map is its own and not over; an
   AdvancedCache merges nothing. *)
Leads(p) ==
  lcall[p].at \in {"get2", "lock", "get3", "backoff", "again", "load", "set", "unlock", "done"}
LeaderInMap ==
  flavour # "advanced" =>
    \A p \in Procs :
      Leads(p) => loadGroup[Instance[p]].leader = p /\ loadGroup[Instance[p]].result = "none"

(* Whom Lock has said yes to has the key, until it expires or a command fails, or is of an
   instance whose object has said yes to several. *)
TakenIsHeld ==
  ~lapsed => \A p \in Procs : lcall[p].locked => lock = p \/ Instance[p] \in shared

(* An object's token is that of a call of its instance that will unlock. *)
TokenIsHeld ==
  \A i \in L!Instances :
    token[i] # L!Nobody => Instance[token[i]] = i /\ lcall[token[i]].locked

(* Where loadGroup merges the calls, an object is asked by one at a time. *)
SharedByAdvanced == shared # {} => flavour = "advanced"

(* A call that has the lock is on its way to Unlock, and the key has the token of one that
   has, and of its object. *)
HeldAt == {"get3", "load", "set", "unlock"}
LockedAt(p) ==
  /\ lcall[p].locked => lcall[p].at \in HeldAt
  /\ lcall[p].at = "unlock" => lcall[p].locked
NoneLeft ==
  /\ \A p \in Procs : LockedAt(p)
  /\ ~lapsed => \A p \in Procs : lock = p => lcall[p].locked /\ token[Instance[p]] = p

(* What a call of its own does to the record of one caller. *)
LEMMA LoadSteps ==
  ASSUME LoadsTyped, NEW p \in Procs
  PROVE  /\ L!Idle \in LoadCalls /\ ~L!Idle.locked /\ L!Idle.at = "idle"
         /\ Instance[p] \in L!Instances
         /\ lcall[p] \in LoadCalls /\ loadGroup[Instance[p]] \in MapLoads
  BY DEF LoadsTyped, L!Idle, LoadCalls, L!Instances

LEMMA GotoEffect ==
  ASSUME LoadsTyped, NEW p \in Procs,
         NEW l \in {"get", "join", "get2", "lock", "get3", "backoff", "again", "load", "set"},
         L!Goto(p, l)
  PROVE  /\ lcall' \in [Procs -> LoadCalls]
         /\ lcall'[p].at = l /\ lcall'[p].locked = lcall[p].locked
         /\ \A q \in Procs : q # p => lcall'[q] = lcall[q]
  BY DEF L!Goto, LoadsTyped, LoadCalls

LEMMA FinishEffect ==
  ASSUME LoadsTyped, NEW p \in Procs, NEW r \in {"value", "error", "empty"}, L!Finish(p, r)
  PROVE  /\ lcall' \in [Procs -> LoadCalls]
         /\ lcall'[p].at \in {"unlock", "done"} /\ lcall'[p].locked = lcall[p].locked
         /\ lcall[p].locked <=> lcall'[p].at = "unlock"
         /\ \A q \in Procs : q # p => lcall'[q] = lcall[q]
<1>1. PICK l \in {"unlock", "done"} :
        /\ lcall' = [lcall EXCEPT ![p].result = r, ![p].at = l]
        /\ lcall[p].locked <=> l = "unlock"
  <2>1. CASE lcall[p].locked
    BY <2>1 DEF L!Finish
  <2>2. CASE ~lcall[p].locked
    BY <2>2 DEF L!Finish
  <2> QED BY <2>1, <2>2
<1>2. [lcall[p] EXCEPT !.result = r, !.at = l] \in LoadCalls
  BY DEF LoadsTyped, LoadCalls
<1>3. lcall' = [lcall EXCEPT ![p] = [lcall[p] EXCEPT !.result = r, !.at = l]]
  BY <1>1
<1>4. lcall[p] \in LoadCalls /\ [lcall[p] EXCEPT !.result = r, !.at = l].at = l
      /\ [lcall[p] EXCEPT !.result = r, !.at = l].locked = lcall[p].locked
  BY DEF LoadsTyped, LoadCalls
<1> QED BY <1>1, <1>2, <1>3, <1>4 DEF LoadsTyped

LEMMA IdleEffect ==
  ASSUME LoadsTyped, NEW p \in Procs, lcall' = [lcall EXCEPT ![p] = L!Idle]
  PROVE  /\ lcall' \in [Procs -> LoadCalls]
         /\ lcall'[p].at = "idle" /\ ~lcall'[p].locked
         /\ \A q \in Procs : q # p => lcall'[q] = lcall[q]
<1>1. L!Idle \in LoadCalls /\ ~L!Idle.locked /\ L!Idle.at = "idle"
  BY LoadSteps
<1> QED BY <1>1 DEF LoadsTyped

LEMMA LockedEffect ==
  ASSUME LoadsTyped, NEW p \in Procs,
         lcall' = [lcall EXCEPT ![p].at = "get3", ![p].locked = TRUE]
  PROVE  /\ lcall' \in [Procs -> LoadCalls]
         /\ lcall'[p].at = "get3" /\ lcall'[p].locked
         /\ \A q \in Procs : q # p => lcall'[q] = lcall[q]
<1>1. [lcall[p] EXCEPT !.at = "get3", !.locked = TRUE] \in LoadCalls
  BY DEF LoadsTyped, LoadCalls
<1>2. lcall' = [lcall EXCEPT ![p] = [lcall[p] EXCEPT !.at = "get3", !.locked = TRUE]]
  OBVIOUS
<1> QED BY <1>1, <1>2 DEF LoadsTyped, LoadCalls

(* What a call may do to the locks on its way: nothing, or SETNX, or share the lock its
   object has, or a command fails. *)
Keeps(p) == UNCHANGED <<lock, token, shared, lapsed>> /\ (lcall'[p].locked => lcall[p].locked)
Takes(p) ==
  /\ lock = L!Nobody /\ lock' = p /\ token' = [token EXCEPT ![Instance[p]] = p]
  /\ shared' = shared /\ lapsed' = lapsed /\ lcall'[p].locked
Shares(p) ==
  /\ token[Instance[p]] # L!Nobody /\ shared' = shared \cup {Instance[p]}
  /\ lock' = lock /\ token' = token /\ lapsed' = lapsed /\ lcall'[p].locked
  /\ Leads(p) /\ lcall[p].at = "lock"
Fails(p) ==
  /\ token' \in {token, [token EXCEPT ![Instance[p]] = L!Nobody]}
  /\ shared' = shared /\ lapsed'

(* Steps of a call between joining and giving the lock back: it goes on leading if it led,
   and has the lock until it unlocks. *)
Moves(p) ==
  /\ lcall' \in [Procs -> LoadCalls]
  /\ \A q \in Procs : q # p => lcall'[q] = lcall[q]
  /\ loadGroup' = loadGroup /\ flavour' = flavour
  /\ Leads(p)' => Leads(p) \/ flavour = "advanced"
  /\ Keeps(p) \/ Takes(p) \/ Shares(p) \/ Fails(p)
  /\ LockedAt(p) => LockedAt(p)' /\ (lcall[p].locked => lcall'[p].locked)

LEMMA CallMoves ==
  ASSUME LoadsTyped, NEW p \in Procs,
         \/ L!Begin(p) \/ L!Get(p) \/ L!Get2(p) \/ L!Lock(p) \/ L!Get3(p) \/ L!Backoff(p)
         \/ L!LockAgain(p) \/ L!Load(p) \/ L!Store(p)
  PROVE  Moves(p)
<1> USE DEF L!At, Leads, LockedAt, HeldAt
<1> DEFINE Same == UNCHANGED <<lock, token, shared, lapsed>>
<1>0. loadGroup' = loadGroup /\ flavour' = flavour
  BY DEF L!Begin, L!Get, L!Get2, L!Lock, L!Get3, L!Backoff, L!LockAgain, L!Load, L!Store, L!conf
<1>1. ASSUME NEW l \in {"get", "join", "get2", "lock", "get3", "backoff", "again", "load", "set"},
             L!Goto(p, l), Same \/ Fails(p),
             l \in {"get", "join"} \/ Leads(p) \/ flavour = "advanced",
             l \in HeldAt \/ lcall[p].at \notin HeldAt
      PROVE  Moves(p)
  BY <1>0, <1>1, GotoEffect DEF Moves, Keeps
<1>2. ASSUME NEW r \in {"value", "error", "empty"}, L!Finish(p, r), Same \/ Fails(p), Leads(p)
      PROVE  Moves(p)
  BY <1>0, <1>2, FinishEffect DEF Moves, Keeps
<1>3. ASSUME lcall' = [lcall EXCEPT ![p] = L!Idle], Same, lcall[p].at \notin HeldAt
      PROVE  Moves(p)
  BY <1>0, <1>3, IdleEffect DEF Moves, Keeps
<1>4. ASSUME L!SetNX(p), Leads(p) PROVE Moves(p)
  <2>1. /\ lcall' = [lcall EXCEPT ![p].at = "get3", ![p].locked = TRUE]
        /\ lock = L!Nobody /\ lock' = p /\ shared' = shared /\ lapsed' = lapsed
        /\ token' = [token EXCEPT ![Instance[p]] = p]
    BY <1>4 DEF L!SetNX, L!Locked
  <2>2. /\ lcall' \in [Procs -> LoadCalls] /\ \A q \in Procs : q # p => lcall'[q] = lcall[q]
        /\ lcall'[p].at = "get3" /\ lcall'[p].locked
    BY <2>1, LockedEffect
  <2>3. Takes(p)
    BY <2>1, <2>2 DEF Takes
  <2> QED BY <1>0, <1>4, <2>2, <2>3 DEF Moves
<1>14. ASSUME L!Share(p), lcall[p].at = "lock" PROVE Moves(p)
  <2>1. /\ lcall' = [lcall EXCEPT ![p].at = "get3", ![p].locked = TRUE]
        /\ lock' = lock /\ token' = token /\ lapsed' = lapsed
        /\ shared' = shared \cup {Instance[p]} /\ token[Instance[p]] # L!Nobody
    BY <1>14 DEF L!Share, L!Locked
  <2>2. /\ lcall' \in [Procs -> LoadCalls] /\ \A q \in Procs : q # p => lcall'[q] = lcall[q]
        /\ lcall'[p].at = "get3" /\ lcall'[p].locked
    BY <2>1, LockedEffect
  <2>3. Shares(p)
    BY <1>14, <2>1, <2>2 DEF Shares
  <2> QED BY <1>0, <1>14, <2>2, <2>3 DEF Moves
<1>15. ASSUME L!LockFails(p) \/ L!ForgetToken(p) PROVE Same \/ Fails(p)
  BY <1>15 DEF L!LockFails, L!ForgetToken, L!locks, Fails
<1>5. CASE L!Begin(p)
  BY <1>1, <1>5 DEF L!Begin, L!locks
<1>6. CASE L!Get(p)
  <2>1. Same /\ lcall[p].at = "get"
    BY <1>6 DEF L!Get, L!locks
  <2>2. \/ lcall' = [lcall EXCEPT ![p] = L!Idle]
        \/ flavour = "advanced" /\ L!Goto(p, "lock")
        \/ L!Goto(p, "join")
    BY <1>6 DEF L!Get
  <2> QED BY <1>1, <1>3, <2>1, <2>2
<1>7. CASE L!Get2(p)
  <2>1. Same /\ Leads(p) /\ lcall[p].at = "get2"
    BY <1>7 DEF L!Get2, L!locks
  <2>2. \/ L!Finish(p, "value") \/ L!Finish(p, "error")
        \/ L!Goto(p, "lock") \/ L!Goto(p, "load")
    BY <1>7 DEF L!Get2
  <2> QED BY <1>1, <1>2, <2>1, <2>2
<1>8. CASE L!Lock(p)
  <2>1. Leads(p) /\ lcall[p].at = "lock"
    BY <1>8 DEF L!Lock
  <2>2. \/ L!SetNX(p) \/ L!Share(p)
        \/ /\ L!Goto(p, "backoff") \/ L!Goto(p, "load") \/ lcall' = lcall
           /\ Same \/ L!LockFails(p) \/ L!ForgetToken(p)
    BY <1>8 DEF L!Lock, L!locks
  <2>3. CASE lcall' = lcall /\ (Same \/ Fails(p))
    BY <1>0, <2>1, <2>3 DEF Moves, Keeps, LoadsTyped
  <2> QED BY <1>1, <1>4, <1>14, <1>15, <2>1, <2>2, <2>3
<1>9. CASE L!Get3(p)
  <2>1. Same /\ Leads(p) /\ (L!Finish(p, "value") \/ L!Goto(p, "load"))
    BY <1>9 DEF L!Get3, L!locks
  <2> QED BY <1>1, <1>2, <2>1
<1>10. CASE L!Backoff(p)
  <2>1. /\ Same /\ Leads(p) /\ lcall[p].at = "backoff"
        /\ L!Finish(p, "value") \/ L!Finish(p, "error") \/ L!Goto(p, "again")
    BY <1>10 DEF L!Backoff, L!locks
  <2> QED BY <1>1, <1>2, <2>1
<1>11. CASE L!LockAgain(p)
  <2>1. Leads(p)
    BY <1>11 DEF L!LockAgain
  <2>2. \/ L!SetNX(p)
        \/ (L!Finish(p, "value") \/ L!Finish(p, "error")) /\ (Same \/ L!LockFails(p))
    <3>1. CASE cached
      BY <1>11 DEF L!LockAgain, L!locks
    <3> QED BY <1>11 DEF L!LockAgain, L!locks
  <2> QED BY <1>2, <1>4, <1>15, <2>1, <2>2
<1>12. CASE L!Load(p)
  <2>1. Same /\ Leads(p)
    BY <1>12 DEF L!Load, L!locks
  <2>2. L!Goto(p, "set") \/ \E r \in {"value", "error", "empty"} : L!Finish(p, r)
    BY <1>12 DEF L!Load
  <2> QED BY <1>1, <1>2, <2>1, <2>2
<1>13. CASE L!Store(p)
  <2>1. Same /\ Leads(p) /\ L!Finish(p, "value")
    BY <1>13 DEF L!Store, L!locks
  <2> QED BY <1>2, <2>1
<1> HIDE DEF L!At, Leads, LockedAt, HeldAt
<1> QED
  BY <1>5, <1>6, <1>7, <1>8, <1>9, <1>10, <1>11, <1>12, <1>13

LoadOnceInv ==
  LoadsTyped /\ LeaderInMap /\ TakenIsHeld /\ TokenIsHeld /\ SharedByAdvanced /\ NoneLeft

(* Where calls are merged, an object that has a token has no other caller at TryLock. *)
LEMMA SharesAdvanced ==
  ASSUME LoadOnceInv, NEW p \in Procs, Shares(p)
  PROVE  flavour = "advanced"
<1> DEFINE i == Instance[p]
           q == token[i]
<1>1. i \in L!Instances /\ q \in Procs
  BY DEF Shares, LoadOnceInv, LoadsTyped, L!Instances
<1>2. Instance[q] = i /\ lcall[q].locked
  BY <1>1 DEF Shares, LoadOnceInv, TokenIsHeld
<1>3. Leads(q) /\ q # p
  BY <1>1, <1>2 DEF LoadOnceInv, NoneLeft, LockedAt, HeldAt, Leads, Shares
<1> HIDE DEF q
<1> QED BY <1>1, <1>2, <1>3 DEF LoadOnceInv, LeaderInMap, Shares

LEMMA MovesKeep ==
  ASSUME L!Nobody \notin Procs, LoadOnceInv, NEW p \in Procs, Moves(p)
  PROVE  LoadOnceInv'
<1> DEFINE i == Instance[p]
<1>1. i \in L!Instances
  BY DEF L!Instances
<1>2. /\ LockedAt(p)' /\ (lcall[p].locked => lcall'[p].locked)
      /\ \A q \in Procs : q # p => lcall'[q] = lcall[q]
      /\ \A q \in Procs : lcall[q].locked => lcall'[q].locked
      /\ Keeps(p) \/ Takes(p) \/ Shares(p) \/ Fails(p)
  BY DEF Moves, LoadOnceInv, NoneLeft
<1>3. token' \in [L!Instances -> Procs \cup {L!Nobody}]
  BY <1>1, <1>2 DEF LoadOnceInv, LoadsTyped, Keeps, Takes, Shares, Fails
<1>4. LoadsTyped'
  BY <1>3 DEF Moves, LoadOnceInv, LoadsTyped
<1>5. LeaderInMap'
  <2>1. \A q \in Procs : q # p => (Leads(q)' <=> Leads(q))
    BY DEF Moves, Leads
  <2> QED BY <2>1 DEF Moves, LoadOnceInv, LeaderInMap
<1>6. TakenIsHeld'
  <2> USE DEF LoadOnceInv, TakenIsHeld
  <2>1. CASE Keeps(p)
    BY <1>2, <2>1 DEF Keeps
  <2>2. CASE Takes(p)
    BY <1>2, <2>2 DEF Takes
  <2>3. CASE Shares(p)
    BY <1>2, <2>3 DEF Shares
  <2>4. CASE Fails(p)
    BY <2>4 DEF Fails
  <2> QED BY <1>2, <2>1, <2>2, <2>3, <2>4
<1>7. TokenIsHeld'
  <2> SUFFICES ASSUME NEW j \in L!Instances, token'[j] # L!Nobody
               PROVE  Instance[token'[j]] = j /\ lcall'[token'[j]].locked
    BY DEF TokenIsHeld
  <2>1. \/ token'[j] = token[j]
        \/ j = i /\ token'[j] = p /\ lcall'[p].locked
    BY <1>1, <1>2 DEF LoadOnceInv, LoadsTyped, Keeps, Takes, Shares, Fails
  <2>2. token'[j] \in Procs
    BY <1>3
  <2> QED BY <1>2, <2>1, <2>2 DEF LoadOnceInv, TokenIsHeld
<1>8. SharedByAdvanced'
  <2>1. shared' = shared \/ Shares(p)
    BY <1>2 DEF Keeps, Takes, Shares, Fails
  <2> QED BY <2>1, SharesAdvanced DEF Moves, LoadOnceInv, SharedByAdvanced
<1>9. NoneLeft'
  <2>1. \A q \in Procs : LockedAt(q)'
    BY <1>2 DEF LoadOnceInv, NoneLeft, LockedAt
  <2>2. ASSUME ~lapsed', NEW q \in Procs, lock' = q
        PROVE  lcall'[q].locked /\ token'[Instance[q]] = q
    <3> USE DEF LoadOnceInv, NoneLeft
    <3>1. CASE Keeps(p)
      BY <1>2, <2>2, <3>1 DEF Keeps
    <3>2. CASE Takes(p)
      BY <1>1, <2>2, <3>2 DEF Takes, LoadsTyped
    <3>3. CASE Shares(p)
      BY <1>2, <2>2, <3>3 DEF Shares
    <3> QED BY <1>2, <2>2, <3>1, <3>2, <3>3 DEF Fails
  <2> QED BY <2>1, <2>2 DEF NoneLeft
<1> QED BY <1>4, <1>5, <1>6, <1>7, <1>8, <1>9 DEF LoadOnceInv

LEMMA JoinKeeps ==
  ASSUME L!Nobody \notin Procs, LoadOnceInv, NEW p \in Procs, L!Join(p)
  PROVE  LoadOnceInv'
<1> DEFINE load == loadGroup[Instance[p]]
           i == Instance[p]
<1>1. /\ i \in L!Instances /\ lcall[p] \in LoadCalls /\ load \in MapLoads /\ ~Leads(p)
      /\ LoadsTyped
  BY LoadSteps DEF LoadOnceInv, L!Join, L!At, Leads
<1>2. flavour' = flavour /\ UNCHANGED <<lock, token, shared, lapsed>>
  BY DEF L!Join, L!conf, L!locks
<1>3. CASE load = L!NoLoad
  <2> DEFINE mine == [leader |-> p, result |-> "none"]
  <2>1. loadGroup' = [loadGroup EXCEPT ![i] = mine] /\ L!Goto(p, "get2")
    BY <1>3 DEF L!Join
  <2>2. mine \in MapLoads /\ mine.leader = p /\ mine.result = "none"
    BY DEF MapLoads
  <2> HIDE DEF mine
  <2>3. /\ lcall' \in [Procs -> LoadCalls] /\ lcall'[p].locked = lcall[p].locked
        /\ \A q \in Procs : q # p => lcall'[q] = lcall[q]
    BY <1>1, <2>1, GotoEffect
  <2>7. NoneLeft' /\ TokenIsHeld' /\ SharedByAdvanced'
    <3>1. ~lcall[p].locked
      BY DEF LoadOnceInv, NoneLeft, LockedAt, HeldAt, L!Join, L!At
    <3>2. \A q \in Procs : lcall'[q].locked = lcall[q].locked
      BY <2>3
    <3>3. lcall'[p].at = "get2"
      BY <1>1, <2>1, GotoEffect
    <3>4. NoneLeft'
      BY <1>2, <2>3, <3>1, <3>2, <3>3 DEF LoadOnceInv, NoneLeft, LockedAt
    <3>5. TokenIsHeld'
      BY <1>2, <3>2 DEF LoadOnceInv, TokenIsHeld, LoadsTyped
    <3> QED BY <1>2, <3>4, <3>5 DEF LoadOnceInv, SharedByAdvanced
  <2>4. /\ loadGroup' \in [L!Instances -> MapLoads] /\ loadGroup'[i] = mine
        /\ \A j \in L!Instances : j # i => loadGroup'[j] = loadGroup[j]
    BY <1>1, <2>1, <2>2 DEF LoadsTyped
  <2>5. LeaderInMap'
    <3> SUFFICES ASSUME flavour # "advanced", NEW q \in Procs, Leads(q)'
                 PROVE  loadGroup'[Instance[q]].leader = q /\ loadGroup'[Instance[q]].result = "none"
      BY <1>2 DEF LeaderInMap
    <3>1. CASE q = p
      BY <2>2, <2>4, <3>1
    <3>2. CASE q # p
      <4>1. Leads(q)
        BY <2>3, <3>2 DEF Leads
      <4>2. loadGroup[Instance[q]].leader = q /\ loadGroup[Instance[q]].result = "none"
        BY <4>1 DEF LoadOnceInv, LeaderInMap
      <4>3. Instance[q] # i
        BY <1>3, <4>2 DEF L!NoLoad
      <4>4. Instance[q] \in L!Instances
        BY DEF L!Instances
      <4> QED BY <2>4, <4>2, <4>3, <4>4
    <3> QED BY <3>1, <3>2
  <2>6. TakenIsHeld'
    BY <1>2, <2>3 DEF LoadOnceInv, TakenIsHeld
  <2> QED BY <1>2, <2>3, <2>4, <2>5, <2>6, <2>7 DEF LoadOnceInv, LoadsTyped
<1>4. CASE load # L!NoLoad
  <2>1. PICK r : /\ r = L!Idle \/ r = L!WaitFor(load.leader)
                 /\ lcall' = [lcall EXCEPT ![p] = r]
    BY <1>4 DEF L!Join
  <2>2. loadGroup' = loadGroup
    BY <1>4 DEF L!Join
  <2>3. L!WaitFor(load.leader) \in LoadCalls /\ L!WaitFor(load.leader).at = "wait" /\ ~L!WaitFor(load.leader).locked
    BY <1>1 DEF L!WaitFor, LoadCalls, MapLoads
  <2>4. r \in LoadCalls /\ r.at \in {"idle", "wait"} /\ ~r.locked
    BY <1>1, <2>1, <2>3, LoadSteps
  <2>5. /\ lcall' \in [Procs -> LoadCalls] /\ lcall'[p] = r
        /\ \A q \in Procs : q # p => lcall'[q] = lcall[q]
    BY <1>1, <2>1, <2>4 DEF LoadsTyped
  <2>7. LockedAt(p) => ~lcall[p].locked
    BY DEF LockedAt, HeldAt, L!Join, L!At
  <2>6. Moves(p)
    BY <1>2, <2>2, <2>4, <2>5, <2>7 DEF Moves, Keeps, Leads, LockedAt
  <2> QED BY <2>6, MovesKeep
<1> QED BY <1>3, <1>4

LEMMA UnlockKeeps ==
  ASSUME L!Nobody \notin Procs, LoadOnceInv, NEW p \in Procs, L!Unlock(p)
  PROVE  LoadOnceInv'
<1>1. LoadsTyped /\ Leads(p)
  BY DEF LoadOnceInv, L!Unlock, L!At, Leads
<1>2. lcall' = [lcall EXCEPT ![p].at = "done", ![p].locked = FALSE]
  BY DEF L!Unlock
<1>3. /\ lcall' \in [Procs -> LoadCalls] /\ lcall'[p].at = "done" /\ ~lcall'[p].locked
      /\ \A q \in Procs : q # p => lcall'[q] = lcall[q]
  <2> DEFINE c == [lcall[p] EXCEPT !.at = "done", !.locked = FALSE]
  <2>1. c \in LoadCalls /\ c.at = "done" /\ ~c.locked
    BY <1>1 DEF LoadsTyped, LoadCalls
  <2>2. lcall' = [lcall EXCEPT ![p] = c]
    BY <1>2
  <2> HIDE DEF c
  <2> QED BY <1>1, <2>1, <2>2 DEF LoadsTyped
<1> DEFINE i == Instance[p]
<1>4. /\ loadGroup' = loadGroup /\ flavour' = flavour
      /\ token' = [token EXCEPT ![i] = L!Nobody]
      /\ shared' \subseteq shared
      /\ \A q \in Procs : q # p /\ lcall[q].locked /\ Instance[q] \in shared => Instance[q] \in shared'
      /\ lapsed' \/ (lapsed' = lapsed /\ lock' = IF lock = token[i] THEN L!Nobody ELSE lock)
  BY DEF L!Unlock, L!conf
<1>10. /\ i \in L!Instances /\ lcall[p].locked
       /\ \A q \in Procs : Instance[q] \in L!Instances
  BY DEF L!Instances, LoadOnceInv, NoneLeft, LockedAt, L!Unlock, L!At
<1>5. LoadsTyped'
  BY <1>1, <1>3, <1>4 DEF LoadsTyped
<1>9. TokenIsHeld' /\ SharedByAdvanced'
  <2> SUFFICES ASSUME NEW j \in L!Instances, token'[j] # L!Nobody
               PROVE  Instance[token'[j]] = j /\ lcall'[token'[j]].locked
    BY <1>4 DEF LoadOnceInv, SharedByAdvanced, TokenIsHeld
  <2>1. j # i /\ token'[j] = token[j] /\ token[j] \in Procs
    BY <1>1, <1>4, <1>10 DEF LoadsTyped
  <2>2. Instance[token[j]] = j /\ lcall[token[j]].locked
    BY <2>1 DEF LoadOnceInv, TokenIsHeld
  <2>3. token[j] # p
    BY <2>1, <2>2
  <2> QED BY <1>3, <2>1, <2>2, <2>3
<1>6. LeaderInMap'
  <2>1. \A q \in Procs : Leads(q)' => Leads(q)
    BY <1>1, <1>3 DEF Leads
  <2> QED BY <1>4, <2>1 DEF LoadOnceInv, LeaderInMap
<1>7. TakenIsHeld'
  <2> SUFFICES ASSUME ~lapsed', NEW q \in Procs, lcall'[q].locked
               PROVE  lock' = q \/ Instance[q] \in shared'
    BY DEF TakenIsHeld
  <2>1. q # p /\ lcall[q].locked /\ ~lapsed
    BY <1>3, <1>4
  <2>2. CASE Instance[q] \in shared
    BY <1>4, <2>1, <2>2
  <2>3. CASE Instance[q] \notin shared
    <3>1. lock = q
      BY <2>1, <2>3 DEF LoadOnceInv, TakenIsHeld
    <3>2. i \in shared
      BY <1>10, <2>1, <3>1 DEF LoadOnceInv, TakenIsHeld
    <3>3. token[i] # q
      BY <1>10, <2>3, <3>2 DEF LoadOnceInv, TokenIsHeld
    <3> QED BY <1>4, <3>1, <3>3
  <2> QED BY <2>2, <2>3
<1>8. NoneLeft'
  <2>1. \A q \in Procs : LockedAt(q)'
    BY <1>3 DEF LoadOnceInv, NoneLeft, LockedAt
  <2>2. ASSUME ~lapsed', NEW q \in Procs, lock' = q PROVE lcall'[q].locked /\ token'[Instance[q]] = q
    <3>1. lock = q /\ lock # token[i] /\ ~lapsed
      BY <1>4, <2>2
    <3>2. lcall[q].locked /\ token[Instance[q]] = q
      BY <3>1 DEF LoadOnceInv, NoneLeft
    <3>3. Instance[q] # i /\ q # p
      BY <3>1, <3>2
    <3> QED BY <1>1, <1>3, <1>4, <1>10, <3>2, <3>3 DEF LoadsTyped
  <2> QED BY <2>1, <2>2 DEF NoneLeft
<1> QED BY <1>5, <1>6, <1>7, <1>8, <1>9 DEF LoadOnceInv

LEMMA DoneKeeps ==
  ASSUME L!Nobody \notin Procs, LoadOnceInv, NEW p \in Procs, L!Done(p)
  PROVE  LoadOnceInv'
<1> DEFINE i == Instance[p]
<1>1. LoadsTyped /\ Leads(p) /\ i \in L!Instances /\ lcall[p].result \in {"none", "value", "error", "empty"}
  BY LoadSteps DEF LoadOnceInv, L!Done, L!At, Leads, LoadCalls
<1>2. flavour' = flavour /\ UNCHANGED <<lock, token, shared, lapsed>>
  BY DEF L!Done, L!conf, L!locks
<1>3. L!Idle \in LoadCalls /\ ~L!Idle.locked /\ L!Idle.at = "idle"
  BY <1>1, LoadSteps
<1>4. lcall' = [q \in Procs |-> IF q = p \/ (L!At(q, "wait") /\ lcall[q].leader = p)
                                THEN L!Idle ELSE lcall[q]]
  BY DEF L!Done
<1>5. /\ lcall'[p] = L!Idle
      /\ \A q \in Procs : lcall'[q] = L!Idle \/ (q # p /\ lcall'[q] = lcall[q])
  BY <1>4
<1>6. lcall' \in [Procs -> LoadCalls]
  <2>1. \A q \in Procs : lcall'[q] \in LoadCalls
    BY <1>1, <1>3, <1>5 DEF LoadsTyped
  <2> QED BY <1>4, <2>1
<1>7. /\ loadGroup' \in [L!Instances -> MapLoads]
      /\ loadGroup[i].leader = p => \A j \in L!Instances : j # i => loadGroup'[j] = loadGroup[j]
      /\ loadGroup[i].leader # p => loadGroup' = loadGroup
  <2>1. CASE loadGroup[i].leader = p
    <3>1. loadGroup' = [loadGroup EXCEPT ![i].result = lcall[p].result]
      BY <2>1 DEF L!Done
    <3> QED BY <1>1, <2>1, <3>1 DEF LoadsTyped, MapLoads
  <2>2. CASE loadGroup[i].leader # p
    BY <1>1, <2>2 DEF L!Done, LoadsTyped
  <2> QED BY <2>1, <2>2
<1>8. LoadsTyped'
  BY <1>1, <1>2, <1>6, <1>7 DEF LoadsTyped
<1>9. LeaderInMap'
  <2> SUFFICES ASSUME flavour # "advanced", NEW q \in Procs, Leads(q)'
               PROVE  loadGroup'[Instance[q]].leader = q /\ loadGroup'[Instance[q]].result = "none"
    BY <1>2 DEF LeaderInMap
  <2>1. q # p /\ Leads(q)
    BY <1>3, <1>5 DEF Leads
  <2>2. loadGroup[Instance[q]].leader = q /\ loadGroup[Instance[q]].result = "none"
    BY <2>1 DEF LoadOnceInv, LeaderInMap
  <2>3. Instance[q] \in L!Instances
    BY DEF L!Instances
  <2> QED BY <1>7, <2>1, <2>2, <2>3
<1>10. TakenIsHeld'
  BY <1>2, <1>3, <1>5 DEF LoadOnceInv, TakenIsHeld
<1>11. NoneLeft'
  <2>1. \A q \in Procs : LockedAt(q)'
    BY <1>3, <1>5 DEF LoadOnceInv, NoneLeft, LockedAt
  <2>2. \A q \in Procs : lcall[q].locked => ~L!At(q, "wait") /\ q # p
    BY DEF LoadOnceInv, NoneLeft, LockedAt, HeldAt, L!Done, L!At
  <2>3. \A q \in Procs : lcall[q].locked => lcall'[q] = lcall[q]
    BY <1>4, <2>2
  <2> QED BY <1>2, <2>1, <2>3 DEF LoadOnceInv, NoneLeft
<1>12. TokenIsHeld' /\ SharedByAdvanced'
  <2>1. \A q \in Procs : lcall[q].locked => lcall'[q] = lcall[q]
    <3>1. \A q \in Procs : lcall[q].locked => ~L!At(q, "wait") /\ q # p
      BY DEF LoadOnceInv, NoneLeft, LockedAt, HeldAt, L!Done, L!At
    <3> QED BY <1>4, <3>1
  <2>2. \A j \in L!Instances : token[j] \in Procs \cup {L!Nobody}
    BY <1>1 DEF LoadsTyped
  <2> QED BY <1>2, <2>1, <2>2 DEF LoadOnceInv, TokenIsHeld, SharedByAdvanced
<1> QED BY <1>8, <1>9, <1>10, <1>11, <1>12 DEF LoadOnceInv

LEMMA LoadOnceStep ==
  ASSUME L!Nobody \notin Procs, LoadOnceInv, [L!Next]_(L!vars)
  PROVE  LoadOnceInv'
<1>1. ASSUME NEW p \in Procs, L!Begin(p) \/ L!Step(p) PROVE LoadOnceInv'
  BY <1>1, CallMoves, MovesKeep, JoinKeeps, UnlockKeeps, DoneKeeps DEF L!Step, LoadOnceInv
<1>2. ASSUME NEW i \in L!Instances, L!Forget(i) PROVE LoadOnceInv'
  <2>1. /\ lcall' = lcall /\ UNCHANGED <<lock, token, shared, lapsed>> /\ flavour' = flavour
        /\ loadGroup' = [loadGroup EXCEPT ![i] = L!NoLoad] /\ loadGroup[i].result # "none"
    BY <1>2 DEF L!Forget, L!conf, L!locks
  <2>2. L!NoLoad \in MapLoads
    BY DEF L!NoLoad, MapLoads
  <2>3. /\ loadGroup' \in [L!Instances -> MapLoads]
        /\ \A j \in L!Instances : j # i => loadGroup'[j] = loadGroup[j]
    BY <2>1, <2>2 DEF LoadOnceInv, LoadsTyped
  <2>4. \A p \in Procs : Instance[p] \in L!Instances
    BY DEF L!Instances
  <2>5. LeaderInMap'
    <3> SUFFICES ASSUME flavour # "advanced", NEW q \in Procs, Leads(q)'
                 PROVE  loadGroup'[Instance[q]].leader = q /\ loadGroup'[Instance[q]].result = "none"
      BY <2>1 DEF LeaderInMap
    <3>1. loadGroup[Instance[q]].leader = q /\ loadGroup[Instance[q]].result = "none"
      BY <2>1 DEF LoadOnceInv, LeaderInMap, Leads
    <3> QED BY <2>1, <2>3, <2>4, <3>1
  <2>6. TakenIsHeld' /\ TokenIsHeld' /\ SharedByAdvanced'
    BY <2>1 DEF LoadOnceInv, TakenIsHeld, TokenIsHeld, SharedByAdvanced
  <2>7. NoneLeft'
    BY <2>1 DEF LoadOnceInv, NoneLeft, LockedAt
  <2> QED BY <2>1, <2>3, <2>5, <2>6, <2>7 DEF LoadOnceInv, LoadsTyped
<1>3. CASE L!Remove \/ UNCHANGED L!vars
  BY <1>3 DEF L!Remove, L!vars, L!conf, L!locks, LoadOnceInv, LoadsTyped, LeaderInMap, TakenIsHeld,
              Leads, NoneLeft, LockedAt, TokenIsHeld, SharedByAdvanced
<1>4. CASE L!ExpireLock \/ L!ExpireLeft
  <2>1. /\ lcall' = lcall /\ loadGroup' = loadGroup /\ flavour' = flavour
        /\ token' = token /\ shared' = shared
        /\ lapsed' \/ (lapsed' = lapsed /\ lock # L!Nobody /\ ~lcall[lock].locked)
        /\ lock' = L!Nobody
    BY <1>4 DEF L!ExpireLock, L!ExpireLeft, L!conf
  <2>2. LoadsTyped' /\ LeaderInMap'
    BY <2>1 DEF LoadOnceInv, LoadsTyped, LeaderInMap, Leads
  <2>3. TakenIsHeld' /\ TokenIsHeld' /\ SharedByAdvanced'
    BY <2>1 DEF LoadOnceInv, TakenIsHeld, TokenIsHeld, SharedByAdvanced
  <2>4. NoneLeft'
    BY <2>1 DEF LoadOnceInv, NoneLeft, LockedAt
  <2> QED BY <2>2, <2>3, <2>4 DEF LoadOnceInv
<1> QED
  BY <1>1, <1>2, <1>3, <1>4 DEF L!Next

-----------------------------------------------------------------------------
(* What holds of the three in every state. *)
LoadsInv == CtxInv /\ WrapperTyped /\ LockedHolds /\ WrapperLeft /\ LoadOnceInv

LEMMA LoadsInvariant ==
  ASSUME MaxVersion \in Nat,
         C!Nobody \notin Procs, L!Nobody \notin Procs, W!Nobody \notin Users, W!Gone \notin Users
  PROVE  Spec => []LoadsInv
<1>1. Init => LoadsInv
  <2> SUFFICES ASSUME C!Init, W!Init, L!Init PROVE LoadsInv
    BY DEF Init
  <2>1. CtxInv
    BY DEF C!Init, CtxInv, CtxTyped, LoaderInMap, C!Idle, C!At
  <2>2. WrapperTyped /\ LockedHolds /\ WrapperLeft
    BY DEF W!Init, WrapperTyped, WrapperCalls, LockedHolds, WrapperLeft, W!Idle, W!Missing
  <2>3. L!Idle \in LoadCalls /\ L!Idle.at = "idle" /\ ~L!Idle.locked /\ L!NoLoad \in MapLoads
    BY DEF L!Idle, LoadCalls, L!NoLoad, MapLoads
  <2>4. LoadOnceInv
    BY <2>3 DEF L!Init, LoadOnceInv, LoadsTyped, LeaderInMap, TakenIsHeld, Leads,
                NoneLeft, LockedAt, TokenIsHeld, SharedByAdvanced
  <2> QED BY <2>1, <2>2, <2>4 DEF LoadsInv
<1>2. LoadsInv /\ [Next]_vars => LoadsInv'
  <2> SUFFICES ASSUME LoadsInv, [Next]_vars PROVE LoadsInv'
    OBVIOUS
  <2> USE DEF LoadsInv
  <2>1. [C!Next]_(C!vars) /\ [W!Next]_(W!vars) /\ [L!Next]_(L!vars)
    BY Steps
  <2>2. CtxInv'
    BY <2>1, CtxTypedStep, LoaderStep DEF CtxInv
  <2>3. WrapperTyped' /\ LockedHolds' /\ WrapperLeft'
    BY <2>1, WrapperTypedStep, LockedHoldsStep, WrapperLeftStep
  <2>4. LoadOnceInv'
    BY <2>1, LoadOnceStep
  <2> QED BY <2>2, <2>3, <2>4
<1> QED BY <1>1, <1>2, PTL DEF Spec

(* A missing value is loaded by one caller at a time: the loader of a key that flightGroup.Do
   (ctxcache.go) guards; of the callers of CacheWrapper that have the lock (wrapper.go), as
   long as no lease is lost; of those that loadGroup merges (lru_optimized.go, redis.go,
   cache_builder.go), and of those whose Lock said yes in redis.go, cache_builder.go and
   advanced_cache.go, as long as no lease is lost, but for an AdvancedCache whose one lock
   object (GetLock) has said yes to several of its callers.  Any number of callers and
   instances, and whatever loaders, contexts, refreshes, removals and Redis do. *)
THEOREM OneLoads ==
  ASSUME MaxVersion \in Nat,
         C!Nobody \notin Procs, L!Nobody \notin Procs, W!Nobody \notin Users, W!Gone \notin Users
  PROVE  Spec => []OneLoader
<1>1. LoadsInv => OneLoader
  <2> SUFFICES ASSUME LoadsInv PROVE C!OneLoader /\ W!OneLoad /\ L!OneLoader
    BY DEF OneLoader
  <2> USE DEF LoadsInv
  <2>1. C!OneLoader
    BY DEF CtxInv, LoaderInMap, C!OneLoader
  <2>2. W!OneLoad
    BY DEF LockedHolds, W!OneLoad
  <2>3. L!OneLoader
    <3> SUFFICES ASSUME NEW p \in Procs, NEW q \in Procs, L!Loading(p), L!Loading(q), p # q
                 PROVE  /\ flavour # "advanced" => Instance[p] # Instance[q]
                        /\ ~lapsed /\ lcall[p].locked /\ lcall[q].locked =>
                             flavour = "advanced" /\ {Instance[p], Instance[q]} \cap shared # {}
      BY DEF L!OneLoader
    <3>1. flavour # "advanced" => Instance[p] # Instance[q]
      BY DEF L!Loading, Leads, LoadOnceInv, LeaderInMap
    <3>2. ASSUME ~lapsed, lcall[p].locked, lcall[q].locked
          PROVE  flavour = "advanced" /\ {Instance[p], Instance[q]} \cap shared # {}
      BY <3>2 DEF LoadOnceInv, TakenIsHeld, SharedByAdvanced
    <3> QED BY <3>1, <3>2
  <2> QED BY <2>1, <2>2, <2>3
<1> QED BY <1>1, LoadsInvariant, PTL

(* No call that is over has the lock: the function CacheWrapper returns leads through Unlock
   on every path with the lock, lost leases or not (wrapper.go), and after an Unlock that
   failed the key has the token of no call any more; the key in Redis is that of a call in
   redis.go, cache_builder.go and advanced_cache.go that has still to unlock, also where an
   object is shared, unless a command failed or the lock has expired under a caller. *)
THEOREM NoLockIsLeft ==
  ASSUME MaxVersion \in Nat,
         C!Nobody \notin Procs, L!Nobody \notin Procs, W!Nobody \notin Users, W!Gone \notin Users
  PROVE  Spec => []NoLockLeft
<1>1. LoadsInv => NoLockLeft
  <2> SUFFICES ASSUME LoadsInv PROVE (\A p \in Users : ~W!LeftBehind(p)) /\ (\A p \in Procs : ~L!LeftBehind(p))
    BY DEF NoLockLeft
  <2>1. \A p \in Users : ~W!LeftBehind(p)
    <3>1. WrapperLeft /\ WrapperTyped
      BY DEF LoadsInv
    <3>2. \A p \in Users : holder = p => wcall[p].locked /\ wcall[p].pc \in LockedPlaces
      BY <3>1 DEF WrapperLeft
    <3>3. "idle" \notin LockedPlaces
      BY DEF LockedPlaces
    <3> QED BY <3>2, <3>3 DEF W!LeftBehind, W!At
  <2>2. \A p \in Procs : ~L!LeftBehind(p)
    BY DEF LoadsInv, LoadOnceInv, NoneLeft, LockedAt, HeldAt, L!LeftBehind, L!At
  <2> QED BY <2>1, <2>2
<1> QED BY <1>1, LoadsInvariant, PTL
=============================================================================
