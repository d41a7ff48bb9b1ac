-------------------------- MODULE LifecyclesProofs --------------------------
(* Proofs about starting, stopping and waiting, for any consumers, callers, Subscribers and
   numbers of calls and mishaps. *)
EXTENDS Lifecycles, FiniteSetTheorems, TLAPS

(* A step is one of the component that runs, and leaves the other one alone. *)
LEMMA Steps ==
  ASSUME [Next]_vars
  PROVE  [C!Next]_(C!vars) /\ [P!Next]_(P!vars)
  BY DEF Next, Consumers, PubSub, vars, cvars, pvars, C!vars,
    P!vars, P!pvars, P!subvars, P!hist

-----------------------------------------------------------------------------
(* DelayConsumers. *)

Typed ==
  /\ pc \in [Starts -> {"idle", "checked", "registered", "loop", "leaving", "closing",
                        "gone", "refused"}]
  /\ entry \in Starts \cup {C!None}
  /\ cancelled \subseteq Starts /\ busy \subseteq Starts
  /\ closed \in BOOLEAN

(* Calls that are registering, and consumers that StartConsumer must not join. *)
Pending(c) == pc[c] \in {"checked", "registered"}
Live(c) == pc[c] \in {"registered", "loop", "leaving"}

(* A start passes its first check only when the map is empty, and none passes it until
   that one has registered: so whatever is live is what the map has, or was
   cancelled by Stop, which emptied the map for good. *)
OneStart == \A c, d \in Starts : Pending(c) /\ Pending(d) => c = d
CheckedFirst == \A c \in Starts : pc[c] = "checked" /\ ~closed => \A d \in Starts : ~Live(d)
LiveInMap == \A c \in Starts : Live(c) => IF closed THEN c \in cancelled ELSE entry = c
ClosedIsEmpty == closed => entry = C!None
Starting == OneStart /\ CheckedFirst /\ LiveInMap /\ ClosedIsEmpty

(* wg counts the goroutines, and jobs belong to goroutines: when it has come to zero no
   job is left, and none can come as the consumers left are cancelled. *)
Goroutines == {c \in Starts : pc[c] \in {"loop", "leaving", "closing"}}
Counted == wg = Cardinality(Goroutines)
JobsHaveGoroutines == \A c \in busy : c \in Goroutines
Quiet == /\ closed = (stop # "none")
         /\ stop = "returned" => busy = {}
         /\ stop \in {"none", "waiting", "returned"}

PlainInv == C!PlainUsage => Starting /\ Counted /\ JobsHaveGoroutines /\ Quiet
ConsumersInv == Typed /\ PlainInv

LEMMA ConsumersBegin == ASSUME C!Init PROVE ConsumersInv
<1>1. Typed
  BY DEF C!Init, Typed
<1>2. Goroutines = {}
  BY DEF C!Init, Goroutines
<1>3. Counted
  BY <1>2, FS_EmptySet DEF C!Init, Counted
<1> QED
  BY <1>1, <1>3 DEF C!Init, ConsumersInv, PlainInv, Starting, OneStart, CheckedFirst, LiveInMap,
    ClosedIsEmpty, Pending, Live, JobsHaveGoroutines, Quiet

(* The types, and that nobody changes how the queue is used. *)
LEMMA TypedStep ==
  ASSUME Typed, [C!Next]_(C!vars)
  PROVE  Typed' /\ (C!PlainUsage' = C!PlainUsage)
<1> USE DEF Typed, C!PlainUsage
<1>1. ASSUME NEW c \in Starts, C!Start(c) PROVE Typed' /\ usage' = usage
  BY <1>1 DEF C!Start, C!StartCheck, C!StartRegister, C!StartSpawn, C!Goto
<1>2. ASSUME NEW c \in Starts, C!Leave(c) PROVE Typed' /\ usage' = usage
  BY <1>2 DEF C!Leave, C!LoopExit, C!Unregister, C!CloseWorkers, C!Goto
<1>3. ASSUME NEW c \in Starts, C!PollOnce(c) \/ C!JobsDone(c) \/ C!CallerCtxDone(c)
      PROVE  Typed' /\ usage' = usage
  BY <1>3 DEF C!PollOnce, C!JobsDone, C!CallerCtxDone
<1>4. CASE C!StopConsumer \/ C!StopBegin \/ C!StopEnd
  BY <1>4 DEF C!StopConsumer, C!StopBegin, C!StopEnd
<1>5. CASE UNCHANGED C!vars
  BY <1>5 DEF C!vars
<1> HIDE DEF Typed
<1> QED BY <1>1, <1>2, <1>3, <1>4, <1>5 DEF C!Next

(* Only the two halves of StartConsumer, the goroutine's own exit and Stop touch what the
   first check relies on (delay_queue.go). *)
LEMMA StartingStep ==
  ASSUME C!None \notin Starts, Typed, C!PlainUsage, Starting, [C!Next]_(C!vars)
  PROVE  Starting'
<1> USE DEF Typed, Starting, OneStart, CheckedFirst, LiveInMap, ClosedIsEmpty, Pending, Live,
     C!Goto
<1>1. ASSUME NEW c \in Starts, C!StartCheck(c) PROVE Starting'
  <2>1. CASE closed \/ entry # C!None
    BY <1>1, <2>1 DEF C!StartCheck
  <2>2. CASE ~closed /\ entry = C!None
    <3>1. pc' = [pc EXCEPT ![c] = "checked"] /\ UNCHANGED <<closed, entry, cancelled>>
      BY <1>1, <2>2 DEF C!StartCheck
    <3>2. \A d \in Starts : ~Pending(d) /\ ~Live(d)
      BY <1>1, <2>2 DEF C!StartCheck, C!PlainUsage
    <3> QED BY <3>1, <3>2, <2>2
  <2> QED BY <2>1, <2>2
<1>2. ASSUME NEW c \in Starts, C!StartRegister(c) PROVE Starting'
  <2>1. CASE closed
    BY <1>2, <2>1 DEF C!StartRegister
  <2>2. CASE ~closed
    <3>1. /\ pc' = [pc EXCEPT ![c] = "registered"] /\ entry' = c
          /\ UNCHANGED <<closed, cancelled>>
      BY <1>2, <2>2 DEF C!StartRegister
    <3>2. \A d \in Starts : ~Live(d) /\ (d # c => ~Pending(d))
      BY <1>2, <2>2 DEF C!StartRegister
    <3> QED BY <3>1, <3>2, <2>2
  <2> QED BY <2>1, <2>2
<1>3. ASSUME NEW c \in Starts, C!StartSpawn(c) PROVE Starting'
  BY <1>3 DEF C!StartSpawn
<1>4. ASSUME NEW c \in Starts, C!LoopExit(c) PROVE Starting'
  BY <1>4 DEF C!LoopExit
<1>5. ASSUME NEW c \in Starts, C!Unregister(c) PROVE Starting'
  <2>1. \A d \in Starts : Live(d) /\ d # c => closed
    BY <1>5 DEF C!Unregister
  <2> QED BY <1>5, <2>1 DEF C!Unregister
<1>6. ASSUME NEW c \in Starts, C!CloseWorkers(c) PROVE Starting'
  BY <1>6 DEF C!CloseWorkers
<1>7. ASSUME NEW c \in Starts, C!PollOnce(c) \/ C!JobsDone(c) \/ C!CallerCtxDone(c)
      PROVE  Starting'
  BY <1>7 DEF C!PollOnce, C!JobsDone, C!CallerCtxDone
<1>8. ASSUME C!StopConsumer PROVE Starting'
  BY <1>8 DEF C!StopConsumer, C!PlainUsage
<1>9. CASE C!StopBegin
  BY <1>9 DEF C!StopBegin
<1>10. CASE C!StopEnd \/ UNCHANGED C!vars
  BY <1>10 DEF C!StopEnd, C!vars
<1> HIDE DEF Typed, Starting, OneStart, CheckedFirst, LiveInMap, ClosedIsEmpty, Pending, Live,
      C!Goto
<1> QED
  BY <1>1, <1>2, <1>3, <1>4, <1>5, <1>6, <1>7, <1>8, <1>9, <1>10
  DEF C!Next, C!Start, C!Leave

(* wg.Add(1) comes with the goroutine, and wg.Done with its end. *)
LEMMA CountedStep ==
  ASSUME IsFiniteSet(Starts), Typed, Counted, [C!Next]_(C!vars)
  PROVE  Counted'
<1>0. IsFiniteSet(Goroutines)
  BY FS_Subset DEF Goroutines
<1> USE DEF Typed, C!Goto
<1>1. ASSUME NEW c \in Starts, C!StartSpawn(c) PROVE Counted'
  <2>1. Goroutines' = Goroutines \cup {c} /\ c \notin Goroutines
    BY <1>1 DEF C!StartSpawn, Goroutines
  <2>2. Cardinality(Goroutines \cup {c}) = Cardinality(Goroutines) + 1
    BY <1>0, <2>1, FS_AddElement
  <2> QED BY <1>1, <2>1, <2>2 DEF Counted, C!StartSpawn
<1>2. ASSUME NEW c \in Starts, C!CloseWorkers(c) PROVE Counted'
  <2>1. Goroutines' = Goroutines \ {c} /\ c \in Goroutines
    BY <1>2 DEF C!CloseWorkers, Goroutines
  <2>2. Cardinality(Goroutines \ {c}) = Cardinality(Goroutines) - 1
    BY <1>0, <2>1, FS_RemoveElement
  <2> QED BY <1>2, <2>1, <2>2 DEF Counted, C!CloseWorkers
<1>3. ASSUME NEW c \in Starts, C!StartCheck(c) \/ C!StartRegister(c)
      PROVE  Counted'
  <2>1. Goroutines' = Goroutines /\ wg' = wg
    BY <1>3 DEF C!StartCheck, C!StartRegister, Goroutines
  <2> QED BY <2>1 DEF Counted
<1>4. ASSUME NEW c \in Starts, C!LoopExit(c) \/ C!Unregister(c)
      PROVE  Counted'
  <2>1. Goroutines' = Goroutines /\ wg' = wg
    BY <1>4 DEF C!LoopExit, C!Unregister, Goroutines
  <2> QED BY <2>1 DEF Counted
<1>5. ASSUME UNCHANGED <<pc, wg>> PROVE Counted'
  BY <1>5 DEF Counted, Goroutines
<1>6. ASSUME NEW c \in Starts, C!PollOnce(c) \/ C!JobsDone(c) \/ C!CallerCtxDone(c)
      PROVE  Counted'
  BY <1>5, <1>6 DEF C!PollOnce, C!JobsDone, C!CallerCtxDone
<1>7. CASE C!StopConsumer \/ C!StopBegin \/ C!StopEnd \/ UNCHANGED C!vars
  BY <1>5, <1>7 DEF C!StopConsumer, C!StopBegin, C!StopEnd, C!vars
<1> HIDE DEF Typed, C!Goto
<1> QED
  BY <1>1, <1>2, <1>3, <1>4, <1>6, <1>7 DEF C!Next, C!Start, C!Leave

(* A goroutine leaves when its jobs have come to their end, and Stop when there is no
   goroutine; a poll of a consumer that Stop has cancelled hands out nothing. *)
LEMMA QuietStep ==
  ASSUME IsFiniteSet(Starts), Typed, Starting, Counted, JobsHaveGoroutines, Quiet,
         [C!Next]_(C!vars)
  PROVE  JobsHaveGoroutines' /\ Quiet'
<1> USE DEF Typed, C!Goto, JobsHaveGoroutines, Goroutines, Quiet
<1>1. ASSUME NEW c \in Starts, C!Start(c) PROVE JobsHaveGoroutines' /\ Quiet'
  BY <1>1 DEF C!Start, C!StartCheck, C!StartRegister, C!StartSpawn
<1>2. ASSUME NEW c \in Starts, C!Leave(c) PROVE JobsHaveGoroutines' /\ Quiet'
  BY <1>2 DEF C!Leave, C!LoopExit, C!Unregister, C!CloseWorkers
<1>3. ASSUME NEW c \in Starts, C!PollOnce(c) PROVE JobsHaveGoroutines' /\ Quiet'
  <2>1. ~closed
    BY <1>3 DEF C!PollOnce, Starting, LiveInMap, Live
  <2> QED BY <1>3, <2>1 DEF C!PollOnce
<1>4. ASSUME NEW c \in Starts, C!JobsDone(c) \/ C!CallerCtxDone(c)
      PROVE  JobsHaveGoroutines' /\ Quiet'
  BY <1>4 DEF C!JobsDone, C!CallerCtxDone
<1>5. CASE C!StopConsumer \/ C!StopBegin
  BY <1>5 DEF C!StopConsumer, C!StopBegin
<1>6. CASE C!StopEnd
  <2>1. IsFiniteSet(Goroutines)
    BY FS_Subset
  <2>2. Goroutines = {}
    BY <1>6, <2>1, FS_EmptySet DEF C!StopEnd, Counted
  <2>3. busy = {}
    BY <2>2
  <2> QED BY <1>6, <2>3 DEF C!StopEnd
<1>7. CASE UNCHANGED C!vars
  BY <1>7 DEF C!vars
<1> HIDE DEF Typed, C!Goto, JobsHaveGoroutines, Goroutines, Quiet
<1> QED BY <1>1, <1>2, <1>3, <1>4, <1>5, <1>6, <1>7 DEF C!Next

LEMMA ConsumersStep ==
  ASSUME C!None \notin Starts, IsFiniteSet(Starts), ConsumersInv, [C!Next]_(C!vars)
  PROVE  ConsumersInv'
<1>1. Typed' /\ (C!PlainUsage' = C!PlainUsage)
  BY TypedStep DEF ConsumersInv
<1>2. CASE C!PlainUsage
  BY <1>1, <1>2, StartingStep, CountedStep, QuietStep DEF ConsumersInv, PlainInv
<1>3. CASE ~C!PlainUsage
  BY <1>1, <1>3 DEF ConsumersInv, PlainInv
<1> QED BY <1>2, <1>3

(* A queue name of a DelayQueue has one live consumer, whatever the number of
   StartConsumer calls, contexts that end and the time of Stop. *)
THEOREM OneConsumerEach ==
  ASSUME C!None \notin Starts, IsFiniteSet(Starts)
  PROVE  Spec => []OneConsumer
<1>1. Init => ConsumersInv
  BY ConsumersBegin DEF Init
<1>2. ConsumersInv /\ [Next]_vars => ConsumersInv'
  BY Steps, ConsumersStep
<1>3. ConsumersInv => OneConsumer
  BY DEF ConsumersInv, PlainInv, Starting, LiveInMap, Live, OneConsumer, C!OneConsumer
<1> QED BY <1>1, <1>2, <1>3, PTL DEF Spec

-----------------------------------------------------------------------------
(* PubSub. *)

(* Where a call may be that runs start, and where one that holds stopMu. *)
Begun(p) == call[p].at \in {"register", "dial", "failed", "pool", "launch"}
Starts1(p) == Begun(p) /\ call[p].op \in {"subscribe", "request"}
Restarts(p) == Begun(p) /\ call[p].op \notin {"subscribe", "request"}
Holds(p) == call[p].at \in {"signal", "wait", "waitloop"} \/ Restarts(p)

Ops == {"idle", "subscribe", "request", "stop", "unsubscribe", "resubscribe", "close"}
Places == {"end", "register", "dial", "failed", "pool", "launch", "answer", "lock", "signal",
           "wait", "waitloop", "remove", "collect", "stops"}
PubCalls == [op : Ops, at : Places, s : Subs \cup {P!NoSub}, todo : SUBSET Subs, tries : Nat]

PubTyped ==
  /\ call \in [Callers -> PubCalls]
  /\ loop \in [Subs -> {"none", "run", "submit", "down", "ending", "draining"}]
  /\ stopMu \in [Subs -> Callers \cup {P!Free}]
  /\ status \in [Subs -> {"unborn", "starting", "known", "private"}]
  /\ subscribers \in [Channels -> Subs \cup {P!NoSub}]
  /\ stopChan \subseteq Subs
  /\ pcancelled \in BOOLEAN /\ clientClosed \in BOOLEAN /\ closeDone \in BOOLEAN

(* What a call has seen to when it is where it is: a Resubscribe is one of a Subscriber
   that was started before; stopMu is held during Stop and Resubscribe; whoever is about to
   start a loop has found none; and Close has cancelled the context before it waits. *)
InPlace(p) ==
  /\ call[p].at \in {"collect", "stops"} => call[p].op = "close"
  /\ call[p].at = "waitloop" \/ Restarts(p) => call[p].op = "resubscribe"
  /\ Begun(p) \/ Holds(p) \/ call[p].at \in {"answer", "lock"} => call[p].s \in Subs
  /\ call[p].op = "resubscribe" => call[p].s \in Subs /\ status[call[p].s] = "known"
  /\ Holds(p) => stopMu[call[p].s] = p
  /\ Starts1(p) => status[call[p].s] = "starting"
  /\ Begun(p) => loop[call[p].s] = "none"
  /\ call[p].op = "close" => pcancelled
Located == \A p \in Callers : InPlace(p)

(* A Subscriber is started by the one call that made it. *)
OneStarter ==
  /\ \A s \in Subs : status[s] \in {"unborn", "starting"} => loop[s] = "none"
  /\ \A p, q \in Callers : Starts1(p) /\ Starts1(q) /\ call[p].s = call[q].s => p = q

(* No later Close adds to before, as the first has cancelled the context. *)
Closing ==
  /\ closeDone => pcancelled /\ before = {}
  /\ \A s \in before : s \in Subs /\ loop[s] # "none"

PubInv == PubTyped /\ Located /\ OneStarter /\ Closing /\ StaysSubscribed

LEMMA PubBegin == ASSUME P!Init PROVE PubInv
  BY DEF P!Init, P!Idle, PubInv, PubTyped, PubCalls, Ops, Places, Located, InPlace, OneStarter,
    Closing, Begun, Starts1, Restarts, Holds, StaysSubscribed, P!StaysSubscribed

(* What each step does to the call it is a step of. *)
LEMMA CallGoesOn ==
  ASSUME PubTyped, NEW p \in Callers, NEW l, P!Goto(p, l)
  PROVE  /\ \A q \in Callers : q # p => call'[q] = call[q]
         /\ call'[p].at = l /\ call'[p].op = call[p].op /\ call'[p].s = call[p].s
         /\ call'[p].todo = call[p].todo /\ call'[p].tries = call[p].tries
         /\ l \in Places => call' \in [Callers -> PubCalls]
  BY DEF PubTyped, PubCalls, P!Goto

LEMMA CallEnds ==
  ASSUME PubTyped, NEW p \in Callers, P!End(p)
  PROVE  /\ \A q \in Callers : q # p => call'[q] = call[q]
         /\ call'[p].at = "end" /\ call'[p].op = "idle" /\ call'[p].s = P!NoSub
         /\ call'[p] = P!Idle
         /\ call' \in [Callers -> PubCalls]
<1>1. P!Idle \in PubCalls
  BY DEF P!Idle, PubCalls, Ops, Places
<1> QED BY <1>1 DEF PubTyped, P!End, P!Idle

LEMMA CallBegins ==
  ASSUME PubTyped, NEW p \in Callers, NEW op, NEW s, NEW l, P!Begin(p, op, s, l)
  PROVE  /\ call[p].at = "end" /\ call[p].op = "idle"
         /\ \A q \in Callers : q # p => call'[q] = call[q]
         /\ call'[p].at = l /\ call'[p].op = op /\ call'[p].s = s
         /\ call'[p].todo = {} /\ call'[p].tries = 0
         /\ op \in Ops /\ l \in Places /\ s \in Subs \cup {P!NoSub}
              => call' \in [Callers -> PubCalls]
<1> DEFINE r == [P!Idle EXCEPT !.op = op, !.at = l, !.s = s]
<1>1. r.op = op /\ r.at = l /\ r.s = s /\ r.todo = {} /\ r.tries = 0
  BY DEF P!Idle
<1>2. op \in Ops /\ l \in Places /\ s \in Subs \cup {P!NoSub} => r \in PubCalls
  BY DEF PubCalls, P!Idle
<1>3. call' = [call EXCEPT ![p] = r] /\ call[p] = P!Idle
  BY DEF P!Begin
<1> HIDE DEF r
<1>4. \A q \in Callers : q # p => call'[q] = call[q]
  BY <1>3 DEF PubTyped
<1>5. call'[p] = r
  BY <1>3 DEF PubTyped
<1>6. r \in PubCalls => call' \in [Callers -> PubCalls]
  BY <1>3 DEF PubTyped
<1> QED BY <1>1, <1>2, <1>3, <1>4, <1>5, <1>6 DEF P!Idle

LEMMA PubTypedStep ==
  ASSUME PubTyped, Located, [P!Next]_(P!vars)
  PROVE  PubTyped'
<1> DEFINE Rest ==
  /\ loop \in [Subs -> {"none", "run", "submit", "down", "ending", "draining"}]
  /\ stopMu \in [Subs -> Callers \cup {P!Free}]
  /\ status \in [Subs -> {"unborn", "starting", "known", "private"}]
  /\ subscribers \in [Channels -> Subs \cup {P!NoSub}]
  /\ stopChan \subseteq Subs
  /\ pcancelled \in BOOLEAN /\ clientClosed \in BOOLEAN /\ closeDone \in BOOLEAN
<1>0. Rest /\ call \in [Callers -> PubCalls]
  BY DEF PubTyped
<1>a. Rest' /\ call' \in [Callers -> PubCalls] => PubTyped'
  BY DEF PubTyped
<1> USE DEF P!Registered, P!Event, P!pvars, P!hist, P!subvars, P!Op, P!At
<1>1. ASSUME NEW p \in Callers, NEW s \in Subs, P!CallSubscribe(p, s) PROVE PubTyped'
  <2>1. call' \in [Callers -> PubCalls]
    <3>1. PICK op \in {"subscribe", "request"} : P!Begin(p, op, s, "register")
      BY <1>1 DEF P!CallSubscribe
    <3> QED BY <3>1, CallBegins DEF Ops, Places
  <2>2. Rest'
    BY <1>0, <1>1 DEF P!CallSubscribe
  <2> QED BY <2>1, <2>2, <1>a
<1>2. ASSUME NEW p \in Callers, NEW s \in Subs, P!CallSubscriber(p, s) PROVE PubTyped'
  <2>1. call' \in [Callers -> PubCalls]
    <3>1. PICK op \in {"stop", "unsubscribe", "resubscribe"} : P!Begin(p, op, s, "lock")
      BY <1>2 DEF P!CallSubscriber
    <3> QED BY <3>1, CallBegins DEF Ops, Places
  <2>2. Rest'
    BY <1>0, <1>2 DEF P!CallSubscriber
  <2> QED BY <2>1, <2>2, <1>a
<1>3. ASSUME NEW p \in Callers, NEW c \in Channels, P!CallUnsubscribe(p, c) PROVE PubTyped'
  <2>1. subscribers[c] \in Subs \cup {P!NoSub}
    BY <1>0
  <2>2. P!Begin(p, "stop", subscribers[c], "lock")
    BY <1>3 DEF P!CallUnsubscribe
  <2>3. call' \in [Callers -> PubCalls]
    BY <2>1, <2>2, CallBegins DEF Ops, Places
  <2>4. Rest'
    BY <1>0, <1>3 DEF P!CallUnsubscribe
  <2> QED BY <2>3, <2>4, <1>a
<1>4. ASSUME NEW p \in Callers, P!CallClose(p) PROVE PubTyped'
  <2>1. P!Begin(p, "close", P!NoSub, "collect")
    BY <1>4 DEF P!CallClose
  <2>2. call' \in [Callers -> PubCalls]
    BY <2>1, CallBegins DEF Ops, Places
  <2>3. Rest'
    BY <1>0, <1>4 DEF P!CallClose
  <2> QED BY <2>2, <2>3, <1>a
<1>5. ASSUME NEW p \in Callers, P!Register(p) \/ P!RemoveFromRegistry(p) PROVE PubTyped'
  <2>1. P!Goto(p, "dial") \/ P!End(p)
    BY <1>5 DEF P!Register, P!RemoveFromRegistry
  <2>2. call[p].at = "register" => call[p].s \in Subs
    BY DEF Located, InPlace, Begun
  <2>3. Rest'
    BY <1>0, <1>5, <2>2 DEF P!Register, P!RemoveFromRegistry
  <2> QED BY <2>1, <2>3, <1>a, CallGoesOn, CallEnds DEF Places
<1>6. ASSUME NEW p \in Callers, P!Dial(p) PROVE PubTyped'
  <2>1. Rest'
    BY <1>0, <1>6 DEF P!Dial
  <2>2. CASE call' = [call EXCEPT ![p].tries = @ + 1]
    <3> DEFINE n == call[p].tries + 1
               r == [call[p] EXCEPT !.tries = n]
    <3>1. n \in Nat
      BY <1>0 DEF PubCalls
    <3>2. call' = [call EXCEPT ![p] = r]
      BY <2>2, <1>0
    <3> HIDE DEF n
    <3>3. r \in PubCalls
      BY <3>1, <1>0 DEF PubCalls
    <3> HIDE DEF r
    <3> QED BY <1>0, <2>1, <3>2, <3>3, <1>a
  <2>3. CASE P!Goto(p, "pool") \/ P!Goto(p, "failed")
    BY <2>1, <2>3, <1>a, CallGoesOn DEF Places
  <2> QED BY <1>6, <2>2, <2>3 DEF P!Dial
<1>7. ASSUME NEW p \in Callers, P!StartFailed(p) PROVE PubTyped'
  <2>1. P!End(p)
    BY <1>7 DEF P!StartFailed
  <2>2. Rest'
    BY <1>0, <1>7 DEF P!StartFailed
  <2> QED BY <2>1, <2>2, <1>a, CallEnds
<1>8. ASSUME NEW p \in Callers, P!MakePool(p) \/ P!Answer(p) PROVE PubTyped'
  <2>1. P!Goto(p, "launch") \/ P!Goto(p, "lock")
    BY <1>8 DEF P!MakePool, P!Answer
  <2>2. Rest'
    BY <1>0, <1>8 DEF P!MakePool, P!Answer
  <2> QED BY <2>1, <2>2, <1>a, CallGoesOn DEF Places
<1>9. ASSUME NEW p \in Callers, P!Launch(p) PROVE PubTyped'
  <2>1. P!Goto(p, "answer") \/ P!End(p)
    BY <1>9 DEF P!Launch
  <2>2. stopMu' \in [Subs -> Callers \cup {P!Free}]
    BY <1>0, <1>9 DEF P!Launch
  <2>3. Rest'
    BY <1>0, <1>9, <2>2 DEF P!Launch
  <2> QED BY <2>1, <2>3, <1>a, CallGoesOn, CallEnds DEF Places
<1>10. ASSUME NEW p \in Callers, P!Stopped(p) PROVE call' \in [Callers -> PubCalls]
  <2>1. P!Goto(p, "stops") \/ P!Goto(p, "remove") \/ P!End(p)
    BY <1>10 DEF P!Stopped
  <2> QED BY <2>1, CallGoesOn, CallEnds DEF Places
<1>11. ASSUME NEW p \in Callers, P!Lock(p) PROVE PubTyped'
  <2>1. P!Stopped(p) \/ P!End(p) \/ P!Goto(p, "waitloop") \/ P!Goto(p, "signal")
    BY <1>11 DEF P!Lock
  <2>2. Rest'
    BY <1>0, <1>11 DEF P!Lock
  <2> QED BY <2>1, <2>2, <1>10, <1>a, CallGoesOn, CallEnds DEF Places
<1>12. ASSUME NEW p \in Callers, P!Signal(p) PROVE PubTyped'
  <2>1. P!Goto(p, "wait") /\ call[p].s \in Subs
    BY <1>12 DEF P!Signal, Located, InPlace, Holds
  <2>2. Rest'
    BY <1>0, <1>12, <2>1 DEF P!Signal
  <2> QED BY <2>1, <2>2, <1>a, CallGoesOn DEF Places
<1>13. ASSUME NEW p \in Callers, P!WaitLoop(p) PROVE PubTyped'
  <2>1. P!Stopped(p)
    BY <1>13 DEF P!WaitLoop
  <2>2. Rest'
    BY <1>0, <1>13 DEF P!WaitLoop
  <2> QED BY <2>1, <2>2, <1>10, <1>a
<1>14. ASSUME NEW p \in Callers, P!Reset(p) PROVE PubTyped'
  <2>1. P!Goto(p, "register")
    BY <1>14 DEF P!Reset, P!ResetNow
  <2>2. Rest'
    BY <1>0, <1>14 DEF P!Reset, P!ResetNow
  <2> QED BY <2>1, <2>2, <1>a, CallGoesOn DEF Places
<1>15. ASSUME NEW p \in Callers, P!Collect(p) PROVE PubTyped'
  <2> DEFINE S == {subscribers[c] : c \in Channels} \ {P!NoSub}
  <2>1. S \subseteq Subs
    BY <1>0
  <2>2. call' = [call EXCEPT ![p].at = "stops", ![p].todo = S]
    BY <1>15 DEF P!Collect
  <2>3. Rest'
    BY <1>0, <1>15 DEF P!Collect
  <2> HIDE DEF S
  <2> DEFINE r == [call[p] EXCEPT !.at = "stops", !.todo = S]
  <2>4. call' = [call EXCEPT ![p] = r]
    BY <1>0, <2>2
  <2>5. r \in PubCalls
    BY <1>0, <2>1 DEF PubCalls, Places
  <2> HIDE DEF r
  <2>6. call' \in [Callers -> PubCalls]
    BY <1>0, <2>4, <2>5
  <2> QED BY <2>3, <2>6, <1>a
<1>16. ASSUME NEW p \in Callers, P!StopNext(p) PROVE PubTyped'
  <2>1. PICK s \in call[p].todo :
          call' = [call EXCEPT ![p].at = "lock", ![p].s = s, ![p].todo = @ \ {s}]
    BY <1>16 DEF P!StopNext
  <2> DEFINE t == call[p].todo \ {s}
             r == [call[p] EXCEPT !.at = "lock", !.s = s, !.todo = t]
  <2>3. call' = [call EXCEPT ![p] = r]
    BY <1>0, <2>1
  <2>6. t \in SUBSET Subs /\ s \in Subs
    BY <1>0 DEF PubCalls
  <2>7. "lock" \in Places
    BY DEF Places
  <2> HIDE DEF t
  <2>2. r \in PubCalls
    BY <1>0, <2>6, <2>7 DEF PubCalls
  <2> HIDE DEF r
  <2>4. call' \in [Callers -> PubCalls]
    BY <1>0, <2>2, <2>3
  <2>5. Rest'
    BY <1>0, <1>16 DEF P!StopNext
  <2> QED BY <2>4, <2>5, <1>a
<1>17. ASSUME NEW p \in Callers, P!EndClose(p) PROVE PubTyped'
  <2>1. P!End(p)
    BY <1>17 DEF P!EndClose
  <2>2. Rest'
    BY <1>0, <1>17 DEF P!EndClose
  <2> QED BY <2>1, <2>2, <1>a, CallEnds
<1>18. ASSUME NEW s \in Subs, P!Message(s) \/ P!Submit(s) \/ P!Handled(s) PROVE PubTyped'
  BY <1>0, <1>18, <1>a DEF P!Message, P!Submit, P!Handled
<1>19. ASSUME NEW s \in Subs, P!Disconnect(s) \/ P!Reconnect(s) PROVE PubTyped'
  BY <1>0, <1>19, <1>a DEF P!Disconnect, P!Reconnect
<1>20. ASSUME NEW s \in Subs, P!Ends(s) PROVE PubTyped'
  BY <1>0, <1>20, <1>a DEF P!Ends, P!LoopStops, P!LoopCleans, P!LoopEnds
<1>21. CASE P!CloseClient \/ UNCHANGED P!vars
  BY <1>0, <1>21, <1>a DEF P!CloseClient, P!vars
<1> HIDE DEF P!Registered, P!Event, P!pvars, P!hist, P!subvars, P!Op, P!At
<1> QED
  BY <1>1, <1>2, <1>3, <1>4, <1>5, <1>6, <1>7, <1>8, <1>9, <1>11, <1>12, <1>13, <1>14, <1>15,
     <1>16, <1>17, <1>18, <1>19, <1>20, <1>21 DEF P!Next, P!Step

(* Of two calls only one is about to start a given Subscriber: the one that made it, or
   later the Resubscribe that holds stopMu. *)
LEMMA StartsAlone ==
  ASSUME Located, OneStarter, NEW p \in Callers, NEW q \in Callers, Begun(p), Begun(q),
         call[p].s = call[q].s
  PROVE  p = q
  BY DEF Located, InPlace, OneStarter, Starts1, Restarts, Holds

(* A call stays where it is while others leave its Subscriber's lock and status alone and
   start no loop. *)
LEMMA OthersStay ==
  ASSUME NEW q \in Callers, InPlace(q), call'[q] = call[q], pcancelled => pcancelled',
         call[q].op = "resubscribe" \/ Starts1(q) => status'[call[q].s] = status[call[q].s],
         Holds(q) => stopMu'[call[q].s] = stopMu[call[q].s],
         Begun(q) => (loop[call[q].s] = "none" => loop'[call[q].s] = "none")
  PROVE  InPlace(q)'
  BY DEF InPlace, Begun, Starts1, Restarts, Holds

(* The same for both of the invariants when the one call that moves does so in place, and
   is not a new one that starts. *)
LEMMA OneMoves ==
  ASSUME PubTyped, Located, OneStarter, NEW p \in Callers, InPlace(p)',
         \A q \in Callers : q # p => call'[q] = call[q],
         Starts1(p)' => Starts1(p) /\ call'[p].s = call[p].s,
         pcancelled => pcancelled',
         \A s \in Subs : status'[s] = status[s],
         \A s \in Subs : stopMu'[s] = stopMu[s] \/ stopMu[s] = P!Free \/ stopMu[s] = p,
         P!Free \notin Callers,
         \A s \in Subs : loop[s] = "none" => loop'[s] = "none"
  PROVE  Located' /\ OneStarter'
<1>1. ASSUME NEW q \in Callers, q # p PROVE InPlace(q)'
  <2>1. InPlace(q) /\ call'[q] = call[q]
    BY <1>1 DEF Located
  <2>2. /\ Begun(q) \/ Holds(q) \/ call[q].op = "resubscribe" => call[q].s \in Subs
        /\ Holds(q) => stopMu[call[q].s] = q
    BY <2>1 DEF InPlace
  <2>3. Starts1(q) => Begun(q)
    BY DEF Starts1
  <2>4. Holds(q) => stopMu'[call[q].s] = stopMu[call[q].s]
    BY <1>1, <2>2
  <2> QED BY <2>1, <2>2, <2>3, <2>4, OthersStay
<1>2. Located'
  BY <1>1 DEF Located
<1>3. OneStarter'
  BY DEF OneStarter, PubTyped, Starts1, Begun
<1> QED BY <1>2, <1>3

(* A step of a loop, or of a handler: a new loop is none of these. *)
LEMMA LoopMoves ==
  ASSUME Located, OneStarter, UNCHANGED <<call, status, stopMu, pcancelled>>,
         \A s \in Subs : loop[s] = "none" => loop'[s] = "none"
  PROVE  Located' /\ OneStarter'
  BY DEF Located, InPlace, OneStarter, Begun, Starts1, Restarts, Holds

LEMMA LocatedStep ==
  ASSUME P!Free \notin Callers, PubTyped, Located, OneStarter, [P!Next]_(P!vars)
  PROVE  Located' /\ OneStarter'
<1> USE DEF P!Registered, P!Event, P!pvars, P!hist, P!subvars, P!Op, P!At
<1>0. /\ loop \in [Subs -> {"none", "run", "submit", "down", "ending", "draining"}]
      /\ stopMu \in [Subs -> Callers \cup {P!Free}]
      /\ status \in [Subs -> {"unborn", "starting", "known", "private"}]
  BY DEF PubTyped
<1>1. ASSUME NEW p \in Callers, NEW s \in Subs, P!CallSubscribe(p, s)
      PROVE  Located' /\ OneStarter'
  <2>1. PICK op \in {"subscribe", "request"} : P!Begin(p, op, s, "register")
    BY <1>1 DEF P!CallSubscribe
  <2>2. /\ status[s] = "unborn" /\ loop[s] = "none"
        /\ status' = [status EXCEPT ![s] = "starting"]
        /\ UNCHANGED <<pcancelled, stopMu, loop>>
    BY <1>1 DEF P!CallSubscribe, OneStarter
  <2>3. /\ \A q \in Callers : q # p => call'[q] = call[q]
        /\ call'[p].at = "register" /\ call'[p].op = op /\ call'[p].s = s
    BY <2>1, CallBegins
  <2>4. status'[s] = "starting" /\ \A t \in Subs : t # s => status'[t] = status[t]
    BY <1>0, <2>2
  <2>5. InPlace(p)'
    BY <2>1, <2>2, <2>3, <2>4 DEF InPlace, Begun, Starts1, Restarts, Holds
  <2>6. ASSUME NEW q \in Callers, q # p
        PROVE  InPlace(q)' /\ ~(Starts1(q) /\ call[q].s = s)
    <3>1. InPlace(q) /\ call'[q] = call[q]
      BY <2>3, <2>6 DEF Located
    <3>2. ~(call[q].op = "resubscribe" /\ call[q].s = s) /\ ~(Starts1(q) /\ call[q].s = s)
      BY <3>1, <2>2 DEF InPlace
    <3>3. Starts1(q) \/ call[q].op = "resubscribe" => call[q].s \in Subs
      BY <3>1 DEF InPlace, Starts1
    <3> QED BY <3>1, <3>2, <3>3, <2>2, <2>4, OthersStay
  <2>7. Located'
    BY <2>5, <2>6 DEF Located
  <2>8. OneStarter'
    BY <2>2, <2>3, <2>4, <2>6 DEF OneStarter, Starts1, Begun
  <2> QED BY <2>7, <2>8
<1>2. ASSUME NEW p \in Callers, NEW s \in Subs, P!CallSubscriber(p, s)
      PROVE  Located' /\ OneStarter'
  <2>1. PICK op \in {"stop", "unsubscribe", "resubscribe"} : P!Begin(p, op, s, "lock")
    BY <1>2 DEF P!CallSubscriber
  <2>2. status[s] = "known" /\ UNCHANGED <<pcancelled, stopMu, loop, status>>
    BY <1>2 DEF P!CallSubscriber
  <2>3. InPlace(p)'
    BY <2>1, <2>2, CallBegins DEF InPlace, Begun, Starts1, Restarts, Holds
  <2> QED BY <2>1, <2>2, <2>3, CallBegins, OneMoves DEF Starts1, Begun
<1>3. ASSUME NEW p \in Callers, NEW c \in Channels, P!CallUnsubscribe(p, c)
      PROVE  Located' /\ OneStarter'
  <2>1. P!Begin(p, "stop", subscribers[c], "lock") /\ subscribers[c] # P!NoSub
    BY <1>3 DEF P!CallUnsubscribe
  <2>2. subscribers[c] \in Subs /\ UNCHANGED <<pcancelled, stopMu, loop, status>>
    BY <1>3, <2>1 DEF P!CallUnsubscribe, PubTyped
  <2>3. InPlace(p)'
    BY <2>1, <2>2, CallBegins DEF InPlace, Begun, Starts1, Restarts, Holds
  <2> QED BY <2>1, <2>2, <2>3, CallBegins, OneMoves DEF Starts1, Begun
<1>4. ASSUME NEW p \in Callers, P!CallClose(p) PROVE Located' /\ OneStarter'
  <2>1. P!Begin(p, "close", P!NoSub, "collect")
    BY <1>4 DEF P!CallClose
  <2>2. pcancelled' /\ UNCHANGED <<stopMu, loop, status>>
    BY <1>4 DEF P!CallClose
  <2>3. InPlace(p)'
    BY <2>1, <2>2, CallBegins DEF InPlace, Begun, Starts1, Restarts, Holds
  <2> QED BY <2>1, <2>2, <2>3, CallBegins, OneMoves DEF Starts1, Begun
<1>5. ASSUME NEW p \in Callers, P!Register(p) PROVE Located' /\ OneStarter'
  <2>1. P!Goto(p, "dial") /\ Begun(p) /\ UNCHANGED <<pcancelled, stopMu, loop, status>>
    BY <1>5 DEF P!Register, Begun
  <2>2. InPlace(p)'
    BY <2>1, CallGoesOn DEF Located, InPlace, Begun, Starts1, Restarts, Holds
  <2> QED BY <2>1, <2>2, CallGoesOn, OneMoves DEF Starts1
<1>6. ASSUME NEW p \in Callers, P!Dial(p) PROVE Located' /\ OneStarter'
  <2>1. /\ Begun(p) /\ UNCHANGED <<pcancelled, stopMu, loop, status>>
        /\ InPlace(p)
    BY <1>6 DEF P!Dial, Begun, Located
  <2>2. /\ \A q \in Callers : q # p => call'[q] = call[q]
        /\ call'[p].op = call[p].op /\ call'[p].s = call[p].s
        /\ call'[p].at \in {"dial", "pool", "failed"}
    <3>1. CASE P!Goto(p, "pool") \/ P!Goto(p, "failed")
      BY <3>1, CallGoesOn
    <3>2. CASE call' = [call EXCEPT ![p].tries = @ + 1]
      BY <1>6, <3>2 DEF PubTyped, PubCalls, P!Dial
    <3> QED BY <1>6, <3>1, <3>2 DEF P!Dial
  <2>3. InPlace(p)'
    BY <2>1, <2>2 DEF InPlace, Begun, Starts1, Restarts, Holds
  <2> QED BY <2>1, <2>2, <2>3, OneMoves DEF Starts1
<1>7. ASSUME NEW p \in Callers, P!StartFailed(p) PROVE Located' /\ OneStarter'
  <2>1. P!End(p) /\ Begun(p) /\ InPlace(p) /\ UNCHANGED <<pcancelled, loop, status>>
    BY <1>7 DEF P!StartFailed, Begun, Located
  <2>2. \A s \in Subs : stopMu'[s] = stopMu[s] \/ stopMu[s] = p
    BY <1>0, <1>7, <2>1 DEF P!StartFailed, InPlace, Restarts, Holds
  <2>3. InPlace(p)'
    BY <2>1, CallEnds DEF InPlace, Begun, Starts1, Restarts, Holds
  <2> QED BY <2>1, <2>2, <2>3, CallEnds, OneMoves DEF Starts1, Begun
<1>8. ASSUME NEW p \in Callers, P!MakePool(p) PROVE Located' /\ OneStarter'
  <2>1. P!Goto(p, "launch") /\ Begun(p) /\ UNCHANGED <<pcancelled, stopMu, loop, status>>
    BY <1>8 DEF P!MakePool, Begun
  <2>2. InPlace(p)'
    BY <2>1, CallGoesOn DEF Located, InPlace, Begun, Starts1, Restarts, Holds
  <2> QED BY <2>1, <2>2, CallGoesOn, OneMoves DEF Starts1
<1>9. ASSUME NEW p \in Callers, P!Launch(p) PROVE Located' /\ OneStarter'
  <2> DEFINE s == call[p].s
  <2>1. Begun(p) /\ InPlace(p) /\ s \in Subs /\ UNCHANGED pcancelled
    BY <1>9 DEF P!Launch, Begun, Located, InPlace
  <2>2. /\ \A q \in Callers : q # p => call'[q] = call[q]
        /\ \/ /\ call[p].op = "request" /\ call'[p].at = "answer"
              /\ call'[p].op = call[p].op /\ call'[p].s = s
           \/ call'[p].at = "end" /\ call'[p].op = "idle"
    <3>1. CASE call[p].op = "request"
      BY <1>9, <3>1, CallGoesOn DEF P!Launch
    <3>2. CASE call[p].op # "request"
      BY <1>9, <3>2, CallEnds DEF P!Launch
    <3> QED BY <3>1, <3>2
  <2>3. /\ \A t \in Subs : t # s => /\ loop'[t] = loop[t] /\ status'[t] = status[t]
                                    /\ stopMu'[t] = stopMu[t]
        /\ status'[s] \in {"known", "private"}
    <3>1. stopMu' = stopMu \/ stopMu' = [stopMu EXCEPT ![s] = P!Free]
      BY <1>9 DEF P!Launch
    <3>2. loop' = [loop EXCEPT ![s] = "run"]
          /\ status' = [status EXCEPT ![s] = IF call[p].op = "request" THEN "private" ELSE "known"]
      BY <1>9 DEF P!Launch
    <3> HIDE DEF s
    <3> QED BY <1>0, <2>1, <3>1, <3>2
  <2>4. InPlace(p)'
    BY <2>1, <2>2 DEF InPlace, Begun, Starts1, Restarts, Holds
  <2>5. ASSUME NEW q \in Callers, q # p PROVE InPlace(q)'
    <3>1. InPlace(q) /\ call'[q] = call[q] /\ ~(Begun(q) /\ call[q].s = s)
      BY <2>1, <2>2, <2>5, StartsAlone DEF Located
    <3>2. Begun(q) \/ Holds(q) \/ call[q].op = "resubscribe" => call[q].s \in Subs
      BY <3>1 DEF InPlace
    <3>3. CASE call[q].s # s
      BY <2>1, <2>3, <3>1, <3>2, <3>3, OthersStay DEF Starts1
    <3>4. CASE call[q].s = s
      <4>1. Holds(q) => stopMu'[s] = stopMu[s]
        <5>1. CASE Starts1(p)
          BY <1>9, <5>1 DEF P!Launch, Starts1
        <5>2. CASE Restarts(p)
          BY <1>0, <2>1, <3>1, <3>4, <2>5, <5>2 DEF InPlace, Holds
        <5> QED BY <2>1, <5>1, <5>2 DEF Starts1, Restarts
      <4>2. call[q].op = "resubscribe" => status'[s] = status[s]
        <5>1. CASE Starts1(p)
          BY <2>1, <3>1, <3>4, <5>1 DEF InPlace
        <5>2. CASE Restarts(p)
          <6>1. status[s] = "known" /\ status' = [status EXCEPT ![s] = "known"]
            BY <1>9, <2>1, <5>2 DEF InPlace, P!Launch
          <6> QED BY <1>0, <6>1
        <5> QED BY <2>1, <5>1, <5>2 DEF Starts1, Restarts
      <4>3. ~Starts1(q) /\ ~Begun(q)
        BY <3>1, <3>4 DEF Starts1
      <4> QED BY <2>1, <3>1, <3>4, <4>1, <4>2, <4>3, OthersStay
    <3> QED BY <3>3, <3>4
  <2>6. OneStarter'
    BY <2>2, <2>3 DEF OneStarter, Starts1, Begun
  <2> QED BY <2>4, <2>5, <2>6 DEF Located
<1>10. ASSUME NEW p \in Callers, P!Answer(p) PROVE Located' /\ OneStarter'
  <2>1. /\ P!Goto(p, "lock") /\ InPlace(p) /\ call[p].at = "answer"
        /\ UNCHANGED <<pcancelled, stopMu, loop, status>>
    BY <1>10 DEF P!Answer, Located
  <2>2. InPlace(p)'
    BY <2>1, CallGoesOn DEF InPlace, Begun, Starts1, Restarts, Holds
  <2> QED BY <2>1, <2>2, CallGoesOn, OneMoves DEF Starts1, Begun
<1>11. ASSUME NEW p \in Callers, InPlace(p), P!Stopped(p), UNCHANGED <<pcancelled, status, loop>>
       PROVE  /\ InPlace(p)' /\ ~Starts1(p)' /\ \A q \in Callers : q # p => call'[q] = call[q]
  <2>1. \/ call[p].op = "close" /\ P!Goto(p, "stops")
        \/ call[p].op # "resubscribe" /\ P!Goto(p, "remove")
        \/ P!End(p)
    BY <1>11 DEF P!Stopped
  <2> QED BY <1>11, <2>1, CallGoesOn, CallEnds DEF InPlace, Begun, Starts1, Restarts, Holds
<1>12. ASSUME NEW p \in Callers, P!Lock(p) PROVE Located' /\ OneStarter'
  <2>1. /\ InPlace(p) /\ call[p].at = "lock" /\ call[p].s \in Subs
        /\ stopMu[call[p].s] = P!Free /\ UNCHANGED <<pcancelled, loop, status>>
    BY <1>12 DEF P!Lock, Located, InPlace
  <2>2. CASE P!Stopped(p) /\ UNCHANGED stopMu
    BY <1>11, <2>1, <2>2, OneMoves
  <2>3. CASE P!End(p) /\ UNCHANGED stopMu
    <3>1. InPlace(p)' /\ ~Starts1(p)'
      BY <2>3, CallEnds DEF InPlace, Begun, Starts1, Restarts, Holds
    <3> QED BY <2>1, <2>3, <3>1, CallEnds, OneMoves
  <2>4. CASE /\ stopMu' = [stopMu EXCEPT ![call[p].s] = p]
             /\ \/ P!Goto(p, "signal") /\ call[p].op # "resubscribe"
                \/ P!Goto(p, "waitloop") /\ call[p].op = "resubscribe"
    <3>1. /\ stopMu'[call[p].s] = p
          /\ \A s \in Subs : stopMu'[s] = stopMu[s] \/ stopMu[s] = P!Free
      BY <1>0, <2>1, <2>4
    <3>2. InPlace(p)' /\ ~Starts1(p)'
      BY <2>1, <2>4, <3>1, CallGoesOn DEF InPlace, Begun, Starts1, Restarts, Holds
    <3> QED BY <2>1, <2>4, <3>1, <3>2, CallGoesOn, OneMoves
  <2> QED BY <1>12, <2>2, <2>3, <2>4 DEF P!Lock
<1>13. ASSUME NEW p \in Callers, P!Signal(p) PROVE Located' /\ OneStarter'
  <2>1. /\ P!Goto(p, "wait") /\ InPlace(p) /\ call[p].at = "signal"
        /\ UNCHANGED <<pcancelled, stopMu, loop, status>>
    BY <1>13 DEF P!Signal, Located
  <2>2. InPlace(p)' /\ ~Starts1(p)'
    BY <2>1, CallGoesOn DEF InPlace, Begun, Starts1, Restarts, Holds
  <2> QED BY <2>1, <2>2, CallGoesOn, OneMoves
<1>14. ASSUME NEW p \in Callers, P!WaitLoop(p) PROVE Located' /\ OneStarter'
  <2>1. /\ P!Stopped(p) /\ InPlace(p) /\ call[p].at = "wait"
        /\ UNCHANGED <<pcancelled, loop, status>>
        /\ stopMu' = [stopMu EXCEPT ![call[p].s] = P!Free]
    BY <1>14 DEF P!WaitLoop, Located
  <2>2. \A s \in Subs : stopMu'[s] = stopMu[s] \/ stopMu[s] = p
    BY <1>0, <2>1 DEF InPlace, Holds
  <2> QED BY <1>11, <2>1, <2>2, OneMoves
<1>15. ASSUME NEW p \in Callers, P!RemoveFromRegistry(p) \/ P!EndClose(p)
       PROVE  Located' /\ OneStarter'
  <2>1. P!End(p) /\ UNCHANGED <<pcancelled, stopMu, loop, status>>
    BY <1>15 DEF P!RemoveFromRegistry, P!EndClose
  <2>2. InPlace(p)' /\ ~Starts1(p)'
    BY <2>1, CallEnds DEF InPlace, Begun, Starts1, Restarts, Holds
  <2> QED BY <2>1, <2>2, CallEnds, OneMoves
<1>16. ASSUME NEW p \in Callers, P!Reset(p) PROVE Located' /\ OneStarter'
  <2>1. /\ P!Goto(p, "register") /\ InPlace(p) /\ call[p].at = "waitloop"
        /\ loop[call[p].s] = "none"
        /\ UNCHANGED <<pcancelled, stopMu, loop, status>>
    BY <1>16 DEF P!Reset, P!ResetNow, Located
  <2>2. InPlace(p)' /\ ~Starts1(p)'
    BY <2>1, CallGoesOn DEF InPlace, Begun, Starts1, Restarts, Holds
  <2> QED BY <2>1, <2>2, CallGoesOn, OneMoves
<1>17. ASSUME NEW p \in Callers, P!Collect(p) PROVE Located' /\ OneStarter'
  <2>1. /\ InPlace(p) /\ call[p].op = "close" /\ UNCHANGED <<pcancelled, stopMu, loop, status>>
    BY <1>17 DEF P!Collect, Located, InPlace
  <2>2. /\ \A q \in Callers : q # p => call'[q] = call[q]
        /\ call'[p].at = "stops" /\ call'[p].op = call[p].op /\ call'[p].s = call[p].s
    BY <1>17 DEF P!Collect, PubTyped, PubCalls
  <2>3. InPlace(p)' /\ ~Starts1(p)'
    BY <2>1, <2>2 DEF InPlace, Begun, Starts1, Restarts, Holds
  <2> QED BY <2>1, <2>2, <2>3, OneMoves
<1>18. ASSUME NEW p \in Callers, P!StopNext(p) PROVE Located' /\ OneStarter'
  <2>1. PICK s \in call[p].todo :
          call' = [call EXCEPT ![p].at = "lock", ![p].s = s, ![p].todo = @ \ {s}]
    BY <1>18 DEF P!StopNext
  <2>2. /\ InPlace(p) /\ call[p].op = "close" /\ s \in Subs
        /\ UNCHANGED <<pcancelled, stopMu, loop, status>>
    BY <1>18 DEF P!StopNext, Located, InPlace, PubTyped, PubCalls
  <2>3. /\ \A q \in Callers : q # p => call'[q] = call[q]
        /\ call'[p].at = "lock" /\ call'[p].op = call[p].op /\ call'[p].s = s
    BY <2>1 DEF PubTyped, PubCalls
  <2>4. InPlace(p)' /\ ~Starts1(p)'
    BY <2>2, <2>3 DEF InPlace, Begun, Starts1, Restarts, Holds
  <2> QED BY <2>2, <2>3, <2>4, OneMoves
<1>19. ASSUME NEW s \in Subs, P!Message(s) \/ P!Submit(s) \/ P!Handled(s)
       PROVE  Located' /\ OneStarter'
  BY <1>0, <1>19, LoopMoves DEF P!Message, P!Submit, P!Handled
<1>20. ASSUME NEW s \in Subs, P!Disconnect(s) \/ P!Reconnect(s) \/ P!Ends(s)
       PROVE  Located' /\ OneStarter'
  BY <1>0, <1>20, LoopMoves
  DEF P!Disconnect, P!Reconnect, P!Ends, P!LoopStops, P!LoopCleans, P!LoopEnds
<1>21. CASE P!CloseClient \/ UNCHANGED P!vars
  BY <1>21, LoopMoves DEF P!CloseClient, P!vars
<1> HIDE DEF P!Registered, P!Event, P!pvars, P!hist, P!subvars, P!Op, P!At
<1> QED
  BY <1>1, <1>2, <1>3, <1>4, <1>5, <1>6, <1>7, <1>8, <1>9, <1>10, <1>12, <1>13, <1>14, <1>15,
     <1>16, <1>17, <1>18, <1>19, <1>20, <1>21 DEF P!Next, P!Step

(* The loops that ran when Close began end; a later Close finds the context cancelled. *)
LEMMA ClosingStep ==
  ASSUME PubTyped, Located, OneStarter, Closing, [P!Next]_(P!vars)
  PROVE  Closing'
<1> USE DEF PubTyped, Closing, P!pvars, P!hist, P!subvars, P!Registered, P!Event
<1>1. ASSUME NEW p \in Callers, P!CallClose(p) PROVE Closing'
  BY <1>1 DEF P!CallClose
<1>2. ASSUME NEW p \in Callers, P!Launch(p) PROVE Closing'
  BY <1>2 DEF P!Launch
<1>3. ASSUME NEW p \in Callers, P!EndClose(p) PROVE Closing'
  <2>1. before = {} /\ pcancelled
    BY <1>3 DEF P!EndClose, Located, InPlace, P!At
  <2> QED BY <1>3, <2>1 DEF P!EndClose
<1>4. ASSUME UNCHANGED <<pcancelled, closeDone, before, loop>> PROVE Closing'
  BY <1>4
<1>5. ASSUME NEW s \in Subs, P!Message(s) \/ P!Submit(s) \/ P!Handled(s) PROVE Closing'
  BY <1>5 DEF P!Message, P!Submit, P!Handled
<1>6. ASSUME NEW s \in Subs, P!Disconnect(s) \/ P!Reconnect(s) PROVE Closing'
  BY <1>6 DEF P!Disconnect, P!Reconnect
<1>7. ASSUME NEW s \in Subs, P!Ends(s) PROVE Closing'
  BY <1>7 DEF P!Ends, P!LoopStops, P!LoopCleans, P!LoopEnds
<1>8. ASSUME NEW p \in Callers, NEW s \in Subs, P!CallSubscribe(p, s) \/ P!CallSubscriber(p, s)
      PROVE  Closing'
  BY <1>4, <1>8 DEF P!CallSubscribe, P!CallSubscriber
<1>9. ASSUME NEW p \in Callers, NEW c \in Channels, P!CallUnsubscribe(p, c) PROVE Closing'
  BY <1>4, <1>9 DEF P!CallUnsubscribe
<1>10. ASSUME NEW p \in Callers, P!Step(p), ~P!Launch(p), ~P!EndClose(p) PROVE Closing'
  BY <1>4, <1>10 DEF P!Step, P!Register, P!Dial, P!StartFailed, P!MakePool, P!Answer, P!Lock,
    P!Signal, P!WaitLoop, P!RemoveFromRegistry, P!Reset, P!ResetNow, P!Collect, P!StopNext
<1>11. CASE P!CloseClient \/ UNCHANGED P!vars
  BY <1>4, <1>11 DEF P!CloseClient, P!vars
<1> HIDE DEF PubTyped, Closing, P!pvars, P!hist, P!subvars, P!Registered, P!Event
<1> QED
  BY <1>1, <1>2, <1>3, <1>5, <1>6, <1>7, <1>8, <1>9, <1>10, <1>11 DEF P!Next

(* A loop leaves only when it is told to, and stopChan is made anew only without a loop. *)
LEMMA SubscribedStep ==
  ASSUME PubTyped, StaysSubscribed, [P!Next]_(P!vars)
  PROVE  StaysSubscribed'
<1> USE DEF PubTyped, StaysSubscribed, P!StaysSubscribed, P!ToldToStop, P!pvars, P!hist,
     P!subvars, P!Registered, P!Event
<1>1. ASSUME NEW p \in Callers, P!CallClose(p) PROVE StaysSubscribed'
  BY <1>1 DEF P!CallClose
<1>2. ASSUME NEW p \in Callers, P!Launch(p) PROVE StaysSubscribed'
  BY <1>2 DEF P!Launch
<1>3. ASSUME NEW p \in Callers, P!Signal(p) \/ P!Reset(p) PROVE StaysSubscribed'
  BY <1>3 DEF P!Signal, P!Reset, P!ResetNow
<1>4. ASSUME UNCHANGED <<pcancelled, clientClosed, stopChan, loop>> PROVE StaysSubscribed'
  BY <1>4
<1>5. ASSUME NEW s \in Subs, P!Message(s) \/ P!Submit(s) \/ P!Handled(s)
      PROVE  StaysSubscribed'
  BY <1>5 DEF P!Message, P!Submit, P!Handled
<1>6. ASSUME NEW s \in Subs, P!Disconnect(s) \/ P!Reconnect(s) PROVE StaysSubscribed'
  BY <1>6 DEF P!Disconnect, P!Reconnect
<1>7. ASSUME NEW s \in Subs, P!Ends(s) PROVE StaysSubscribed'
  BY <1>7 DEF P!Ends, P!LoopStops, P!LoopCleans, P!LoopEnds
<1>8. ASSUME NEW p \in Callers, NEW s \in Subs, P!CallSubscribe(p, s) \/ P!CallSubscriber(p, s)
      PROVE  StaysSubscribed'
  BY <1>4, <1>8 DEF P!CallSubscribe, P!CallSubscriber
<1>9. ASSUME NEW p \in Callers, NEW c \in Channels, P!CallUnsubscribe(p, c)
      PROVE  StaysSubscribed'
  BY <1>4, <1>9 DEF P!CallUnsubscribe
<1>10. ASSUME NEW p \in Callers, P!Step(p), ~P!Launch(p), ~P!Signal(p), ~P!Reset(p)
       PROVE  StaysSubscribed'
  BY <1>4, <1>10 DEF P!Step, P!Register, P!Dial, P!StartFailed, P!MakePool, P!Answer, P!Lock,
    P!WaitLoop, P!RemoveFromRegistry, P!Collect, P!StopNext, P!EndClose
<1>11. CASE P!CloseClient \/ UNCHANGED P!vars
  BY <1>11 DEF P!CloseClient, P!vars
<1> HIDE DEF PubTyped, StaysSubscribed, P!StaysSubscribed, P!ToldToStop, P!pvars, P!hist,
      P!subvars, P!Registered, P!Event
<1> QED
  BY <1>1, <1>2, <1>3, <1>5, <1>6, <1>7, <1>8, <1>9, <1>10, <1>11 DEF P!Next

LEMMA PubStep ==
  ASSUME P!Free \notin Callers, PubInv, [P!Next]_(P!vars)
  PROVE  PubInv'
  BY PubTypedStep, LocatedStep, ClosingStep, SubscribedStep DEF PubInv

(* messageLoop ends for good: no start finds one that is still ending. *)
LEMMA NoSecondLoop ==
  ASSUME PubInv, [P!Next]_(P!vars), NEW s \in Subs, loop[s] \in {"ending", "draining"}
  PROVE  loop'[s] # "run"
<1> USE DEF PubInv, PubTyped, P!pvars, P!hist, P!subvars, P!Registered, P!Event
<1>1. ASSUME NEW p \in Callers, P!Launch(p) PROVE loop'[s] # "run"
  <2>1. loop[call[p].s] = "none"
    BY <1>1 DEF P!Launch, P!At, Located, InPlace, Begun
  <2> QED BY <1>1, <2>1 DEF P!Launch
<1>2. ASSUME NEW t \in Subs, P!Message(t) \/ P!Submit(t) \/ P!Handled(t)
      PROVE  loop'[s] # "run"
  BY <1>2 DEF P!Message, P!Submit, P!Handled
<1>3. ASSUME NEW t \in Subs, P!Disconnect(t) \/ P!Reconnect(t) \/ P!Ends(t)
      PROVE  loop'[s] # "run"
  BY <1>3 DEF P!Disconnect, P!Reconnect, P!Ends, P!LoopStops, P!LoopCleans, P!LoopEnds
<1>4. ASSUME NEW p \in Callers, P!Step(p), ~P!Launch(p) PROVE loop'[s] # "run"
  BY <1>4 DEF P!Step, P!Register, P!Dial, P!StartFailed, P!MakePool, P!Answer, P!Lock,
    P!Signal, P!WaitLoop, P!RemoveFromRegistry, P!Reset, P!ResetNow, P!Collect, P!StopNext,
    P!EndClose
<1>5. ASSUME NEW p \in Callers, NEW t \in Subs,
             P!CallSubscribe(p, t) \/ P!CallSubscriber(p, t)
      PROVE  loop'[s] # "run"
  BY <1>5 DEF P!CallSubscribe, P!CallSubscriber
<1>6. ASSUME NEW p \in Callers, NEW c \in Channels, P!CallUnsubscribe(p, c)
      PROVE  loop'[s] # "run"
  BY <1>6 DEF P!CallUnsubscribe
<1>7. ASSUME NEW p \in Callers, P!CallClose(p) PROVE loop'[s] # "run"
  BY <1>7 DEF P!CallClose
<1>8. CASE P!CloseClient \/ UNCHANGED P!vars
  BY <1>8 DEF P!CloseClient, P!vars
<1> HIDE DEF PubInv, PubTyped, P!pvars, P!hist, P!subvars, P!Registered, P!Event
<1> QED BY <1>1, <1>2, <1>3, <1>4, <1>5, <1>6, <1>7, <1>8 DEF P!Next

(* Once Stop of a DelayQueue has returned no job is left, and once Close of a PubSub has,
   no loop and handler of those that ran. *)
THEOREM StopsAndClosesWait ==
  ASSUME C!None \notin Starts, IsFiniteSet(Starts), P!Free \notin Callers
  PROVE  Spec => []StopWaits
<1>1. Init => ConsumersInv /\ PubInv
  BY ConsumersBegin, PubBegin DEF Init
<1>2. ConsumersInv /\ PubInv /\ [Next]_vars => (ConsumersInv /\ PubInv)'
  BY Steps, ConsumersStep, PubStep
<1>3. ConsumersInv /\ PubInv => StopWaits
  <2>1. ConsumersInv => C!StopWaits
    BY DEF ConsumersInv, Typed, PlainInv, Starting, LiveInMap, Live, Quiet, C!StopWaits
  <2>2. PubInv => P!CloseWaits
    BY DEF PubInv, Closing, P!CloseWaits
  <2> QED BY <2>1, <2>2 DEF StopWaits
<1> QED BY <1>1, <1>2, <1>3, PTL DEF Spec

(* A lost connection does not end a subscription (reconnectLoop of pubsub.go). *)
THEOREM Resubscribes ==
  ASSUME P!Free \notin Callers
  PROVE  Spec => []StaysSubscribed
<1>1. Init => PubInv
  BY PubBegin DEF Init
<1>2. PubInv /\ [Next]_vars => PubInv'
  BY Steps, PubStep
<1>3. PubInv => StaysSubscribed
  BY DEF PubInv
<1> QED BY <1>1, <1>2, <1>3, PTL DEF Spec

(* Resubscribe waits for the old loop of its Subscriber before it starts a new one, and no
   other start can come between (stopMu and loopWg of pubsub.go). *)
THEOREM OneLoopEach ==
  ASSUME P!Free \notin Callers
  PROVE  Spec => OneLoop
<1>1. Init => PubInv
  BY PubBegin DEF Init
<1>2. PubInv /\ [Next]_vars => PubInv'
  BY Steps, PubStep
<1>3. PubInv /\ [Next]_vars
        => [\A s \in Subs : loop[s] \in {"ending", "draining"} => loop'[s] # "run"]_(P!vars)
  BY Steps, NoSecondLoop
<1> QED BY <1>1, <1>2, <1>3, PTL DEF Spec, OneLoop, P!OneLoop
=============================================================================
