----------------------------- MODULE Lifecycles -----------------------------
(***************************************************************************)
(* The consumers of a DelayQueue, or a PubSub and its Subscribers:         *)
(* goroutines that are started, stopped and waited for.  They share no     *)
(* state, so one of the two runs, and the other one stays as it begins.    *)
(***************************************************************************)
EXTENDS Naturals, FiniteSets

CONSTANTS
  Starts,                                                     \* DelayConsumers
  Callers, Subs, Channels, On, PoolSize, MaxTries, MaxEvents, MaxCalls     \* PubSub

VARIABLES
  kind,
  usage, closed, entry, cancelled, wg, pc, busy, stop,
  pcancelled, clientClosed, subscribers, stopMu, isActive, stopChan, pool, tasks,
    loop, status, call, before, closeDone, events, calls

C == INSTANCE DelayConsumers WITH Calls <- Starts,
       Usages <- [overlap : BOOLEAN, stopConsumer : BOOLEAN]
P == INSTANCE PubSub WITH Procs <- Callers, cancelled <- pcancelled

cvars == <<usage, closed, entry, cancelled, wg, pc, busy, stop>>
pvars == <<pcancelled, clientClosed, subscribers, stopMu, isActive, stopChan, pool, tasks,
           loop, status, call, before, closeDone, events, calls>>
vars == <<kind, cvars, pvars>>

Init ==
  /\ kind \in {"consumers", "pubsub"}
  /\ C!Init /\ (kind # "consumers" => ~usage.overlap /\ ~usage.stopConsumer)
  /\ P!Init

Consumers(step) == kind = "consumers" /\ step /\ UNCHANGED <<kind, pvars>>
PubSub(step) == kind = "pubsub" /\ step /\ UNCHANGED <<kind, cvars>>
Next == Consumers(C!Next) \/ PubSub(P!Next)

Spec == Init /\ [][Next]_vars

(* Goroutines that can run do run: see DelayConsumers and PubSub. *)
FairSpec ==
  /\ Spec
  /\ \A c \in Starts : /\ WF_vars(Consumers(C!StartRegister(c) \/ C!StartSpawn(c)))
                       /\ WF_vars(Consumers(C!Leave(c))) /\ WF_vars(Consumers(C!JobsDone(c)))
  /\ WF_vars(Consumers(C!StopEnd))
  /\ \A p \in Callers : WF_vars(PubSub(P!Step(p)))
  /\ \A s \in Subs : /\ WF_vars(PubSub(P!Handled(s)))
                     /\ WF_vars(PubSub(P!Submit(s) \/ P!Reconnect(s) \/ P!Ends(s)))

-----------------------------------------------------------------------------
(* The properties of the two: see DelayConsumers and PubSub. *)
OneConsumer == C!OneConsumer
OneLoop == P!OneLoop
StopWaits == C!StopWaits /\ P!CloseWaits
StaysSubscribed == P!StaysSubscribed
CallsEnd == C!ConsumersEnd /\ P!CallsReturn
=============================================================================
