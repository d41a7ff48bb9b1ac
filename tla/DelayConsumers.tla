--------------------------- MODULE DelayConsumers ---------------------------
(***************************************************************************)
(* The consumers of one queue name in one DelayQueue (delay_queue.go):     *)
(* StartConsumer, StopConsumer and Stop, the consumer goroutine's loop and *)
(* its deferred calls.  The map q.consumers holds one cancel function per  *)
(* queue name.  Each call of StartConsumer is an element of Calls and      *)
(* stands for the goroutine it starts as well.                             *)
(***************************************************************************)
EXTENDS Naturals, FiniteSets

CONSTANTS
  Calls,             \* calls of StartConsumer
  Usages             \* the ways callers use the queue that are considered: records of
                     \* whether two calls of StartConsumer may overlap (overlap), and
                     \* whether StopConsumer is called (stopConsumer)

VARIABLES
  usage,      \* how the callers of this behaviour use the queue
  closed,     \* q.closed
  entry,      \* q.consumers[queueName]: whose cancel function, or None
  cancelled,  \* calls whose consumerCtx is done
  wg,         \* q.wg
  pc,         \* [Calls -> where the call, later its goroutine, is]
  busy,       \* calls whose worker pool has jobs under way
  stop        \* the call of Stop: "none", "waiting", "returned"

vars == <<usage, closed, entry, cancelled, wg, pc, busy, stop>>

None == "none"

TypeOK ==
  /\ usage \in Usages
  /\ closed \in BOOLEAN
  /\ entry \in Calls \cup {None}
  /\ cancelled \subseteq Calls /\ busy \subseteq Calls
  /\ wg \in 0..Cardinality(Calls)
  /\ pc \in [Calls -> {"idle", "checked", "registered", "loop", "leaving", "closing",
                       "gone", "refused"}]
  /\ stop \in {"none", "waiting", "returned"}

Init ==
  /\ usage \in Usages
  /\ closed = FALSE /\ entry = None /\ cancelled = {} /\ wg = 0
  /\ pc = [c \in Calls |-> "idle"]
  /\ busy = {} /\ stop = "none"

Goto(c, l) == pc' = [pc EXCEPT ![c] = l]

-----------------------------------------------------------------------------
(* A StartConsumer that does not look for a running consumer. *)
StartUnlessClosed(c) ==
  /\ pc[c] = "idle"
  /\ usage.overlap \/ \A d \in Calls : pc[d] \notin {"checked", "registered"}
  /\ Goto(c, IF closed THEN "refused" ELSE "checked")
  /\ UNCHANGED <<usage, closed, entry, cancelled, wg, busy, stop>>

(* StartConsumer, the first critical section. *)
StartCheck(c) ==
  /\ pc[c] = "idle"
  /\ usage.overlap \/ \A d \in Calls : pc[d] \notin {"checked", "registered"}
  /\ Goto(c, IF closed \/ entry # None THEN "refused" ELSE "checked")
  /\ UNCHANGED <<usage, closed, entry, cancelled, wg, busy, stop>>

(* Registration that does not look at closed again. *)
RegisterUnchecked(c) ==
  /\ pc[c] = "checked"
  /\ Goto(c, "registered")
  /\ entry' = c
  /\ UNCHANGED <<usage, closed, cancelled, wg, busy, stop>>

(* The second one: closed is looked at again, the map is not. *)
StartRegister(c) ==
  /\ pc[c] = "checked"
  /\ IF closed
     THEN /\ Goto(c, "refused")
          /\ cancelled' = cancelled \cup {c}
          /\ UNCHANGED entry
     ELSE /\ Goto(c, "registered")
          /\ entry' = c
          /\ UNCHANGED cancelled
  /\ UNCHANGED <<usage, closed, wg, busy, stop>>

(* wg.Add(1) and the go statement. *)
StartSpawn(c) ==
  /\ pc[c] = "registered"
  /\ Goto(c, "loop")
  /\ wg' = wg + 1
  /\ UNCHANGED <<usage, closed, entry, cancelled, busy, stop>>

(* pollOnce has fetched tasks and handed them to the pool.  With a done context
   the poll command fails and there is nothing to hand out. *)
PollOnce(c) ==
  /\ pc[c] = "loop"
  /\ c \notin cancelled
  /\ busy' = busy \cup {c}
  /\ UNCHANGED <<usage, closed, entry, cancelled, wg, pc, stop>>

(* The jobs of the pool have come to their end. *)
JobsDone(c) ==
  /\ c \in busy
  /\ busy' = busy \ {c}
  /\ UNCHANGED <<usage, closed, entry, cancelled, wg, pc, stop>>

(* <-consumerCtx.Done(): the goroutine returns and its deferred calls run. *)
LoopExit(c) ==
  /\ pc[c] = "loop"
  /\ c \in cancelled
  /\ Goto(c, "leaving")
  /\ UNCHANGED <<usage, closed, entry, cancelled, wg, busy, stop>>

(* The deferred delete when Stop keeps q.mu while it waits. *)
UnregisterBlocked(c) ==
  /\ pc[c] = "leaving"
  /\ stop # "waiting"
  /\ Goto(c, "closing")
  /\ entry' = None
  /\ UNCHANGED <<usage, closed, cancelled, wg, busy, stop>>

(* delete(q.consumers, queueName), whoever is registered under that name. *)
Unregister(c) ==
  /\ pc[c] = "leaving"
  /\ Goto(c, "closing")
  /\ entry' = None
  /\ UNCHANGED <<usage, closed, cancelled, wg, busy, stop>>

(* worker.Close waits for the jobs, then wg.Done. *)
CloseWorkers(c) ==
  /\ pc[c] = "closing"
  /\ c \notin busy
  /\ Goto(c, "gone")
  /\ wg' = wg - 1
  /\ UNCHANGED <<usage, closed, entry, cancelled, busy, stop>>

-----------------------------------------------------------------------------
StopConsumer ==
  /\ usage.stopConsumer
  /\ entry # None
  /\ entry' = None
  /\ cancelled' = cancelled \cup {entry}
  /\ UNCHANGED <<usage, closed, wg, pc, busy, stop>>

(* The context StartConsumer was given ends; consumerCtx is derived from it. *)
CallerCtxDone(c) ==
  /\ pc[c] \in {"registered", "loop"} /\ c \notin cancelled
  /\ cancelled' = cancelled \cup {c}
  /\ UNCHANGED <<usage, closed, entry, wg, pc, busy, stop>>

(* Stop up to wg.Wait.  A second call of Stop returns at once. *)
StopBegin ==
  /\ ~closed
  /\ closed' = TRUE
  /\ cancelled' = cancelled \cup ({entry} \ {None})
  /\ entry' = None
  /\ stop' = "waiting"
  /\ UNCHANGED <<usage, wg, pc, busy>>

StopEnd ==
  /\ stop = "waiting"
  /\ wg = 0
  /\ stop' = "returned"
  /\ UNCHANGED <<usage, closed, entry, cancelled, wg, pc, busy>>

-----------------------------------------------------------------------------
Start(c) == StartCheck(c) \/ StartRegister(c) \/ StartSpawn(c)
Leave(c) == LoopExit(c) \/ Unregister(c) \/ CloseWorkers(c)

Next ==
  \/ \E c \in Calls : Start(c) \/ PollOnce(c) \/ JobsDone(c) \/ Leave(c)
                         \/ CallerCtxDone(c)
  \/ StopConsumer \/ StopBegin \/ StopEnd

(* Goroutines that can run do run, and handlers return. *)
Fairness ==
  /\ \A c \in Calls : WF_vars(StartRegister(c) \/ StartSpawn(c))
                        /\ WF_vars(Leave(c)) /\ WF_vars(JobsDone(c))
  /\ WF_vars(StopEnd)

Spec == Init /\ [][Next]_vars /\ Fairness

-----------------------------------------------------------------------------
(* Starts do not overlap, and consumers end by themselves or with Stop. *)
PlainUsage == ~usage.overlap /\ ~usage.stopConsumer

(* A queue name has one live consumer: a second StartConsumer is refused until the
   first has ended (PlainUsage). *)
OneConsumer ==
  PlainUsage =>
    \A c, d \in Calls :
      /\ pc[c] = "loop" /\ pc[d] = "loop"
      /\ c \notin cancelled /\ d \notin cancelled
      => c = d

(* Once Stop has returned no job of any consumer is under way and none can start,
   although wg.Add comes after the registration that Stop goes by (PlainUsage). *)
StopWaits ==
  PlainUsage /\ stop = "returned" =>
    /\ busy = {}
    /\ \A c \in Calls : pc[c] \in {"registered", "loop"} => c \in cancelled

(* A consumer whose context is cancelled ends, through StopConsumer too and with others
   starting and stopping around it; and Stop returns: every consumer goroutine it waits
   for has been cancelled (PlainUsage).  (Starts are boundedly many.) *)
ConsumersEnd ==
  []<>(/\ \A c \in cancelled : pc[c] \notin {"loop", "leaving", "closing"}
       /\ PlainUsage => stop # "waiting")
=============================================================================
