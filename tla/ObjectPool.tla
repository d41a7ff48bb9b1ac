----------------------------- MODULE ObjectPool -----------------------------
(***************************************************************************)
(* object_pool.go: ObjectPoolManager, a buffered channel of objects that   *)
(* is filled when it is registered, by a goroutine started then, and by a  *)
(* periodic task that looks whether it has run low.                        *)
(***************************************************************************)
EXTENDS Naturals

CONSTANTS
  Capacities,   \* values of WithObjectPoolCapacity that are considered
  ColdStarts,   \* the same of WithObjectPoolColdStartCount
  MaxFails      \* bound: calls of the factory that fail or panic

VARIABLES
  Capacity, ColdStartCount,
  pool,      \* objects in the channel
  fill,      \* [Fillers -> where its fill is, and how many objects are left to make]
  task,      \* the periodic task has been started
  stopped,
  fails

vars == <<Capacity, ColdStartCount, pool, fill, task, stopped, fails>>
conf == <<Capacity, ColdStartCount>>

(* Derived from the capacity when they are not set. *)
MinThreshold == Capacity \div 3
BatchSize == Capacity \div 2
Fillers == {"start", "prefill", "refill"}
Filling(n) == [at |-> "check", left |-> n]
Idle == [at |-> "idle", left |-> 0]

(* RegisterObjectPool, which starts the pool. *)
Init ==
  /\ Capacity \in Capacities /\ ColdStartCount \in ColdStarts
  /\ pool = 0 /\ task = FALSE /\ stopped = FALSE /\ fails = 0
  /\ fill = [f \in Fillers |-> IF f = "start" THEN Filling(ColdStartCount) ELSE Idle]

At(f, l) == fill[f].at = l

(* A fill that ends; the first one starts the other two on its way out. *)
EndFill(f) ==
  IF f = "start"
  THEN /\ fill' = [fill EXCEPT !["start"] = Idle,
                               !["prefill"] = IF ColdStartCount < Capacity
                                              THEN Filling(Capacity - ColdStartCount) ELSE Idle]
       /\ task' = TRUE
  ELSE fill' = [fill EXCEPT ![f] = Idle] /\ UNCHANGED task

More(f) == fill[f].left > 0 /\ ~stopped /\ pool < Capacity
Check(f) ==
  /\ At(f, "check")
  /\ IF More(f) THEN fill' = [fill EXCEPT ![f].at = "make"] /\ UNCHANGED task ELSE EndFill(f)
  /\ UNCHANGED <<conf, pool, stopped, fails>>

(* The factory: an error takes one from what is left, a panic ends the fill.  A panic of
   the first fill comes out of RegisterObjectPool too, which has put the pool into the
   registry, and nothing else is started then or later. *)
Make(f) ==
  /\ At(f, "make")
  /\ \/ fill' = [fill EXCEPT ![f].at = "put"] /\ UNCHANGED <<task, fails>>
     \/ /\ fails < MaxFails /\ fails' = fails + 1
        /\ \/ fill' = [fill EXCEPT ![f] = Filling(@.left - 1)] /\ UNCHANGED task
           \/ fill' = [fill EXCEPT ![f] = Idle] /\ UNCHANGED task
  /\ UNCHANGED <<conf, pool, stopped>>

(* The channel may have become full meanwhile. *)
Put(f) ==
  /\ At(f, "put")
  /\ IF pool < Capacity
     THEN pool' = pool + 1 /\ fill' = [fill EXCEPT ![f] = Filling(@.left - 1)] /\ UNCHANGED task
     ELSE EndFill(f) /\ UNCHANGED pool
  /\ UNCHANGED <<conf, stopped, fails>>

(* refillTask, which does not overlap with itself. *)
Refill ==
  /\ task /\ ~stopped /\ At("refill", "idle")
  /\ pool < MinThreshold
  /\ fill' = [fill EXCEPT !["refill"] =
                Filling(IF Capacity - pool > BatchSize THEN BatchSize ELSE Capacity - pool)]
  /\ UNCHANGED <<conf, pool, task, stopped, fails>>

TryGet ==
  /\ pool > 0 /\ pool' = pool - 1
  /\ UNCHANGED <<conf, fill, task, stopped, fails>>

Stop ==
  /\ ~stopped /\ stopped' = TRUE
  /\ UNCHANGED <<conf, pool, fill, task, fails>>

(* A pool whose first fill has panicked: Start, which has been called, does nothing more. *)
NotStarted == At("start", "idle") /\ ~task

Fill(f) == Check(f) \/ Make(f) \/ Put(f)
Next == Refill \/ TryGet \/ Stop \/ \E f \in Fillers : Fill(f)

(* Goroutines run, and the periodic task comes round. *)
Spec == Init /\ [][Next]_vars /\ WF_vars(Refill) /\ \A f \in Fillers : WF_vars(Fill(f))

-----------------------------------------------------------------------------
(* However fast it is emptied and whatever the factory fails at, a pool that has not
   been stopped has something in it again and again, if a third of its capacity is
   not 0 and its first fill has not panicked; and the fills of one that has been
   stopped end. *)
Refills ==
  /\ []<>(stopped \/ pool > 0 \/ MinThreshold = 0 \/ NotStarted)
  /\ []<>(stopped => \A f \in Fillers : At(f, "idle"))
=============================================================================
