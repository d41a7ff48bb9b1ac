-------------------------------- MODULE Queue --------------------------------
(***************************************************************************)
(* queue.go: QueueHandler, one queue in Redis, its delay set, its list of  *)
(* failed items and its lock, and the workers that take items from it.     *)
(*                                                                         *)
(* A worker takes the lock, takes items, gives the lock back, and handles  *)
(* what it has; what it fails to handle it hands to RetryFailed.           *)
(***************************************************************************)
EXTENDS Naturals, FiniteSets, Sequences, SequencesExt

CONSTANTS
  Items, Workers, NoWorker,
  Priority,     \* [Items -> Nat]
  Types,        \* of "fifo", "lifo", "priority", "delayed"
  BatchSize, MaxRetries,
  MaxMishaps    \* bound: workers that crash, and locks that time out

VARIABLES
  type,       \* QueueType of the queue
  locking,    \* EnableDistributedLock
  queue,      \* the list, left end first, or the sorted set
  delay,      \* the delay set: [item, whether its time has come]
  failed,     \* the list of failed items
  lock,       \* who has it
  worker,     \* [Workers -> where it is, the delayed item it has seen, what it has taken]
  times,      \* history: [Attempts -> how often it has been given to a worker]
  arrived,    \* history: the attempts that have come into queue, in order
  lapsed,     \* history: the lock has timed out while its holder was taking items
  mishaps

vars == <<type, locking, queue, delay, failed, lock, worker, times, arrived, lapsed, mishaps>>

(* An item's JSON: which item, and its RetryCount. *)
Attempts == [id : Items, tries : 0..MaxRetries]
First(i) == [id |-> i, tries |-> 0]
Free == [at |-> "idle", seen |-> {}, hand |-> {}]

TypeOK ==
  /\ type \in Types /\ locking \in BOOLEAN
  /\ queue \in Seq(Attempts) /\ arrived \in Seq(Attempts)
  /\ delay \subseteq [item : Attempts, due : BOOLEAN]
  /\ failed \in Seq(Attempts)
  /\ lock \in Workers \cup {NoWorker}
  /\ worker \in [Workers -> [at : {"idle", "in", "zrem", "work"}, seen : SUBSET Attempts,
                             hand : SUBSET Attempts]]
  /\ times \in [Attempts -> Nat] /\ lapsed \in BOOLEAN /\ mishaps \in 0..MaxMishaps

Init ==
  /\ type \in Types /\ locking \in BOOLEAN
  /\ queue = <<>> /\ delay = {} /\ failed = <<>>
  /\ lock = NoWorker
  /\ worker = [w \in Workers |-> Free]
  /\ times = [a \in Attempts |-> 0] /\ arrived = <<>> /\ lapsed = FALSE /\ mishaps = 0

At(w, l) == worker[w].at = l
Delay(a) == delay' = delay \cup {[item |-> a, due |-> FALSE]}

(* Enqueue: RPUSH, LPUSH, or ZADD to one of the two sorted sets. *)
Enqueue(i) ==
  /\ times[First(i)] = 0 /\ First(i) \notin ToSet(arrived)
  /\ ~\E d \in delay : d.item = First(i)
  /\ \/ type = "delayed" /\ Delay(First(i)) /\ UNCHANGED <<queue, arrived>>
     \/ /\ type # "delayed"
        /\ queue' = IF type = "lifo" THEN <<First(i)>> \o queue ELSE Append(queue, First(i))
        /\ arrived' = Append(arrived, First(i))
        /\ UNCHANGED delay
  /\ UNCHANGED <<type, locking, failed, lock, worker, times, lapsed, mishaps>>

AcquireAnyway(w) ==   \* mutated: SET without NX
  /\ At(w, "idle")
  /\ lock' = IF locking THEN w ELSE lock
  /\ worker' = [worker EXCEPT ![w].at = "in"]
  /\ UNCHANGED <<type, locking, queue, delay, failed, times, arrived, lapsed, mishaps>>

(* SET NX, where locks are enabled. *)
AcquireLock(w) ==
  /\ At(w, "idle")
  /\ IF locking THEN lock = NoWorker /\ lock' = w ELSE UNCHANGED lock
  /\ worker' = [worker EXCEPT ![w].at = "in"]
  /\ UNCHANGED <<type, locking, queue, delay, failed, times, arrived, lapsed, mishaps>>

Greatest ==
  {i \in DOMAIN queue : \A j \in DOMAIN queue : Priority[queue[j].id] <= Priority[queue[i].id]}

PoppedFromRight(n) ==   \* mutated: RPOP
  IF type = "priority"
  THEN {[taken |-> {queue[1]}, left |-> Tail(queue)]}
  ELSE {[taken |-> {queue[i] : i \in (Len(queue) - n + 1)..Len(queue)},
         left |-> SubSeq(queue, 1, Len(queue) - n)]}

(* What one command may take and what it leaves then: LPOP and the batch script take from
   the left end, ZPOPMAX one of the greatest. *)
Popped(n) ==
  IF type = "priority"
  THEN {[taken |-> {queue[i]}, left |-> RemoveAt(queue, i)] : i \in Greatest}
  ELSE {[taken |-> {queue[i] : i \in 1..n}, left |-> SubSeq(queue, n + 1, Len(queue))]}

Take(w, as, l) ==
  /\ worker' = [worker EXCEPT ![w] = [at |-> l, seen |-> {}, hand |-> @.hand \cup as]]
  /\ times' = [a \in Attempts |-> times[a] + IF a \in as THEN 1 ELSE 0]

Dequeue(w) ==
  /\ At(w, "in") /\ type # "delayed" /\ queue # <<>>
  /\ \E n \in 1..BatchSize :
       /\ n <= Len(queue)
       /\ \E pop \in Popped(n) : Take(w, pop.taken, "in") /\ queue' = pop.left
  /\ UNCHANGED <<type, locking, delay, failed, lock, arrived, lapsed, mishaps>>

(* processDelayedQueue: one command reads an item whose time has come, *)
ZRange(w) ==
  /\ At(w, "in")
  /\ \E d \in delay :
       d.due /\ worker' = [worker EXCEPT ![w] = [at |-> "zrem", seen |-> {d.item}, hand |-> @.hand]]
  /\ UNCHANGED <<type, locking, queue, delay, failed, lock, times, arrived, lapsed, mishaps>>

(* another removes it; whether it was still there is not asked. *)
ZRem(w) ==
  /\ At(w, "zrem")
  /\ delay' = {d \in delay : d.item \notin worker[w].seen}
  /\ Take(w, worker[w].seen, "in")
  /\ UNCHANGED <<type, locking, queue, failed, lock, arrived, lapsed, mishaps>>

(* Only the owner's value is deleted. *)
ReleaseLock(w) ==
  /\ At(w, "in")
  /\ lock' = IF locking /\ lock = w THEN NoWorker ELSE lock
  /\ worker' = [worker EXCEPT ![w].at = IF worker[w].hand = {} THEN "idle" ELSE "work"]
  /\ UNCHANGED <<type, locking, queue, delay, failed, times, arrived, lapsed, mishaps>>

(* A worker is done with an item. *)
Drop(w, a) ==
  /\ At(w, "work") /\ a \in worker[w].hand
  /\ worker' = [worker EXCEPT ![w] = [at |-> IF @.hand = {a} THEN "idle" ELSE "work",
                                      seen |-> {}, hand |-> @.hand \ {a}]]

Finish(w) ==
  /\ \E a \in worker[w].hand : Drop(w, a)
  /\ UNCHANGED <<type, locking, queue, delay, failed, lock, times, arrived, lapsed, mishaps>>

SpentEarly(a) == a.tries + 1 >= MaxRetries   \* mutated: the next try is counted

Spent(a) == a.tries >= MaxRetries
RetryFailed(w) ==
  /\ \E a \in worker[w].hand :
       /\ Drop(w, a)
       /\ \/ Spent(a) /\ failed' = <<a>> \o failed /\ UNCHANGED delay
          \/ ~Spent(a) /\ Delay([a EXCEPT !.tries = @ + 1]) /\ UNCHANGED failed
  /\ UNCHANGED <<type, locking, queue, lock, times, arrived, lapsed, mishaps>>

(* DEL, of the delay set too if that is the queue. *)
Clear ==
  /\ queue' = <<>> /\ arrived' = <<>>
  /\ delay' = IF type = "delayed" THEN {} ELSE delay
  /\ UNCHANGED <<type, locking, failed, lock, worker, times, lapsed, mishaps>>

(* The time of a delayed item comes. *)
Due ==
  /\ \E d \in delay : ~d.due /\ delay' = (delay \ {d}) \cup {[d EXCEPT !.due = TRUE]}
  /\ UNCHANGED <<type, locking, queue, failed, lock, worker, times, arrived, lapsed, mishaps>>

Mishap == mishaps < MaxMishaps /\ mishaps' = mishaps + 1
LockTimeout ==
  /\ Mishap /\ lock # NoWorker
  /\ lock' = NoWorker
  /\ lapsed' = (lapsed \/ worker[lock].at \in {"in", "zrem"})
  /\ UNCHANGED <<type, locking, queue, delay, failed, worker, times, arrived>>

(* What a worker has taken is gone with it; its lock stays until it times out. *)
Crash(w) ==
  /\ Mishap /\ ~At(w, "idle")
  /\ worker' = [worker EXCEPT ![w] = Free]
  /\ UNCHANGED <<type, locking, queue, delay, failed, lock, times, arrived, lapsed>>

Next ==
  \/ \E i \in Items : Enqueue(i)
  \/ \E w \in Workers : AcquireLock(w) \/ Dequeue(w) \/ ZRange(w) \/ ZRem(w) \/ ReleaseLock(w)
                          \/ Finish(w) \/ RetryFailed(w) \/ Crash(w)
  \/ Clear \/ Due \/ LockTimeout
Spec == Init /\ [][Next]_vars

-----------------------------------------------------------------------------
(* No attempt is given to two workers, but for a delayed one, and then only where no
   lock is used or it has timed out: ZRANGEBYSCORE and ZREM are two commands. *)
GivenOnce ==
  \A a \in Attempts :
    (type # "delayed" /\ a.tries = 0) \/ (locking /\ ~lapsed) => times[a] <= 1

(* What leaves the queue is first, last or greatest of what has come and not yet left. *)
InOrder ==
  [][\A i, j \in 1..Len(arrived) :
       times[arrived[i]] = 0 /\ times'[arrived[i]] = 1 /\ times'[arrived[j]] = 0
         => CASE type = "fifo" -> i < j [] type = "lifo" -> j < i
              [] type = "priority" -> Priority[arrived[j].id] <= Priority[arrived[i].id]]_vars

(* An item is given up only when it has been given out once for every retry. *)
RetriesSpent ==
  \A a \in ToSet(failed), n \in 0..MaxRetries : times[[id |-> a.id, tries |-> n]] > 0
=============================================================================
