----------------------------- MODULE DelayQueue -----------------------------
(***************************************************************************)
(* delay_queue.go: one named queue shared by several pods.                 *)
(*                                                                         *)
(* Redis keeps the ready ZSET, the processing ZSET and the hash of task    *)
(* bodies; each Lua script is one atomic action.  Scores are kept as the   *)
(* number of ticks until they are due.  A pod runs one consumer goroutine, *)
(* which polls and hands tasks to the slots of its worker pool; with       *)
(* Ordered it runs them itself, one after the other.                       *)
(*                                                                         *)
(* A task is identified by its key and by which of the successive Enqueue  *)
(* calls for that key it came from (its version).  done, dead, cancelled   *)
(* and dropped record what became of it.                                   *)
(***************************************************************************)
EXTENDS Integers, FiniteSets

CONSTANTS
  Keys,             \* task keys
  Pods,             \* DelayQueue instances on the same namespace
  Workers,          \* jobs a pod's worker pool accepts
  MaxRetries,       \* config.MaxRetries
  RetryDelay,       \* config.RetryDelay, in ticks
  Visibility,       \* config.VisibilityTimeout, in ticks
  BatchSize,        \* config.BatchSize
  Orderings,        \* the values of config.Ordered considered
  Delays,           \* delays producers ask for, in ticks
  MaxVersion,       \* bound: Enqueue calls per key
  MaxCrashes,       \* bound: crashes
  Reschedules,      \* producers enqueue a key that is still in the queue
  Stops,            \* pods are shut down with Stop
  RedisFaults,      \* Redis commands may fail
  SlowHandlers      \* a handler may outlast the visibility timeout

ASSUME ConstantsAssumption ==
  /\ Workers \in Nat \ {0} /\ BatchSize \in Nat \ {0} /\ Visibility \in Nat \ {0}
  /\ MaxRetries \in Nat /\ RetryDelay \in Nat
  /\ MaxVersion \in Nat /\ MaxCrashes \in Nat
  /\ Delays \subseteq Nat
  /\ Orderings \cup {Reschedules, Stops, RedisFaults, SlowHandlers} \subseteq BOOLEAN

VARIABLES
  \* Redis (external)
  ready,       \* [Keys -> ticks until due, or Never when not a member]
  processing,  \* [Keys -> ticks until the claim lapses, or Never]
  hash,        \* [Keys -> task body, or NoBody]
  dead,        \* task versions pushed on the dead list
  \* pods
  ordered,     \* config.Ordered, the same for every pod; never changes
  closed,      \* q.closed
  consumer,    \* the consumer goroutine: where it is, the tasks it has fetched
               \* and not yet handed out, the one it gives back
  slot,        \* the jobs of the worker pools
  \* history
  version,     \* Enqueue calls made for each key
  done,        \* task versions whose handler has succeeded
  cancelled,   \* task versions removed by Cancel
  dropped,     \* task versions acknowledged and then neither stored nor dead
  claimant,    \* the pod that last claimed each key
  crashes

redisVars == <<ready, processing, hash, dead>>
podVars == <<closed, consumer, slot>>
historyVars == <<ordered, version, done, cancelled, dropped, claimant, crashes>>
vars == <<ready, processing, hash, dead, ordered, closed, consumer, slot,
          version, done, cancelled, dropped, claimant, crashes>>

Never == -1

(* A range query without its upper bound. *)
AnyScore(n) == n >= 0

(* score <= now *)
Due(n) == n = 0
Task == [key : Keys, version : 1..MaxVersion, retry : 0..MaxRetries]
NoBody == [key |-> "none", version |-> 0, retry |-> 0]
Slots == Pods \X (1..Workers)
NoPod == "none"

(* retryDelay * 2^retry, with retry already counting the failure at hand. *)
Backoff(n) == RetryDelay * 2^n

IdleJob == [pc |-> "idle", task |-> NoBody]
Polling == [pc |-> "poll", tasks |-> {}, current |-> NoBody]

MayBeTask == Task \cup {NoBody}
Job == [pc : {"idle", "run", "retry", "dead"}, task : MayBeTask]
ConsumerState == [pc : {"poll", "full", "stopped"}, tasks : SUBSET Task,
                  current : MayBeTask]

TypeOK ==
  /\ \A k \in Keys :
       /\ ready[k] \in Nat \cup {Never}
       /\ processing[k] \in 0..Visibility \cup {Never}
       /\ hash[k] \in MayBeTask
       /\ version[k] \in 0..MaxVersion
       /\ claimant[k] \in Pods \cup {NoPod}
  /\ ordered \in BOOLEAN
  /\ closed \subseteq Pods
  /\ \A i \in Pods : consumer[i] \in ConsumerState
  /\ \A s \in Slots : slot[s] \in Job
  /\ dead \cup done \cup cancelled \cup dropped \subseteq Keys \X (1..MaxVersion)
  /\ crashes \in 0..MaxCrashes

Init ==
  /\ ready = [k \in Keys |-> Never]
  /\ processing = [k \in Keys |-> Never]
  /\ hash = [k \in Keys |-> NoBody]
  /\ dead = {}
  /\ ordered \in Orderings
  /\ closed = {}
  /\ consumer = [i \in Pods |-> Polling]
  /\ slot = [s \in Slots |-> IdleJob]
  /\ version = [k \in Keys |-> 0]
  /\ done = {} /\ cancelled = {} /\ dropped = {}
  /\ claimant = [k \in Keys |-> NoPod]
  /\ crashes = 0

Id(task) == <<task.key, task.version>>

(* Tasks a pod has in its hands. *)
Handed(k) ==
  \/ \E s \in Slots : slot[s].pc # "idle" /\ slot[s].task.key = k
  \/ \E i \in Pods : \/ \E t \in consumer[i].tasks : t.key = k
                     \/ consumer[i].pc = "full" /\ consumer[i].current.key = k

-----------------------------------------------------------------------------
(***************************************************************************)
(* The Lua scripts.                                                        *)
(***************************************************************************)

(* enqueueLuaScript: ZADD ready and HSET the body. *)
EnqueueScript(task, delay) ==
  /\ ready' = [ready EXCEPT ![task.key] = delay]
  /\ hash' = [hash EXCEPT ![task.key] = task]
  /\ UNCHANGED <<processing, dead>>

(* ackLuaScript: ZREM processing, and HDEL when it was there.  Nothing in it
   says whose claim is being given up. *)
AckScript(k) ==
  /\ processing' = [processing EXCEPT ![k] = Never]
  /\ hash' = IF processing[k] = Never THEN hash ELSE [hash EXCEPT ![k] = NoBody]
  /\ UNCHANGED <<ready, dead>>

(* cancelLuaScript *)
CancelScript(k) ==
  /\ ready' = [ready EXCEPT ![k] = Never]
  /\ processing' = [processing EXCEPT ![k] = Never]
  /\ hash' = [hash EXCEPT ![k] = NoBody]
  /\ UNCHANGED dead

(* ZRANGEBYSCORE ... LIMIT 0 batchSize: as many due members as allowed.  Which
   ones when there are more is left open. *)
Batches(zset) ==
  LET due == {k \in Keys : Due(zset[k])} IN
  {B \in SUBSET due : \/ B = due /\ Cardinality(due) <= BatchSize
                      \/ Cardinality(B) = BatchSize}

(* Two ways to get the poll script wrong: lapsed claims are not looked at; claimed
   tasks stay in ready. *)
PollNoRequeue(i, fetched) ==
  \E due \in Batches(ready) :
    /\ ready' = [k \in Keys |-> IF k \in due THEN Never ELSE ready[k]]
    /\ processing' = [k \in Keys |-> IF k \in due THEN Visibility ELSE processing[k]]
    /\ fetched = {hash[k] : k \in {d \in due : hash[d] # NoBody}}
    /\ claimant' = [k \in Keys |-> IF k \in due THEN i ELSE claimant[k]]
    /\ UNCHANGED <<hash, dead>>

PollNotRemoved(i, fetched) ==
  \E due \in Batches(ready) :
    /\ ready' = ready
    /\ processing' = [k \in Keys |-> IF k \in due THEN Visibility ELSE processing[k]]
    /\ fetched = {hash[k] : k \in {d \in due : hash[d] # NoBody}}
    /\ claimant' = [k \in Keys |-> IF k \in due THEN i ELSE claimant[k]]
    /\ UNCHANGED <<hash, dead>>

(* pollLuaScript, run by pod i: lapsed claims go back to ready, then due tasks
   are claimed.  A member without a body is claimed too and returned to nobody. *)
PollScript(i, fetched) ==
  \E stale \in Batches(processing) :
    LET ready1 == [k \in Keys |-> IF k \in stale THEN 0 ELSE ready[k]] IN
    \E due \in Batches(ready1) :
      /\ ready' = [k \in Keys |-> IF k \in due THEN Never ELSE ready1[k]]
      /\ processing' = [k \in Keys |-> IF k \in due THEN Visibility
                                       ELSE IF k \in stale THEN Never
                                       ELSE processing[k]]
      /\ fetched = {hash[k] : k \in {d \in due : hash[d] # NoBody}}
      /\ claimant' = [k \in Keys |-> IF k \in due THEN i ELSE claimant[k]]
      /\ UNCHANGED <<hash, dead>>

-----------------------------------------------------------------------------
(***************************************************************************)
(* Producers.                                                              *)
(***************************************************************************)

(* EnqueueAt, EnqueueWithDelay: a new task for key k, through an open pod. *)
Enqueue(k, delay) ==
  /\ closed # Pods
  /\ version[k] < MaxVersion
  /\ Reschedules \/ (ready[k] = Never /\ processing[k] = Never /\ ~Handed(k))
  /\ EnqueueScript([key |-> k, version |-> version[k] + 1, retry |-> 0], delay)
  /\ version' = [version EXCEPT ![k] = @ + 1]
  /\ UNCHANGED <<ordered, podVars, done, cancelled, dropped, claimant, crashes>>

(* Cancel: it answers true, and the task counts as cancelled, when the key was
   in one of the two sets. *)
CancelTask(k) ==
  /\ closed # Pods
  /\ version[k] > 0
  /\ CancelScript(k)
  /\ cancelled' = IF ready[k] # Never \/ processing[k] # Never
                  THEN cancelled \cup {<<k, version[k]>>}
                  ELSE cancelled
  /\ UNCHANGED <<ordered, podVars, version, done, dropped, claimant, crashes>>

-----------------------------------------------------------------------------
(***************************************************************************)
(* The consumer goroutine of a pod.                                        *)
(***************************************************************************)

AtPoll(i) == consumer[i].pc = "poll" /\ consumer[i].tasks = {}

(* pollOnce up to the reply of the script. *)
Poll(i) ==
  /\ AtPoll(i)
  /\ i \notin closed
  /\ \E fetched \in SUBSET {hash[k] : k \in Keys} :
       /\ PollScript(i, fetched)
       /\ consumer' = [consumer EXCEPT ![i].tasks = fetched]
  /\ UNCHANGED <<ordered, closed, slot, version, done, cancelled, dropped, crashes>>

(* The script has run and its reply is lost: the connection failed, or Stop
   cancelled the consumer's context while the command was under way. *)
PollLost(i) ==
  /\ AtPoll(i)
  /\ RedisFaults \/ i \in closed
  /\ \E fetched \in SUBSET {hash[k] : k \in Keys} : PollScript(i, fetched)
  /\ UNCHANGED <<ordered, podVars, version, done, cancelled, dropped, crashes>>

(* A task is given to a job: SubmitNonBlocking, or with Ordered the call of
   handleTask, which returns before the next task is looked at. *)
Submit(i, task) ==
  /\ consumer[i].pc = "poll"
  /\ task \in consumer[i].tasks
  /\ ordered => i \notin closed
  /\ \E n \in 1..Workers :
       /\ slot[<<i, n>>].pc = "idle"
       /\ ordered => \A m \in 1..Workers : slot[<<i, m>>].pc = "idle"
       /\ slot' = [slot EXCEPT ![<<i, n>>] = [pc |-> "run", task |-> task]]
  /\ consumer' = [consumer EXCEPT ![i].tasks = @ \ {task}]
  /\ UNCHANGED <<redisVars, closed, historyVars>>

(* A Redis command that fails has not run, or has and its reply is lost. *)
MaybeAck(k) == AckScript(k) \/ (RedisFaults /\ UNCHANGED redisVars)

(* A full pool whose task is acknowledged and no more. *)
PoolFullDrops(i, task) ==
  /\ ~ordered
  /\ consumer[i].pc = "poll"
  /\ task \in consumer[i].tasks
  /\ \A n \in 1..Workers : slot[<<i, n>>].pc # "idle"
  /\ MaybeAck(task.key)
  /\ consumer' = [consumer EXCEPT ![i].tasks = @ \ {task}]
  /\ UNCHANGED <<closed, slot, historyVars>>

(* The pool is full: the task is acknowledged before it is enqueued again. *)
PoolFull(i, task) ==
  /\ ~ordered
  /\ consumer[i].pc = "poll"
  /\ task \in consumer[i].tasks
  /\ \A n \in 1..Workers : slot[<<i, n>>].pc # "idle"
  /\ MaybeAck(task.key)
  /\ consumer' = [consumer EXCEPT ![i].pc = "full", ![i].current = task,
                                  ![i].tasks = @ \ {task}]
  /\ UNCHANGED <<closed, slot, historyVars>>

Stored(task) == hash[task.key].version = task.version

(* What is written off when a task in hand is given up: nothing while the queue
   still holds it. *)
Forget(tasks) == dropped' = dropped \cup {Id(t) : t \in {u \in tasks : ~Stored(u)}}

(* reEnqueue and reEnqueueWithDelay.  EnqueueAt refuses once the pod is closed,
   and the callers only log an error. *)
ReEnqueue(i, task, delay) ==
  \/ /\ i \notin closed
     /\ EnqueueScript(task, delay)
     /\ UNCHANGED dropped
  \/ /\ i \in closed \/ RedisFaults
     /\ Forget({task})
     /\ UNCHANGED redisVars

FullReEnqueue(i) ==
  /\ consumer[i].pc = "full"
  /\ ReEnqueue(i, consumer[i].current, 0)
  /\ consumer' = [consumer EXCEPT ![i].pc = "poll", ![i].current = NoBody]
  /\ UNCHANGED <<ordered, closed, slot, version, done, cancelled, claimant, crashes>>

(* With Ordered the tasks not yet looked at are left to the visibility timeout. *)
ConsumerExit(i) ==
  /\ i \in closed
  /\ consumer[i].pc = "poll"
  /\ IF ordered THEN \A n \in 1..Workers : slot[<<i, n>>].pc = "idle"
                ELSE consumer[i].tasks = {}
  /\ consumer' = [consumer EXCEPT ![i] = [Polling EXCEPT !.pc = "stopped"]]
  /\ UNCHANGED <<redisVars, closed, slot, historyVars>>

-----------------------------------------------------------------------------
(***************************************************************************)
(* handleTask, in a job of the pool.                                       *)
(***************************************************************************)

(* The handler has returned nil: ack. *)
FinishOk(s) ==
  /\ slot[s].pc = "run"
  /\ MaybeAck(slot[s].task.key)
  /\ done' = done \cup {Id(slot[s].task)}
  /\ slot' = [slot EXCEPT ![s] = IdleJob]
  /\ UNCHANGED <<ordered, closed, consumer, version, cancelled, dropped, claimant, crashes>>

RetriesLeft(task) == task.retry < MaxRetries

(* The job once its handler has failed: to retry the task or to bury it. *)
Failed(task) ==
  IF RetriesLeft(task)
  THEN [pc |-> "retry", task |-> [task EXCEPT !.retry = @ + 1]]
  ELSE [pc |-> "dead", task |-> task]

(* A failing handler whose task is not acknowledged. *)
FinishFailNoAck(s) ==
  /\ slot[s].pc = "run"
  /\ slot' = [slot EXCEPT ![s] = Failed(slot[s].task)]
  /\ UNCHANGED <<redisVars, closed, consumer, historyVars>>

(* The handler has returned an error: ack, then retry or bury. *)
FinishFail(s) ==
  /\ slot[s].pc = "run"
  /\ MaybeAck(slot[s].task.key)
  /\ slot' = [slot EXCEPT ![s] = Failed(slot[s].task)]
  /\ UNCHANGED <<closed, consumer, historyVars>>

RetryEnqueue(s) ==
  /\ slot[s].pc = "retry"
  /\ ReEnqueue(s[1], slot[s].task, Backoff(slot[s].task.retry))
  /\ slot' = [slot EXCEPT ![s] = IdleJob]
  /\ UNCHANGED <<ordered, closed, consumer, version, done, cancelled, claimant, crashes>>

(* moveToDead: LPUSH, with an error only logged. *)
MoveToDead(s) ==
  /\ slot[s].pc = "dead"
  /\ \/ /\ dead' = dead \cup {Id(slot[s].task)}
        /\ UNCHANGED dropped
     \/ /\ RedisFaults
        /\ Forget({slot[s].task})
        /\ UNCHANGED dead
  /\ slot' = [slot EXCEPT ![s] = IdleJob]
  /\ UNCHANGED <<ordered, ready, processing, hash, closed, consumer, version, done, cancelled,
                 claimant, crashes>>

-----------------------------------------------------------------------------
(***************************************************************************)
(* Pods and time.                                                          *)
(***************************************************************************)

(* Stop: closed is set and the consumer's context cancelled; jobs already
   accepted run on, because worker.Close waits for them. *)
Stop(i) ==
  /\ Stops
  /\ i \notin closed
  /\ closed' = closed \cup {i}
  /\ UNCHANGED <<redisVars, consumer, slot, historyVars>>

(* The process of pod i dies and a new one takes its place. *)
Crash(i) ==
  /\ crashes < MaxCrashes
  /\ crashes' = crashes + 1
  /\ LET mine == {s \in Slots : s[1] = i}
         jobs == {s \in mine : slot[s].pc \in {"retry", "dead"}} IN
     /\ Forget({slot[s].task : s \in jobs} \cup
               {t \in {consumer[i].current} : t # NoBody})
     /\ slot' = [s \in Slots |-> IF s \in mine THEN IdleJob ELSE slot[s]]
  /\ consumer' = [consumer EXCEPT ![i] = Polling]
  /\ closed' = closed \ {i}
  /\ UNCHANGED <<ordered, redisVars, version, done, cancelled, claimant>>

(* One tick of the clock.  Without SlowHandlers a task in the hands of a pod is
   dealt with before its claim lapses. *)
Tick ==
  /\ SlowHandlers \/ \A k \in Keys : Handed(k) => processing[k] # 1
  /\ \E k \in Keys : ready[k] > 0 \/ processing[k] > 0
  /\ ready' = [k \in Keys |-> IF ready[k] > 0 THEN ready[k] - 1 ELSE ready[k]]
  /\ processing' = [k \in Keys |-> IF processing[k] > 0 THEN processing[k] - 1
                                   ELSE processing[k]]
  /\ UNCHANGED <<hash, dead, podVars, historyVars>>

-----------------------------------------------------------------------------
Consumer(i) ==
  \/ Poll(i)
  \/ \E task \in consumer[i].tasks : Submit(i, task) \/ PoolFull(i, task)
  \/ FullReEnqueue(i)
  \/ ConsumerExit(i)

RunJob(s) == FinishOk(s) \/ FinishFail(s) \/ RetryEnqueue(s) \/ MoveToDead(s)

Next ==
  \/ \E k \in Keys : CancelTask(k) \/ \E delay \in Delays : Enqueue(k, delay)
  \/ \E i \in Pods : Consumer(i) \/ PollLost(i) \/ Stop(i) \/ Crash(i)
  \/ \E s \in Slots : RunJob(s)
  \/ Tick

Spec == Init /\ [][Next]_vars

(* The ticker keeps the consumers polling, handlers return, time passes. *)
FairSpec ==
  /\ Spec
  /\ \A i \in Pods : WF_vars(Consumer(i))
  /\ \A s \in Slots : WF_vars(RunJob(s))
  /\ WF_vars(Tick)

-----------------------------------------------------------------------------
(***************************************************************************)
(* Properties.                                                             *)
(***************************************************************************)

Settled(k, v) == <<k, v>> \in done \cup dead \cup cancelled \cup dropped

(* In the gap between the ack of a task and its next enqueue or LPUSH. *)
InHand(k, v) ==
  \/ \E s \in Slots : slot[s].pc \in {"retry", "dead"} /\ Id(slot[s].task) = <<k, v>>
  \/ \E i \in Pods : consumer[i].pc = "full" /\ Id(consumer[i].current) = <<k, v>>

InQueue(k, v) ==
  /\ hash[k].version = v
  /\ ready[k] # Never \/ processing[k] # Never

(* The task last enqueued for a key is finished, buried or cancelled, or it can
   still be fetched from Redis, or a pod is between acknowledging it and writing
   it back.  Only that gap (a crash, a failed command or a Stop in it) can lose a
   task: the claims of crashed pods and lost poll replies do not. *)
TaskKept ==
  \A k \in Keys : version[k] > 0 =>
    LET v == version[k] IN Settled(k, v) \/ InQueue(k, v) \/ InHand(k, v)

(* While handlers keep within the visibility timeout, no task runs twice at the
   same time, whatever pods poll, crash and restart: a claim is exclusive. *)
OneRunPerKey ==
  \A r, s \in Slots :
    /\ slot[r].pc = "run" /\ slot[s].pc = "run"
    /\ slot[r].task.key = slot[s].task.key
    => r = s

(* A claim is given up by the pod that holds it: ack never removes a key from
   processing that another pod has claimed since. *)
OnlyHolderAcks ==
  [][\A s \in Slots :
       LET k == slot[s].task.key IN
       slot[s].pc = "run" /\ slot'[s].pc # "run" /\ crashes' = crashes
         /\ processing[k] # Never /\ processing'[k] = Never
       => claimant[k] = s[1]]_vars

(* While the acks get through and handlers are in time, moving a task to the dead
   list is final: it is not also finished, running or still in the queue. *)
BuriedIsFinal ==
  \A id \in dead :
    /\ id \notin done
    /\ \A s \in Slots : slot[s].pc # "idle" => Id(slot[s].task) # id
    /\ ~InQueue(id[1], id[2])

(* Every task enqueued is eventually finished, buried, cancelled or given up with
   its pod: a claim left behind by a crashed pod is taken over. *)
TaskEventuallySettled ==
  \A k \in Keys : \A v \in 1..MaxVersion : version[k] = v ~> Settled(k, v)

(* No task disappears: shutting pods down with Stop loses nothing that was being
   processed. *)
NothingDropped == dropped = {}
=============================================================================
