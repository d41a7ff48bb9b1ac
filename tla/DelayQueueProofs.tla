-------------------------- MODULE DelayQueueProofs --------------------------
(***************************************************************************)
(* What holds of the delay queue for any number of keys, pods and workers. *)
(***************************************************************************)
EXTENDS DelayQueue, FiniteSetTheorems, TLAPS

(***************************************************************************)
(* Task bodies.                                                            *)
(***************************************************************************)

(* The fields of a task, and what tells it from "no task". *)
LEMMA TaskFields ==
  ASSUME NEW t \in Task
  PROVE  /\ t.key \in Keys
         /\ t.version \in 1..MaxVersion
         /\ t.retry \in 0..MaxRetries
         /\ t # NoBody
  BY DEF Task, NoBody

(* What EnqueueAt stores for a key is a task of that key. *)
LEMMA NewTask ==
  ASSUME NEW k \in Keys, NEW v \in Nat, v < MaxVersion
  PROVE  LET t == [key |-> k, version |-> v + 1, retry |-> 0] IN
           t \in Task /\ t.key = k /\ t.version = v + 1
  BY ConstantsAssumption DEF Task

(* task.RetryCount++ changes nothing else, and stays within MaxRetries. *)
LEMMA RetriedTask ==
  ASSUME NEW t \in Task, RetriesLeft(t)
  PROVE  LET u == [t EXCEPT !.retry = @ + 1] IN
           u \in Task /\ u.key = t.key /\ u.version = t.version
  BY ConstantsAssumption DEF Task, RetriesLeft

(* A member of MayBeTask with a version is a task. *)
LEMMA BodyOrNone ==
  ASSUME NEW t \in MayBeTask, t # NoBody
  PROVE  t \in Task
  BY DEF MayBeTask

LEMMA NoBodyVersion == NoBody.version = 0 /\ NoBody \in MayBeTask
  BY DEF NoBody, MayBeTask

-----------------------------------------------------------------------------
(***************************************************************************)
(* Types, sharper than TypeOK where the proofs need it.                    *)
(***************************************************************************)
ScoresTyped ==
  /\ ready \in [Keys -> Nat \cup {Never}]
  /\ processing \in [Keys -> Nat \cup {Never}]
BodiesTyped ==
  /\ hash \in [Keys -> MayBeTask]
  /\ version \in [Keys -> 0..MaxVersion]
ConsumersTyped ==
  /\ consumer \in [Pods -> ConsumerState]
  /\ \A i \in Pods : consumer[i].pc = "full" => consumer[i].current \in Task
JobsTyped ==
  /\ slot \in [Slots -> Job]
  /\ \A s \in Slots : slot[s].pc # "idle" => slot[s].task \in Task
Typed == ScoresTyped /\ BodiesTyped /\ ConsumersTyped /\ JobsTyped /\ crashes \in Nat

(* A pod's consumer and a job of its pool, as records. *)
LEMMA ConsumerFields ==
  ASSUME NEW c \in ConsumerState
  PROVE  c.pc \in {"poll", "full", "stopped"} /\ c.tasks \subseteq Task /\ c.current \in MayBeTask
  BY DEF ConsumerState
LEMMA JobFields ==
  ASSUME NEW j \in Job
  PROVE  j.pc \in {"idle", "run", "retry", "dead"} /\ j.task \in MayBeTask
  BY DEF Job
LEMMA RestTyped ==
  /\ Polling \in ConsumerState /\ [Polling EXCEPT !.pc = "stopped"] \in ConsumerState
  /\ Polling.pc = "poll" /\ Polling.tasks = {}
  /\ [Polling EXCEPT !.pc = "stopped"].pc = "stopped"
  /\ [Polling EXCEPT !.pc = "stopped"].tasks = {}
  /\ IdleJob \in Job /\ IdleJob.pc = "idle"
  BY DEF Polling, ConsumerState, IdleJob, Job, MayBeTask, NoBody

(* A failed job still has its task, one retry older or not. *)
LEMMA FailedJob ==
  ASSUME NEW t \in Task
  PROVE  /\ Failed(t) \in Job /\ Failed(t).pc \in {"retry", "dead"}
         /\ Failed(t).task \in Task
         /\ Failed(t).task.key = t.key /\ Failed(t).task.version = t.version
<1>1. CASE RetriesLeft(t)
  BY <1>1, RetriedTask DEF Failed, Job, MayBeTask
<1>2. CASE ~RetriesLeft(t)
  BY <1>2 DEF Failed, Job, MayBeTask
<1> QED
  BY <1>1, <1>2

(* The scripts keep the scores and the bodies typed. *)
LEMMA EnqueueScriptTyped ==
  ASSUME ScoresTyped, BodiesTyped, NEW t \in Task, NEW d \in Nat, EnqueueScript(t, d)
  PROVE  ScoresTyped' /\ hash' \in [Keys -> MayBeTask]
  BY TaskFields DEF ScoresTyped, BodiesTyped, EnqueueScript, MayBeTask
LEMMA MaybeAckTyped ==
  ASSUME ScoresTyped, BodiesTyped, NEW k \in Keys, MaybeAck(k)
  PROVE  ScoresTyped' /\ hash' \in [Keys -> MayBeTask]
  BY NoBodyVersion DEF ScoresTyped, BodiesTyped, MaybeAck, AckScript, redisVars
LEMMA ReEnqueueTyped ==
  ASSUME ScoresTyped, BodiesTyped, NEW i, NEW t \in Task, NEW d \in Nat, ReEnqueue(i, t, d)
  PROVE  ScoresTyped' /\ hash' \in [Keys -> MayBeTask]
  BY EnqueueScriptTyped DEF ReEnqueue, redisVars, ScoresTyped, BodiesTyped

(* What the poll script does to a key: it is claimed, or its claim lapses, or nothing
   happens to it.  Only due keys are claimed. *)
LEMMA PollEffect ==
  ASSUME ScoresTyped, NEW i, NEW fetched, PollScript(i, fetched)
  PROVE  /\ ScoresTyped' /\ hash' = hash /\ dead' = dead
         /\ \E due \in SUBSET Keys :
              /\ \A k \in due :
                   /\ ready[k] = 0 \/ processing[k] = 0
                   /\ ready'[k] = Never /\ processing'[k] = Visibility /\ claimant'[k] = i
              /\ \A k \in Keys \ due :
                   /\ claimant'[k] = claimant[k]
                   /\ \/ ready'[k] = ready[k] /\ processing'[k] = processing[k]
                      \/ processing[k] = 0 /\ ready'[k] = 0 /\ processing'[k] = Never
              /\ fetched = {hash[k] : k \in {d \in due : hash[d] # NoBody}}
<1> DEFINE Requeued(stale) == [k \in Keys |-> IF k \in stale THEN 0 ELSE ready[k]]
<1>1. PICK stale \in Batches(processing) :
        \E due \in Batches(Requeued(stale)) :
          /\ ready' = [k \in Keys |-> IF k \in due THEN Never ELSE Requeued(stale)[k]]
          /\ processing' = [k \in Keys |-> IF k \in due THEN Visibility
                                           ELSE IF k \in stale THEN Never
                                           ELSE processing[k]]
          /\ fetched = {hash[k] : k \in {d \in due : hash[d] # NoBody}}
          /\ claimant' = [k \in Keys |-> IF k \in due THEN i ELSE claimant[k]]
          /\ UNCHANGED <<hash, dead>>
  BY DEF PollScript
<1>2. PICK due \in Batches(Requeued(stale)) :
          /\ ready' = [k \in Keys |-> IF k \in due THEN Never ELSE Requeued(stale)[k]]
          /\ processing' = [k \in Keys |-> IF k \in due THEN Visibility
                                           ELSE IF k \in stale THEN Never
                                           ELSE processing[k]]
          /\ fetched = {hash[k] : k \in {d \in due : hash[d] # NoBody}}
          /\ claimant' = [k \in Keys |-> IF k \in due THEN i ELSE claimant[k]]
          /\ UNCHANGED <<hash, dead>>
  BY <1>1
<1>3. stale \subseteq Keys /\ \A k \in stale : processing[k] = 0
  BY DEF Batches, Due
<1>4. due \subseteq Keys /\ \A k \in due : k \in stale \/ ready[k] = 0
  BY DEF Batches, Due
<1>5. ScoresTyped'
  BY <1>2, ConstantsAssumption DEF ScoresTyped
<1> QED
  BY <1>2, <1>3, <1>4, <1>5

(* 2^n is a number of ticks: it counts the subsets of a set of n elements. *)
LEMMA BackoffTyped == ASSUME NEW n \in Nat PROVE Backoff(n) \in Nat
<1>1. IsFiniteSet(1..n) /\ Cardinality(1..n) = n
  BY FS_Interval
<1>2. 2^n \in Nat
  BY <1>1, FS_SUBSET, FS_CardinalityType
<1> QED
  BY <1>2, ConstantsAssumption DEF Backoff

LEMMA InitTyped == Init => Typed
  BY ConstantsAssumption, RestTyped, NoBodyVersion
  DEF Init, Typed, ScoresTyped, BodiesTyped, ConsumersTyped, JobsTyped

(* Every step of the queue and its pods keeps the types. *)
LEMMA TypedStep ==
  ASSUME Typed, [Next]_vars
  PROVE  Typed'
<1> USE DEF Typed
<1>1. ASSUME NEW k \in Keys, CancelTask(k) PROVE Typed'
  BY <1>1, NoBodyVersion
  DEF CancelTask, CancelScript, podVars, ScoresTyped, BodiesTyped, ConsumersTyped, JobsTyped
<1>2. ASSUME NEW k \in Keys, NEW d \in Delays, Enqueue(k, d) PROVE Typed'
  <2>1. version[k] \in Nat /\ version[k] < MaxVersion /\ d \in Nat
    BY <1>2, ConstantsAssumption DEF Enqueue, BodiesTyped
  <2>2. ScoresTyped' /\ hash' \in [Keys -> MayBeTask]
    BY <1>2, <2>1, NewTask, EnqueueScriptTyped DEF Enqueue
  <2>3. version' \in [Keys -> 0..MaxVersion]
    BY <1>2, <2>1, ConstantsAssumption DEF Enqueue, BodiesTyped
  <2> QED
    BY <1>2, <2>2, <2>3 DEF Enqueue, podVars, BodiesTyped, ConsumersTyped, JobsTyped
<1>3. ASSUME NEW i \in Pods, Poll(i) PROVE Typed'
  <2>1. PICK fetched \in SUBSET {hash[k] : k \in Keys} :
          /\ PollScript(i, fetched)
          /\ consumer' = [consumer EXCEPT ![i].tasks = fetched]
    BY <1>3 DEF Poll
  <2>2. fetched \subseteq Task
    BY <2>1, BodyOrNone DEF PollScript, BodiesTyped
  <2>3. consumer[i].pc = "poll"
    BY <1>3 DEF Poll, AtPoll
  <2>4. ConsumersTyped'
    BY <2>1, <2>2, <2>3 DEF ConsumersTyped, ConsumerState
  <2>5. ScoresTyped' /\ hash' = hash
    BY <2>1, PollEffect
  <2> QED
    BY <1>3, <2>4, <2>5 DEF Poll, BodiesTyped, JobsTyped
<1>4. ASSUME NEW i \in Pods, NEW t \in consumer[i].tasks, Submit(i, t) PROVE Typed'
  <2>1. t \in Task /\ consumer[i].tasks \subseteq Task
    BY ConsumerFields DEF ConsumersTyped
  <2>2. PICK n \in 1..Workers : slot' = [slot EXCEPT ![<<i, n>>] = [pc |-> "run", task |-> t]]
    BY <1>4 DEF Submit
  <2>3. JobsTyped'
    BY <2>1, <2>2 DEF JobsTyped, Job, MayBeTask
  <2>4. ConsumersTyped'
    BY <1>4, <2>1 DEF Submit, ConsumersTyped, ConsumerState
  <2> QED
    BY <1>4, <2>3, <2>4 DEF Submit, redisVars, historyVars, ScoresTyped, BodiesTyped
<1>5. ASSUME NEW i \in Pods, NEW t \in consumer[i].tasks, PoolFull(i, t) PROVE Typed'
  <2>1. t \in Task /\ t.key \in Keys
    BY ConsumerFields, TaskFields DEF ConsumersTyped
  <2>2. ConsumersTyped'
    BY <1>5, <2>1 DEF PoolFull, ConsumersTyped, ConsumerState, MayBeTask
  <2>3. ScoresTyped' /\ hash' \in [Keys -> MayBeTask]
    BY <1>5, <2>1, MaybeAckTyped DEF PoolFull
  <2> QED
    BY <1>5, <2>2, <2>3 DEF PoolFull, historyVars, BodiesTyped, JobsTyped
<1>6. ASSUME NEW i \in Pods, FullReEnqueue(i) PROVE Typed'
  <2>1. consumer[i].current \in Task
    BY <1>6 DEF FullReEnqueue, ConsumersTyped
  <2>2. ScoresTyped' /\ hash' \in [Keys -> MayBeTask]
    BY <1>6, <2>1, ReEnqueueTyped DEF FullReEnqueue
  <2>3. ConsumersTyped'
    BY <1>6, NoBodyVersion DEF FullReEnqueue, ConsumersTyped, ConsumerState
  <2> QED
    BY <1>6, <2>2, <2>3 DEF FullReEnqueue, BodiesTyped, JobsTyped
<1>7. ASSUME NEW i \in Pods, ConsumerExit(i) PROVE Typed'
  BY <1>7, RestTyped
  DEF ConsumerExit, redisVars, historyVars, ScoresTyped, BodiesTyped, ConsumersTyped, JobsTyped
<1>8. ASSUME NEW i \in Pods, PollLost(i) PROVE Typed'
  <2>1. PICK fetched : PollScript(i, fetched)
    BY <1>8 DEF PollLost
  <2>2. ScoresTyped' /\ hash' = hash
    BY <2>1, PollEffect
  <2> QED
    BY <1>8, <2>2 DEF PollLost, podVars, BodiesTyped, ConsumersTyped, JobsTyped
<1>9. ASSUME NEW i \in Pods, Stop(i) PROVE Typed'
  BY <1>9
  DEF Stop, redisVars, historyVars, ScoresTyped, BodiesTyped, ConsumersTyped, JobsTyped
<1>10. ASSUME NEW i \in Pods, Crash(i) PROVE Typed'
  <2>1. JobsTyped'
    BY <1>10, RestTyped DEF Crash, JobsTyped
  <2>2. ConsumersTyped'
    BY <1>10, RestTyped DEF Crash, ConsumersTyped
  <2> QED
    BY <1>10, <2>1, <2>2 DEF Crash, redisVars, ScoresTyped, BodiesTyped
<1>11. ASSUME NEW s \in Slots, FinishOk(s) PROVE Typed'
  <2>1. slot[s].task \in Task /\ slot[s].task.key \in Keys
    BY <1>11, TaskFields DEF FinishOk, JobsTyped
  <2>2. JobsTyped'
    BY <1>11, RestTyped DEF FinishOk, JobsTyped
  <2>3. ScoresTyped' /\ hash' \in [Keys -> MayBeTask]
    BY <1>11, <2>1, MaybeAckTyped DEF FinishOk
  <2> QED
    BY <1>11, <2>2, <2>3 DEF FinishOk, BodiesTyped, ConsumersTyped
<1>12. ASSUME NEW s \in Slots, FinishFail(s) PROVE Typed'
  <2>1. slot[s].task \in Task /\ slot[s].task.key \in Keys /\ slot[s] \in Job
    BY <1>12, TaskFields DEF FinishFail, JobsTyped
  <2>2. JobsTyped'
    BY <1>12, <2>1, FailedJob DEF FinishFail, JobsTyped
  <2>3. ScoresTyped' /\ hash' \in [Keys -> MayBeTask]
    BY <1>12, <2>1, MaybeAckTyped DEF FinishFail
  <2> QED
    BY <1>12, <2>2, <2>3 DEF FinishFail, historyVars, BodiesTyped, ConsumersTyped
<1>13. ASSUME NEW s \in Slots, RetryEnqueue(s) PROVE Typed'
  <2>1. slot[s].task \in Task /\ slot[s].task.retry \in Nat
    BY <1>13, TaskFields, ConstantsAssumption DEF RetryEnqueue, JobsTyped
  <2>2. JobsTyped'
    BY <1>13, RestTyped DEF RetryEnqueue, JobsTyped
  <2>3. ScoresTyped' /\ hash' \in [Keys -> MayBeTask]
    BY <1>13, <2>1, ReEnqueueTyped, BackoffTyped DEF RetryEnqueue
  <2> QED
    BY <1>13, <2>2, <2>3 DEF RetryEnqueue, BodiesTyped, ConsumersTyped
<1>14. ASSUME NEW s \in Slots, MoveToDead(s) PROVE Typed'
  BY <1>14, RestTyped
  DEF MoveToDead, ScoresTyped, BodiesTyped, ConsumersTyped, JobsTyped
<1>15. ASSUME Tick PROVE Typed'
  <2>1. ScoresTyped'
    BY <1>15 DEF Tick, ScoresTyped, Never
  <2> QED
    BY <1>15, <2>1 DEF Tick, podVars, historyVars, BodiesTyped, ConsumersTyped, JobsTyped
<1>16. ASSUME UNCHANGED vars PROVE Typed'
  BY <1>16 DEF vars, ScoresTyped, BodiesTyped, ConsumersTyped, JobsTyped
<1> HIDE DEF Typed
<1> QED
  BY <1>1, <1>2, <1>3, <1>4, <1>5, <1>6, <1>7, <1>8, <1>9, <1>10, <1>11, <1>12, <1>13,
     <1>14, <1>15, <1>16
  DEF Next, Consumer, RunJob

-----------------------------------------------------------------------------
(***************************************************************************)
(* No task is lost outside the gap after its ack, when producers do not    *)
(* enqueue a key that is still in the queue.                               *)
(***************************************************************************)

(* A pod has version v of key k in its hands. *)
Holding(k, v) ==
  \/ \E s \in Slots : slot[s].pc # "idle" /\ slot[s].task.key = k /\ slot[s].task.version = v
  \/ \E i \in Pods :
       \/ \E t \in consumer[i].tasks : t.key = k /\ t.version = v
       \/ /\ consumer[i].pc = "full"
          /\ consumer[i].current.key = k /\ consumer[i].current.version = v

(* The body stored for a key, and every copy of it in hand, is the last one
   enqueued. *)
BodyIsCurrent ==
  \A k \in Keys : hash[k] # NoBody => hash[k].key = k /\ hash[k].version = version[k]
HandsAreCurrent == \A k \in Keys : \A v \in Nat : Holding(k, v) => v = version[k]

(* A body is there only as long as its key is in one of the two sets. *)
BodyIsQueued ==
  \A k \in Keys : hash[k] # NoBody => ready[k] # Never \/ processing[k] # Never

KeptInv == Typed /\ BodyIsCurrent /\ HandsAreCurrent /\ BodyIsQueued /\ TaskKept

(* A pod gets hold of a task only through the poll script. *)
LEMMA HoldingStep ==
  ASSUME Typed, BodyIsCurrent, [Next]_vars, NEW k \in Keys, NEW v \in Nat, Holding(k, v)'
  PROVE  \/ Holding(k, v)
         \/ hash[k] # NoBody /\ hash[k].version = v /\ UNCHANGED <<hash, version>>
<1>1. CASE \E l \in Keys : CancelTask(l) \/ \E d \in Delays : Enqueue(l, d)
  BY <1>1 DEF CancelTask, Enqueue, podVars, Holding
<1>2. ASSUME NEW i \in Pods, Poll(i) PROVE Holding(k, v) \/ (hash[k] # NoBody /\ hash[k].version = v /\ UNCHANGED <<hash, version>>)
  <2>1. PICK fetched \in SUBSET {hash[l] : l \in Keys} :
          /\ PollScript(i, fetched)
          /\ consumer' = [consumer EXCEPT ![i].tasks = fetched]
          /\ UNCHANGED <<slot, version>>
    BY <1>2 DEF Poll
  <2>2. hash' = hash /\ \A t \in fetched : \E l \in Keys : hash[l] # NoBody /\ t = hash[l]
    BY <2>1, PollEffect DEF Typed
  <2>3. consumer \in [Pods -> ConsumerState]
    BY DEF Typed, ConsumersTyped
  <2>4. consumer'[i].tasks = fetched /\ consumer'[i].pc = consumer[i].pc
        /\ consumer'[i].current = consumer[i].current
        /\ \A j \in Pods \ {i} : consumer'[j] = consumer[j]
    BY <2>1, <2>3 DEF ConsumerState
  <2> QED
    BY <2>1, <2>2, <2>4 DEF Holding, BodyIsCurrent
<1>3. ASSUME NEW i \in Pods, NEW t \in consumer[i].tasks, Submit(i, t) PROVE Holding(k, v)
  <2>1. PICK n \in 1..Workers : slot' = [slot EXCEPT ![<<i, n>>] = [pc |-> "run", task |-> t]]
    BY <1>3 DEF Submit
  <2>2. \A s \in Slots : slot'[s] = slot[s] \/ slot'[s].task = t
    BY <2>1 DEF Typed, JobsTyped
  <2>3. \A j \in Pods : /\ consumer'[j].tasks \subseteq consumer[j].tasks
                        /\ consumer'[j].pc = consumer[j].pc
                        /\ consumer'[j].current = consumer[j].current
    BY <1>3 DEF Submit, Typed, ConsumersTyped, ConsumerState
  <2> QED
    BY <2>2, <2>3 DEF Holding
<1>4. ASSUME NEW i \in Pods, NEW t \in consumer[i].tasks, PoolFull(i, t) PROVE Holding(k, v)
  <2>1. \A j \in Pods \ {i} : consumer'[j] = consumer[j]
    BY <1>4 DEF PoolFull, Typed, ConsumersTyped
  <2>2. consumer'[i].tasks \subseteq consumer[i].tasks /\ consumer'[i].current = t
    BY <1>4 DEF PoolFull, Typed, ConsumersTyped, ConsumerState
  <2> QED
    BY <1>4, <2>1, <2>2 DEF PoolFull, Holding
<1>5. ASSUME NEW i \in Pods, FullReEnqueue(i) \/ ConsumerExit(i) \/ Crash(i) PROVE Holding(k, v)
  <2>1. \A j \in Pods : \/ consumer'[j] = consumer[j]
                        \/ consumer'[j].tasks \subseteq consumer[j].tasks /\ consumer'[j].pc # "full"
    BY <1>5, RestTyped
    DEF FullReEnqueue, ConsumerExit, Crash, Typed, ConsumersTyped, ConsumerState
  <2>2. \A s \in Slots : slot'[s] = slot[s] \/ slot'[s].pc = "idle"
    BY <1>5, RestTyped DEF FullReEnqueue, ConsumerExit, Crash
  <2> QED
    BY <2>1, <2>2 DEF Holding
<1>6. CASE \E i \in Pods : PollLost(i) \/ Stop(i)
  BY <1>6 DEF PollLost, Stop, podVars, Holding
<1>7. ASSUME NEW s \in Slots, FinishOk(s) \/ RetryEnqueue(s) \/ MoveToDead(s) PROVE Holding(k, v)
  <2>1. \A r \in Slots : slot'[r] = slot[r] \/ slot'[r].pc = "idle"
    BY <1>7, RestTyped DEF FinishOk, RetryEnqueue, MoveToDead, Typed, JobsTyped
  <2> QED
    BY <1>7, <2>1 DEF FinishOk, RetryEnqueue, MoveToDead, Holding
<1>8. ASSUME NEW s \in Slots, FinishFail(s) PROVE Holding(k, v)
  <2>1. slot[s].task \in Task /\ slot[s].pc = "run"
    BY <1>8 DEF FinishFail, Typed, JobsTyped
  <2>2. \A r \in Slots : \/ slot'[r] = slot[r]
                         \/ r = s /\ slot'[r] = Failed(slot[s].task)
    BY <1>8 DEF FinishFail, Typed, JobsTyped
  <2> QED
    BY <1>8, <2>1, <2>2, FailedJob DEF FinishFail, Holding
<1>9. CASE Tick \/ UNCHANGED vars
  BY <1>9 DEF Tick, podVars, vars, Holding
<1> QED
  BY <1>1, <1>2, <1>3, <1>4, <1>5, <1>6, <1>7, <1>8, <1>9 DEF Next, Consumer, RunJob

(* Holding says of which version what Handed says of the key. *)
LEMMA HandedHolding ==
  ASSUME Typed, NEW k \in Keys
  PROVE  Handed(k) <=> \E v \in Nat : Holding(k, v)
<1>1. \A t \in Task : t.version \in Nat
  BY TaskFields, ConstantsAssumption
<1>2. ConsumersTyped /\ JobsTyped
  BY DEF Typed
<1>3. \A i \in Pods : consumer[i].tasks \subseteq Task
  BY <1>2, ConsumerFields DEF ConsumersTyped
<1> QED
  BY <1>1, <1>2, <1>3 DEF Handed, Holding, ConsumersTyped, JobsTyped

(* Storing a task gives its key the body and the score. *)
LEMMA EnqueueEffect ==
  ASSUME ScoresTyped, BodiesTyped, NEW t \in Task, NEW d, EnqueueScript(t, d)
  PROVE  /\ \A k \in Keys \ {t.key} : ready'[k] = ready[k] /\ hash'[k] = hash[k]
         /\ processing' = processing /\ dead' = dead
         /\ ready'[t.key] = d /\ hash'[t.key] = t
  BY TaskFields DEF EnqueueScript, ScoresTyped, BodiesTyped

(* An ack removes the claim, and the body with it; or it changes nothing. *)
LEMMA MaybeAckEffect ==
  ASSUME ScoresTyped, BodiesTyped, NEW l \in Keys, MaybeAck(l)
  PROVE  /\ \A k \in Keys \ {l} : processing'[k] = processing[k] /\ hash'[k] = hash[k]
         /\ ready' = ready /\ dead' = dead
         /\ \/ /\ processing'[l] = Never
               /\ hash'[l] = IF processing[l] = Never THEN hash[l] ELSE NoBody
            \/ RedisFaults /\ processing' = processing /\ hash' = hash
  BY DEF MaybeAck, AckScript, redisVars, ScoresTyped, BodiesTyped

(* The three invariants about bodies are kept by every step. *)
LEMMA CurrentStep ==
  ASSUME ~Reschedules, Typed, BodyIsCurrent, HandsAreCurrent, BodyIsQueued, [Next]_vars
  PROVE  BodyIsCurrent' /\ HandsAreCurrent' /\ BodyIsQueued'
<1> DEFINE Goal == BodyIsCurrent' /\ HandsAreCurrent' /\ BodyIsQueued'
<1>0. ScoresTyped /\ BodiesTyped /\ ConsumersTyped /\ JobsTyped /\ Never \notin Nat
  BY DEF Typed, Never
<1>1. ASSUME UNCHANGED version PROVE HandsAreCurrent'
  BY <1>1, HoldingStep DEF HandsAreCurrent, BodyIsCurrent
<1>2. ASSUME UNCHANGED <<version, hash, ready, processing>> PROVE Goal
  BY <1>1, <1>2 DEF BodyIsCurrent, BodyIsQueued
<1>3. ASSUME NEW l \in Keys, MaybeAck(l), UNCHANGED version PROVE Goal
  BY <1>0, <1>1, <1>3, MaybeAckEffect DEF BodyIsCurrent, BodyIsQueued
<1>4. ASSUME NEW i, NEW t \in Task, NEW d \in Nat, ReEnqueue(i, t, d),
             t.version = version[t.key], UNCHANGED version
      PROVE  Goal
  <2>1. CASE EnqueueScript(t, d)
    <3>1. /\ \A k \in Keys \ {t.key} : ready'[k] = ready[k] /\ hash'[k] = hash[k]
          /\ processing' = processing /\ ready'[t.key] = d /\ hash'[t.key] = t
      BY <1>0, <2>1, EnqueueEffect
    <3>2. BodyIsCurrent'
      BY <1>4, <3>1 DEF BodyIsCurrent
    <3>3. BodyIsQueued'
      BY <1>0, <1>4, <3>1 DEF BodyIsQueued
    <3> QED
      BY <1>1, <1>4, <3>2, <3>3
  <2>2. CASE UNCHANGED redisVars
    BY <1>2, <1>4, <2>2 DEF redisVars
  <2> QED
    BY <1>4, <2>1, <2>2 DEF ReEnqueue
<1>5. ASSUME NEW k \in Keys, CancelTask(k) PROVE Goal
  BY <1>0, <1>1, <1>5
  DEF CancelTask, CancelScript, BodyIsCurrent, BodyIsQueued, ScoresTyped, BodiesTyped
<1>6. ASSUME NEW k \in Keys, NEW d \in Delays, Enqueue(k, d) PROVE Goal
  <2>1. version[k] \in Nat /\ version[k] < MaxVersion /\ d \in Nat /\ ~Handed(k)
    BY <1>0, <1>6, ConstantsAssumption DEF Enqueue, BodiesTyped
  <2> DEFINE t == [key |-> k, version |-> version[k] + 1, retry |-> 0]
  <2>2. t \in Task /\ t.key = k /\ t.version = version[k] + 1
    BY <2>1, NewTask
  <2>3. EnqueueScript(t, d) /\ version' = [version EXCEPT ![k] = @ + 1] /\ UNCHANGED podVars
    BY <1>6 DEF Enqueue
  <2> HIDE DEF t
  <2>4. /\ hash'[k] = t /\ ready'[k] = d /\ version'[k] = version[k] + 1
        /\ processing' = processing
        /\ \A l \in Keys \ {k} :
             hash'[l] = hash[l] /\ ready'[l] = ready[l] /\ version'[l] = version[l]
    BY <1>0, <2>2, <2>3 DEF EnqueueScript, ScoresTyped, BodiesTyped
  <2>5. \A l \in Keys, v \in Nat : Holding(l, v)' => Holding(l, v) /\ l # k
    BY <2>1, <2>3, HandedHolding DEF podVars, Holding
  <2>6. HandsAreCurrent'
    BY <2>4, <2>5 DEF HandsAreCurrent
  <2> QED
    BY <1>0, <2>1, <2>2, <2>4, <2>6 DEF BodyIsCurrent, BodyIsQueued
<1>7. ASSUME NEW i \in Pods, Poll(i) \/ PollLost(i) PROVE Goal
  <2>1. PICK fetched : PollScript(i, fetched) /\ UNCHANGED version
    BY <1>7 DEF Poll, PollLost
  <2>2. PICK due \in SUBSET Keys :
          /\ hash' = hash
          /\ \A k \in due : processing'[k] = Visibility
          /\ \A k \in Keys \ due :
               (ready'[k] = ready[k] /\ processing'[k] = processing[k]) \/ ready'[k] = 0
    BY <1>0, <2>1, PollEffect
  <2> QED
    BY <1>0, <1>1, <2>1, <2>2, ConstantsAssumption DEF BodyIsCurrent, BodyIsQueued
<1>8. ASSUME NEW i \in Pods, NEW t \in consumer[i].tasks, Submit(i, t) PROVE Goal
  BY <1>2, <1>8 DEF Submit, redisVars, historyVars
<1>9. ASSUME NEW i \in Pods, NEW t \in consumer[i].tasks, PoolFull(i, t) PROVE Goal
  <2>1. t.key \in Keys
    BY <1>0, ConsumerFields, TaskFields DEF ConsumersTyped
  <2> QED
    BY <1>3, <1>9, <2>1 DEF PoolFull, historyVars
<1>10. ASSUME NEW i \in Pods, FullReEnqueue(i) PROVE Goal
  <2>1. consumer[i].pc = "full" /\ consumer[i].current \in Task
    BY <1>0, <1>10 DEF FullReEnqueue, ConsumersTyped
  <2>2. Holding(consumer[i].current.key, consumer[i].current.version)
    BY <2>1 DEF Holding
  <2>3. consumer[i].current.version = version[consumer[i].current.key]
    BY <2>1, <2>2, TaskFields, ConstantsAssumption DEF HandsAreCurrent
  <2> QED
    BY <1>4, <1>10, <2>1, <2>3 DEF FullReEnqueue
<1>11. ASSUME NEW i \in Pods, ConsumerExit(i) \/ Stop(i) \/ Crash(i) PROVE Goal
  BY <1>2, <1>11 DEF ConsumerExit, Stop, Crash, redisVars, historyVars
<1>12. ASSUME NEW s \in Slots, FinishOk(s) \/ FinishFail(s) PROVE Goal
  <2>1. slot[s].task.key \in Keys
    BY <1>0, <1>12, TaskFields DEF FinishOk, FinishFail, JobsTyped
  <2> QED
    BY <1>3, <1>12, <2>1 DEF FinishOk, FinishFail, historyVars
<1>13. ASSUME NEW s \in Slots, RetryEnqueue(s) PROVE Goal
  <2>1. slot[s].pc = "retry" /\ slot[s].task \in Task
    BY <1>0, <1>13 DEF RetryEnqueue, JobsTyped
  <2>2. Holding(slot[s].task.key, slot[s].task.version)
    BY <2>1 DEF Holding
  <2>3. slot[s].task.version = version[slot[s].task.key]
    BY <2>1, <2>2, TaskFields, ConstantsAssumption DEF HandsAreCurrent
  <2>4. Backoff(slot[s].task.retry) \in Nat
    BY <2>1, TaskFields, BackoffTyped, ConstantsAssumption
  <2> QED
    BY <1>4, <1>13, <2>1, <2>3, <2>4 DEF RetryEnqueue
<1>14. ASSUME NEW s \in Slots, MoveToDead(s) PROVE Goal
  BY <1>2, <1>14 DEF MoveToDead
<1>15. ASSUME Tick PROVE Goal
  <2>1. \A k \in Keys : /\ ready[k] # Never => ready'[k] # Never
                        /\ processing[k] # Never => processing'[k] # Never
    BY <1>0, <1>15 DEF Tick, ScoresTyped, Never
  <2>2. UNCHANGED <<hash, version>>
    BY <1>15 DEF Tick, historyVars
  <2>3. BodyIsCurrent'
    BY <2>2 DEF BodyIsCurrent
  <2>4. BodyIsQueued'
    BY <2>1, <2>2 DEF BodyIsQueued
  <2> QED
    BY <1>1, <2>2, <2>3, <2>4
<1>16. ASSUME UNCHANGED vars PROVE Goal
  BY <1>2, <1>16 DEF vars
<1> HIDE DEF Goal
<1> QED
  <2>1. Goal
    BY <1>5, <1>6, <1>7, <1>8, <1>9, <1>10, <1>11, <1>12, <1>13, <1>14, <1>15, <1>16
    DEF Next, Consumer, RunJob
  <2> QED
    BY <2>1 DEF Goal

(* A task given up is still in the queue, or is written off. *)
LEMMA ForgetEffect ==
  ASSUME Typed, BodyIsQueued, NEW T, Forget(T), NEW t \in T, t \in Task
  PROVE  InQueue(t.key, t.version) \/ <<t.key, t.version>> \in dropped'
<1>1. CASE Stored(t)
  <2>1. hash[t.key].version # 0
    BY <1>1, TaskFields, ConstantsAssumption DEF Stored
  <2> QED
    BY <1>1, <2>1, NoBodyVersion, TaskFields DEF Stored, BodyIsQueued, InQueue
<1>2. CASE ~Stored(t)
  BY <1>2 DEF Forget, Id
<1> QED
  BY <1>1, <1>2

(* The records of what became of tasks only grow. *)
LEMMA HistoryGrows ==
  ASSUME [Next]_vars
  PROVE  done \subseteq done' /\ dead \subseteq dead' /\ cancelled \subseteq cancelled'
         /\ dropped \subseteq dropped'
<1>1. CASE \E k \in Keys : CancelTask(k) \/ \E delay \in Delays : Enqueue(k, delay)
  BY <1>1 DEF CancelTask, CancelScript, Enqueue, EnqueueScript
<1>2. ASSUME NEW i \in Pods, Consumer(i) \/ PollLost(i) PROVE
         done \subseteq done' /\ dead \subseteq dead' /\ cancelled \subseteq cancelled'
         /\ dropped \subseteq dropped'
  BY <1>2
  DEF Consumer, Poll, PollLost, PollScript, Submit, PoolFull, MaybeAck, AckScript, FullReEnqueue,
      ReEnqueue, EnqueueScript, Forget, ConsumerExit, redisVars, historyVars
<1>3. CASE \E i \in Pods : Stop(i) \/ Crash(i)
  BY <1>3 DEF Stop, Crash, Forget, redisVars, historyVars
<1>4. CASE \E s \in Slots : RunJob(s)
  BY <1>4
  DEF RunJob, FinishOk, FinishFail, RetryEnqueue, MoveToDead, MaybeAck, AckScript,
      ReEnqueue, EnqueueScript, Forget, redisVars, historyVars
<1>5. CASE Tick \/ UNCHANGED vars
  BY <1>5 DEF Tick, historyVars, vars
<1> QED
  BY <1>1, <1>2, <1>3, <1>4, <1>5 DEF Next

Kept(k) == \/ Settled(k, version[k])
           \/ InQueue(k, version[k])
           \/ InHand(k, version[k])

(* Enqueueing a key puts its last version in the queue. *)
LEMMA EnqueueKeeps ==
  ASSUME Typed, NEW k \in Keys, NEW d \in Delays, Enqueue(k, d)
  PROVE  /\ InQueue(k, version[k])'
         /\ \A l \in Keys \ {k} : version'[l] = version[l] /\ (Kept(l) => Kept(l)')
<1>1. version[k] \in Nat /\ version[k] < MaxVersion /\ d \in Nat
  BY ConstantsAssumption DEF Enqueue, Typed, BodiesTyped
<1> DEFINE t == [key |-> k, version |-> version[k] + 1, retry |-> 0]
<1>2. t \in Task /\ t.key = k /\ t.version = version[k] + 1
  BY <1>1, NewTask
<1>3. /\ EnqueueScript(t, d)
      /\ version' = [version EXCEPT ![k] = @ + 1]
      /\ UNCHANGED <<podVars, done, cancelled, dropped>>
  BY DEF Enqueue
<1> HIDE DEF t
<1>4. /\ hash'[k] = t /\ ready'[k] = d /\ processing' = processing /\ dead' = dead
      /\ \A l \in Keys \ {k} : ready'[l] = ready[l] /\ hash'[l] = hash[l]
  BY <1>2, <1>3, EnqueueEffect DEF Typed
<1>5. /\ version'[k] = version[k] + 1
      /\ \A l \in Keys \ {k} : version'[l] = version[l]
  BY <1>1, <1>3 DEF Typed, BodiesTyped
<1>6. InQueue(k, version[k])'
  BY <1>1, <1>2, <1>4, <1>5 DEF InQueue, Never
<1>7. ASSUME NEW l \in Keys \ {k} PROVE Kept(l) => Kept(l)'
  BY <1>3, <1>4, <1>5 DEF Kept, Settled, InQueue, InHand, podVars
<1> QED
  BY <1>5, <1>6, <1>7

(* Every step keeps every task: in the queue, in the gap after its ack, or settled. *)
LEMMA KeptStep ==
  ASSUME ~Reschedules, KeptInv, [Next]_vars
  PROVE  TaskKept'
<1> DEFINE Goal == \A l \in Keys : version'[l] > 0 => Kept(l)'
<1>1. /\ ScoresTyped /\ BodiesTyped /\ ConsumersTyped /\ JobsTyped /\ Never \notin Nat
      /\ Typed /\ BodyIsQueued /\ HandsAreCurrent
      /\ \A l \in Keys : version[l] \in Nat /\ (version[l] > 0 => Kept(l))
  BY ConstantsAssumption DEF KeptInv, Typed, BodiesTyped, Never, TaskKept, Kept
<1>2. \A l \in Keys : Settled(l, version[l]) => Settled(l, version[l])'
        \/ version'[l] # version[l]
  BY HistoryGrows DEF Settled
<1>3. ASSUME NEW l \in Keys, version'[l] = version[l],
             InQueue(l, version[l]) => Kept(l)', InHand(l, version[l]) => Kept(l)'
      PROVE  version'[l] > 0 => Kept(l)'
  BY <1>1, <1>2, <1>3 DEF Kept
<1>4. ASSUME NEW l \in Keys, UNCHANGED <<hash, ready, processing, version>>
      PROVE  InQueue(l, version[l]) => Kept(l)'
  BY <1>4 DEF Kept, InQueue
<1>5. ASSUME NEW l \in Keys, UNCHANGED <<slot, consumer, version>>
      PROVE  InHand(l, version[l]) => Kept(l)'
  BY <1>5 DEF Kept, InHand
<1>6. ASSUME NEW l \in Keys, NEW k \in Keys, MaybeAck(k), l # k, UNCHANGED version
      PROVE  InQueue(l, version[l]) => Kept(l)'
  BY <1>1, <1>6, MaybeAckEffect DEF Kept, InQueue
<1>7. ASSUME NEW t \in Task, NEW d \in Nat, EnqueueScript(t, d), UNCHANGED version,
             t.version = version[t.key]
      PROVE  /\ Kept(t.key)'
             /\ \A l \in Keys : InQueue(l, version[l]) => Kept(l)'
  <2>1. /\ \A l \in Keys \ {t.key} : ready'[l] = ready[l] /\ hash'[l] = hash[l]
        /\ processing' = processing /\ ready'[t.key] = d /\ hash'[t.key] = t
    BY <1>1, <1>7, EnqueueEffect
  <2>2. InQueue(t.key, version[t.key])'
    BY <1>1, <1>7, <2>1 DEF InQueue
  <2> QED
    BY <1>7, <2>1, <2>2 DEF Kept, InQueue
<1>8. ASSUME NEW T, Forget(T), NEW t \in T, t \in Task, t.version = version[t.key],
             UNCHANGED <<ready, processing, hash, version>>
      PROVE  Kept(t.key)'
  <2>1. InQueue(t.key, t.version) \/ <<t.key, t.version>> \in dropped'
    BY <1>1, <1>8, ForgetEffect
  <2> QED
    BY <1>8, <2>1 DEF Kept, InQueue, Settled
<1>9. \A s \in Slots : slot[s].pc # "idle" =>
        slot[s].task \in Task /\ slot[s].task.key \in Keys /\ slot[s].task.version = version[slot[s].task.key]
  <2>1. SUFFICES ASSUME NEW s \in Slots, slot[s].pc # "idle"
                 PROVE  slot[s].task \in Task /\ slot[s].task.key \in Keys
                        /\ slot[s].task.version = version[slot[s].task.key]
    OBVIOUS
  <2>2. slot[s].task \in Task /\ slot[s].task.key \in Keys /\ slot[s].task.version \in Nat
    BY <1>1, <2>1, TaskFields, ConstantsAssumption DEF JobsTyped
  <2>3. Holding(slot[s].task.key, slot[s].task.version)
    BY <2>1 DEF Holding
  <2> QED
    BY <1>1, <2>2, <2>3 DEF HandsAreCurrent
<1>10. ASSUME NEW k \in Keys, CancelTask(k) PROVE Goal
  <2>1. ASSUME NEW l \in Keys PROVE InQueue(l, version[l]) => Kept(l)'
    BY <1>1, <1>10 
    DEF CancelTask, CancelScript, ScoresTyped, BodiesTyped, Kept, InQueue, Settled
  <2> QED
    BY <1>3, <1>5, <1>10, <2>1 DEF CancelTask, podVars
<1>11. ASSUME NEW k \in Keys, NEW d \in Delays, Enqueue(k, d) PROVE Goal
  <2>1. Kept(k)'
    BY <1>1, <1>11, EnqueueKeeps DEF Kept
  <2>2. ASSUME NEW l \in Keys \ {k}, version'[l] > 0 PROVE Kept(l)'
    BY <1>1, <1>11, <2>2, EnqueueKeeps
  <2> QED
    BY <2>1, <2>2
<1>12. ASSUME NEW i \in Pods, Poll(i) \/ PollLost(i) PROVE Goal
  <2>1. PICK fetched : PollScript(i, fetched) /\ UNCHANGED <<slot, version>>
    BY <1>12 DEF Poll, PollLost, podVars
  <2>2. PICK due \in SUBSET Keys :
          /\ hash' = hash
          /\ \A k \in due : processing'[k] = Visibility
          /\ \A k \in Keys \ due :
               (ready'[k] = ready[k] /\ processing'[k] = processing[k]) \/ ready'[k] = 0
    BY <1>1, <2>1, PollEffect
  <2>3. ASSUME NEW l \in Keys PROVE InQueue(l, version[l]) => Kept(l)'
    BY <1>1, <2>1, <2>2, ConstantsAssumption DEF Kept, InQueue
  <2>4. \A j \in Pods : consumer'[j].pc = consumer[j].pc /\ consumer'[j].current = consumer[j].current
    BY <1>1, <1>12 DEF Poll, PollLost, podVars, ConsumersTyped, ConsumerState
  <2>5. ASSUME NEW l \in Keys PROVE InHand(l, version[l]) => Kept(l)'
    BY <2>1, <2>4 DEF Kept, InHand
  <2> QED
    BY <1>3, <2>1, <2>3, <2>5
<1>13. ASSUME NEW i \in Pods, NEW t \in consumer[i].tasks, Submit(i, t) PROVE Goal
  <2>1. PICK n \in 1..Workers : /\ slot[<<i, n>>].pc = "idle"
                                /\ slot' = [slot EXCEPT ![<<i, n>>] = [pc |-> "run", task |-> t]]
    BY <1>13 DEF Submit
  <2>2. \A s \in Slots : slot[s].pc # "idle" => slot'[s] = slot[s]
    BY <1>1, <2>1 DEF JobsTyped
  <2>3. \A j \in Pods : consumer'[j].pc = consumer[j].pc /\ consumer'[j].current = consumer[j].current
    BY <1>1, <1>13 DEF Submit, ConsumersTyped, ConsumerState
  <2>4. UNCHANGED <<hash, ready, processing, version>>
    BY <1>13 DEF Submit, redisVars, historyVars
  <2>5. ASSUME NEW l \in Keys PROVE InHand(l, version[l]) => Kept(l)'
    BY <2>2, <2>3, <2>4 DEF Kept, InHand
  <2> QED
    BY <1>3, <1>4, <2>4, <2>5
<1>14. ASSUME NEW i \in Pods, NEW t \in consumer[i].tasks, PoolFull(i, t) PROVE Goal
  <2>1. t \in Task /\ t.key \in Keys /\ t.version \in Nat
    BY <1>1, ConsumerFields, TaskFields, ConstantsAssumption DEF ConsumersTyped
  <2>2. Holding(t.key, t.version)
    BY DEF Holding
  <2>3. t.version = version[t.key]
    BY <1>1, <2>1, <2>2 DEF HandsAreCurrent
  <2>4. /\ consumer[i].pc = "poll" /\ UNCHANGED <<slot, version>> /\ MaybeAck(t.key)
        /\ consumer'[i].pc = "full" /\ consumer'[i].current = t
        /\ \A j \in Pods \ {i} : consumer'[j] = consumer[j]
    BY <1>1, <1>14 DEF PoolFull, historyVars, ConsumersTyped, ConsumerState
  <2>5. Kept(t.key)'
    BY <2>3, <2>4 DEF Kept, InHand, Id
  <2>6. ASSUME NEW l \in Keys PROVE InHand(l, version[l]) => Kept(l)'
    BY <2>4 DEF Kept, InHand
  <2>7. ASSUME NEW l \in Keys PROVE InQueue(l, version[l]) => Kept(l)'
    BY <1>6, <2>1, <2>4, <2>5
  <2> QED
    BY <1>3, <2>4, <2>6, <2>7
<1>15. ASSUME NEW i \in Pods, FullReEnqueue(i) PROVE Goal
  <2>0. PICK t : t = consumer[i].current
    OBVIOUS
  <2>1. /\ consumer[i].pc = "full" /\ UNCHANGED <<slot, version>> /\ ReEnqueue(i, t, 0)
        /\ \A j \in Pods \ {i} : consumer'[j] = consumer[j]
    BY <1>1, <1>15, <2>0 DEF FullReEnqueue, ConsumersTyped
  <2>2. t \in Task /\ t.key \in Keys /\ t.version \in Nat
    BY <1>1, <2>0, <2>1, TaskFields, ConstantsAssumption DEF ConsumersTyped
  <2>3. Holding(t.key, t.version)
    BY <2>0, <2>1 DEF Holding
  <2>4. t.version = version[t.key]
    BY <1>1, <2>2, <2>3 DEF HandsAreCurrent
  <2>5. ASSUME NEW l \in Keys, l # t.key PROVE InHand(l, version[l]) => Kept(l)'
    BY <2>0, <2>1, <2>5 DEF Kept, InHand, Id
  <2>6. CASE EnqueueScript(t, 0)
    BY <1>3, <1>7, <2>1, <2>2, <2>4, <2>5, <2>6
  <2>7. CASE Forget({t}) /\ UNCHANGED redisVars
    <3>1. UNCHANGED <<ready, processing, hash, version>>
      BY <2>1, <2>7 DEF redisVars
    <3>2. Kept(t.key)'
      BY <1>8, <2>2, <2>4, <2>7, <3>1
    <3> QED
      BY <1>3, <1>4, <2>1, <2>5, <3>1, <3>2
  <2> QED
    BY <2>1, <2>6, <2>7 DEF ReEnqueue
<1>16. ASSUME NEW i \in Pods, ConsumerExit(i) \/ Stop(i) PROVE Goal
  <2>1. UNCHANGED <<hash, ready, processing, slot, version>>
    BY <1>16 DEF ConsumerExit, Stop, redisVars, historyVars
  <2>2. \A j \in Pods : consumer[j].pc = "full" => consumer'[j] = consumer[j]
    BY <1>1, <1>16 DEF ConsumerExit, Stop, ConsumersTyped
  <2>3. ASSUME NEW l \in Keys PROVE InHand(l, version[l]) => Kept(l)'
    BY <2>1, <2>2 DEF Kept, InHand
  <2> QED
    BY <1>3, <1>4, <2>1, <2>3
<1>17. ASSUME NEW i \in Pods, Crash(i) PROVE Goal
  <2> DEFINE mine == {s \in Slots : s[1] = i}
             given == {slot[s].task : s \in {r \in mine : slot[r].pc \in {"retry", "dead"}}}
                      \cup {t \in {consumer[i].current} : t # NoBody}
  <2>1. /\ UNCHANGED <<hash, ready, processing, version>> /\ Forget(given)
        /\ \A s \in Slots \ mine : slot'[s] = slot[s]
        /\ \A j \in Pods \ {i} : consumer'[j] = consumer[j]
    BY <1>1, <1>17 DEF Crash, redisVars, ConsumersTyped
  <2>2. ASSUME NEW l \in Keys, InHand(l, version[l]) PROVE Kept(l)'
    <3>1. ASSUME NEW s \in mine, slot[s].pc \in {"retry", "dead"}, Id(slot[s].task) = <<l, version[l]>>
          PROVE  Kept(l)'
      <4>1. slot[s].task \in given /\ slot[s].task \in Task /\ slot[s].task.key = l
            /\ slot[s].task.version = version[l]
        BY <1>9, <3>1 DEF Id
      <4> QED
        BY <1>8, <2>1, <4>1
    <3>2. ASSUME consumer[i].pc = "full", Id(consumer[i].current) = <<l, version[l]>>
          PROVE  Kept(l)'
      <4>1. consumer[i].current \in Task
        BY <1>1, <3>2 DEF ConsumersTyped
      <4>2. consumer[i].current \in given /\ consumer[i].current.key = l
            /\ consumer[i].current.version = version[l]
        BY <3>2, <4>1, TaskFields DEF Id
      <4> QED
        BY <1>8, <2>1, <4>1, <4>2
    <3>3. ASSUME NEW s \in Slots \ mine, slot[s].pc \in {"retry", "dead"},
                 Id(slot[s].task) = <<l, version[l]>>
          PROVE  Kept(l)'
      BY <2>1, <3>3 DEF Kept, InHand
    <3>4. ASSUME NEW j \in Pods \ {i}, consumer[j].pc = "full",
                 Id(consumer[j].current) = <<l, version[l]>>
          PROVE  Kept(l)'
      BY <2>1, <3>4 DEF Kept, InHand
    <3> QED
      BY <2>2, <3>1, <3>2, <3>3, <3>4 DEF InHand
  <2> QED
    BY <1>3, <1>4, <2>1, <2>2
<1>18. ASSUME NEW s \in Slots, FinishOk(s) \/ FinishFail(s) PROVE Goal
  <2>0. PICK t : t = slot[s].task
    OBVIOUS
  <2>1. /\ slot[s].pc = "run" /\ MaybeAck(t.key) /\ UNCHANGED <<consumer, version>>
        /\ \A r \in Slots \ {s} : slot'[r] = slot[r]
    BY <1>1, <1>18, <2>0 DEF FinishOk, FinishFail, historyVars, JobsTyped
  <2>2. t \in Task /\ t.key \in Keys /\ t.version = version[t.key]
    BY <1>9, <2>0, <2>1
  <2>3. ASSUME FinishOk(s) PROVE Kept(t.key)'
    BY <2>0, <2>1, <2>2, <2>3 DEF FinishOk, Kept, Settled, Id
  <2>4. ASSUME FinishFail(s) PROVE Kept(t.key)'
    <3>1. slot'[s] = Failed(t)
      BY <1>1, <2>0, <2>4 DEF FinishFail, JobsTyped
    <3> QED
      BY <2>1, <2>2, <3>1, FailedJob DEF Kept, InHand, Id
  <2>5. Kept(t.key)'
    BY <1>18, <2>3, <2>4
  <2>6. ASSUME NEW l \in Keys PROVE InHand(l, version[l]) => Kept(l)'
    BY <2>1 DEF Kept, InHand
  <2>7. ASSUME NEW l \in Keys PROVE InQueue(l, version[l]) => Kept(l)'
    BY <1>6, <2>1, <2>2, <2>5
  <2> QED
    BY <1>3, <2>1, <2>6, <2>7
<1>19. ASSUME NEW s \in Slots, RetryEnqueue(s) \/ MoveToDead(s) PROVE Goal
  <2>0. PICK t : t = slot[s].task
    OBVIOUS
  <2>1. /\ slot[s].pc \in {"retry", "dead"} /\ UNCHANGED <<consumer, version>>
        /\ \A r \in Slots \ {s} : slot'[r] = slot[r]
    BY <1>1, <1>19 DEF RetryEnqueue, MoveToDead, JobsTyped
  <2>2. t \in Task /\ t.key \in Keys /\ t.version = version[t.key]
    BY <1>9, <2>0, <2>1
  <2>3. ASSUME NEW l \in Keys, l # t.key PROVE InHand(l, version[l]) => Kept(l)'
    BY <2>0, <2>1, <2>3 DEF Kept, InHand, Id
  <2>4. Backoff(t.retry) \in Nat
    BY <2>2, TaskFields, BackoffTyped, ConstantsAssumption
  <2>5. \/ EnqueueScript(t, Backoff(t.retry))
        \/ Forget({t}) /\ UNCHANGED <<ready, processing, hash>>
        \/ <<t.key, t.version>> \in dead' /\ UNCHANGED <<ready, processing, hash>>
    BY <1>19, <2>0 DEF RetryEnqueue, MoveToDead, ReEnqueue, redisVars, Id
  <2>6. CASE EnqueueScript(t, Backoff(t.retry))
    BY <1>3, <1>7, <2>1, <2>2, <2>3, <2>4, <2>6
  <2>7. CASE Forget({t}) /\ UNCHANGED <<ready, processing, hash>>
    <3>1. Kept(t.key)'
      BY <1>8, <2>1, <2>2, <2>7
    <3> QED
      BY <1>3, <1>4, <2>1, <2>3, <2>7, <3>1
  <2>8. CASE <<t.key, t.version>> \in dead' /\ UNCHANGED <<ready, processing, hash>>
    <3>1. Kept(t.key)'
      BY <2>1, <2>2, <2>8 DEF Kept, Settled
    <3> QED
      BY <1>3, <1>4, <2>1, <2>3, <2>8, <3>1
  <2> QED
    BY <2>5, <2>6, <2>7, <2>8
<1>20. ASSUME Tick PROVE Goal
  <2>1. \A l \in Keys : /\ ready[l] # Never => ready'[l] # Never
                        /\ processing[l] # Never => processing'[l] # Never
    BY <1>1, <1>20 DEF Tick, ScoresTyped, Never
  <2>2. UNCHANGED <<hash, slot, consumer, version>>
    BY <1>20 DEF Tick, podVars, historyVars
  <2>3. ASSUME NEW l \in Keys PROVE InQueue(l, version[l]) => Kept(l)'
    BY <2>1, <2>2 DEF Kept, InQueue
  <2> QED
    BY <1>3, <1>5, <2>2, <2>3
<1>21. ASSUME UNCHANGED vars PROVE Goal
  BY <1>3, <1>4, <1>5, <1>21 DEF vars
<1> HIDE DEF Goal
<1>22. Goal
  BY <1>10, <1>11, <1>12, <1>13, <1>14, <1>15, <1>16, <1>17, <1>18, <1>19, <1>20, <1>21
  DEF Next, Consumer, RunJob
<1> QED
  BY <1>22 DEF Goal, TaskKept, Kept

(* While producers leave keys that are still in the queue alone, the last task of a
   key is settled, still in Redis, or between its ack and the write that follows it:
   crashes, lost replies, failing commands, Stop and slow handlers lose nothing else
   (pollLuaScript, ackLuaScript, reEnqueue). *)
THEOREM TasksAreKept == ASSUME ~Reschedules PROVE Spec => []TaskKept
<1>1. Init => KeptInv
  <2>1. Init => BodyIsCurrent /\ BodyIsQueued /\ TaskKept
    BY DEF Init, BodyIsCurrent, BodyIsQueued, TaskKept
  <2>2. Init => HandsAreCurrent
    BY DEF Init, HandsAreCurrent, Holding, IdleJob, Polling
  <2> QED
    BY <2>1, <2>2, InitTyped DEF KeptInv
<1>2. KeptInv /\ [Next]_vars => KeptInv'
  BY TypedStep, CurrentStep, KeptStep DEF KeptInv
<1>3. KeptInv => TaskKept
  BY DEF KeptInv
<1> QED
  BY <1>1, <1>2, <1>3, PTL DEF Spec

-----------------------------------------------------------------------------
(***************************************************************************)
(* A claim is exclusive while handlers keep within the visibility timeout. *)
(***************************************************************************)
JobHas(s, k) == slot[s].pc # "idle" /\ slot[s].task.key = k
FetchedHas(i, k) == \E t \in consumer[i].tasks : t.key = k
GivingBack(i, k) == consumer[i].pc = "full" /\ consumer[i].current.key = k
HeldBy(i, k) ==
  (\E n \in 1..Workers : JobHas(<<i, n>>, k)) \/ FetchedHas(i, k) \/ GivingBack(i, k)

(* A key in the hands of a pod is not ready, its claim has not lapsed, and the pod is
   the last that claimed it. *)
OwnClaim ==
  \A i \in Pods : \A k \in Keys :
    HeldBy(i, k) => ready[k] = Never /\ processing[k] # 0 /\ claimant[k] = i

(* A pod has a key in one place only. *)
OneInPod ==
  \A i \in Pods : \A k \in Keys :
    /\ \A m, n \in 1..Workers : JobHas(<<i, m>>, k) /\ JobHas(<<i, n>>, k) => m = n
    /\ \A m \in 1..Workers : JobHas(<<i, m>>, k) => ~FetchedHas(i, k) /\ ~GivingBack(i, k)
    /\ FetchedHas(i, k) => ~GivingBack(i, k)
OneOfEach ==
  \A i \in Pods : \A t, u \in consumer[i].tasks : t.key = u.key => t = u

BodiesInv == Typed /\ BodyIsCurrent /\ HandsAreCurrent /\ BodyIsQueued
ClaimInv == OwnClaim /\ OneInPod /\ OneOfEach

LEMMA HandedHeld ==
  ASSUME NEW k \in Keys
  PROVE  Handed(k) <=> \E i \in Pods : HeldBy(i, k)
<1>1. \A s \in Slots : \E i \in Pods, n \in 1..Workers : s = <<i, n>>
  BY DEF Slots
<1>2. \A i \in Pods, n \in 1..Workers : <<i, n>> \in Slots
  BY DEF Slots
<1>3. ASSUME Handed(k) PROVE \E i \in Pods : HeldBy(i, k)
  <2>1. ASSUME NEW s \in Slots, JobHas(s, k) PROVE \E i \in Pods : HeldBy(i, k)
    BY <1>1, <2>1 DEF HeldBy
  <2> QED
    BY <1>3, <2>1 DEF Handed, HeldBy, JobHas, FetchedHas, GivingBack
<1>4. ASSUME NEW i \in Pods, HeldBy(i, k) PROVE Handed(k)
  BY <1>2, <1>4 DEF Handed, HeldBy, JobHas, FetchedHas, GivingBack
<1> QED
  BY <1>3, <1>4

(* What the steps do to the hands that take no task and pass none on. *)
HandsShrink ==
  /\ \A k \in Keys : /\ \A s \in Slots : JobHas(s, k)' => JobHas(s, k)
                     /\ \A i \in Pods : /\ FetchedHas(i, k)' => FetchedHas(i, k)
                                        /\ GivingBack(i, k)' => GivingBack(i, k)
  /\ \A i \in Pods : consumer'[i].tasks \subseteq consumer[i].tasks

LEMMA ShrinkKeeps ==
  ASSUME OneInPod, OneOfEach, HandsShrink
  PROVE  /\ OneInPod' /\ OneOfEach'
         /\ \A i \in Pods : \A k \in Keys : HeldBy(i, k)' => HeldBy(i, k)
<1>1. \A i \in Pods : \A n \in 1..Workers : <<i, n>> \in Slots
  BY DEF Slots
<1>2. OneInPod'
  BY <1>1 DEF OneInPod, HandsShrink
<1>3. OneOfEach'
  BY DEF OneOfEach, HandsShrink
<1>4. \A i \in Pods : \A k \in Keys : HeldBy(i, k)' => HeldBy(i, k)
  BY <1>1 DEF HeldBy, HandsShrink
<1> QED
  BY <1>2, <1>3, <1>4

LEMMA Shrinking ==
  ASSUME Typed,
         \/ \E k \in Keys : CancelTask(k) \/ \E delay \in Delays : Enqueue(k, delay)
         \/ \E i \in Pods : \/ PollLost(i) \/ Stop(i)
                            \/ FullReEnqueue(i) \/ ConsumerExit(i) \/ Crash(i)
         \/ \E s \in Slots : RunJob(s)
         \/ Tick \/ UNCHANGED vars
  PROVE  HandsShrink
<1>1. CASE UNCHANGED <<slot, consumer>>
  BY <1>1 DEF HandsShrink, JobHas, FetchedHas, GivingBack
<1>2. CASE \E k \in Keys : CancelTask(k) \/ \E delay \in Delays : Enqueue(k, delay)
  BY <1>1, <1>2 DEF CancelTask, Enqueue, podVars
<1>3. CASE \E i \in Pods : PollLost(i) \/ Stop(i)
  BY <1>1, <1>3 DEF PollLost, Stop, podVars
<1>4. ASSUME NEW i \in Pods, FullReEnqueue(i) \/ ConsumerExit(i) \/ Crash(i) PROVE HandsShrink
  <2>1. \A j \in Pods :
          \/ consumer'[j] = consumer[j]
          \/ consumer'[j].tasks \subseteq consumer[j].tasks /\ consumer'[j].pc # "full"
    BY <1>4, RestTyped
    DEF FullReEnqueue, ConsumerExit, Crash, Typed, ConsumersTyped, ConsumerState
  <2>2. \A s \in Slots : slot'[s] = slot[s] \/ slot'[s].pc = "idle"
    BY <1>4, RestTyped DEF FullReEnqueue, ConsumerExit, Crash
  <2> QED
    BY <2>1, <2>2 DEF HandsShrink, JobHas, FetchedHas, GivingBack
<1>5. ASSUME NEW s \in Slots, FinishOk(s) \/ RetryEnqueue(s) \/ MoveToDead(s) PROVE HandsShrink
  <2>1. \A r \in Slots : slot'[r] = slot[r] \/ slot'[r].pc = "idle"
    BY <1>5, RestTyped DEF FinishOk, RetryEnqueue, MoveToDead, Typed, JobsTyped
  <2> QED
    BY <1>5, <2>1 DEF FinishOk, RetryEnqueue, MoveToDead, HandsShrink, JobHas, FetchedHas, GivingBack
<1>6. ASSUME NEW s \in Slots, FinishFail(s) PROVE HandsShrink
  <2>1. slot[s].task \in Task /\ slot[s].pc = "run" /\ consumer' = consumer
    BY <1>6 DEF FinishFail, Typed, JobsTyped
  <2>2. \A r \in Slots : slot'[r] = slot[r] \/ (r = s /\ slot'[r] = Failed(slot[s].task))
    BY <1>6 DEF FinishFail, Typed, JobsTyped
  <2> QED
    BY <2>1, <2>2, FailedJob DEF HandsShrink, JobHas, FetchedHas, GivingBack
<1>7. CASE Tick \/ UNCHANGED vars
  BY <1>1, <1>7 DEF Tick, podVars, vars
<1> QED
  BY <1>2, <1>3, <1>4, <1>5, <1>6, <1>7 DEF RunJob

(* The claims are kept by every step, when handlers are in time. *)
LEMMA ClaimStep ==
  ASSUME ~Reschedules, ~SlowHandlers, BodiesInv, ClaimInv, [Next]_vars
  PROVE  ClaimInv'
<1>1. /\ Typed /\ ScoresTyped /\ BodiesTyped /\ ConsumersTyped /\ JobsTyped
      /\ OwnClaim /\ OneInPod /\ OneOfEach /\ BodyIsCurrent /\ Never \notin Nat
  BY DEF BodiesInv, ClaimInv, Typed, Never
<1> DEFINE Safe(k) == \A i \in Pods : HeldBy(i, k) =>
                        ready'[k] = Never /\ processing'[k] # 0 /\ claimant'[k] = i
<1>2. ASSUME HandsShrink, \A k \in Keys : Safe(k) \/ \A i \in Pods : ~HeldBy(i, k)'
      PROVE  ClaimInv'
  <2>1. OneInPod' /\ OneOfEach' /\ \A i \in Pods : \A k \in Keys : HeldBy(i, k)' => HeldBy(i, k)
    BY <1>1, <1>2, ShrinkKeeps
  <2> HIDE DEF HandsShrink
  <2>2. OwnClaim'
    BY <1>2, <2>1 DEF OwnClaim
  <2> QED
    BY <2>1, <2>2 DEF ClaimInv
<1>3. ASSUME UNCHANGED <<ready, processing, claimant>> PROVE \A k \in Keys : Safe(k)
  BY <1>1, <1>3 DEF OwnClaim
<1>4. ASSUME NEW l \in Keys, MaybeAck(l), UNCHANGED claimant PROVE \A k \in Keys : Safe(k)
  <2>1. ready' = ready /\ \A k \in Keys : processing'[k] = processing[k] \/ processing'[k] = Never
    BY <1>1, <1>4, MaybeAckEffect
  <2> QED
    BY <1>1, <1>4, <2>1 DEF OwnClaim, Never
<1>5. ASSUME NEW k \in Keys, NEW d \in Nat, NEW t \in Task, t.key = k,
             HandsShrink, UNCHANGED claimant, \A j \in Pods : ~HeldBy(j, k)',
             EnqueueScript(t, d) \/ UNCHANGED <<ready, processing>>
      PROVE  ClaimInv'
  <2>1. \A l \in Keys \ {k} : ready'[l] = ready[l] /\ processing'[l] = processing[l]
    BY <1>1, <1>5, EnqueueEffect
  <2>2. \A l \in Keys \ {k} : Safe(l)
    BY <1>1, <1>5, <2>1 DEF OwnClaim
  <2> QED
    BY <1>2, <1>5, <2>2
<1> HIDE DEF Safe
<1>10. ASSUME NEW k \in Keys, CancelTask(k) PROVE ClaimInv'
  <2>1. HandsShrink
    BY <1>1, <1>10, Shrinking
  <2>2. /\ ready' = [ready EXCEPT ![k] = Never] /\ claimant' = claimant
        /\ processing' = [processing EXCEPT ![k] = Never]
    BY <1>10 DEF CancelTask, CancelScript
  <2>3. ASSUME NEW l \in Keys PROVE Safe(l)
    BY <1>1, <2>2 DEF Safe, OwnClaim, ScoresTyped, Never
  <2> QED
    BY <1>2, <2>1, <2>3
<1>11. ASSUME NEW k \in Keys, NEW d \in Delays, Enqueue(k, d) PROVE ClaimInv'
  <2>1. version[k] \in Nat /\ version[k] < MaxVersion /\ d \in Nat /\ ~Handed(k)
    BY <1>1, <1>11, ConstantsAssumption DEF Enqueue, BodiesTyped
  <2>2. HandsShrink
    BY <1>1, <1>11, Shrinking
  <2>3. PICK t \in Task : t.key = k /\ EnqueueScript(t, d)
    BY <1>11, <2>1, NewTask DEF Enqueue
  <2>4. \A i \in Pods : ~HeldBy(i, k)'
    BY <1>1, <2>1, <2>2, HandedHeld, ShrinkKeeps
  <2>5. claimant' = claimant
    BY <1>11 DEF Enqueue
  <2> QED
    BY <1>5, <2>1, <2>2, <2>3, <2>4, <2>5
<1>12. ASSUME NEW i \in Pods, NEW fetched, PollScript(i, fetched) 
       PROVE  \A k \in Keys : \/ Safe(k)
                              \/ /\ \A j \in Pods : ~HeldBy(j, k)
                                 /\ ready'[k] = Never /\ processing'[k] # 0 /\ claimant'[k] = i
                              \/ (\A j \in Pods : ~HeldBy(j, k)) /\ \A t \in fetched : t.key # k
  <2>1. PICK due \in SUBSET Keys :
          /\ \A k \in due :
               /\ ready[k] = 0 \/ processing[k] = 0
               /\ ready'[k] = Never /\ processing'[k] = Visibility /\ claimant'[k] = i
          /\ \A k \in Keys \ due :
               /\ claimant'[k] = claimant[k]
               /\ \/ ready'[k] = ready[k] /\ processing'[k] = processing[k]
                  \/ processing[k] = 0 /\ ready'[k] = 0 /\ processing'[k] = Never
          /\ fetched = {hash[k] : k \in {d \in due : hash[d] # NoBody}}
    BY <1>1, <1>12, PollEffect
  <2>2. ASSUME NEW k \in due
        PROVE  /\ \A j \in Pods : ~HeldBy(j, k)
               /\ ready'[k] = Never /\ processing'[k] # 0 /\ claimant'[k] = i
    BY <1>1, <2>1, ConstantsAssumption DEF OwnClaim, Never
  <2>3. ASSUME NEW k \in Keys \ due
        PROVE  Safe(k) \/ ((\A j \in Pods : ~HeldBy(j, k)) /\ \A t \in fetched : t.key # k)
    <3>1. \A t \in fetched : t.key # k
      BY <1>1, <2>1 DEF BodyIsCurrent
    <3> QED
      BY <1>1, <2>1, <3>1 DEF OwnClaim, Safe
  <2> QED
    BY <2>2, <2>3
<1>13. ASSUME NEW i \in Pods, PollLost(i) PROVE ClaimInv'
  <2>1. HandsShrink
    BY <1>1, <1>13, Shrinking
  <2>2. \A j \in Pods : \A k \in Keys : HeldBy(j, k)' => HeldBy(j, k)
    BY <1>1, <2>1, ShrinkKeeps
  <2>3. PICK fetched : PollScript(i, fetched)
    BY <1>13 DEF PollLost
  <2> QED
    BY <1>2, <1>12, <2>1, <2>2, <2>3
<1>14. ASSUME NEW i \in Pods, Poll(i) PROVE ClaimInv'
  <2>1. PICK fetched \in SUBSET {hash[l] : l \in Keys} :
          /\ PollScript(i, fetched)
          /\ consumer' = [consumer EXCEPT ![i].tasks = fetched]
          /\ slot' = slot /\ consumer[i].pc = "poll" /\ consumer[i].tasks = {}
    BY <1>14 DEF Poll, AtPoll
  <2>2. /\ consumer'[i].tasks = fetched /\ consumer'[i].pc = "poll"
        /\ \A j \in Pods \ {i} : consumer'[j] = consumer[j]
    BY <1>1, <2>1 DEF ConsumersTyped, ConsumerState
  <2>3. \A s \in Slots : \A k \in Keys : JobHas(s, k)' <=> JobHas(s, k)
    BY <2>1 DEF JobHas
  <2>4. \A j \in Pods : \A n \in 1..Workers : <<j, n>> \in Slots
    BY DEF Slots
  <2>5. \A j \in Pods : \A k \in Keys : (GivingBack(j, k)' <=> GivingBack(j, k)) /\ ~GivingBack(i, k)
    BY <2>1, <2>2 DEF GivingBack
  <2>6. /\ \A j \in Pods \ {i} : \A k \in Keys : FetchedHas(j, k)' <=> FetchedHas(j, k)
        /\ \A k \in Keys : FetchedHas(i, k)' <=> \E t \in fetched : t.key = k
    BY <2>2 DEF FetchedHas
  <2>7. \A j \in Pods : \A k \in Keys :
          HeldBy(j, k)' => HeldBy(j, k) \/ (j = i /\ \E t \in fetched : t.key = k)
    BY <2>3, <2>4, <2>5, <2>6 DEF HeldBy
  <2>8. \A k \in Keys : (\E t \in fetched : t.key = k) => \A j \in Pods : ~HeldBy(j, k)
    <3>1. PICK due \in SUBSET Keys :
          /\ \A k \in due : ready[k] = 0 \/ processing[k] = 0
          /\ fetched = {hash[k] : k \in {d \in due : hash[d] # NoBody}}
      BY <1>1, <2>1, PollEffect
    <3>2. \A k \in Keys : (\E t \in fetched : t.key = k) => k \in due
      BY <1>1, <3>1 DEF BodyIsCurrent
    <3>3. \A k \in due : \A j \in Pods : ~HeldBy(j, k)
      BY <1>1, <3>1 DEF OwnClaim, Never
    <3> QED
      BY <3>2, <3>3
  <2>9. OwnClaim'
    <3>1. SUFFICES ASSUME NEW j \in Pods, NEW k \in Keys, HeldBy(j, k)'
                   PROVE  ready'[k] = Never /\ processing'[k] # 0 /\ claimant'[k] = j
      BY DEF OwnClaim
    <3>2. CASE HeldBy(j, k)
      BY <1>12, <2>1, <3>2 DEF Safe
    <3>3. CASE j = i /\ (\E t \in fetched : t.key = k) /\ ~HeldBy(j, k)
      <4>1. PICK due \in SUBSET Keys :
              /\ \A l \in due :
                   ready'[l] = Never /\ processing'[l] = Visibility /\ claimant'[l] = i
              /\ fetched = {hash[l] : l \in {d \in due : hash[d] # NoBody}}
        BY <1>1, <2>1, PollEffect
      <4>2. k \in due
        BY <1>1, <3>3, <4>1 DEF BodyIsCurrent
      <4> QED
        BY <3>3, <4>1, <4>2, ConstantsAssumption
    <3> QED
      BY <2>7, <3>1, <3>2, <3>3
  <2>10. OneInPod'
    BY <1>1, <2>3, <2>4, <2>5, <2>6, <2>8 DEF OneInPod, HeldBy
  <2>11. OneOfEach'
    <3>1. fetched = {hash[k] : k \in {d \in Keys : hash[d] # NoBody /\ hash[d] \in fetched}}
      BY <1>1, <2>1, PollEffect
    <3>2. \A t, u \in fetched : t.key = u.key => t = u
      BY <1>1, <3>1 DEF BodyIsCurrent
    <3> QED
      BY <1>1, <2>2, <3>2 DEF OneOfEach
  <2> QED
    BY <2>9, <2>10, <2>11 DEF ClaimInv
<1>15. ASSUME NEW i \in Pods, NEW t \in consumer[i].tasks, Submit(i, t) PROVE ClaimInv'
  <2>1. t \in Task /\ t.key \in Keys /\ consumer[i].tasks \subseteq Task
    BY <1>1, ConsumerFields, TaskFields DEF ConsumersTyped
  <2>2. PICK n \in 1..Workers : /\ slot[<<i, n>>].pc = "idle"
                                /\ slot' = [slot EXCEPT ![<<i, n>>] = [pc |-> "run", task |-> t]]
    BY <1>15 DEF Submit
  <2>3. \A j \in Pods : \A m \in 1..Workers : <<j, m>> \in Slots
    BY DEF Slots
  <2>4. \A k \in Keys : \A j \in Pods : \A m \in 1..Workers :
          JobHas(<<j, m>>, k)' <=> \/ j = i /\ m = n /\ k = t.key
                                   \/ <<j, m>> # <<i, n>> /\ JobHas(<<j, m>>, k)
    BY <1>1, <2>2, <2>3 DEF JobHas, JobsTyped
  <2>5. /\ consumer'[i].tasks = consumer[i].tasks \ {t} /\ consumer'[i].pc = consumer[i].pc
        /\ consumer'[i].current = consumer[i].current
        /\ \A j \in Pods \ {i} : consumer'[j] = consumer[j]
    BY <1>1, <1>15 DEF Submit, ConsumersTyped, ConsumerState
  <2>6. \A k \in Keys : \A j \in Pods : /\ GivingBack(j, k)' <=> GivingBack(j, k)
                                        /\ FetchedHas(j, k)' => FetchedHas(j, k)
    BY <2>5 DEF GivingBack, FetchedHas
  <2>7. FetchedHas(i, t.key) /\ ~(\E u \in consumer'[i].tasks : u.key = t.key)
    BY <1>1, <2>5 DEF FetchedHas, OneOfEach
  <2>8. \A k \in Keys : \A j \in Pods : HeldBy(j, k)' => HeldBy(j, k)
    BY <2>4, <2>6, <2>7 DEF HeldBy
  <2>9. OwnClaim'
    BY <1>1, <1>15, <2>8 DEF Submit, redisVars, historyVars, OwnClaim
  <2>10. OneInPod'
    <3>1. ASSUME NEW j \in Pods, NEW k \in Keys, j # i \/ k # t.key
          PROVE  /\ \A m, p \in 1..Workers : JobHas(<<j, m>>, k)' /\ JobHas(<<j, p>>, k)' => m = p
                 /\ \A m \in 1..Workers : JobHas(<<j, m>>, k)' => ~FetchedHas(j, k)' /\ ~GivingBack(j, k)'
                 /\ FetchedHas(j, k)' => ~GivingBack(j, k)'
      BY <1>1, <2>4, <2>6, <3>1 DEF OneInPod
    <3>2. ~FetchedHas(i, t.key)'
      BY <2>7 DEF FetchedHas
    <3>3. /\ \A m, p \in 1..Workers : JobHas(<<i, m>>, t.key)' /\ JobHas(<<i, p>>, t.key)' => m = p
          /\ \A m \in 1..Workers : JobHas(<<i, m>>, t.key)' => ~GivingBack(i, t.key)'
      BY <1>1, <2>1, <2>4, <2>6, <2>7 DEF OneInPod
    <3> QED
      BY <3>1, <3>2, <3>3 DEF OneInPod
  <2>11. OneOfEach'
    BY <1>1, <2>5 DEF OneOfEach
  <2> QED
    BY <2>9, <2>10, <2>11 DEF ClaimInv
<1>16. ASSUME NEW i \in Pods, NEW t \in consumer[i].tasks, PoolFull(i, t) PROVE ClaimInv'
  <2>1. t \in Task /\ t.key \in Keys
    BY <1>1, ConsumerFields, TaskFields DEF ConsumersTyped
  <2>2. /\ slot' = slot /\ claimant' = claimant /\ MaybeAck(t.key) /\ consumer[i].pc = "poll"
        /\ consumer'[i].tasks = consumer[i].tasks \ {t} /\ consumer'[i].pc = "full"
        /\ consumer'[i].current = t
        /\ \A j \in Pods \ {i} : consumer'[j] = consumer[j]
    BY <1>1, <1>16 DEF PoolFull, historyVars, ConsumersTyped, ConsumerState
  <2>3. \A j \in Pods : \A m \in 1..Workers : <<j, m>> \in Slots
    BY DEF Slots
  <2>4. \A s \in Slots : \A k \in Keys : JobHas(s, k)' <=> JobHas(s, k)
    BY <2>2 DEF JobHas
  <2>5. \A k \in Keys : \A j \in Pods :
          GivingBack(j, k)' <=> (j = i /\ k = t.key) \/ (j # i /\ GivingBack(j, k))
    BY <2>2 DEF GivingBack
  <2>6. \A k \in Keys : \A j \in Pods : FetchedHas(j, k)' => FetchedHas(j, k)
    BY <2>2 DEF FetchedHas
  <2>7. FetchedHas(i, t.key) /\ ~(\E u \in consumer'[i].tasks : u.key = t.key)
    BY <1>1, <2>2 DEF FetchedHas, OneOfEach
  <2>8. \A k \in Keys : \A j \in Pods : HeldBy(j, k)' => HeldBy(j, k)
    BY <2>3, <2>4, <2>5, <2>6, <2>7 DEF HeldBy
  <2>9. OwnClaim'
    BY <1>1, <1>4, <2>1, <2>2, <2>8 DEF Safe, OwnClaim
  <2>10. OneInPod'
    <3>1. ASSUME NEW j \in Pods, NEW k \in Keys, j # i \/ k # t.key
          PROVE  /\ \A m, p \in 1..Workers : JobHas(<<j, m>>, k)' /\ JobHas(<<j, p>>, k)' => m = p
                 /\ \A m \in 1..Workers : JobHas(<<j, m>>, k)' => ~FetchedHas(j, k)' /\ ~GivingBack(j, k)'
                 /\ FetchedHas(j, k)' => ~GivingBack(j, k)'
      BY <1>1, <2>3, <2>4, <2>5, <2>6, <3>1 DEF OneInPod
    <3>2. ~FetchedHas(i, t.key)'
      BY <2>7 DEF FetchedHas
    <3>3. \A m \in 1..Workers : ~JobHas(<<i, m>>, t.key)'
      BY <1>1, <2>1, <2>3, <2>4, <2>7 DEF OneInPod
    <3> QED
      BY <3>1, <3>2, <3>3 DEF OneInPod
  <2>11. OneOfEach'
    BY <1>1, <2>2 DEF OneOfEach
  <2> QED
    BY <2>9, <2>10, <2>11 DEF ClaimInv
<1>17. ASSUME NEW i \in Pods, FullReEnqueue(i) PROVE ClaimInv'
  <2>0. PICK t : t = consumer[i].current
    OBVIOUS
  <2>1. /\ GivingBack(i, t.key) /\ t \in Task /\ t.key \in Keys
        /\ claimant' = claimant /\ slot' = slot /\ ReEnqueue(i, t, 0)
        /\ consumer'[i].tasks = consumer[i].tasks /\ consumer'[i].pc = "poll"
    BY <1>1, <1>17, <2>0, TaskFields DEF FullReEnqueue, ConsumersTyped, ConsumerState, GivingBack
  <2>2. HandsShrink
    BY <1>1, <1>17, Shrinking
  <2>3. \A j \in Pods : HeldBy(j, t.key)' => j = i
    <3>1. HeldBy(i, t.key) /\ \A j \in Pods : HeldBy(j, t.key)' => HeldBy(j, t.key)
      BY <1>1, <2>1, <2>2, ShrinkKeeps DEF HeldBy
    <3> QED
      BY <1>1, <2>1, <3>1 DEF OwnClaim
  <2>4. ~HeldBy(i, t.key)'
    BY <1>1, <2>1 DEF HeldBy, OneInPod, JobHas, FetchedHas, GivingBack
  <2>5. EnqueueScript(t, 0) \/ UNCHANGED <<ready, processing>>
    BY <2>1 DEF ReEnqueue, redisVars
  <2> QED
    BY <1>5, <2>1, <2>2, <2>3, <2>4, <2>5
<1>18. ASSUME NEW i \in Pods, ConsumerExit(i) \/ Stop(i) \/ Crash(i) PROVE ClaimInv'
  <2>1. HandsShrink
    BY <1>1, <1>18, Shrinking
  <2>2. UNCHANGED <<ready, processing, claimant>>
    BY <1>18 DEF ConsumerExit, Stop, Crash, redisVars, historyVars
  <2> QED
    BY <1>2, <1>3, <2>1, <2>2
<1>19. ASSUME NEW s \in Slots, FinishOk(s) \/ FinishFail(s) PROVE ClaimInv'
  <2>1. HandsShrink
    BY <1>1, <1>19, Shrinking DEF RunJob
  <2>2. slot[s].task.key \in Keys
    BY <1>1, <1>19, TaskFields DEF FinishOk, FinishFail, JobsTyped
  <2>3. MaybeAck(slot[s].task.key) /\ UNCHANGED claimant
    BY <1>19 DEF FinishOk, FinishFail, historyVars
  <2> QED
    BY <1>2, <1>4, <2>1, <2>2, <2>3
<1>20. ASSUME NEW s \in Slots, RetryEnqueue(s) PROVE ClaimInv'
  <2>0. PICK t, i, n : t = slot[s].task /\ i \in Pods /\ n \in 1..Workers /\ s = <<i, n>>
    BY DEF Slots
  <2>1. /\ JobHas(<<i, n>>, t.key) /\ t \in Task /\ t.key \in Keys
        /\ claimant' = claimant /\ consumer' = consumer
        /\ ReEnqueue(i, t, Backoff(t.retry))
        /\ slot'[<<i, n>>].pc = "idle"
        /\ \A r \in Slots \ {s} : slot'[r] = slot[r]
    BY <1>1, <1>20, <2>0, TaskFields, RestTyped DEF RetryEnqueue, JobsTyped, JobHas
  <2>2. HandsShrink
    BY <1>1, <1>20, Shrinking DEF RunJob
  <2>3. \A j \in Pods : HeldBy(j, t.key)' => j = i
    <3>1. HeldBy(i, t.key) /\ \A j \in Pods : HeldBy(j, t.key)' => HeldBy(j, t.key)
      BY <1>1, <2>0, <2>1, <2>2, ShrinkKeeps DEF HeldBy
    <3> QED
      BY <1>1, <2>0, <2>1, <3>1 DEF OwnClaim
  <2>4. ~HeldBy(i, t.key)'
    <3>1. \A m \in 1..Workers : <<i, m>> \in Slots
      BY <2>0 DEF Slots
    <3>2. ASSUME NEW m \in 1..Workers PROVE ~JobHas(<<i, m>>, t.key)'
      <4>1. JobHas(<<i, m>>, t.key)' => JobHas(<<i, m>>, t.key)
        BY <2>1, <2>2, <3>1 DEF HandsShrink
      <4>2. JobHas(<<i, m>>, t.key) => m = n
        BY <1>1, <2>0, <2>1 DEF OneInPod
      <4>3. ~JobHas(<<i, n>>, t.key)'
        BY <2>1 DEF JobHas
      <4> QED
        BY <4>1, <4>2, <4>3
    <3>3. ~FetchedHas(i, t.key)' /\ ~GivingBack(i, t.key)'
      BY <1>1, <2>0, <2>1 DEF OneInPod, FetchedHas, GivingBack
    <3> QED
      BY <3>2, <3>3 DEF HeldBy
  <2>5. EnqueueScript(t, Backoff(t.retry)) \/ UNCHANGED <<ready, processing>>
    BY <2>1 DEF ReEnqueue, redisVars
  <2>6. Backoff(t.retry) \in Nat
    BY <2>1, TaskFields, BackoffTyped, ConstantsAssumption
  <2> QED
    BY <1>5, <2>1, <2>2, <2>3, <2>4, <2>5, <2>6
<1>21. ASSUME NEW s \in Slots, MoveToDead(s) PROVE ClaimInv'
  <2>1. HandsShrink
    BY <1>1, <1>21, Shrinking DEF RunJob
  <2>2. UNCHANGED <<ready, processing, claimant>>
    BY <1>21 DEF MoveToDead
  <2> QED
    BY <1>2, <1>3, <2>1, <2>2
<1>22. ASSUME Tick PROVE ClaimInv'
  <2>1. HandsShrink /\ claimant' = claimant
    BY <1>1, <1>22, Shrinking DEF Tick, historyVars
  <2>2. ASSUME NEW k \in Keys PROVE Safe(k)
    <3>1. SUFFICES ASSUME NEW i \in Pods, HeldBy(i, k)
                   PROVE  ready'[k] = Never /\ processing'[k] # 0 /\ claimant'[k] = i
      BY DEF Safe
    <3>2. processing[k] # 1
      BY <1>22, <3>1, HandedHeld DEF Tick
    <3>3. ready[k] = Never /\ processing[k] # 0 /\ claimant[k] = i
      BY <1>1, <3>1 DEF OwnClaim
    <3>4. processing[k] \in Nat \cup {Never}
      BY <1>1 DEF ScoresTyped
    <3> QED
      BY <1>22, <2>1, <3>2, <3>3, <3>4 DEF Tick, Never
  <2> QED
    BY <1>2, <2>1, <2>2
<1>23. ASSUME UNCHANGED vars PROVE ClaimInv'
  BY <1>1, <1>2, <1>3, <1>23, Shrinking DEF vars
<1> QED
  BY <1>10, <1>11, <1>13, <1>14, <1>15, <1>16, <1>17, <1>18, <1>19, <1>20, <1>21, <1>22, <1>23
  DEF Next, Consumer, RunJob

(* Nobody holds a task at the start. *)
LEMMA InitBodies == Init => BodiesInv /\ ClaimInv
<1>1. Init => BodyIsCurrent /\ BodyIsQueued
  BY DEF Init, BodyIsCurrent, BodyIsQueued
<1>2. Init => \A i \in Pods : /\ consumer[i].pc = "poll" /\ consumer[i].tasks = {}
                               /\ \A n \in 1..Workers : slot[<<i, n>>].pc = "idle"
  BY DEF Init, IdleJob, Polling, Slots
<1>3. Init => HandsAreCurrent
  BY <1>2 DEF HandsAreCurrent, Holding, Slots
<1>4. Init => ClaimInv
  BY <1>2 DEF ClaimInv, OwnClaim, OneInPod, OneOfEach, HeldBy, JobHas, FetchedHas, GivingBack
<1> QED
  BY <1>1, <1>3, <1>4, InitTyped DEF BodiesInv

(* The invariant of a queue whose handlers are in time. *)
LEMMA ClaimsHold == ASSUME ~Reschedules, ~SlowHandlers PROVE Spec => [](BodiesInv /\ ClaimInv)
<1>1. BodiesInv /\ [Next]_vars => BodiesInv'
  BY TypedStep, CurrentStep DEF BodiesInv
<1>2. BodiesInv /\ ClaimInv /\ [Next]_vars => ClaimInv'
  BY ClaimStep
<1> QED
  BY <1>1, <1>2, InitBodies, PTL DEF Spec

(* While handlers keep within the visibility timeout, no key is processed twice at the
   same time, whatever pods poll, crash, restart and stop, and whatever Redis commands
   fail (pollLuaScript's claim is exclusive). *)
THEOREM OneRunAtATime ==
  ASSUME ~Reschedules, ~SlowHandlers PROVE Spec => []OneRunPerKey
<1>1. BodiesInv /\ ClaimInv => OneRunPerKey
  <2>1. SUFFICES ASSUME BodiesInv, ClaimInv, NEW r \in Slots, NEW s \in Slots,
                        slot[r].pc = "run", slot[s].pc = "run",
                        slot[r].task.key = slot[s].task.key
                 PROVE  r = s
    BY DEF OneRunPerKey
  <2>2. PICK i \in Pods, m \in 1..Workers : r = <<i, m>>
    BY DEF Slots
  <2>3. PICK j \in Pods, n \in 1..Workers : s = <<j, n>>
    BY DEF Slots
  <2>4. PICK k \in Keys : k = slot[r].task.key
    BY <2>1, TaskFields DEF BodiesInv, Typed, JobsTyped
  <2>5. JobHas(<<i, m>>, k) /\ JobHas(<<j, n>>, k)
    BY <2>1, <2>2, <2>3, <2>4 DEF JobHas
  <2>6. i = j
    BY <2>1, <2>5 DEF ClaimInv, OwnClaim, HeldBy
  <2> QED
    BY <2>1, <2>2, <2>3, <2>5, <2>6 DEF ClaimInv, OneInPod
<1> QED
  BY <1>1, ClaimsHold, PTL

(* And ack never takes away the claim of another pod. *)
THEOREM OnlyHolderGivesUp ==
  ASSUME ~Reschedules, ~SlowHandlers PROVE Spec => OnlyHolderAcks
<1> DEFINE Acks == \A s \in Slots :
             LET k == slot[s].task.key IN
             slot[s].pc = "run" /\ slot'[s].pc # "run" /\ crashes' = crashes
               /\ processing[k] # Never /\ processing'[k] = Never
             => claimant[k] = s[1]
<1>1. BodiesInv /\ ClaimInv => [Acks]_vars
  <2>1. SUFFICES ASSUME BodiesInv, ClaimInv, NEW s \in Slots, slot[s].pc = "run"
                 PROVE  claimant[slot[s].task.key] = s[1]
    OBVIOUS
  <2>2. PICK i \in Pods, n \in 1..Workers : s = <<i, n>>
    BY DEF Slots
  <2>3. slot[s].task.key \in Keys
    BY <2>1, TaskFields DEF BodiesInv, Typed, JobsTyped
  <2> QED
    BY <2>1, <2>2, <2>3 DEF ClaimInv, OwnClaim, HeldBy, JobHas
<1>2. [](BodiesInv /\ ClaimInv) => [][Acks]_vars
  BY <1>1, PTL
<1> QED
  BY <1>2, ClaimsHold DEF OnlyHolderAcks

-----------------------------------------------------------------------------
(***************************************************************************)
(* The dead list is final while, besides, the commands get through.        *)
(***************************************************************************)

(* Nothing of the key is left: no body in Redis, no pod that holds it. *)
Gone(k) == hash[k] = NoBody /\ \A i \in Pods : ~HeldBy(i, k)

(* A job whose handler has failed has given the body up. *)
AckedIsGone ==
  \A s \in Slots : slot[s].pc \in {"retry", "dead"} => hash[slot[s].task.key] = NoBody

(* A version that is finished or buried is an old one, or the key is gone. *)
OverAndGone ==
  \A k \in Keys : \A v \in Nat :
    <<k, v>> \in dead \cup done => v <= version[k] /\ (v = version[k] => Gone(k))

FinalInv ==
  /\ dead \cup done \subseteq Keys \X (Nat \ {0})
  /\ AckedIsGone /\ OverAndGone
  /\ dead \cap done = {}

(* A held key is held in one place. *)
LEMMA HeldOnce ==
  ASSUME ClaimInv, NEW k \in Keys, NEW s \in Slots, JobHas(s, k)
  PROVE  /\ \A r \in Slots : JobHas(r, k) => r = s
         /\ \A i \in Pods : ~FetchedHas(i, k) /\ ~GivingBack(i, k)
         /\ HeldBy(s[1], k)
<1>1. PICK i \in Pods, n \in 1..Workers : s = <<i, n>>
  BY DEF Slots
<1>2. HeldBy(i, k)
  BY <1>1 DEF HeldBy
<1>3. ASSUME NEW r \in Slots, JobHas(r, k) PROVE r = s
  <2>1. PICK j \in Pods, m \in 1..Workers : r = <<j, m>>
    BY DEF Slots
  <2>2. j = i
    BY <1>2, <1>3, <2>1 DEF HeldBy, ClaimInv, OwnClaim
  <2> QED
    BY <1>1, <1>3, <2>1, <2>2 DEF ClaimInv, OneInPod
<1>4. ASSUME NEW j \in Pods PROVE ~FetchedHas(j, k) /\ ~GivingBack(j, k)
  BY <1>1, <1>2 DEF HeldBy, ClaimInv, OwnClaim, OneInPod
<1> QED
  BY <1>1, <1>2, <1>3, <1>4

(* When its job ends, nobody holds the key. *)
LEMMA Released ==
  ASSUME Typed, ClaimInv, NEW k \in Keys, NEW s \in Slots, JobHas(s, k),
         slot' = [slot EXCEPT ![s] = IdleJob], UNCHANGED consumer
  PROVE  \A i \in Pods : ~HeldBy(i, k)'
<1>1. /\ slot'[s].pc = "idle"
      /\ \A r \in Slots : r # s => slot'[r] = slot[r]
  BY RestTyped DEF Typed, JobsTyped
<1>2. \A r \in Slots : ~JobHas(r, k)'
  BY <1>1, HeldOnce DEF JobHas
<1>3. \A i \in Pods : ~FetchedHas(i, k)' /\ ~GivingBack(i, k)'
  BY HeldOnce DEF FetchedHas, GivingBack
<1>4. \A i \in Pods, n \in 1..Workers : <<i, n>> \in Slots
  BY DEF Slots
<1> QED
  BY <1>2, <1>3, <1>4 DEF HeldBy

(* An ack that gets through leaves no body for a key in hand. *)
LEMMA AckedBody ==
  ASSUME ~RedisFaults, BodiesInv, ClaimInv, NEW k \in Keys, NEW i \in Pods, HeldBy(i, k),
         MaybeAck(k)
  PROVE  /\ hash'[k] = NoBody
         /\ \A l \in Keys : hash[l] = NoBody => hash'[l] = NoBody
<1>1. /\ \A l \in Keys \ {k} : hash'[l] = hash[l]
      /\ hash'[k] = IF processing[k] = Never THEN hash[k] ELSE NoBody
  BY MaybeAckEffect DEF BodiesInv, Typed
<1>2. ready[k] = Never
  BY DEF ClaimInv, OwnClaim
<1>3. processing[k] = Never => hash[k] = NoBody
  BY <1>2 DEF BodiesInv, BodyIsQueued
<1> QED
  BY <1>1, <1>3

(* What is gone stays gone as long as no body is stored for it. *)
LEMMA GoneStays ==
  ASSUME BodiesInv, [Next]_vars, NEW k \in Keys, Gone(k), hash'[k] = NoBody
  PROVE  Gone(k)'
<1>1. ConsumersTyped' /\ JobsTyped'
  BY TypedStep DEF BodiesInv, Typed
<1>2. \A t \in Task : t.version \in Nat
  BY TaskFields, ConstantsAssumption
<1>3. \A i \in Pods : consumer'[i].tasks \subseteq Task
  BY <1>1, ConsumerFields DEF ConsumersTyped
<1>4. \A i \in Pods, n \in 1..Workers : <<i, n>> \in Slots
  BY DEF Slots
<1>5. ASSUME NEW i \in Pods, HeldBy(i, k)' PROVE \E v \in Nat : Holding(k, v)'
  BY <1>1, <1>2, <1>3, <1>4, <1>5
  DEF HeldBy, JobHas, FetchedHas, GivingBack, Holding, ConsumersTyped, JobsTyped
<1>6. ASSUME NEW v \in Nat, Holding(k, v)' PROVE Holding(k, v)
  BY <1>6, HoldingStep DEF Gone, BodiesInv
<1>7. ASSUME NEW v \in Nat, Holding(k, v) PROVE FALSE
  BY <1>7, HandedHolding, HandedHeld DEF Gone, BodiesInv
<1> QED
  BY <1>5, <1>6, <1>7 DEF Gone

LEMMA FinalStep ==
  ASSUME ~Reschedules, ~SlowHandlers, ~RedisFaults, BodiesInv, ClaimInv, FinalInv, [Next]_vars
  PROVE  FinalInv'
<1>1. /\ Typed /\ ScoresTyped /\ BodiesTyped /\ ConsumersTyped /\ JobsTyped /\ BodyIsCurrent
      /\ AckedIsGone /\ OverAndGone /\ dead \cup done \subseteq Keys \X (Nat \ {0})
      /\ dead \cap done = {} /\ \A k \in Keys : version[k] \in Nat
  BY ConstantsAssumption DEF BodiesInv, FinalInv, Typed, BodiesTyped
<1>2. ASSUME UNCHANGED <<version, dead, done>>, AckedIsGone',
             \A k \in Keys : Gone(k) => hash'[k] = NoBody
      PROVE  FinalInv'
  <2>1. \A k \in Keys : Gone(k) => Gone(k)'
    BY <1>2, GoneStays
  <2>2. OverAndGone'
    BY <1>1, <1>2, <2>1 DEF OverAndGone
  <2> QED
    BY <1>1, <1>2, <2>2 DEF FinalInv
<1>3. ASSUME UNCHANGED <<version, dead, done>>,
             \A k \in Keys : hash[k] = NoBody => hash'[k] = NoBody,
             \A s \in Slots : slot'[s].pc \in {"retry", "dead"} => slot'[s] = slot[s]
      PROVE  FinalInv'
  <2>1. \A s \in Slots : slot[s].pc # "idle" => slot[s].task.key \in Keys
    BY <1>1, TaskFields DEF JobsTyped
  <2>2. AckedIsGone'
    BY <1>1, <1>3, <2>1 DEF AckedIsGone
  <2> QED
    BY <1>2, <1>3, <2>2 DEF Gone
<1>4. \A s \in Slots : slot[s].pc # "idle" =>
        /\ slot[s].task \in Task /\ slot[s].task.key \in Keys
        /\ slot[s].task.version = version[slot[s].task.key]
        /\ slot[s].task.version \in Nat \ {0}
        /\ JobHas(s, slot[s].task.key) /\ HeldBy(s[1], slot[s].task.key)
  <2>1. SUFFICES ASSUME NEW s \in Slots, slot[s].pc # "idle"
                 PROVE  /\ slot[s].task \in Task /\ slot[s].task.key \in Keys
                        /\ slot[s].task.version = version[slot[s].task.key]
                        /\ slot[s].task.version \in Nat \ {0}
                        /\ JobHas(s, slot[s].task.key) /\ HeldBy(s[1], slot[s].task.key)
    OBVIOUS
  <2>2. /\ slot[s].task \in Task /\ slot[s].task.key \in Keys
        /\ slot[s].task.version \in Nat \ {0}
    BY <1>1, <2>1, TaskFields, ConstantsAssumption DEF JobsTyped
  <2>3. Holding(slot[s].task.key, slot[s].task.version)
    BY <2>1 DEF Holding
  <2>4. slot[s].task.version = version[slot[s].task.key]
    BY <2>2, <2>3 DEF BodiesInv, HandsAreCurrent
  <2>5. JobHas(s, slot[s].task.key)
    BY <2>1 DEF JobHas
  <2> QED
    BY <2>2, <2>4, <2>5, HeldOnce
<1>5. \A s \in Slots : s[1] \in Pods
  BY DEF Slots
<1>6. ASSUME NEW k \in Keys, NEW i \in Pods, HeldBy(i, k)
      PROVE  \A v \in Nat : <<k, v>> \in dead \cup done => v < version[k]
  BY <1>1, <1>6 DEF OverAndGone, Gone
<1>7. ASSUME NEW k \in Keys, NEW i \in Pods, HeldBy(i, k), NEW t \in Task, t.key = k, NEW d,
             EnqueueScript(t, d), UNCHANGED <<version, done>>,
             \A s \in Slots : slot'[s].pc \in {"retry", "dead"} =>
               slot'[s] = slot[s] /\ slot[s].task.key # k
      PROVE  FinalInv'
  <2>1. /\ dead' = dead
        /\ \A l \in Keys \ {k} : hash'[l] = hash[l]
    BY <1>1, <1>7, EnqueueEffect
  <2>2. AckedIsGone'
    BY <1>1, <1>4, <1>7, <2>1 DEF AckedIsGone
  <2>3. \A l \in Keys : Gone(l) => hash'[l] = NoBody
    BY <1>7, <2>1 DEF Gone
  <2> QED
    BY <1>2, <1>7, <2>1, <2>2, <2>3
<1>10. ASSUME NEW k \in Keys, CancelTask(k) PROVE FinalInv'
  <2>1. /\ hash' = [hash EXCEPT ![k] = NoBody]
        /\ UNCHANGED <<slot, version, dead, done>>
    BY <1>10 DEF CancelTask, CancelScript, podVars
  <2> QED
    BY <1>1, <1>3, <2>1 DEF BodiesTyped
<1>11. ASSUME NEW k \in Keys, NEW d \in Delays, Enqueue(k, d) PROVE FinalInv'
  <2>1. version[k] < MaxVersion /\ ~Handed(k)
    BY <1>11 DEF Enqueue
  <2>2. PICK t \in Task : t.key = k /\ EnqueueScript(t, d)
    BY <1>1, <1>11, <2>1, NewTask DEF Enqueue
  <2>3. /\ version' = [version EXCEPT ![k] = @ + 1]
        /\ UNCHANGED <<slot, done>>
    BY <1>11 DEF Enqueue, podVars
  <2>4. /\ dead' = dead /\ version'[k] = version[k] + 1
        /\ \A l \in Keys \ {k} : hash'[l] = hash[l] /\ version'[l] = version[l]
    BY <1>1, <2>2, <2>3, EnqueueEffect DEF BodiesTyped
  <2>5. AckedIsGone'
    <3>1. \A s \in Slots : slot[s].pc # "idle" => slot[s].task.key # k
      BY <2>1 DEF Handed
    <3> QED
      BY <1>1, <1>4, <2>3, <2>4, <3>1 DEF AckedIsGone
  <2>6. \A l \in Keys \ {k} : Gone(l) => Gone(l)'
    BY <2>4, GoneStays DEF Gone
  <2>7. OverAndGone'
    BY <1>1, <2>3, <2>4, <2>6 DEF OverAndGone
  <2> QED
    BY <1>1, <2>3, <2>4, <2>5, <2>7 DEF FinalInv
<1>12. ASSUME NEW i \in Pods, Poll(i) \/ PollLost(i) PROVE FinalInv'
  <2>1. PICK fetched : PollScript(i, fetched) /\ UNCHANGED <<slot, version, done>>
    BY <1>12 DEF Poll, PollLost, podVars
  <2>2. hash' = hash /\ dead' = dead
    BY <1>1, <2>1, PollEffect
  <2> QED
    BY <1>3, <2>1, <2>2
<1>13. ASSUME NEW i \in Pods, NEW t \in consumer[i].tasks, Submit(i, t) PROVE FinalInv'
  <2>1. PICK n \in 1..Workers : slot' = [slot EXCEPT ![<<i, n>>] = [pc |-> "run", task |-> t]]
    BY <1>13 DEF Submit
  <2>2. \A s \in Slots : slot'[s] = slot[s] \/ slot'[s].pc = "run"
    BY <1>1, <2>1 DEF JobsTyped
  <2> QED
    BY <1>3, <1>13, <2>2 DEF Submit, redisVars, historyVars
<1>14. ASSUME NEW i \in Pods, NEW t \in consumer[i].tasks, PoolFull(i, t) PROVE FinalInv'
  <2>1. t.key \in Keys
    BY <1>1, ConsumerFields, TaskFields DEF ConsumersTyped
  <2>2. HeldBy(i, t.key)
    BY DEF HeldBy, FetchedHas
  <2>3. MaybeAck(t.key) /\ UNCHANGED <<slot, version, done>>
    BY <1>14 DEF PoolFull, historyVars
  <2>4. /\ dead' = dead
        /\ \A l \in Keys : hash[l] = NoBody => hash'[l] = NoBody
    BY <1>1, <2>1, <2>2, <2>3, AckedBody, MaybeAckEffect
  <2> QED
    BY <1>3, <2>3, <2>4
<1>15. ASSUME NEW i \in Pods, FullReEnqueue(i) PROVE FinalInv'
  <2>0. PICK t : t = consumer[i].current
    OBVIOUS
  <2>1. /\ GivingBack(i, t.key) /\ t \in Task /\ t.key \in Keys
        /\ UNCHANGED <<slot, version, done>> /\ ReEnqueue(i, t, 0)
    BY <1>1, <1>15, <2>0, TaskFields DEF FullReEnqueue, ConsumersTyped, GivingBack
  <2>2. HeldBy(i, t.key)
    BY <2>1 DEF HeldBy
  <2>3. \A s \in Slots : slot[s].pc # "idle" => slot[s].task.key # t.key
    BY <1>4, <2>1, HeldOnce
  <2>4. CASE EnqueueScript(t, 0)
    BY <1>7, <2>1, <2>2, <2>3, <2>4
  <2>5. CASE UNCHANGED redisVars
    BY <1>3, <2>1, <2>5 DEF redisVars
  <2> QED
    BY <2>1, <2>4, <2>5 DEF ReEnqueue
<1>16. ASSUME NEW i \in Pods, ConsumerExit(i) \/ Stop(i) \/ Crash(i) PROVE FinalInv'
  <2>1. \A s \in Slots : slot'[s] = slot[s] \/ slot'[s].pc = "idle"
    BY <1>16, RestTyped DEF ConsumerExit, Stop, Crash, historyVars
  <2>2. UNCHANGED <<hash, version, dead, done>>
    BY <1>16 DEF ConsumerExit, Stop, Crash, redisVars, historyVars
  <2> QED
    BY <1>3, <2>1, <2>2
<1>17. ASSUME NEW s \in Slots, FinishOk(s) PROVE FinalInv'
  <2>0. PICK t : t = slot[s].task
    OBVIOUS
  <2>1. /\ slot[s].pc = "run" /\ MaybeAck(t.key) /\ UNCHANGED <<consumer, version>>
        /\ done' = done \cup {<<t.key, t.version>>}
        /\ slot' = [slot EXCEPT ![s] = IdleJob]
    BY <1>17, <2>0 DEF FinishOk, Id
  <2>2. /\ t \in Task /\ t.key \in Keys /\ t.version = version[t.key] /\ t.version \in Nat \ {0}
        /\ JobHas(s, t.key) /\ HeldBy(s[1], t.key) /\ s[1] \in Pods
    BY <1>4, <1>5, <2>0, <2>1
  <2>3. /\ dead' = dead /\ hash'[t.key] = NoBody
        /\ \A l \in Keys : hash[l] = NoBody => hash'[l] = NoBody
    BY <1>1, <2>1, <2>2, AckedBody, MaybeAckEffect
  <2>4. \A r \in Slots : slot'[r] = slot[r] \/ slot'[r].pc = "idle"
    BY <1>1, <2>1, RestTyped DEF JobsTyped
  <2>5. AckedIsGone'
    BY <1>1, <1>4, <2>3, <2>4 DEF AckedIsGone
  <2>6. Gone(t.key)'
    BY <1>1, <2>1, <2>2, <2>3, Released DEF Gone
  <2>7. \A l \in Keys : Gone(l) => Gone(l)'
    BY <2>3, GoneStays DEF Gone
  <2>8. OverAndGone'
    BY <1>1, <2>1, <2>2, <2>3, <2>6, <2>7 DEF OverAndGone
  <2>9. <<t.key, t.version>> \notin dead
    BY <1>1, <1>6, <2>2
  <2> QED
    BY <1>1, <2>1, <2>2, <2>3, <2>5, <2>8, <2>9 DEF FinalInv
<1>18. ASSUME NEW s \in Slots, FinishFail(s) PROVE FinalInv'
  <2>0. PICK t : t = slot[s].task
    OBVIOUS
  <2>1. /\ slot[s].pc = "run" /\ MaybeAck(t.key) /\ UNCHANGED <<consumer, version, done>>
        /\ \A r \in Slots : slot'[r] = slot[r] \/ slot'[r].task.key = t.key
    <3>1. slot[s].task \in Task
      BY <1>1, <1>18 DEF FinishFail, JobsTyped
    <3> QED
      BY <1>1, <1>18, <2>0, <3>1, FailedJob DEF FinishFail, historyVars, JobsTyped
  <2>2. t.key \in Keys /\ HeldBy(s[1], t.key) /\ s[1] \in Pods
    BY <1>4, <1>5, <2>0, <2>1
  <2>3. /\ dead' = dead /\ hash'[t.key] = NoBody
        /\ \A l \in Keys : hash[l] = NoBody => hash'[l] = NoBody
    BY <1>1, <2>1, <2>2, AckedBody, MaybeAckEffect
  <2>4. AckedIsGone'
    BY <1>1, <1>4, <2>1, <2>3 DEF AckedIsGone
  <2> QED
    BY <1>2, <2>1, <2>3, <2>4 DEF Gone
<1>19. ASSUME NEW s \in Slots, RetryEnqueue(s) PROVE FinalInv'
  <2>0. PICK t : t = slot[s].task
    OBVIOUS
  <2>1. /\ slot[s].pc = "retry" /\ UNCHANGED <<version, done>>
        /\ ReEnqueue(s[1], t, Backoff(t.retry))
        /\ \A r \in Slots : slot'[r].pc = "idle" \/ (r # s /\ slot'[r] = slot[r])
    BY <1>1, <1>19, <2>0, RestTyped DEF RetryEnqueue, JobsTyped
  <2>2. t \in Task /\ t.key \in Keys /\ HeldBy(s[1], t.key) /\ s[1] \in Pods /\ JobHas(s, t.key)
    BY <1>4, <1>5, <2>0, <2>1
  <2>3. \A r \in Slots : slot[r].pc # "idle" /\ r # s => slot[r].task.key # t.key
    BY <1>4, <2>2, HeldOnce
  <2>4. CASE EnqueueScript(t, Backoff(t.retry))
    BY <1>7, <2>1, <2>2, <2>3, <2>4
  <2>5. CASE UNCHANGED redisVars
    BY <1>3, <2>1, <2>5 DEF redisVars
  <2> QED
    BY <2>1, <2>4, <2>5 DEF ReEnqueue
<1>20. ASSUME NEW s \in Slots, MoveToDead(s) PROVE FinalInv'
  <2>0. PICK t : t = slot[s].task
    OBVIOUS
  <2>1. /\ slot[s].pc = "dead" /\ UNCHANGED <<hash, consumer, version, done>>
        /\ dead' = dead \cup {<<t.key, t.version>>}
        /\ slot' = [slot EXCEPT ![s] = IdleJob]
    BY <1>20, <2>0 DEF MoveToDead, Id
  <2>2. /\ t \in Task /\ t.key \in Keys /\ t.version = version[t.key] /\ t.version \in Nat \ {0}
        /\ JobHas(s, t.key) /\ HeldBy(s[1], t.key) /\ s[1] \in Pods
    BY <1>4, <1>5, <2>0, <2>1
  <2>3. \A r \in Slots : slot'[r] = slot[r] \/ slot'[r].pc = "idle"
    BY <1>1, <2>1, RestTyped DEF JobsTyped
  <2>4. AckedIsGone'
    BY <1>1, <2>1, <2>3 DEF AckedIsGone
  <2>5. Gone(t.key)'
    BY <1>1, <2>0, <2>1, <2>2, Released DEF Gone, AckedIsGone
  <2>6. \A l \in Keys : Gone(l) => Gone(l)'
    BY <2>1, GoneStays DEF Gone
  <2>7. OverAndGone'
    BY <1>1, <2>1, <2>2, <2>5, <2>6 DEF OverAndGone
  <2>8. <<t.key, t.version>> \notin done
    BY <1>1, <1>6, <2>2
  <2> QED
    BY <1>1, <2>1, <2>2, <2>4, <2>7, <2>8 DEF FinalInv
<1>21. CASE Tick \/ UNCHANGED vars
  BY <1>3, <1>21 DEF Tick, podVars, historyVars, vars
<1> QED
  BY <1>10, <1>11, <1>12, <1>13, <1>14, <1>15, <1>16, <1>17, <1>18, <1>19, <1>20, <1>21
  DEF Next, Consumer, RunJob

(* Moving a task to the dead list is final: with handlers in time and the commands
   getting through, it is not also finished, in the hands of a pod or in the queue
   (handleTask's ack before moveToDead). *)
THEOREM BuriedStaysBuried ==
  ASSUME ~Reschedules, ~SlowHandlers, ~RedisFaults PROVE Spec => []BuriedIsFinal
<1>1. Init => FinalInv
  BY DEF Init, FinalInv, AckedIsGone, OverAndGone, IdleJob
<1>2. BodiesInv /\ ClaimInv /\ FinalInv /\ [Next]_vars => FinalInv'
  BY FinalStep
<1>3. BodiesInv /\ ClaimInv /\ FinalInv => BuriedIsFinal
  <2>1. SUFFICES ASSUME BodiesInv, ClaimInv, FinalInv,
                        NEW k \in Keys, NEW v \in Nat \ {0}, <<k, v>> \in dead
                 PROVE  /\ <<k, v>> \notin done
                        /\ \A s \in Slots : slot[s].pc # "idle" => Id(slot[s].task) # <<k, v>>
                        /\ ~InQueue(k, v)
    BY DEF FinalInv, BuriedIsFinal
  <2>2. v = version[k] => Gone(k)
    BY <2>1 DEF FinalInv, OverAndGone
  <2>3. ASSUME NEW s \in Slots, slot[s].pc # "idle", Id(slot[s].task) = <<k, v>> PROVE FALSE
    <3>1. JobHas(s, k) /\ Holding(k, v)
      BY <2>3 DEF Id, JobHas, Holding
    <3>2. v = version[k]
      BY <2>1, <3>1 DEF BodiesInv, HandsAreCurrent
    <3>3. HeldBy(s[1], k) /\ s[1] \in Pods
      BY <2>1, <3>1, HeldOnce DEF Slots
    <3> QED
      BY <2>2, <3>2, <3>3 DEF Gone
  <2>4. ~InQueue(k, v)
    BY <2>1, <2>2, NoBodyVersion DEF InQueue, Gone, BodiesInv, BodyIsCurrent
  <2> QED
    BY <2>1, <2>3, <2>4 DEF FinalInv
<1> QED
  BY <1>1, <1>2, <1>3, ClaimsHold, PTL DEF Spec
=============================================================================
