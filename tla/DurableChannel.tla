--------------------------- MODULE DurableChannel ---------------------------
(***************************************************************************)
(* durable_channel.go: a Go channel backed by a Redis list.                *)
(*                                                                         *)
(* One queue key and the successive processes that own it.  Each message   *)
(* is sent once, by a goroutine of its own; workers move messages from the *)
(* list to memChan, and the application receives from memChan.             *)
(***************************************************************************)
EXTENDS Naturals, Sequences, FiniteSets, SequencesExt

CONSTANTS
  Messages,     \* messages, each sent once
  Workers,      \* consumer goroutines (none in PersistSync)
  Modes,        \* persistence modes to consider
  BufferSize,   \* config.BufferSize
  PoolSize,     \* jobs persistPool accepts
  Closes,       \* the channel may be closed
  MaxCrashes,   \* bound: process crashes
  RedisFaults   \* Redis commands may fail

VARIABLES
  mode,       \* config.PersistenceMode
  redis,      \* the list at queueKey
  mem,        \* the buffer of memChan
  memClosed,  \* close(memChan) has been called
  closed,     \* dc.closed; dc.ctx is cancelled with it
  send,       \* [Messages -> where its Send call is]
  worker,     \* [Workers -> where it is and the message it has pulled]
  pool,       \* messages whose asynchronous persist job is pending
  closer,     \* where Close is
  received,   \* [Messages -> times handed to the application]
  crashes,
  exposed     \* messages of which the program has lost a copy (history)

chanVars == <<mem, memClosed, closed, pool, closer>>
vars == <<mode, redis, mem, memClosed, closed, send, worker, pool, closer, received,
          crashes, exposed>>

NoMessage == "none"
Pulling == [pc |-> "pull", item |-> NoMessage]
Stopped == [pc |-> "stopped", item |-> NoMessage]

TypeOK ==
  /\ mode \in Modes
  /\ redis \in Seq(Messages)
  /\ mem \in BoundedSeq(Messages, BufferSize)
  /\ {memClosed, closed} \subseteq BOOLEAN
  /\ send \in [Messages -> {"idle", "persist", "enter", "blocked", "submit", "ok", "error"}]
  /\ worker \in [Workers -> {Pulling, Stopped} \cup [pc : {"push"}, item : Messages]]
  /\ pool \subseteq Messages /\ Cardinality(pool) <= PoolSize
  /\ closer \in {"none", "workers", "pool", "channel", "closed"}
  /\ received \in [Messages -> Nat]
  /\ crashes \in 0..MaxCrashes /\ exposed \subseteq Messages

Init ==
  /\ mode \in Modes
  /\ redis = <<>> /\ mem = <<>>
  /\ memClosed = FALSE /\ closed = FALSE
  /\ send = [m \in Messages |-> "idle"]
  /\ worker = [w \in Workers |-> IF mode = "sync" THEN Stopped ELSE Pulling]
  /\ pool = {} /\ closer = "none"
  /\ received = [m \in Messages |-> 0]
  /\ crashes = 0 /\ exposed = {}

SendGoto(m, l) == send' = [send EXCEPT ![m] = l]
OnSend(m, l) == send[m] = l

(* memChan accepts a message without blocking. *)
Room == Len(mem) < BufferSize

-----------------------------------------------------------------------------
(***************************************************************************)
(* Send.                                                                   *)
(***************************************************************************)

SendBegin(m) ==
  /\ OnSend(m, "idle")
  /\ SendGoto(m, IF closed THEN "error" ELSE IF mode = "async" THEN "enter" ELSE "persist")
  /\ UNCHANGED <<mode, redis, chanVars, worker, received, crashes, exposed>>

(* persistToRedis: RPUSH and EXPIRE in one pipeline.  The list's time (config.TTL, a
   day when it is not set) starts anew with each push, and ListExpires is its end. *)
SendPersist(m) ==
  /\ OnSend(m, "persist")
  /\ \/ /\ redis' = Append(redis, m)
        /\ SendGoto(m, IF mode = "sync" THEN "ok" ELSE "enter")
     \/ /\ RedisFaults
        /\ redis' \in {redis, Append(redis, m)}
        /\ SendGoto(m, "error")
  /\ UNCHANGED <<mode, chanVars, worker, received, crashes, exposed>>

(* Hybrid under dc.mu.RLock: a non-blocking send on memChan. *)
SendHybrid(m) ==
  /\ OnSend(m, "enter") /\ mode = "hybrid"
  /\ \/ /\ closed
        /\ SendGoto(m, "error")
        /\ UNCHANGED mem
     \/ /\ ~closed
        /\ SendGoto(m, "ok")
        /\ mem' = IF Room THEN Append(mem, m) ELSE mem
  /\ UNCHANGED <<mode, redis, memClosed, closed, pool, closer, worker, received, crashes, exposed>>

(* Taking the read lock without looking at closed again. *)
SendEnterBlind(m) ==
  /\ OnSend(m, "enter") /\ mode = "async"
  /\ SendGoto(m, "blocked")
  /\ UNCHANGED <<mode, redis, chanVars, worker, received, crashes, exposed>>

(* Async takes dc.mu.RLock and keeps it while the send on memChan blocks. *)
SendEnter(m) ==
  /\ OnSend(m, "enter") /\ mode = "async"
  /\ SendGoto(m, IF closed THEN "error" ELSE "blocked")
  /\ UNCHANGED <<mode, redis, chanVars, worker, received, crashes, exposed>>

(* A blocked Send that does not listen to dc.ctx. *)
SendAsyncDeaf(m) ==
  /\ OnSend(m, "blocked")
  /\ Room /\ ~memClosed
  /\ mem' = Append(mem, m)
  /\ SendGoto(m, "submit")
  /\ UNCHANGED <<mode, redis, memClosed, closed, pool, closer, worker, received, crashes, exposed>>

(* The blocking select: memChan or dc.ctx. *)
SendAsync(m) ==
  /\ OnSend(m, "blocked")
  /\ \/ /\ Room /\ ~memClosed
        /\ mem' = Append(mem, m)
        /\ SendGoto(m, "submit")
     \/ /\ closed
        /\ SendGoto(m, "error")
        /\ UNCHANGED mem
  /\ UNCHANGED <<mode, redis, memClosed, closed, pool, closer, worker, received, crashes, exposed>>

(* The select again: the caller's own context is done. *)
SendCancelled(m) ==
  /\ OnSend(m, "blocked")
  /\ SendGoto(m, "error")
  /\ UNCHANGED <<mode, redis, chanVars, worker, received, crashes, exposed>>

(* SubmitNonBlocking: a full or closed pool refuses, and Send returns nil all the
   same. *)
SendSubmit(m) ==
  /\ OnSend(m, "submit")
  /\ SendGoto(m, "ok")
  /\ pool' = IF Cardinality(pool) < PoolSize /\ closer \in {"none", "workers"}
             THEN pool \cup {m} ELSE pool
  /\ UNCHANGED <<mode, redis, mem, memClosed, closed, closer, worker, received, crashes, exposed>>

(* A job of persistPool. *)
PoolPersist(m) ==
  /\ m \in pool
  /\ pool' = pool \ {m}
  /\ \/ redis' = Append(redis, m)
     \/ RedisFaults /\ UNCHANGED redis
  /\ UNCHANGED <<mode, mem, memClosed, closed, closer, send, worker, received, crashes, exposed>>

(* The list has not been pushed to for config.TTL: Redis removes it, whatever it holds. *)
ListExpires ==
  /\ redis # <<>>
  /\ redis' = <<>>
  /\ exposed' = exposed \cup ToSet(redis)
  /\ UNCHANGED <<mode, chanVars, send, worker, received, crashes>>

-----------------------------------------------------------------------------
(***************************************************************************)
(* Workers and the application.                                            *)
(***************************************************************************)

(* BLPOP *)
WorkerPull(w) ==
  /\ worker[w].pc = "pull" /\ ~closed
  /\ redis # <<>>
  /\ worker' = [worker EXCEPT ![w] = [pc |-> "push", item |-> Head(redis)]]
  /\ redis' = Tail(redis)
  /\ UNCHANGED <<mode, chanVars, send, received, crashes, exposed>>

(* Redis has popped and the reply does not arrive: the context was cancelled or
   the connection failed under a BLPOP that was under way. *)
WorkerPullLost(w) ==
  /\ worker[w].pc = "pull" /\ redis # <<>>
  /\ closed \/ RedisFaults
  /\ redis' = Tail(redis)
  /\ exposed' = exposed \cup {Head(redis)}
  /\ UNCHANGED <<mode, chanVars, send, worker, received, crashes>>

(* A worker that drops what does not fit. *)
WorkerPushOrDrop(w) ==
  /\ worker[w].pc = "push"
  /\ mem' = IF Room THEN Append(mem, worker[w].item) ELSE mem
  /\ worker' = [worker EXCEPT ![w] = Pulling]
  /\ UNCHANGED <<mode, redis, memClosed, closed, pool, closer, send, received, crashes, exposed>>

(* The send on memChan.  When dc.ctx is done instead, persistToRedis is called
   with that same context and fails: the message is gone. *)
WorkerPush(w) ==
  /\ worker[w].pc = "push"
  /\ \/ /\ Room
        /\ mem' = Append(mem, worker[w].item)
        /\ worker' = [worker EXCEPT ![w] = Pulling]
        /\ UNCHANGED exposed
     \/ /\ closed
        /\ worker' = [worker EXCEPT ![w] = Stopped]
        /\ exposed' = exposed \cup {worker[w].item}
        /\ UNCHANGED mem
  /\ UNCHANGED <<mode, redis, memClosed, closed, pool, closer, send, received, crashes>>

WorkerStop(w) ==
  /\ worker[w].pc = "pull" /\ closed
  /\ worker' = [worker EXCEPT ![w] = Stopped]
  /\ UNCHANGED <<mode, redis, chanVars, send, received, crashes, exposed>>

(* Receive and TryReceive; a closed channel still hands out its buffer. *)
Receive ==
  /\ mem # <<>>
  /\ mem' = Tail(mem)
  /\ received' = [received EXCEPT ![Head(mem)] = @ + 1]
  /\ UNCHANGED <<mode, redis, memClosed, closed, pool, closer, send, worker, crashes, exposed>>

-----------------------------------------------------------------------------
(***************************************************************************)
(* Close, crash, and the constructor of the next process.                  *)
(***************************************************************************)

CloseBegin ==
  /\ Closes /\ closer = "none"
  /\ closed' = TRUE
  /\ closer' = "workers"
  /\ UNCHANGED <<mode, redis, mem, memClosed, send, worker, pool, received, crashes, exposed>>

(* wg.Wait *)
CloseWorkers ==
  /\ closer = "workers"
  /\ \A w \in Workers : worker[w].pc = "stopped"
  /\ closer' = "pool"
  /\ UNCHANGED <<mode, redis, mem, memClosed, closed, send, worker, pool, received, crashes, exposed>>

(* persistPool.Close waits for the accepted jobs. *)
ClosePool ==
  /\ closer = "pool"
  /\ pool = {}
  /\ closer' = "channel"
  /\ UNCHANGED <<mode, redis, mem, memClosed, closed, send, worker, pool, received, crashes, exposed>>

(* dc.mu.Lock waits for the readers, then close(memChan). *)
CloseChannel ==
  /\ closer = "channel"
  /\ \A m \in Messages : send[m] # "blocked"
  /\ memClosed' = TRUE
  /\ closer' = "closed"
  /\ UNCHANGED <<mode, redis, mem, closed, send, worker, pool, received, crashes, exposed>>

(* What the memory of the process holds, in the buffer or in a worker's hand. *)
InMemory == ToSet(mem) \cup {m \in Messages : \E w \in Workers : worker[w].item = m}

(* Recovery that reads the list and leaves it as it is. *)
RecoverByCopy ==
  LET n == IF Len(redis) < BufferSize THEN Len(redis) ELSE BufferSize IN
  /\ mem' = SubSeq(redis, 1, n)
  /\ redis' = redis
  /\ exposed' = exposed \cup InMemory

(* recoverMessages: as many LPOPs as fit in the buffer; one that fails ends it, and
   Redis may have popped although the answer is lost. *)
RecoverMessages ==
  LET fit == IF Len(redis) < BufferSize THEN Len(redis) ELSE BufferSize
      left(n) == SubSeq(redis, n + 1, Len(redis)) IN
  IF mode = "sync" THEN mem' = <<>> /\ redis' = redis /\ exposed' = exposed \cup InMemory
  ELSE \E n \in 0..fit :
         /\ mem' = SubSeq(redis, 1, n)
         /\ \/ /\ RedisFaults \/ n = fit
               /\ redis' = left(n)
               /\ exposed' = exposed \cup InMemory
            \/ /\ RedisFaults /\ n < fit
               /\ redis' = Tail(left(n))
               /\ exposed' = exposed \cup InMemory \cup {Head(left(n))}

(* NewDurableChannel in the process that takes over: after a Close with the
   buffer drained, or at any time after a crash, which takes the memory with it. *)
Restart ==
  /\ \/ closer = "closed" /\ mem = <<>> /\ UNCHANGED crashes
     \/ crashes < MaxCrashes /\ crashes' = crashes + 1
  /\ RecoverMessages
  /\ memClosed' = FALSE /\ closed' = FALSE /\ pool' = {} /\ closer' = "none"
  /\ worker' = [w \in Workers |-> IF mode = "sync" THEN Stopped ELSE Pulling]
  /\ send' = [m \in Messages |-> IF send[m] \in {"idle", "ok"} THEN send[m] ELSE "error"]
  /\ UNCHANGED <<mode, received>>

-----------------------------------------------------------------------------
SendStep(m) == SendBegin(m) \/ SendPersist(m) \/ SendHybrid(m) \/ SendEnter(m)
                 \/ SendAsync(m) \/ SendSubmit(m)
WorkerStep(w) == WorkerPull(w) \/ WorkerPush(w) \/ WorkerStop(w)
CloseStep == CloseWorkers \/ ClosePool \/ CloseChannel

Next ==
  \/ \E m \in Messages : SendStep(m) \/ SendCancelled(m) \/ PoolPersist(m)
  \/ \E w \in Workers : WorkerStep(w) \/ WorkerPullLost(w)
  \/ ListExpires \/ Receive \/ CloseBegin \/ CloseStep \/ Restart

Spec == Init /\ [][Next]_vars

(* Workers, pool jobs, senders under way and Close run; the application need not
   receive. *)
FairSpec ==
  /\ Spec
  /\ \A m \in Messages : WF_vars(SendAsync(m)) /\ WF_vars(PoolPersist(m))
  /\ \A w \in Workers : WF_vars(WorkerStep(w))
  /\ WF_vars(CloseStep)

-----------------------------------------------------------------------------
(***************************************************************************)
(* Properties.                                                             *)
(***************************************************************************)

Occurrences(m, s) == Cardinality({i \in DOMAIN s : s[i] = m})
InHand(m) == \E w \in Workers : worker[w].item = m
Somewhere(m) == received[m] > 0 \/ Contains(redis, m) \/ Contains(mem, m) \/ InHand(m)

(* Nothing is sent on memChan after it is closed, which would panic: no worker has
   a message in hand then and no Send is between its check and its send. *)
NoSendOnClosed ==
  memClosed => /\ \A w \in Workers : worker[w].pc = "stopped"
               /\ \A m \in Messages : send[m] # "blocked"

(* The copies of a message never multiply: the list and the buffer get one each
   from Send, and workers and recovery move copies, across restarts too. *)
AtMostTwoCopies ==
  \A m \in Messages :
    received[m] + Occurrences(m, redis) + Occurrences(m, mem)
      + Cardinality({w \in Workers : worker[w].item = m}) <= 2

(* Close comes to its end although nobody receives: whatever holds dc.mu or is
   counted by dc.wg is woken by the cancelled context. *)
CloseCompletes == (closer = "workers") ~> (closer \in {"closed", "none"})

(* A message whose Send has returned nil has been received or can still be, across
   Close, crashes and restarts, unless one of its own copies met one of five ends: in
   memory when the process crashed, in a worker's hand when the channel was closed, at
   the head of the list under a BLPOP or LPOP whose answer was lost, in the list when
   it expired.  A persist job that fails or is refused, a full buffer, a Send racing
   with Close and the order of recovery lose nothing. *)
AcceptedKept ==
  \A m \in Messages : send[m] = "ok" /\ m \notin exposed => Somewhere(m)
=============================================================================
