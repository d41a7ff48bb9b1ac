-------------------------------- MODULE Queues --------------------------------
(***************************************************************************)
(* What is kept in Redis lists, sets and counters, with its users: the     *)
(* QueueHandler, the dead letter queue, the durable channel and the        *)
(* generator of ids.  They share nothing but the server, so one of them    *)
(* runs, and the others stay as they begin.                                *)
(***************************************************************************)
EXTENDS Naturals, FiniteSets

CONSTANTS
  Items, Workers, NoWorker, Priority, Types, BatchSize, MaxRetries, MaxMishaps,  \* Queue
  Pushers, MaxSize, MaxLetters, MaxErrors,                              \* DeadLetterQueue
  Messages, Movers, Modes, BufferSize, PoolSize, Closes, MaxCrashes, RedisFaults,
                                                                        \* DurableChannel
  Procs, SeqStart, BatchSizes, Window, Expire, Lag, ResetsAlone, Horizon, MaxIds
                                                                        \* IDGenerator

VARIABLES kind,
          type, locking, queue, delay, failed, lock, worker, times, arrived, lapsed, mishaps,
          letters, push, pushed, errors,
          mode, redis, mem, memClosed, dclosed, send, mover, pool, closer, received, crashes,
            exposed,
          now, seq, ttl, call, issued, repeated

Q == INSTANCE Queue
L == INSTANCE DeadLetterQueue
D == INSTANCE DurableChannel WITH Workers <- Movers, closed <- dclosed, worker <- mover
G == INSTANCE IDGenerator

qvars == <<type, locking, queue, delay, failed, lock, worker, times, arrived, lapsed, mishaps>>
lvars == <<letters, push, pushed, errors>>
dvars == <<mode, redis, mem, memClosed, dclosed, send, mover, pool, closer, received, crashes,
           exposed>>
gvars == <<now, seq, ttl, call, issued, repeated>>
vars == <<kind, qvars, lvars, dvars, gvars>>

(* What does not run begins in one way only. *)
Init ==
  /\ kind \in {"queue", "dead letters", "channel", "ids"}
  /\ Q!Init /\ (kind # "queue" => type = (CHOOSE t \in Types : TRUE) /\ locking)
  /\ L!Init
  /\ D!Init /\ (kind # "channel" => mode = (CHOOSE m \in Modes : TRUE))
  /\ G!Init

QueueStep == kind = "queue" /\ Q!Next /\ UNCHANGED <<kind, lvars, dvars, gvars>>
LettersStep == kind = "dead letters" /\ L!Next /\ UNCHANGED <<kind, qvars, dvars, gvars>>
Channel(step) == kind = "channel" /\ step /\ UNCHANGED <<kind, qvars, lvars, gvars>>
IdsStep == kind = "ids" /\ G!Next /\ UNCHANGED <<kind, qvars, lvars, dvars>>

Next == QueueStep \/ LettersStep \/ Channel(D!Next) \/ IdsStep
Spec == Init /\ [][Next]_vars

(* The fairness of DurableChannel. *)
FairSpec ==
  /\ Spec
  /\ \A m \in Messages : WF_vars(Channel(D!SendAsync(m))) /\ WF_vars(Channel(D!PoolPersist(m)))
  /\ \A w \in Movers : WF_vars(Channel(D!WorkerStep(w)))
  /\ WF_vars(Channel(D!CloseStep))

-----------------------------------------------------------------------------
(* The properties of the four: see Queue, DeadLetterQueue, DurableChannel and
   IDGenerator. *)
GivenOnce == Q!GivenOnce
InOrder == Q!InOrder
RetriesSpent == Q!RetriesSpent
TrimsToMax == L!TrimsToMax
AcceptedKept == D!AcceptedKept
NoSendOnClosed == D!NoSendOnClosed
AtMostTwoCopies == D!AtMostTwoCopies
CloseCompletes == D!CloseCompletes
UniqueIds == G!UniqueIds
DenseSequence == G!DenseSequence
=============================================================================
