------------------------------- MODULE PubSub -------------------------------
(***************************************************************************)
(* pubsub.go: one PubSub, its registry and its Subscribers, each with the  *)
(* goroutine of messageLoop and a worker pool that runs the handler.       *)
(*                                                                         *)
(* A section under p.mu or s.mu is one step: none of them blocks or calls  *)
(* out.  stopMu, held throughout Stop and Resubscribe, is a variable.      *)
(***************************************************************************)
EXTENDS Naturals, FiniteSets

CONSTANTS
  Procs,       \* goroutines of the callers
  Subs,        \* Subscribers
  Channels,
  On,          \* [Subs -> Channels], channels or patterns alike
  PoolSize,    \* messages a pool can hold, queued or being handled
  MaxTries,    \* StartRetryWindow, in attempts to dial
  MaxEvents,   \* bound: messages, connections lost, failed attempts to reconnect
  MaxCalls     \* bound: calls

VARIABLES
  cancelled,      \* p.ctx
  clientClosed,   \* the application has closed the Redis client
  subscribers,    \* the registry: [Channels -> a Subscriber or NoSub]
  stopMu,         \* [Subs -> who holds it]
  isActive,       \* [Subs -> BOOLEAN]
  stopChan,       \* Subscribers whose stopChan is closed
  pool,           \* [Subs -> "none", "open" or "closed"]
  tasks,          \* [Subs -> messages in the pool]
  loop,           \* [Subs -> where messageLoop is]
  status,         \* [Subs -> "unborn", "starting", "known" to the callers or "private"]
  call,           \* [Procs -> the call under way]
  before, closeDone,   \* history: loops that ran when Close began; a Close has returned
  events, calls

subvars == <<isActive, stopChan, pool, tasks, loop>>
pvars == <<cancelled, clientClosed, subscribers>>
hist == <<before, closeDone, events, calls>>
vars == <<pvars, stopMu, subvars, status, call, hist>>

NoSub == "none"
Free == "free"
Idle == [op |-> "idle", at |-> "end", s |-> NoSub, todo |-> {}, tries |-> 0]

Init ==
  /\ cancelled = FALSE /\ clientClosed = FALSE
  /\ subscribers = [c \in Channels |-> NoSub]
  /\ stopMu = [s \in Subs |-> Free]
  /\ isActive = [s \in Subs |-> FALSE] /\ stopChan = {}
  /\ pool = [s \in Subs |-> "none"] /\ tasks = [s \in Subs |-> 0]
  /\ loop = [s \in Subs |-> "none"] /\ status = [s \in Subs |-> "unborn"]
  /\ call = [p \in Procs |-> Idle]
  /\ before = {} /\ closeDone = FALSE /\ events = 0 /\ calls = 0

At(p, l) == call[p].at = l
Op(p, ops) == call[p].op \in ops
Goto(p, l) == call' = [call EXCEPT ![p].at = l]
End(p) == call' = [call EXCEPT ![p] = Idle]
Event == events < MaxEvents /\ events' = events + 1
Registered(f) == subscribers' = f

Begin(p, op, s, l) ==
  /\ call[p] = Idle /\ calls < MaxCalls /\ calls' = calls + 1
  /\ call' = [call EXCEPT ![p] = [Idle EXCEPT !.op = op, !.at = l, !.s = s]]

(* Subscribe, SubscribePattern, and RequestResponse, which subscribes, publishes, waits
   for an answer and unsubscribes. *)
CallSubscribe(p, s) ==
  /\ status[s] = "unborn"
  /\ \E op \in {"subscribe", "request"} : Begin(p, op, s, "register")
  /\ status' = [status EXCEPT ![s] = "starting"]
  /\ UNCHANGED <<pvars, stopMu, subvars, before, closeDone, events>>

(* Calls on a Subscriber that Subscribe has returned. *)
CallSubscriber(p, s) ==
  /\ status[s] = "known"
  /\ \E op \in {"stop", "unsubscribe", "resubscribe"} : Begin(p, op, s, "lock")
  /\ UNCHANGED <<pvars, stopMu, subvars, status, before, closeDone, events>>

(* PubSub.Unsubscribe takes the Subscriber out of the registry and then stops it. *)
CallUnsubscribe(p, c) ==
  /\ subscribers[c] # NoSub
  /\ Begin(p, "stop", subscribers[c], "lock")
  /\ Registered([subscribers EXCEPT ![c] = NoSub])
  /\ UNCHANGED <<cancelled, clientClosed, stopMu, subvars, status, before, closeDone, events>>

(* Close cancels the context. *)
CallClose(p) ==
  /\ Begin(p, "close", NoSub, "collect")
  /\ cancelled' = TRUE
  /\ before' = IF cancelled THEN before ELSE {s \in Subs : loop[s] # "none"}
  /\ UNCHANGED <<clientClosed, subscribers, stopMu, subvars, status, closeDone, events>>

-----------------------------------------------------------------------------
(* The Subscriber enters the registry, in the place of whoever has the channel. *)
Register(p) ==
  LET s == call[p].s IN
  /\ At(p, "register")
  /\ Registered([subscribers EXCEPT ![On[s]] = s])
  /\ Goto(p, "dial")
  /\ UNCHANGED <<cancelled, clientClosed, stopMu, subvars, status, hist>>

(* start: dial, and again after a delay until the window is over or Close cancels. *)
Dial(p) ==
  /\ At(p, "dial")
  /\ \/ ~cancelled /\ ~clientClosed /\ Goto(p, "pool")
     \/ IF cancelled \/ call[p].tries = MaxTries THEN Goto(p, "failed")
        ELSE call' = [call EXCEPT ![p].tries = @ + 1]
  /\ UNCHANGED <<pvars, stopMu, subvars, status, hist>>

(* Subscribe deletes its channel, whoever is registered there by now; Resubscribe
   leaves its own entry. *)
StartFailed(p) ==
  LET s == call[p].s IN
  /\ At(p, "failed")
  /\ IF Op(p, {"resubscribe"})
     THEN /\ isActive' = [isActive EXCEPT ![s] = FALSE]
          /\ stopMu' = [stopMu EXCEPT ![s] = Free] /\ UNCHANGED subscribers
     ELSE Registered([subscribers EXCEPT ![On[s]] = NoSub]) /\ UNCHANGED <<isActive, stopMu>>
  /\ End(p)
  /\ UNCHANGED <<cancelled, clientClosed, stopChan, pool, tasks, loop, status, hist>>

MakePool(p) ==
  LET s == call[p].s IN
  /\ At(p, "pool")
  /\ pool' = [pool EXCEPT ![s] = "open"] /\ isActive' = [isActive EXCEPT ![s] = TRUE]
  /\ Goto(p, "launch")
  /\ UNCHANGED <<pvars, stopMu, stopChan, tasks, loop, status, hist>>

Launch(p) ==
  LET s == call[p].s IN
  /\ At(p, "launch")
  /\ loop' = [loop EXCEPT ![s] = "run"]
  /\ CASE Op(p, {"request"}) -> Goto(p, "answer") /\ UNCHANGED stopMu
       [] Op(p, {"subscribe"}) -> End(p) /\ UNCHANGED stopMu
       [] OTHER -> End(p) /\ stopMu' = [stopMu EXCEPT ![s] = Free]
  /\ status' = [status EXCEPT ![s] = IF Op(p, {"request"}) THEN "private" ELSE "known"]
  /\ UNCHANGED <<pvars, isActive, stopChan, pool, tasks, hist>>

(* The answer, the timeout, the caller's context, or a Publish that failed. *)
Answer(p) ==
  /\ At(p, "answer")
  /\ Goto(p, "lock")
  /\ UNCHANGED <<pvars, stopMu, subvars, status, hist>>

-----------------------------------------------------------------------------
(* Stop and Resubscribe begin with stopMu and look at isActive. *)
Stopped(p) ==   \* what follows the Stop in the call
  CASE Op(p, {"close"}) -> Goto(p, "stops")
    [] Op(p, {"unsubscribe", "request"}) -> Goto(p, "remove")
    [] OTHER -> End(p)

Lock(p) ==
  LET s == call[p].s IN
  /\ At(p, "lock") /\ stopMu[s] = Free
  /\ IF isActive[s] = Op(p, {"resubscribe"})      \* nothing to do: unlocked at once
     THEN (IF Op(p, {"resubscribe"}) THEN End(p) ELSE Stopped(p)) /\ UNCHANGED stopMu
     ELSE /\ stopMu' = [stopMu EXCEPT ![s] = p]
          /\ Goto(p, IF Op(p, {"resubscribe"}) THEN "waitloop" ELSE "signal")
  /\ UNCHANGED <<pvars, subvars, status, hist>>

(* Stop: the flag, stopChan, and the pool, which takes nothing more. *)
Signal(p) ==
  LET s == call[p].s IN
  /\ At(p, "signal")
  /\ isActive' = [isActive EXCEPT ![s] = FALSE]
  /\ stopChan' = stopChan \cup {s}
  /\ pool' = [pool EXCEPT ![s] = "closed"]
  /\ Goto(p, "wait")
  /\ UNCHANGED <<pvars, stopMu, tasks, loop, status, hist>>

(* pool.Close waits for the handlers, loopWg for messageLoop. *)
WaitLoop(p) ==
  LET s == call[p].s IN
  /\ At(p, "wait") /\ tasks[s] = 0 /\ loop[s] = "none"
  /\ stopMu' = [stopMu EXCEPT ![s] = Free]
  /\ Stopped(p)
  /\ UNCHANGED <<pvars, subvars, status, hist>>

(* Unsubscribe of a Subscriber deletes its channel, whoever is registered there by now. *)
RemoveFromRegistry(p) ==
  /\ At(p, "remove")
  /\ Registered([subscribers EXCEPT ![On[call[p].s]] = NoSub])
  /\ End(p)
  /\ UNCHANGED <<cancelled, clientClosed, stopMu, subvars, status, hist>>

(* Resubscribe: when the old loop has ended, the fields are set anew. *)
ResetNow(p) ==   \* mutated: without loopWg.Wait
  LET s == call[p].s IN
  /\ At(p, "waitloop")
  /\ pool' = [pool EXCEPT ![s] = "none"]
  /\ stopChan' = stopChan \ {s}
  /\ isActive' = [isActive EXCEPT ![s] = TRUE]
  /\ Goto(p, "register")
  /\ UNCHANGED <<pvars, stopMu, tasks, loop, status, hist>>

Reset(p) == At(p, "waitloop") /\ loop[call[p].s] = "none" /\ ResetNow(p)

(* Close: the registry is emptied, then each Subscriber that was in it is stopped
   without p.mu, then the loops are waited for. *)
Collect(p) ==
  /\ At(p, "collect")
  /\ call' = [call EXCEPT ![p].at = "stops", ![p].todo = {subscribers[c] : c \in Channels} \ {NoSub}]
  /\ Registered([c \in Channels |-> NoSub])
  /\ UNCHANGED <<cancelled, clientClosed, stopMu, subvars, status, hist>>

StopNext(p) ==
  /\ At(p, "stops")
  /\ \E s \in call[p].todo :
       call' = [call EXCEPT ![p].at = "lock", ![p].s = s, ![p].todo = @ \ {s}]
  /\ UNCHANGED <<pvars, stopMu, subvars, status, hist>>

EndClose(p) ==
  /\ At(p, "stops") /\ call[p].todo = {}
  /\ \A s \in Subs : loop[s] = "none"
  /\ closeDone' = TRUE
  /\ End(p)
  /\ UNCHANGED <<cancelled, clientClosed, subscribers, stopMu, subvars, status, before, events, calls>>

-----------------------------------------------------------------------------
(* messageLoop takes a message and waits for a place in the pool. *)
Message(s) ==
  /\ loop[s] = "run" /\ Event
  /\ loop' = [loop EXCEPT ![s] = "submit"]
  /\ UNCHANGED <<pvars, stopMu, isActive, stopChan, pool, tasks, status, call, before, closeDone, calls>>

Submit(s) ==
  /\ loop[s] = "submit"
  /\ \/ pool[s] = "open" /\ tasks[s] < PoolSize /\ tasks' = [tasks EXCEPT ![s] = @ + 1]
     \/ (pool[s] # "open" \/ cancelled) /\ UNCHANGED tasks
  /\ loop' = [loop EXCEPT ![s] = "run"]
  /\ UNCHANGED <<pvars, stopMu, isActive, stopChan, pool, status, call, hist>>

(* handleMessage ends, after its retries, within its minute. *)
Handled(s) ==
  /\ tasks[s] > 0
  /\ tasks' = [tasks EXCEPT ![s] = @ - 1]
  /\ UNCHANGED <<pvars, stopMu, isActive, stopChan, pool, loop, status, call, hist>>

Disconnect(s) ==
  /\ loop[s] = "run"
  /\ (clientClosed /\ UNCHANGED events) \/ Event
  /\ loop' = [loop EXCEPT ![s] = "down"]
  /\ UNCHANGED <<pvars, stopMu, isActive, stopChan, pool, tasks, status, call, before, closeDone, calls>>

ToldToStop(s) == s \in stopChan \/ cancelled

(* reconnectLoop gives up only when it is told to, or when the client is closed. *)
GiveUp(s) ==   \* mutated: messageLoop ends with its connection
  /\ loop[s] = "down"
  /\ loop' = [loop EXCEPT ![s] = "ending"] /\ UNCHANGED events
  /\ UNCHANGED <<pvars, stopMu, isActive, stopChan, pool, tasks, status, call, before, closeDone, calls>>

Reconnect(s) ==
  /\ loop[s] = "down"
  /\ \/ ~cancelled /\ ~clientClosed /\ loop' = [loop EXCEPT ![s] = "run"] /\ UNCHANGED events
     \/ (ToldToStop(s) \/ clientClosed) /\ loop' = [loop EXCEPT ![s] = "ending"] /\ UNCHANGED events
     \/ Event /\ UNCHANGED loop
  /\ UNCHANGED <<pvars, stopMu, isActive, stopChan, pool, tasks, status, call, before, closeDone, calls>>

LoopStops(s) ==
  /\ loop[s] = "run" /\ ToldToStop(s)
  /\ loop' = [loop EXCEPT ![s] = "ending"]
  /\ UNCHANGED <<pvars, stopMu, isActive, stopChan, pool, tasks, status, call, hist>>

(* Its deferred calls: the flag, the pool, which waits for the handlers, and then the
   two wait groups. *)
LoopCleans(s) ==
  /\ loop[s] = "ending"
  /\ isActive' = [isActive EXCEPT ![s] = FALSE]
  /\ pool' = [pool EXCEPT ![s] = "closed"]
  /\ loop' = [loop EXCEPT ![s] = "draining"]
  /\ UNCHANGED <<pvars, stopMu, stopChan, tasks, status, call, hist>>

LoopEnds(s) ==
  /\ loop[s] = "draining" /\ tasks[s] = 0
  /\ loop' = [loop EXCEPT ![s] = "none"]
  /\ before' = before \ {s}
  /\ UNCHANGED <<pvars, stopMu, isActive, stopChan, pool, tasks, status, call, closeDone, events, calls>>

CloseClient ==
  /\ ~clientClosed /\ clientClosed' = TRUE
  /\ UNCHANGED <<cancelled, subscribers, stopMu, subvars, status, call, hist>>

-----------------------------------------------------------------------------
Step(p) == Register(p) \/ Dial(p) \/ StartFailed(p) \/ MakePool(p) \/ Launch(p) \/ Answer(p)
  \/ Lock(p) \/ Signal(p) \/ WaitLoop(p) \/ RemoveFromRegistry(p) \/ Reset(p)
  \/ Collect(p) \/ StopNext(p) \/ EndClose(p)
Ends(s) == LoopStops(s) \/ LoopCleans(s) \/ LoopEnds(s)
Next ==
  \/ \E p \in Procs :
       \/ Step(p) \/ CallClose(p)
       \/ (\E s \in Subs : CallSubscribe(p, s) \/ CallSubscriber(p, s))
       \/ (\E c \in Channels : CallUnsubscribe(p, c))
  \/ \E s \in Subs :
       Message(s) \/ Submit(s) \/ Handled(s) \/ Disconnect(s) \/ Reconnect(s) \/ Ends(s)
  \/ CloseClient

(* Every goroutine goes on.  Messages and calls are bounded: a select of Go that finds its
   stop channel closed takes it in the end, and a mutex is granted in the end. *)
Spec ==
  /\ Init /\ [][Next]_vars
  /\ \A p \in Procs : WF_vars(Step(p))
  /\ \A s \in Subs : WF_vars(Handled(s)) /\ WF_vars(Submit(s) \/ Reconnect(s) \/ Ends(s))

-----------------------------------------------------------------------------
(* Calls return, Stop and Close with the waits they make: nobody waits in a circle.  (As
   there are boundedly many, all of them have returned in the end.) *)
CallsReturn == []<>(\A p \in Procs : call[p] = Idle)

(* When a Close has returned, no loop and no handler is left of those that ran when it
   began. *)
CloseWaits == closeDone => before = {}

(* A Subscriber is not given a new loop while its old one is still ending. *)
OneLoop == [][\A s \in Subs : loop[s] \in {"ending", "draining"} => loop'[s] # "run"]_vars

(* A lost connection, or one that cannot be made again yet, does not end a loop: only
   Stop, Close and the closing of the client do, and a Resubscribe does not hide them. *)
StaysSubscribed == \A s \in Subs : loop[s] \in {"ending", "draining"} => ToldToStop(s) \/ clientClosed

=============================================================================
