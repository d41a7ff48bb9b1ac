------------------------------ MODULE CtxCache ------------------------------
(***************************************************************************)
(* ctxcache.go: GetOrCompute over a Handler, with the flightGroup that     *)
(* merges concurrent loads of one key.                                     *)
(*                                                                         *)
(* One key.  A caller's contexts are modelled by whether the current one   *)
(* is done.  The cached value is abstracted to present or absent; what a   *)
(* load produced is a value, an error, or the error of the context that    *)
(* the loader was given.                                                   *)
(***************************************************************************)
EXTENDS Naturals, FiniteSets

CONSTANTS
  Procs,       \* concurrent callers
  MaxCalls,    \* bound: GetOrCompute calls a caller makes
  LoadsFail,   \* a loader may return an error, a context may be cancelled
  Panics,      \* a loader may panic
  Removals     \* the key may be deleted or expire

VARIABLES
  cached,    \* the handler has a value for the key
  flight,    \* g.m[key]: the caller that leads the load, or Nobody
  call,      \* [Procs -> where its call is, whose load it waits for, its result]
  ctxDone,   \* callers whose context is done
  calls,     \* [Procs -> calls begun]
  panicked   \* a loader has panicked

vars == <<cached, flight, call, ctxDone, calls, panicked>>

Nobody == "nobody"
Results == {"value", "error", "cancelled"}
Idle == [pc |-> "idle", leader |-> Nobody, result |-> "none"]

TypeOK ==
  /\ cached \in BOOLEAN
  /\ flight \in Procs \cup {Nobody}
  /\ call \in [Procs -> [pc : {"idle", "get", "do", "load", "wait", "set"},
                         leader : Procs \cup {Nobody}, result : Results \cup {"none"}]]
  /\ ctxDone \subseteq Procs
  /\ calls \in [Procs -> 0..MaxCalls]
  /\ panicked \in BOOLEAN

Init ==
  /\ cached = FALSE /\ flight = Nobody
  /\ call = [p \in Procs |-> Idle]
  /\ ctxDone = {}
  /\ calls = [p \in Procs |-> 0]
  /\ panicked = FALSE

At(p, l) == call[p].pc = l
Return(p) == call' = [call EXCEPT ![p] = Idle]

-----------------------------------------------------------------------------
(* A call begins, with a context of its own. *)
Begin(p) ==
  /\ At(p, "idle") /\ calls[p] < MaxCalls
  /\ calls' = [calls EXCEPT ![p] = @ + 1]
  /\ call' = [call EXCEPT ![p].pc = "get"]
  /\ ctxDone' = ctxDone \ {p}
  /\ UNCHANGED <<cached, flight, panicked>>

(* A done context returns; of handler.GetWithCtx a hit returns, anything else
   counts as a miss. *)
Get(p) ==
  /\ At(p, "get")
  /\ \/ (cached \/ p \in ctxDone) /\ Return(p)
     \/ (~cached \/ p \in ctxDone) /\ call' = [call EXCEPT ![p].pc = "do"]
  /\ UNCHANGED <<cached, flight, ctxDone, calls, panicked>>

(* flightGroup.Do under g.mu: join the load of the key, or lead one. *)
Do(p) ==
  /\ At(p, "do")
  /\ IF flight # Nobody
     THEN /\ call' = [call EXCEPT ![p].pc = "wait", ![p].leader = flight]
          /\ UNCHANGED flight
     ELSE /\ flight' = p
          /\ call' = [call EXCEPT ![p].pc = "load"]
  /\ UNCHANGED <<cached, ctxDone, calls, panicked>>

(* c.val, c.err and close(c.done): the result is there for all who hold c. *)
Complete(p, r) ==
  call' = [q \in Procs |-> IF q = p THEN [call[q] EXCEPT !.pc = "set", !.result = r]
                           ELSE IF At(q, "wait") /\ call[q].leader = p
                           THEN [call[q] EXCEPT !.result = r]
                           ELSE call[q]]

(* fn has returned: result and close(done) and delete(g.m, key), under g.mu. *)
LoadEnd(p) ==
  /\ At(p, "load")
  /\ \E r \in Results :
       /\ r = "error" => LoadsFail
       /\ r = "cancelled" => p \in ctxDone
       /\ Complete(p, r)
  /\ flight' = Nobody
  /\ UNCHANGED <<cached, ctxDone, calls, panicked>>

(* fn panics: the goroutine unwinds past Do, whose entry stays in the map. *)
LoadPanic(p) ==
  /\ Panics /\ At(p, "load")
  /\ Return(p)
  /\ panicked' = TRUE
  /\ UNCHANGED <<cached, flight, ctxDone, calls>>

(* A waiter gets the result the leader left, or its own context ends. *)
Wait(p) ==
  /\ At(p, "wait")
  /\ \/ /\ call[p].result # "none"
        /\ call' = [call EXCEPT ![p].pc = "set"]
     \/ p \in ctxDone /\ Return(p)
  /\ UNCHANGED <<cached, flight, ctxDone, calls, panicked>>

(* Writing back, leader and waiters alike; a write under a done context may fail. *)
Set(p) ==
  /\ At(p, "set")
  /\ \/ call[p].result = "value" /\ cached' = TRUE
     \/ (call[p].result # "value" \/ p \in ctxDone) /\ UNCHANGED cached
  /\ Return(p)
  /\ UNCHANGED <<flight, ctxDone, calls, panicked>>

CtxEnds(p) ==
  /\ LoadsFail
  /\ ~At(p, "idle") /\ p \notin ctxDone
  /\ ctxDone' = ctxDone \cup {p}
  /\ UNCHANGED <<cached, flight, call, calls, panicked>>

(* Del, or the entry's TTL. *)
Remove ==
  /\ Removals /\ cached
  /\ cached' = FALSE
  /\ UNCHANGED <<flight, call, ctxDone, calls, panicked>>

-----------------------------------------------------------------------------
Step(p) == Get(p) \/ Do(p) \/ LoadEnd(p) \/ Wait(p) \/ Set(p)

Next == Remove \/ \E p \in Procs : Begin(p) \/ Step(p) \/ LoadPanic(p) \/ CtxEnds(p)

(* Callers run, loaders return (or panic), contexts have a deadline. *)
Spec ==
  /\ Init /\ [][Next]_vars
  /\ \A p \in Procs : WF_vars(Step(p)) /\ WF_vars(CtxEnds(p))

-----------------------------------------------------------------------------
(* The loader of a key never runs twice at the same time. *)
OneLoader == \A p, q \in Procs : At(p, "load") /\ At(q, "load") => p = q

(* Nobody is stuck behind another caller's load for longer than its own context: not even
   behind one whose loader has panicked and left its entry in the map.  (Calls are
   boundedly many: all of them have returned in the end.) *)
CallsReturn == []<>(\A p \in Procs : At(p, "idle"))
=============================================================================
