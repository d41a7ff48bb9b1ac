---------------------------- MODULE ExpiringCache ----------------------------
(***************************************************************************)
(* expiring.go: ExpiringHandler, a map behind a read-write lock and a      *)
(* goroutine that sweeps out of it what has expired, a sample at a time.   *)
(*                                                                         *)
(* A call is its check of closed and then its critical sections.  Values   *)
(* are left out.                                                           *)
(***************************************************************************)
EXTENDS Naturals, FiniteSets

CONSTANTS Keys, Procs,
          Lives,      \* as in LRUCache
          SampleSize, MaxRounds, ContinueRatio   \* of a sweep

VARIABLES
  life, closed, call,   \* as in ClockCache
  stop,                 \* the stop channel is closed
  tick,                 \* a tick waits in the ticker's channel
  sweeper               \* cleanupLoop: Waiting, the round of the sweep it is in, Ended

vars == <<life, closed, call, stop, tick, sweeper>>

Idle == [op |-> "idle", at |-> "end", keys |-> {}]
Held == {k \in Keys : life[k] # "absent"}
Live(k) == life[k] \in {"kept", "ttl"}
Waiting == 0
Ended == MaxRounds + 1
Ops == {"get", "getttl", "set", "del", "batch", "compute", "close"}

Init ==
  /\ life = [k \in Keys |-> "absent"] /\ closed = FALSE
  /\ call = [p \in Procs |-> Idle]
  /\ stop = FALSE /\ tick = FALSE /\ sweeper = Waiting

At(p, l) == call[p].at = l
Op(p, ops) == call[p].op \in ops
End(p) == call' = [call EXCEPT ![p] = Idle]
Goto(p, l) == call' = [call EXCEPT ![p].at = l]
Without(ks, map) == [k \in Keys |-> IF k \in ks THEN "absent" ELSE map[k]]

(* (BatchGet is as many reads as it has keys.) *)
Call(p, op, ks) ==
  /\ call[p] = Idle
  /\ op # "close" => ~closed
  /\ op = "close" => ks = Keys
  /\ op # "close" => Cardinality(ks) = 1
  /\ call' = [call EXCEPT ![p] = [op |-> op, at |-> "locked", keys |-> ks]]
  /\ UNCHANGED <<life, closed, stop, tick, sweeper>>

(* GetTTL and BatchGet only read, and so does the first part of Get and GetOrCompute.
   What Get finds expired it removes later; GetOrCompute stores a new value, unless it
   finds the handler closed or the loader fails. *)
Read(p) ==
  /\ Op(p, {"get", "getttl", "batch", "compute"}) /\ At(p, "locked")
  /\ \/ (Op(p, {"get"}) => \A k \in call[p].keys : life[k] # "expired") /\ End(p)
     \/ Op(p, {"get"}) /\ (\E k \in call[p].keys : life[k] = "expired") /\ Goto(p, "purge")
     \/ Op(p, {"compute"}) /\ ~closed /\ (\E k \in call[p].keys : ~Live(k)) /\ Goto(p, "store")
  /\ UNCHANGED <<life, closed, stop, tick, sweeper>>

(* The lazy deletion looks at the entry again. *)
Purge(p) ==
  /\ At(p, "purge")
  /\ life' = Without({k \in call[p].keys : life[k] = "expired"}, life)
  /\ End(p)
  /\ UNCHANGED <<closed, stop, tick, sweeper>>

Store(p) ==
  /\ Op(p, {"set"}) \/ At(p, "store")
  /\ \E k \in call[p].keys, new \in Lives : life' = [life EXCEPT ![k] = new]
  /\ End(p)
  /\ UNCHANGED <<closed, stop, tick, sweeper>>

Del(p) ==
  /\ Op(p, {"del"})
  /\ life' = Without(call[p].keys, life)
  /\ End(p)
  /\ UNCHANGED <<closed, stop, tick, sweeper>>

(* Close: the first one stops the ticker and the goroutine, and waits for it. *)
Close(p) ==
  /\ Op(p, {"close"}) /\ At(p, "locked")
  /\ closed' = TRUE /\ stop' = TRUE
  /\ IF closed THEN End(p) ELSE Goto(p, "wait")
  /\ UNCHANGED <<life, tick, sweeper>>

Closed(p) ==
  /\ At(p, "wait") /\ sweeper = Ended
  /\ End(p)
  /\ UNCHANGED <<life, closed, stop, tick, sweeper>>

(* The ticker, until Close stops it. *)
Tick == ~stop /\ ~tick /\ tick' = TRUE /\ UNCHANGED <<life, closed, call, stop, sweeper>>

WakeOnce ==   \* mutated: cleanupLoop ends at its first tick
  /\ sweeper = Waiting
  /\ (tick \/ stop) /\ sweeper' = Ended
  /\ UNCHANGED <<life, closed, call, stop, tick>>

(* The select of cleanupLoop: either channel, if both are ready. *)
Wake ==
  /\ sweeper = Waiting
  /\ \/ tick /\ tick' = FALSE /\ sweeper' = 1
     \/ stop /\ sweeper' = Ended /\ UNCHANGED tick
  /\ UNCHANGED <<life, closed, call, stop>>

(* One round: a sample of the map.  Another follows when enough of it had expired, the
   rounds are not used up and neither is the time. *)
Sweep ==
  /\ sweeper \in 1..MaxRounds
  /\ \E sample \in SUBSET Held :
       LET gone == {k \in sample : life[k] = "expired"} IN
       /\ Cardinality(sample) = IF Cardinality(Held) < SampleSize THEN Cardinality(Held)
                                ELSE SampleSize
       /\ life' = Without(gone, life)
       /\ \/ sweeper' = Waiting
          \/ /\ sample # {} /\ Cardinality(gone) * ContinueRatio >= Cardinality(sample)
             /\ sweeper < MaxRounds
             /\ sweeper' = sweeper + 1
  /\ UNCHANGED <<closed, call, stop, tick>>

Lapse(k) ==
  /\ life[k] = "ttl" /\ life' = [life EXCEPT ![k] = "expired"]
  /\ UNCHANGED <<closed, call, stop, tick, sweeper>>

Step(p) == Read(p) \/ Purge(p) \/ Store(p) \/ Del(p) \/ Close(p) \/ Closed(p)
Loop == Tick \/ Wake \/ Sweep
Next ==
  \/ \E p \in Procs, op \in Ops, ks \in SUBSET Keys \ {{}} : Call(p, op, ks)
  \/ \E p \in Procs : Step(p)
  \/ Loop
  \/ \E k \in Keys : Lapse(k)

(* Goroutines run and the ticker ticks. *)
Spec == Init /\ [][Next]_vars /\ WF_vars(Tick) /\ WF_vars(Wake \/ Sweep)
             /\ \A p \in Procs : WF_vars(Step(p))

-----------------------------------------------------------------------------
Doing(c) == [op |-> CASE c.op = "set" \/ c.at = "store" -> "set" [] c.op = "del" -> "del"
                      [] OTHER -> "read",
             keys |-> c.keys]
Map == INSTANCE BoundedMap WITH Rooms <- {Keys}, Capacity <- Cardinality(Keys),
                                call <- [p \in Procs |-> Doing(call[p])]

(* ExpiringHandler loses nothing but what a map with no limit may lose. *)
KeepsEntries == Map!Spec

(* Close returns: the goroutine it waits for ends. *)
CloseReturns == \A p \in Procs : At(p, "wait") ~> ~At(p, "wait")

(* An expired entry that nobody asks for does not stay for ever, as long as the sample
   takes in the whole map. *)
ExpiredGoes == \A k \in Keys : []<>(closed \/ life[k] # "expired")
=============================================================================
