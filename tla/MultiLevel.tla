----------------------------- MODULE MultiLevel -----------------------------
(***************************************************************************)
(* multi_level_cache.go: MultiLevelCache and the four patterns of          *)
(* CachePattern, for one row of the database.                              *)
(*                                                                         *)
(* L1 is an LRUOptimizedHandler, which does not fail but may evict; L2 is  *)
(* an AdvancedCache in Redis.  A write leaves a goroutine behind in two of *)
(* the patterns: the second delete of CacheAside, the database's write in  *)
(* WriteBehind.                                                            *)
(***************************************************************************)
EXTENDS Naturals

CONSTANTS
  Callers,
  MaxWrites,   \* bound: writes
  MaxFaults    \* bound: operations of L2, the loader or the database that fail

VARIABLES
  db,          \* the row
  l1, l2,      \* the copies: a value and whether it expires, or None
  agent,       \* [Callers \X {"call", "late"} -> what the call and its goroutine do next]
  written,     \* the newest value: 1 is there from the start, a write makes the next
  faults

vars == <<db, l1, l2, agent, written, faults>>

None == [val |-> 0, expires |-> FALSE]
Idle == [op |-> "idle", at |-> "end", val |-> 0]
Agents == Callers \X {"call", "late"}

Init ==
  /\ db = 1 /\ l1 = None /\ l2 = None
  /\ agent = [a \in Agents |-> Idle]
  /\ written = 1 /\ faults = 0

At(a, l) == agent[a].at = l
Goto(a, l) == agent' = [agent EXCEPT ![a].at = l]
Take(a, l, v) == agent' = [agent EXCEPT ![a] = [@ EXCEPT !.at = l, !.val = v]]
End(a) == agent' = [agent EXCEPT ![a] = Idle]
(* The call ends and leaves a goroutine at l; at most one for a caller. *)
Leave(a, l) ==
  agent' = [agent EXCEPT ![a] = Idle, ![<<a[1], "late">>] = [agent[a] EXCEPT !.at = l]]
Fault == faults < MaxFaults /\ faults' = faults + 1

(* An entry of L1 has the configuration's L1TTL, one of L2 the L2TTL. *)
Fill(v) == [val |-> v, expires |-> TRUE]
FillL1ForGood(v) == l1' = [val |-> v, expires |-> FALSE]   \* mutated: Set without a TTL

FillL1(v) == l1' = Fill(v)

(* Get; WriteThrough and CacheAside.Write, which begin with the database; WriteBehind,
   which begins with the cache; Delete; InvalidateL1, which is also what Clear comes to:
   it asks L2 for keys that have the namespace before them twice, and finds none. *)
Begin(p, op) ==
  LET a == <<p, "call">>
      writes == op \in {"through", "aside", "behind"}
      v == IF writes THEN written + 1 ELSE 0
      first == CASE op = "get" -> "get1"
                 [] op \in {"through", "aside"} -> "db"
                 [] op = "behind" -> "set1"
                 [] OTHER -> "del1" IN
  /\ agent[a] = Idle
  /\ writes => written <= MaxWrites /\ agent[<<p, "late">>] = Idle
  /\ written' = IF writes THEN v ELSE written
  /\ agent' = [agent EXCEPT ![a] = [op |-> op, at |-> first, val |-> v]]
  /\ UNCHANGED <<db, l1, l2, faults>>

(* Get: L1, then L2, whose value is put in L1 in a step of its own, then the loader,
   whose value goes through Set; without a loader the Get fails. *)
GetL1(a) ==
  /\ At(a, "get1")
  /\ IF l1 # None THEN End(a) ELSE Goto(a, "get2")
  /\ UNCHANGED <<db, l1, l2, written, faults>>

GetL2(a) ==
  /\ At(a, "get2")
  /\ \/ l2 # None /\ Take(a, "fill", l2.val) /\ UNCHANGED faults
     \/ l2 = None /\ (Goto(a, "load") \/ End(a)) /\ UNCHANGED faults
     \/ Fault /\ Goto(a, "load")
  /\ UNCHANGED <<db, l1, l2, written>>

Refill(a) ==
  /\ At(a, "fill")
  /\ FillL1(agent[a].val)
  /\ End(a)
  /\ UNCHANGED <<db, l2, written, faults>>

Load(a) ==
  /\ At(a, "load")
  /\ \/ Take(a, "set1", db) /\ UNCHANGED faults
     \/ Fault /\ End(a)
  /\ UNCHANGED <<db, l1, l2, written>>

(* Set, L1 and then L2.  WriteBehind goes on only when both have been written. *)
SetL1(a) ==
  /\ At(a, "set1")
  /\ FillL1(agent[a].val)
  /\ Goto(a, "set2")
  /\ UNCHANGED <<db, l2, written, faults>>

SetL2(a) ==
  /\ At(a, "set2")
  /\ \/ /\ l2' = Fill(agent[a].val)
        /\ IF agent[a].op = "behind" THEN Leave(a, "db") ELSE End(a)
        /\ UNCHANGED faults
     \/ Fault /\ End(a) /\ UNCHANGED l2
  /\ UNCHANGED <<db, l1, written>>

(* The write of the row.  When it fails WriteThrough and CacheAside give up, and the
   goroutine of WriteBehind takes the value out of the cache again. *)
WriteDb(a) ==
  /\ At(a, "db")
  /\ \/ /\ db' = agent[a].val
        /\ CASE agent[a].op = "through" -> Goto(a, "set1")
             [] agent[a].op = "aside" -> Goto(a, "del1")
             [] agent[a].op = "behind" -> End(a)
        /\ UNCHANGED faults
     \/ /\ Fault /\ UNCHANGED db
        /\ IF agent[a].op = "behind" THEN Goto(a, "del1") ELSE End(a)
  /\ UNCHANGED <<l1, l2, written>>

(* Delete, L1 and then L2.  CacheAside ignores an error and leaves the goroutine that
   deletes once more, half a second later. *)
DelL1(a) ==
  /\ At(a, "del1")
  /\ l1' = None
  /\ IF agent[a].op = "invalidate" THEN End(a) ELSE Goto(a, "del2")
  /\ UNCHANGED <<db, l2, written, faults>>

DelL2(a) ==
  /\ At(a, "del2")
  /\ \/ l2' = None /\ UNCHANGED faults
     \/ Fault /\ UNCHANGED l2
  /\ IF agent[a].op = "aside" /\ a[2] = "call" THEN Leave(a, "del1") ELSE End(a)
  /\ UNCHANGED <<db, l1, written>>

(* A copy expires or is evicted. *)
Expire1 == l1.expires /\ l1' = None /\ UNCHANGED <<db, l2, agent, written, faults>>
Expire2 == l2.expires /\ l2' = None /\ UNCHANGED <<db, l1, agent, written, faults>>

Step(a) == GetL1(a) \/ GetL2(a) \/ Refill(a) \/ Load(a) \/ SetL1(a) \/ SetL2(a)
           \/ WriteDb(a) \/ DelL1(a) \/ DelL2(a)
Next ==
  \/ \E p \in Callers,
        op \in {"get", "through", "aside", "behind", "delete", "invalidate"} : Begin(p, op)
  \/ \E a \in Agents : Step(a)
  \/ Expire1 \/ Expire2

(* The TTLs run out; a call may stop anywhere, and that spoils nothing. *)
Spec == Init /\ [][Next]_vars /\ WF_vars(Expire1) /\ WF_vars(Expire2)

-----------------------------------------------------------------------------
(* However reads, writes of the four patterns, late deletes and failures are
   interleaved, no copy differs from the row for ever: the TTLs see to it. *)
StaleExpires == <>[]({l1.val, l2.val} \subseteq {0, db})
=============================================================================
