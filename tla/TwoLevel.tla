------------------------------ MODULE TwoLevel ------------------------------
(***************************************************************************)
(* twolevel.go: TwoLevelHandler, one key in two handlers.                  *)
(*                                                                         *)
(* Either handler does each of its operations at once, may fail, and may   *)
(* lose the entry at any time (capacity, TTL).  Goroutines write to one    *)
(* level after the call that has started them has returned.                *)
(***************************************************************************)
EXTENDS Naturals, FiniteSets

CONSTANTS
  Callers,
  Values,
  MaxLate,     \* bound: goroutines alive
  MaxFaults    \* bound: operations that fail

VARIABLES
  writeThrough,
  l1, l2,      \* the value in each level, or None
  call,        \* [Callers -> operation, where it is, the value it holds]
  late,        \* [level and value -> goroutines that will write the value there]
  truth,       \* history: what was last set, or None when it was deleted
  raced,       \* history: since the last write that ran alone, a write has not
  faults

vars == <<writeThrough, l1, l2, call, late, truth, raced, faults>>

None == 0
Idle == [op |-> "idle", at |-> "end", val |-> None]
Writes == {"set", "del", "compute", "loaded"}
NoLate == [t \in {1, 2} \X Values |-> 0]

Init ==
  /\ writeThrough \in BOOLEAN
  /\ l1 = None /\ l2 = None /\ truth = None
  /\ call = [p \in Callers |-> Idle]
  /\ late = NoLate /\ raced = FALSE /\ faults = 0

At(p, l) == call[p].at = l
Op(p, ops) == call[p].op \in ops
Goto(p, l) == call' = [call EXCEPT ![p].at = l]
End(p) == call' = [call EXCEPT ![p] = Idle]
Fault == faults < MaxFaults /\ faults' = faults + 1
Late(t) ==
  /\ late' = [late EXCEPT ![t] = @ + 1]
  /\ late[<<1, t[2]>>] + late[<<2, t[2]>>] < MaxLate

(* History: a call that begins while another is under way or a goroutine is alive makes
   a race of it if either writes; a write that begins in peace is the truth. *)
Others(p) == {q \in Callers \ {p} : call[q] # Idle}
Note(p, op, v) ==
  LET quiet == Others(p) = {} /\ late = NoLate
      onlyReads == op \notin Writes /\ (\A q \in Others(p) : ~Op(q, Writes)) /\ late = NoLate IN
  /\ truth' = IF op \in {"set", "del"} THEN v ELSE truth
  /\ raced' = CASE quiet /\ op \in {"set", "del"} -> FALSE
                [] onlyReads \/ (quiet /\ op = "compute") -> raced
                [] OTHER -> TRUE

Begin(p, op, v) ==
  /\ call[p] = Idle
  /\ op = "set" <=> v # None
  /\ call' = [call EXCEPT ![p] = [op |-> op, at |-> "l1", val |-> v]]
  /\ Note(p, op, v)
  /\ UNCHANGED <<writeThrough, l1, l2, late, faults>>

(* Get, BatchGet and GetOrCompute look into L1 and then into L2. *)
Read1(p) ==
  /\ Op(p, {"get", "batch", "compute"}) /\ At(p, "l1")
  /\ \/ l1 # None /\ End(p) /\ UNCHANGED faults
     \/ l1 = None /\ Goto(p, "l2") /\ UNCHANGED faults
     \/ Fault /\ Goto(p, "l2")
  /\ UNCHANGED <<writeThrough, l1, l2, late, truth, raced>>

(* A hit in L2: Get takes the value to L1 itself, the others have a goroutine do it. *)
Read2(p) ==
  /\ Op(p, {"get", "batch", "compute"}) /\ At(p, "l2")
  /\ \/ /\ l2 # None /\ Op(p, {"get"})
        /\ call' = [call EXCEPT ![p] = [op |-> "get", at |-> "promote", val |-> l2]]
        /\ UNCHANGED <<late, faults>>
     \/ l2 # None /\ Op(p, {"batch", "compute"}) /\ Late(<<1, l2>>) /\ End(p) /\ UNCHANGED faults
     \/ l2 = None /\ (IF Op(p, {"compute"}) THEN Goto(p, "load") ELSE End(p))
          /\ UNCHANGED <<late, faults>>
     \/ Fault /\ (IF Op(p, {"compute"}) THEN Goto(p, "load") ELSE End(p)) /\ UNCHANGED late
  /\ UNCHANGED <<writeThrough, l1, l2, truth, raced>>

(* GetTTL of L2, which changes nothing, and the promotion. *)
Promote(p) ==
  /\ At(p, "promote")
  /\ \/ l1' = call[p].val /\ UNCHANGED faults
     \/ Fault /\ UNCHANGED l1
  /\ End(p)
  /\ UNCHANGED <<writeThrough, l2, late, truth, raced>>

(* What the loader returns goes to both levels, their errors ignored. *)
Load(p) ==
  /\ At(p, "load")
  /\ \/ /\ \E v \in Values :
             /\ call' = [call EXCEPT ![p] = [op |-> "loaded", at |-> "l1", val |-> v]]
             /\ truth' = v
        /\ raced' = (raced \/ Others(p) # {} \/ late # NoLate)
        /\ UNCHANGED faults
     \/ Fault /\ End(p) /\ UNCHANGED <<truth, raced>>
  /\ UNCHANGED <<writeThrough, l1, l2, late>>

(* Set and GetOrCompute write L1 and then L2; Set leaves L2 to a goroutine unless
   WriteThrough, and ends when L1 fails. *)
Write1(p) ==
  /\ Op(p, {"set", "loaded"}) /\ At(p, "l1")
  /\ \/ /\ l1' = call[p].val
        /\ \/ (writeThrough \/ Op(p, {"loaded"})) /\ Goto(p, "l2") /\ UNCHANGED late
           \/ ~writeThrough /\ Op(p, {"set"}) /\ Late(<<2, call[p].val>>) /\ End(p)
        /\ UNCHANGED <<faults, raced>>
     \/ /\ Fault /\ raced' = TRUE
        /\ IF Op(p, {"set"}) THEN End(p) ELSE Goto(p, "l2")
        /\ UNCHANGED <<l1, late>>
  /\ UNCHANGED <<writeThrough, l2, truth>>

Write2(p) ==
  /\ Op(p, {"set", "loaded"}) /\ At(p, "l2")
  /\ \/ l2' = call[p].val /\ UNCHANGED <<faults, raced>>
     \/ Fault /\ raced' = TRUE /\ UNCHANGED l2
  /\ End(p)
  /\ UNCHANGED <<writeThrough, l1, late, truth>>

Del1Only(p) ==   \* mutated: Del returns when L1 has the key
  /\ Op(p, {"del"}) /\ At(p, "l1")
  /\ IF l1 # None THEN End(p) ELSE Goto(p, "l2")
  /\ l1' = None
  /\ UNCHANGED <<writeThrough, l2, late, truth, raced, faults>>

(* Del, in L1 whatever comes of it, and in L2. *)
Del1(p) ==
  /\ Op(p, {"del"}) /\ At(p, "l1")
  /\ \/ l1' = None /\ UNCHANGED <<faults, raced>>
     \/ Fault /\ raced' = TRUE /\ UNCHANGED l1
  /\ Goto(p, "l2")
  /\ UNCHANGED <<writeThrough, l2, late, truth>>

Del2(p) ==
  /\ Op(p, {"del"}) /\ At(p, "l2")
  /\ \/ l2' = None /\ UNCHANGED <<faults, raced>>
     \/ Fault /\ raced' = TRUE /\ UNCHANGED l2
  /\ End(p)
  /\ UNCHANGED <<writeThrough, l1, late, truth>>

(* A goroutine writes, and nobody learns whether it could. *)
WriteLate(t) ==
  /\ late[t] > 0
  /\ late' = [late EXCEPT ![t] = @ - 1]
  /\ \/ t[1] = 1 /\ l1' = t[2] /\ UNCHANGED <<l2, faults, raced>>
     \/ t[1] = 2 /\ l2' = t[2] /\ UNCHANGED <<l1, faults, raced>>
     \/ Fault /\ raced' = TRUE /\ UNCHANGED <<l1, l2>>
  /\ UNCHANGED <<writeThrough, call, truth>>

(* Capacity or TTL. *)
Lose ==
  /\ \/ l1 # None /\ l1' = None /\ UNCHANGED l2
     \/ l2 # None /\ l2' = None /\ UNCHANGED l1
  /\ UNCHANGED <<writeThrough, call, late, truth, raced, faults>>

Next ==
  \/ \E p \in Callers :
       \/ \E op \in {"get", "batch", "compute", "set", "del"}, v \in Values \cup {None} : Begin(p, op, v)
       \/ Read1(p) \/ Read2(p) \/ Promote(p) \/ Load(p) \/ Write1(p) \/ Write2(p)
       \/ Del1(p) \/ Del2(p)
  \/ \E t \in {1, 2} \X Values : WriteLate(t)
  \/ Lose
Spec == Init /\ [][Next]_vars

-----------------------------------------------------------------------------
(* Where writes do not overlap with other calls and goroutines, neither level has
   anything but what was set last. *)
QuietLevelsAgree ==
  ~raced /\ late = NoLate /\ (\A p \in Callers : call[p] = Idle)
    => {l1, l2} \subseteq {None, truth}
=============================================================================
