------------------------------ MODULE LRUCache ------------------------------
(***************************************************************************)
(* lru.go: LRUHandler, a map and a list under one mutex.                   *)
(*                                                                         *)
(* A call is its check outside the lock, if it has one, and then the       *)
(* critical section.  Values are left out.                                 *)
(***************************************************************************)
EXTENDS Naturals, FiniteSets, Sequences, SequencesExt

CONSTANTS Keys, Procs,
          Lives,        \* bound: what Set's TTL makes of an entry, of BoundedMap's Stored
          MaxEntries

VARIABLES
  life,     \* the map: [Keys -> "absent" or how long the entry lives]
  closed, call,
  order,    \* the list ll, most recently used first
  since     \* history: [Keys -> the keys used since its last use]

vars == <<life, closed, call, order, since>>

Idle == [op |-> "idle", keys |-> {}]
Held == {k \in Keys : life[k] # "absent"}
Live(k) == life[k] \in {"kept", "ttl"}
Ops == {"get", "getttl", "set", "del", "batch", "compute", "close"}

Init ==
  /\ life = [k \in Keys |-> "absent"] /\ closed = FALSE
  /\ call = [p \in Procs |-> Idle]
  /\ order = <<>> /\ since = [k \in Keys |-> {}]

End(p) == call' = [call EXCEPT ![p] = Idle]
Without(ks, map) == [k \in Keys |-> IF k \in ks THEN "absent" ELSE map[k]]

(* What is left of list without ks, in the order it had. *)
Unlink(ks, list) ==
  CHOOSE rest \in SetToSeqs(ToSet(list) \ ks) :
    \A i, j \in 1..Len(rest) : i < j =>
      \E a, b \in 1..Len(list) : a < b /\ list[a] = rest[i] /\ list[b] = rest[j]

PurgeFromMap(ks) == life' = Without(ks, life) /\ UNCHANGED order   \* mutated: the list keeps them

(* The entries of keys go, from the map and from the list. *)
Purge(ks) == life' = Without(ks, life) /\ order' = Unlink(ks, order)

StayInPlace(seq) ==   \* mutated: what is read keeps its place
  order' = order

(* MoveToFront of the keys of seq, the last one first. *)
ToFront(seq) == order' = seq \o Unlink(ToSet(seq), order)
Use(seq) ==
  since' = [k \in Keys |->
    IF k \in ToSet(seq) THEN {seq[i] : i \in 1..(CHOOSE i \in 1..Len(seq) : seq[i] = k) - 1}
    ELSE since[k] \cup ToSet(seq)]

(* Only Get looks at closed before it takes the lock. *)
Call(p, op, ks) ==
  /\ call[p] = Idle
  /\ op \in {"get", "compute"} => ~closed
  /\ op = "close" => ks = Keys
  /\ op \notin {"batch", "close"} => Cardinality(ks) = 1
  /\ call' = [call EXCEPT ![p] = [op |-> op, keys |-> ks]]
  /\ UNCHANGED <<life, closed, order, since>>

(* Get, and GetOrCompute up to the loader. *)
Hit(p) ==
  /\ call[p].op \in {"get", "compute"}
  /\ \E k \in call[p].keys : Live(k) /\ ToFront(<<k>>) /\ Use(<<k>>)
  /\ End(p)
  /\ UNCHANGED <<life, closed>>

(* purgeExpired; GetOrCompute goes on to Set unless the loader fails or the context ends. *)
Miss(p) ==
  /\ call[p].op \in {"get", "getttl", "compute"}
  /\ \A k \in call[p].keys : ~Live(k)
  /\ IF call[p].op = "getttl" /\ closed THEN UNCHANGED <<life, order>> ELSE Purge(call[p].keys)
  /\ \/ End(p)
     \/ call[p].op = "compute" /\ call' = [call EXCEPT ![p].op = "set"]
  /\ UNCHANGED <<closed, since>>

(* The time left is told; that is not a use. *)
GetTTL(p) ==
  /\ call[p].op = "getttl" /\ \E k \in call[p].keys : Live(k)
  /\ End(p)
  /\ UNCHANGED <<life, closed, order, since>>

(* SetWithTTL: a TTL of -1 makes it "kept", 0 "expired" at once.  The oldest goes when there
   are too many. *)
Oldest(list) == IF Len(list) > MaxEntries THEN {Last(list)} ELSE {}
Set(p) ==
  /\ call[p].op = "set"
  /\ \/ closed /\ UNCHANGED <<life, order, since>>
     \/ /\ ~closed
        /\ \E k \in call[p].keys, new \in Lives :
             LET list == <<k>> \o Unlink({k}, order)
                 out == Oldest(list) IN
             /\ life' = Without(out, [life EXCEPT ![k] = new])
             /\ order' = Unlink(out, list)
             /\ Use(<<k>>)
  /\ End(p)
  /\ UNCHANGED closed

Del(p) ==
  /\ call[p].op = "del"
  /\ IF closed THEN UNCHANGED <<life, order>> ELSE Purge(call[p].keys)
  /\ End(p)
  /\ UNCHANGED <<closed, since>>

BatchGet(p) ==
  /\ call[p].op = "batch"
  /\ \/ closed /\ UNCHANGED <<life, order, since>>
     \/ /\ ~closed
        /\ LET gone == {k \in call[p].keys : life[k] = "expired"} IN
           \E seq \in SetToSeqs((call[p].keys \cap Held) \ gone) :
             /\ life' = Without(gone, life)
             /\ order' = seq \o Unlink(gone \cup ToSet(seq), order)
             /\ Use(seq)
  /\ End(p)
  /\ UNCHANGED closed

Close(p) ==
  /\ call[p].op = "close"
  /\ closed' = TRUE
  /\ IF closed THEN UNCHANGED <<life, order>> ELSE order' = <<>> /\ life' = Without(Keys, life)
  /\ End(p)
  /\ UNCHANGED since

Lapse(k) ==
  /\ life[k] = "ttl" /\ life' = [life EXCEPT ![k] = "expired"]
  /\ UNCHANGED <<closed, call, order, since>>

Next ==
  \/ \E p \in Procs, op \in Ops, ks \in SUBSET Keys \ {{}} : Call(p, op, ks)
  \/ \E p \in Procs :
       Hit(p) \/ Miss(p) \/ GetTTL(p) \/ Set(p) \/ Del(p) \/ BatchGet(p) \/ Close(p)
  \/ \E k \in Keys : Lapse(k)

Spec == Init /\ [][Next]_vars

-----------------------------------------------------------------------------
(* What a call may still do to the entries. *)
Doing(c) == [op |-> CASE c.op = "set" -> "set" [] c.op \in {"del", "close"} -> "del" [] OTHER -> "read",
             keys |-> c.keys]
Map == INSTANCE BoundedMap WITH Rooms <- {Keys}, Capacity <- MaxEntries,
                                call <- [p \in Procs |-> Doing(call[p])]

(* LRUHandler loses nothing but what a bounded map may lose. *)
KeepsEntries == Map!Spec

(* The list and the map have the same entries, each once, and no more than fit; a closed
   handler, whose list is nil, has nothing left in the map that would make a late Get
   touch the list. *)
ListMatches ==
  /\ ToSet(order) = Held /\ Len(order) = Cardinality(Held)
  /\ Len(order) <= MaxEntries
  /\ closed => Held = {}

(* An entry is pushed out only after as many other keys have been used as fit. *)
EvictsLeastRecent ==
  [][\A p \in Procs, k \in Keys :
       call[p].op = "set" /\ call'[p] = Idle /\ life[k] # "absent" /\ life'[k] = "absent"
         => Cardinality(since[k]) >= MaxEntries - 1]_vars
=============================================================================
