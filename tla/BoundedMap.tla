----------------------------- MODULE BoundedMap -----------------------------
(***************************************************************************)
(* What the in-memory handlers promise (the Handler interface, cache.go):  *)
(* an entry that is stored stays until its time has come, until a call     *)
(* that is in progress deletes it, or until the room it is in has no more  *)
(* space.  Values are left out: an entry is how long it lives.             *)
(***************************************************************************)
EXTENDS Naturals, FiniteSets

CONSTANTS
  Keys, Procs,
  Rooms,      \* sets of keys that share a capacity
  Capacity    \* entries a room holds

VARIABLES
  life,   \* [Keys -> "absent", "kept" (no TTL), "ttl" or "expired"]
  call    \* [Procs -> what the call may still do, and to which keys]

vars == <<life, call>>

Stored == {"kept", "ttl", "expired"}
Held == {k \in Keys : life[k] # "absent"}
Calls == [op : {"read", "set", "del"}, keys : SUBSET Keys]
Lose(ks, map) == [k \in Keys |-> IF k \in ks THEN "absent" ELSE map[k]]

Init == /\ life = [k \in Keys |-> "absent"]
        /\ call = [p \in Procs |-> [op |-> "read", keys |-> {}]]

(* A call begins, goes on to another part of its work, or ends. *)
Turn == /\ call' \in [Procs -> Calls]
        /\ UNCHANGED life

(* One more entry than fits pushes one out, which may be the new one. *)
Put(p, k) ==
  /\ call[p].op = "set" /\ k \in call[p].keys
  /\ \E new \in Stored, out \in Keys \cup {"none"} :
       LET room == CHOOSE r \in Rooms : k \in r
           full == k \notin Held /\ Cardinality(Held \cap room) = Capacity IN
       /\ out # "none" <=> full
       /\ full => out \in room
       /\ life' = Lose({out}, [life EXCEPT ![k] = new])
  /\ \E c \in Calls : call' = [call EXCEPT ![p] = c]

Remove(p) ==
  /\ call[p].op = "del"
  /\ \E ks \in SUBSET call[p].keys : life' = Lose(ks, life)
  /\ \E c \in Calls : call' = [call EXCEPT ![p] = c]

Lapse(k) == life[k] = "ttl" /\ life' = [life EXCEPT ![k] = "expired"] /\ UNCHANGED call

Reclaim ==
  /\ \E ks \in SUBSET Held : (\A k \in ks : life[k] = "expired") /\ life' = Lose(ks, life)
  /\ call' \in [Procs -> Calls]

Next ==
  \/ Turn \/ Reclaim
  \/ \E p \in Procs : Remove(p) \/ (\E k \in Keys : Put(p, k))
  \/ \E k \in Keys : Lapse(k)
Spec == Init /\ [][Next]_vars
=============================================================================
