----------------------------- MODULE LeaseLock -----------------------------
(***************************************************************************)
(* What the lock objects of one key promise together (the head comment of  *)
(* distributed_lock.go): a lease that passes from hand to hand only        *)
(* through a time when nobody has it.  A client may believe it has the     *)
(* lease when it is over; it finds out, and changes nothing then.          *)
(***************************************************************************)
EXTENDS Naturals

CONSTANTS
  Locks,       \* the clients
  TTL,         \* how long a lease is for
  Extensions   \* what it can be prolonged to

VARIABLES
  left,        \* time until the key is free, 0 when it is
  holders,     \* the client that has the lease and knows
  claims       \* the clients that believe they have it

vars == <<left, holders, claims>>

Init == left = 0 /\ holders = {} /\ claims = {}

Grant(o) ==
  /\ left = 0 /\ o \notin claims
  /\ left' = TTL /\ holders' = {o} /\ claims' = claims \cup {o}

(* The lease is granted to a client that is not told. *)
Strand ==
  /\ left = 0 /\ left' = TTL
  /\ UNCHANGED <<holders, claims>>

Prolong(o) ==
  /\ o \in holders
  /\ left' \in Extensions \ {0}
  /\ UNCHANGED <<holders, claims>>

(* Given back; prolonged to 0, the client has yet to notice. *)
Release(o) ==
  /\ o \in holders
  /\ left' = 0 /\ holders' = {} /\ claims' \in {claims, claims \ {o}}

(* The client drops its lease, its answer lost or itself, and nobody has the key. *)
Desert(o) ==
  /\ o \in holders
  /\ left' \in {left} \cup (Extensions \ {0})
  /\ holders' = {} /\ claims' = claims \ {o}

(* A client finds out that its lease is over. *)
Learn(o) ==
  /\ o \in claims \ holders
  /\ claims' = claims \ {o}
  /\ UNCHANGED <<left, holders>>

Pass ==
  /\ left > 1 /\ left' = left - 1
  /\ UNCHANGED <<holders, claims>>

Lapse ==
  /\ left = 1 /\ left' = 0 /\ holders' = {}
  /\ UNCHANGED claims

Next ==
  \/ \E o \in Locks : Grant(o) \/ Prolong(o) \/ Release(o) \/ Desert(o) \/ Learn(o)
  \/ Strand \/ Pass \/ Lapse
Spec == Init /\ [][Next]_vars
=============================================================================
