---------------------------- MODULE MCLifecycles ----------------------------
(* Two Subscribers of one channel. *)
EXTENDS Lifecycles

CONSTANT c1

Same == [s \in Subs |-> c1]
=============================================================================
