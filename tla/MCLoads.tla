------------------------------ MODULE MCLoads ------------------------------
(* Two of three callers share an instance. *)
EXTENDS Loads, TLC

CONSTANTS p1, p2, p3

CallersInstance == p1 :> 1 @@ p2 :> 1 @@ p3 :> 2
=============================================================================
