------------------------------ MODULE MCCopies ------------------------------
(* Of the KVCache one node writes, and the other one reads and, in a goroutine of its
   own, refreshes. *)
EXTENDS Copies, TLC

CONSTANTS n1, n2, p1, p2, r2

Homes == p1 :> n1 @@ p2 :> n2 @@ r2 :> n2
Calls == [k \in Kinds |->
  p1 :> {"set", "delete"} @@ r2 :> {"refresh"}
    @@ p2 :> IF k = "names" THEN {"get", "swap", "clear"} ELSE {"get", "getmany"}]
=============================================================================
