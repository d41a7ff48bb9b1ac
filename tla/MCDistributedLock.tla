------------------------- MODULE MCDistributedLock -------------------------
(* Instances of DistributedLock for TLC. *)
EXTENDS DistributedLock, TLC

CONSTANTS p1, p2, p3, o1, o2, t1, t2, t3

(* Each goroutine with an object of its own; or two sharing one object, as
   LockManager lets them, and a third contending with an object of its own. *)
OwnObject == p1 :> o1 @@ p2 :> o2
TwoShareOne == p1 :> o1 @@ p2 :> o1 @@ p3 :> o2

TokenSymmetry == Permutations(Tokens)
Symmetry == Permutations({p1, p2}) \cup TokenSymmetry
=============================================================================
