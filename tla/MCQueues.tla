------------------------------ MODULE MCQueues ------------------------------
(* Two items of different priority. *)
EXTENDS Queues, TLC

CONSTANTS i1, i2

ItemPriority == i1 :> 1 @@ i2 :> 0
=============================================================================
