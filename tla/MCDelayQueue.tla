---------------------------- MODULE MCDelayQueue ----------------------------
(* Instances of DelayQueue for TLC. *)
EXTENDS DelayQueue, TLC

CONSTANTS k1, k2, q1, q2

KeySymmetry == Permutations(Keys)
KeyPodSymmetry == Permutations(Keys) \cup Permutations(Pods)
=============================================================================
