---------------------------- MODULE MCCondition ----------------------------
(* WTF::Condition for TLC: two Conditions that share a bucket in tables of *)
(* one and two buckets and part in a table of three.                       *)
EXTENDS Condition, TLC

CONSTANTS c1, c2

Hashes == (c1 :> 1) @@ (c2 :> 3)

Symmetry == Permutations(Threads)
=============================================================================
