------------------------------- MODULE MCLock -------------------------------
(* WTF::Lock for TLC: every lock of a run hashes to the same bucket, so that *)
(* threads parked on different locks share a queue.                          *)
EXTENDS Lock, TLC

CONSTANT bucket

OneBucket == {bucket}
AllInOneBucket == [l \in Locks |-> bucket]

Symmetry == Permutations(Threads) \cup Permutations(Locks)
=============================================================================
