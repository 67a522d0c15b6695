---------------------------- MODULE MCLockTimed -----------------------------
(* tryLockWithTimeout for TLC: one bucket, as in MCLock. *)
EXTENDS LockTimed

CONSTANT bucket

OneBucket == {bucket}
AllInOneBucket == [l \in Locks |-> bucket]
=============================================================================
