----------------------------- MODULE LockProofs -----------------------------
(***************************************************************************)
(* WTF::Lock for any number of threads, locks and buckets, any hash and    *)
(* any spin limit: IInv is an inductive invariant of the algorithm, and    *)
(* mutual exclusion, the absence of lost wake-ups and the assertions of    *)
(* the code follow from it.                                                *)
(*                                                                         *)
(* One lemma per action shows that it preserves IInv, one step per         *)
(* conjunct. The recurring steps are: "queued", what the action does to    *)
(* the threads queued on each lock; "owns", to ownership; "bits", to the   *)
(* byte; "engaged", who is still awake or being woken.                     *)
(***************************************************************************)
EXTENDS Lock, SequenceTheorems, TLAPS

(* What genericDequeue leaves of a queue when it unlinks position i. *)
LEMMA RemoveAtProperties ==
  ASSUME NEW S, NEW q \in Seq(S), NEW i \in 1..Len(q)
  PROVE  /\ RemoveAt(q, i) \in Seq(S)
         /\ Len(RemoveAt(q, i)) = Len(q) - 1
         /\ \A j \in 1..(Len(q) - 1) : RemoveAt(q, i)[j] = IF j < i THEN q[j] ELSE q[j + 1]
<1> DEFINE head == SubSeq(q, 1, i - 1)
           tail == SubSeq(q, i + 1, Len(q))
<1>1. /\ head \in Seq(S) /\ Len(head) = i - 1
      /\ \A j \in 1..(i - 1) : head[j] = q[j]
  BY SubSeqProperties
<1>2. /\ tail \in Seq(S) /\ Len(tail) = Len(q) - i
      /\ \A j \in 1..(Len(q) - i) : tail[j] = q[i + j]
  <2>1. CASE i = Len(q)
    BY <2>1, SubSeqProperties
  <2>2. CASE i < Len(q)
    BY <2>2, SubSeqProperties
  <2> QED
    BY <2>1, <2>2
<1>3. /\ head \o tail \in Seq(S)
      /\ Len(head \o tail) = Len(head) + Len(tail)
      /\ \A j \in 1..(Len(head) + Len(tail)) :
           (head \o tail)[j] = IF j <= Len(head) THEN head[j] ELSE tail[j - Len(head)]
  BY <1>1, <1>2, ConcatProperties
<1>4. RemoveAt(q, i) = head \o tail
  BY DEF RemoveAt
<1> HIDE DEF head, tail
<1>5. Len(head) + Len(tail) = Len(q) - 1
  BY <1>1, <1>2
<1>6. ASSUME NEW j \in 1..(Len(q) - 1)
      PROVE  (head \o tail)[j] = IF j < i THEN q[j] ELSE q[j + 1]
  <2>1. CASE j < i
    BY <2>1, <1>1, <1>3, <1>5
  <2>2. CASE ~(j < i)
    <3>1. (head \o tail)[j] = tail[j - (i - 1)]
      BY <2>2, <1>1, <1>3, <1>5
    <3>2. tail[j - (i - 1)] = q[i + (j - (i - 1))]
      BY <2>2, <1>2
    <3> QED
      BY <2>2, <3>1, <3>2
  <2> QED
    BY <2>1, <2>2
<1> QED
  BY <1>3, <1>4, <1>5, <1>6

-----------------------------------------------------------------------------
(* Most steps only move the thread t itself: queues, addresses and targets *)
(* stay, and t is neither asleep in a queue nor about to be signalled, nor *)
(* in the middle of unparkOneImpl's callback.                              *)
Frame(t) ==
  /\ queue' = queue /\ address' = address /\ target' = target
  /\ \A u \in Threads : u # t => pc'[u] = pc[u] /\ lk'[u] = lk[u] /\ token'[u] = token[u]
  /\ pc[t] = "asleep" => address[t] = None
  /\ pc[t] \notin {"callback", "signal"}
  /\ pc'[t] \notin {"asleep", "callback", "signal"}

(* What a framed step cannot disturb. *)
LEMMA FramedStep ==
  ASSUME IInv, NEW t \in Threads, Frame(t)
  PROVE  /\ QueueInv' /\ TargetInv' /\ SleeperAccountedFor'
         /\ \A m \in Locks : Queued(m)' = Queued(m)
         /\ \A u \in Threads, m \in Locks : u # t => (Owns(u, m)' <=> Owns(u, m))
         /\ \A u \in Threads, m \in Locks : u # t => (Engaged(u, m)' <=> Engaged(u, m))
<1> USE NoneAssumption, BucketAssumption DEF IInv
<1>1. \A m \in Locks : Queued(m)' = Queued(m)
  BY DEF Frame, Queued
<1>2. \A c \in Buckets : \A i \in DOMAIN queue[c] : queue[c][i] \in Threads /\ queue[c][i] # t
  BY DEF Frame, QueueInv, TypeOK, ParkingTypeOK
<1>3. \A u \in Threads : target[u] # t /\ target[t] = None
  BY DEF Frame, TargetInv, TypeOK, LocalInv
<1>4. QueueInv'
  BY <1>2 DEF Frame, QueueInv
<1>5. TargetInv'
  BY <1>1, <1>3 DEF Frame, TargetInv, TypeOK
<1>6. SleeperAccountedFor'
  BY <1>1, <1>3 DEF Frame, SleeperAccountedFor
<1>7. \A u \in Threads, m \in Locks : u # t => (Owns(u, m)' <=> Owns(u, m))
  BY DEF Frame, Owns
<1>8. \A u \in Threads, m \in Locks : u # t => (Engaged(u, m)' <=> Engaged(u, m))
  BY <1>1 DEF Frame, Engaged
<1> QED
  BY <1>1, <1>4, <1>5, <1>6, <1>7, <1>8

(* A step that neither acquires nor releases: t stays engaged with its     *)
(* lock, owns it after the step if and only if it did before, and the      *)
(* byte gains at most the parked bit.                                      *)
Internal(t) ==
  /\ Frame(t)
  /\ \A m \in Locks : isHeldBit \in byte'[m] <=> isHeldBit \in byte[m]
  /\ \A m \in Locks : hasParkedBit \in byte[m] => hasParkedBit \in byte'[m]
  /\ \A m \in Locks : Owns(t, m)' <=> Owns(t, m)
  /\ pc[t] = "idle" \/ lk'[t] = lk[t]

(* A step that neither acquires nor releases keeps the lock's promises. *)
LEMMA InternalStep ==
  ASSUME IInv, NEW t \in Threads, Internal(t)
  PROVE  /\ QueueInv' /\ TargetInv' /\ SleeperAccountedFor'
         /\ MutualExclusion' /\ ParkedBitCoversQueue' /\ NoStrandedThread'
<1> USE NoneAssumption DEF IInv
<1>1. Frame(t)
  BY DEF Internal
<1>2. MutualExclusion'
  BY <1>1, FramedStep DEF Internal, MutualExclusion
<1>3. ParkedBitCoversQueue'
  BY <1>1, FramedStep DEF Internal, ParkedBitCoversQueue
<1>4. \A m \in Locks : Engaged(t, m) => Engaged(t, m)'
  BY DEF Internal, Frame, Engaged, LocalInv
<1>5. NoStrandedThread'
  BY <1>1, <1>4, FramedStep DEF NoStrandedThread
<1> QED
  BY <1>1, <1>2, <1>3, <1>5, FramedStep

(* t, which owned nothing, takes the free lock L. *)
Acquisition(t, L) ==
  /\ Frame(t)
  /\ isHeldBit \notin byte[L]
  /\ \A m \in Locks : isHeldBit \in byte'[m] <=> isHeldBit \in byte[m] \/ m = L
  /\ \A m \in Locks : hasParkedBit \in byte[m] => hasParkedBit \in byte'[m]
  /\ pc[t] \in {"idle", "relock", "barge"} /\ pc'[t] = "locked"
  /\ lk[t] \in {None, L} /\ lk'[t] = L

(* Taking a free lock keeps the lock's promises. *)
LEMMA AcquisitionStep ==
  ASSUME IInv, NEW t \in Threads, NEW L \in Locks, Acquisition(t, L)
  PROVE  /\ QueueInv' /\ TargetInv' /\ SleeperAccountedFor'
         /\ MutualExclusion' /\ ParkedBitCoversQueue' /\ NoStrandedThread'
<1> USE NoneAssumption DEF IInv
<1>1. Frame(t)
  BY DEF Acquisition
<1>2. \A m \in Locks : ~Owns(t, m) /\ (Owns(t, m)' <=> m = L)
  BY DEF Acquisition, Owns
<1>3. MutualExclusion'
  BY <1>1, <1>2, FramedStep DEF Acquisition, MutualExclusion
<1>4. ParkedBitCoversQueue'
  BY <1>1, FramedStep DEF Acquisition, ParkedBitCoversQueue
<1>5. \A m \in Locks : Engaged(t, m) => Engaged(t, m)'
  BY DEF Acquisition, Engaged
<1>6. NoStrandedThread'
  BY <1>1, <1>5, FramedStep DEF NoStrandedThread
<1> QED
  BY <1>1, <1>3, <1>4, <1>6, FramedStep

(* The owner t of L frees it while the parked bit is clear. *)
FastRelease(t, L) ==
  /\ Frame(t)
  /\ hasParkedBit \notin byte[L]
  /\ \A m \in Locks : isHeldBit \in byte'[m] <=> isHeldBit \in byte[m] /\ m # L
  /\ \A m \in Locks : hasParkedBit \in byte[m] => hasParkedBit \in byte'[m]
  /\ pc[t] \in {"locked", "unlockCAS"} /\ pc'[t] \in {"idle", "relock"}
  /\ lk[t] = L

(* Freeing a lock whose parked bit is clear strands nobody: nobody is      *)
(* queued on it.                                                           *)
LEMMA FastReleaseStep ==
  ASSUME IInv, NEW t \in Threads, NEW L \in Locks, FastRelease(t, L)
  PROVE  /\ QueueInv' /\ TargetInv' /\ SleeperAccountedFor'
         /\ MutualExclusion' /\ ParkedBitCoversQueue' /\ NoStrandedThread'
<1> USE NoneAssumption DEF IInv
<1>1. Frame(t)
  BY DEF FastRelease
<1>2. \A m \in Locks : (Owns(t, m) <=> m = L) /\ ~Owns(t, m)'
  BY DEF FastRelease, Owns
<1>3. MutualExclusion'
  BY <1>1, <1>2, FramedStep DEF FastRelease, MutualExclusion
<1>4. ParkedBitCoversQueue'
  BY <1>1, FramedStep DEF FastRelease, ParkedBitCoversQueue
<1>5. Queued(L) = {} /\ \A m \in Locks : Engaged(t, m) => m = L
  BY DEF FastRelease, ParkedBitCoversQueue, Engaged
<1>6. NoStrandedThread'
  BY <1>1, <1>5, FramedStep DEF NoStrandedThread
<1> QED
  BY <1>1, <1>3, <1>4, <1>6, FramedStep

-----------------------------------------------------------------------------
(* lock() on the fast path: t becomes the owner of a free lock. *)
LEMMA LockFastPreserves ==
  ASSUME IInv, NEW t \in Threads, NEW l \in Locks, LockFast(t, l)
  PROVE  IInv'
<1> USE BucketAssumption, NoneAssumption, SpinAssumption DEF IInv
<1>lock. lk[t] = None
  BY DEF LocalInv, LockFast
<1>type. TypeOK'
  BY <1>lock DEF TypeOK, ParkingTypeOK, Token, PC, DirectHandoff, BargingOpportunity,
     isHeldBit, hasParkedBit, mask, LockFast, CASSucceeds, Goto, parkingVars
<1>local. LocalInv'
  BY <1>lock DEF TypeOK, ParkingTypeOK, LocalInv, DirectHandoff, BargingOpportunity,
     isHeldBit, hasParkedBit, mask, LockFast, CASSucceeds, Goto, parkingVars
<1>bucket. BucketInv'
  BY <1>lock DEF TypeOK, ParkingTypeOK, LocalInv, BucketInv, LockFast, CASSucceeds,
     Goto, parkingVars
<1>others. \A m \in Locks : m # l => byte'[m] = byte[m]
  BY <1>lock DEF TypeOK, LockFast, CASSucceeds
<1>clear. hasParkedBit \notin byte[l]
  BY <1>lock DEF LocalInv, isHeldBit, hasParkedBit, LockFast, CASSucceeds
<1>moves. /\ pc'[t] \notin {"unpark", "dequeue", "callback", "enqueue"}
          /\ \A u \in Threads : u # t => pc'[u] = pc[u] /\ lk'[u] = lk[u]
  BY DEF TypeOK, LockFast, Goto
<1>byte. ByteInv'
  BY <1>lock, <1>others, <1>clear, <1>moves DEF TypeOK, LocalInv, ByteInv, mask
<1>frame. Frame(t)
  BY <1>lock DEF TypeOK, ParkingTypeOK, LocalInv, Frame, LockFast, CASSucceeds, Goto,
     parkingVars
<1>acquisition. Acquisition(t, l)
  BY <1>lock, <1>frame DEF TypeOK, ParkingTypeOK, LocalInv, Acquisition, isHeldBit,
     hasParkedBit, mask, LockFast, CASSucceeds, Goto, parkingVars
<1> QED
  BY <1>type, <1>local, <1>bucket, <1>byte, <1>acquisition, AcquisitionStep

(* lock() enters lockSlow without touching the byte. *)
LEMMA LockFastFailsPreserves ==
  ASSUME IInv, NEW t \in Threads, NEW l \in Locks, LockFastFails(t, l)
  PROVE  IInv'
<1> USE BucketAssumption, NoneAssumption, SpinAssumption DEF IInv
<1>lock. lk[t] = None
  BY DEF LocalInv, LockFastFails
<1>type. TypeOK'
  BY <1>lock DEF TypeOK, ParkingTypeOK, Token, PC, DirectHandoff, BargingOpportunity,
     isHeldBit, hasParkedBit, mask, LockFastFails, CASFails, Goto, parkingVars
<1>local. LocalInv'
  BY <1>lock DEF TypeOK, ParkingTypeOK, LocalInv, DirectHandoff, BargingOpportunity,
     isHeldBit, hasParkedBit, mask, LockFastFails, CASFails, Goto, parkingVars
<1>bucket. BucketInv'
  BY <1>lock DEF TypeOK, ParkingTypeOK, LocalInv, BucketInv, LockFastFails, CASFails,
     Goto, parkingVars
<1>byte. ByteInv'
  BY <1>lock DEF TypeOK, ParkingTypeOK, LocalInv, ByteInv, isHeldBit, hasParkedBit,
     mask, LockFastFails, CASFails, Goto, parkingVars
<1>frame. Frame(t)
  BY <1>lock DEF TypeOK, ParkingTypeOK, LocalInv, Frame, LockFastFails, CASFails,
     Goto, parkingVars
<1>internal. Internal(t)
  BY <1>lock, <1>frame DEF TypeOK, ParkingTypeOK, LocalInv, Internal, Owns,
     DirectHandoff, BargingOpportunity, isHeldBit, hasParkedBit, mask, LockFastFails,
     CASFails, Goto, parkingVars
<1> QED
  BY <1>type, <1>local, <1>bucket, <1>byte, <1>internal, InternalStep

(* tryLock() that succeeds, whether or not the parked bit is set. *)
LEMMA TryLockPreserves ==
  ASSUME IInv, NEW t \in Threads, NEW l \in Locks, TryLock(t, l)
  PROVE  IInv'
<1> USE BucketAssumption, NoneAssumption, SpinAssumption DEF IInv
<1>lock. lk[t] = None
  BY DEF LocalInv, TryLock
<1>type. TypeOK'
  BY <1>lock DEF TypeOK, ParkingTypeOK, Token, PC, DirectHandoff, BargingOpportunity,
     isHeldBit, hasParkedBit, mask, TryLock, Goto, parkingVars
<1>local. LocalInv'
  BY <1>lock DEF TypeOK, ParkingTypeOK, LocalInv, DirectHandoff, BargingOpportunity,
     isHeldBit, hasParkedBit, mask, TryLock, Goto, parkingVars
<1>bucket. BucketInv'
  BY <1>lock DEF TypeOK, ParkingTypeOK, LocalInv, BucketInv, TryLock, Goto, parkingVars
<1>byte. ByteInv'
  BY <1>lock DEF TypeOK, ParkingTypeOK, LocalInv, ByteInv, isHeldBit, hasParkedBit,
     mask, TryLock, Goto, parkingVars
<1>frame. Frame(t)
  BY <1>lock DEF TypeOK, ParkingTypeOK, LocalInv, Frame, TryLock, Goto, parkingVars
<1>acquisition. Acquisition(t, l)
  BY <1>lock, <1>frame DEF TypeOK, ParkingTypeOK, LocalInv, Acquisition, isHeldBit,
     hasParkedBit, mask, TryLock, Goto, parkingVars
<1> QED
  BY <1>type, <1>local, <1>bucket, <1>byte, <1>acquisition, AcquisitionStep

(* safepointSlow reacquires the lock on the fast path. *)
LEMMA RelockFastPreserves ==
  ASSUME IInv, NEW t \in Threads, RelockFast(t)
  PROVE  IInv'
<1> USE BucketAssumption, NoneAssumption, SpinAssumption DEF IInv
<1>lock. PICK L \in Locks : L = lk[t]
  BY DEF TypeOK, ParkingTypeOK, LocalInv, RelockFast
<1>type. TypeOK'
  BY <1>lock DEF TypeOK, ParkingTypeOK, Token, PC, DirectHandoff, BargingOpportunity,
     isHeldBit, hasParkedBit, mask, RelockFast, Goto, parkingVars
<1>local. LocalInv'
  BY <1>lock DEF TypeOK, ParkingTypeOK, LocalInv, DirectHandoff, BargingOpportunity,
     isHeldBit, hasParkedBit, mask, RelockFast, Goto, parkingVars
<1>bucket. BucketInv'
  BY <1>lock DEF TypeOK, ParkingTypeOK, LocalInv, BucketInv, RelockFast, Goto,
     parkingVars
<1>byte. ByteInv'
  BY <1>lock DEF TypeOK, ParkingTypeOK, LocalInv, ByteInv, isHeldBit, hasParkedBit,
     mask, RelockFast, Goto, parkingVars
<1>frame. Frame(t)
  BY <1>lock DEF TypeOK, ParkingTypeOK, LocalInv, Frame, RelockFast, Goto, parkingVars
<1>acquisition. Acquisition(t, L)
  BY <1>lock, <1>frame DEF TypeOK, ParkingTypeOK, LocalInv, Acquisition, isHeldBit,
     hasParkedBit, mask, RelockFast, Goto, parkingVars
<1> QED
  BY <1>type, <1>local, <1>bucket, <1>byte, <1>acquisition, AcquisitionStep

(* safepointSlow enters lockSlow. *)
LEMMA RelockFastFailsPreserves ==
  ASSUME IInv, NEW t \in Threads, RelockFastFails(t)
  PROVE  IInv'
<1> USE BucketAssumption, NoneAssumption, SpinAssumption DEF IInv
<1>lock. PICK L \in Locks : L = lk[t]
  BY DEF TypeOK, ParkingTypeOK, LocalInv, RelockFastFails
<1>type. TypeOK'
  BY <1>lock DEF TypeOK, ParkingTypeOK, Token, PC, DirectHandoff, BargingOpportunity,
     isHeldBit, hasParkedBit, mask, RelockFastFails, Goto, parkingVars
<1>local. LocalInv'
  BY <1>lock DEF TypeOK, ParkingTypeOK, LocalInv, DirectHandoff, BargingOpportunity,
     isHeldBit, hasParkedBit, mask, RelockFastFails, Goto, parkingVars
<1>bucket. BucketInv'
  BY <1>lock DEF TypeOK, ParkingTypeOK, LocalInv, BucketInv, RelockFastFails, Goto,
     parkingVars
<1>byte. ByteInv'
  BY <1>lock DEF TypeOK, ParkingTypeOK, LocalInv, ByteInv, isHeldBit, hasParkedBit,
     mask, RelockFastFails, Goto, parkingVars
<1>frame. Frame(t)
  BY <1>lock DEF TypeOK, ParkingTypeOK, LocalInv, Frame, RelockFastFails, Goto,
     parkingVars
<1>internal. Internal(t)
  BY <1>lock, <1>frame DEF TypeOK, ParkingTypeOK, LocalInv, Internal, Owns,
     DirectHandoff, BargingOpportunity, isHeldBit, hasParkedBit, mask,
     RelockFastFails, Goto, parkingVars
<1> QED
  BY <1>type, <1>local, <1>bucket, <1>byte, <1>internal, InternalStep

(* lockSlow loads the byte and branches on it. *)
LEMMA SlowLoadPreserves ==
  ASSUME IInv, NEW t \in Threads, SlowLoad(t)
  PROVE  IInv'
<1> USE BucketAssumption, NoneAssumption, SpinAssumption DEF IInv
<1>lock. PICK L \in Locks : L = lk[t]
  BY DEF TypeOK, ParkingTypeOK, LocalInv, SlowLoad
<1>type. TypeOK'
  BY <1>lock DEF TypeOK, ParkingTypeOK, Token, PC, DirectHandoff, BargingOpportunity,
     isHeldBit, hasParkedBit, mask, SlowLoad, AfterLoad, MaySpin, Goto, parkingVars
<1>local. LocalInv'
  BY <1>lock DEF TypeOK, ParkingTypeOK, LocalInv, DirectHandoff, BargingOpportunity,
     isHeldBit, hasParkedBit, mask, SlowLoad, AfterLoad, MaySpin, Goto, parkingVars
<1>bucket. BucketInv'
  BY <1>lock DEF TypeOK, ParkingTypeOK, LocalInv, BucketInv, SlowLoad, AfterLoad,
     MaySpin, Goto, parkingVars
<1>byte. ByteInv'
  BY <1>lock DEF TypeOK, ParkingTypeOK, LocalInv, ByteInv, isHeldBit, hasParkedBit,
     mask, SlowLoad, AfterLoad, MaySpin, Goto, parkingVars
<1>frame. Frame(t)
  BY <1>lock DEF TypeOK, ParkingTypeOK, LocalInv, Frame, SlowLoad, AfterLoad, MaySpin,
     Goto, parkingVars
<1>internal. Internal(t)
  BY <1>lock, <1>frame DEF TypeOK, ParkingTypeOK, LocalInv, Internal, Owns,
     DirectHandoff, BargingOpportunity, isHeldBit, hasParkedBit, mask, SlowLoad,
     AfterLoad, MaySpin, Goto, parkingVars
<1> QED
  BY <1>type, <1>local, <1>bucket, <1>byte, <1>internal, InternalStep

(* lockSlow barges in on a free lock. *)
LEMMA BargePreserves ==
  ASSUME IInv, NEW t \in Threads, Barge(t)
  PROVE  IInv'
<1> USE BucketAssumption, NoneAssumption, SpinAssumption DEF IInv
<1>lock. PICK L \in Locks : L = lk[t]
  BY DEF TypeOK, ParkingTypeOK, LocalInv, Barge
<1>type. TypeOK'
  BY <1>lock DEF TypeOK, ParkingTypeOK, Token, PC, DirectHandoff, BargingOpportunity,
     isHeldBit, hasParkedBit, mask, Barge, BargeExpects, CASSucceeds, Goto,
     parkingVars
<1>local. LocalInv'
  BY <1>lock DEF TypeOK, ParkingTypeOK, LocalInv, DirectHandoff, BargingOpportunity,
     isHeldBit, hasParkedBit, mask, Barge, BargeExpects, CASSucceeds, Goto,
     parkingVars
<1>bucket. BucketInv'
  BY <1>lock DEF TypeOK, ParkingTypeOK, LocalInv, BucketInv, Barge, BargeExpects,
     CASSucceeds, Goto, parkingVars
<1>byte. ByteInv'
  BY <1>lock DEF TypeOK, ParkingTypeOK, LocalInv, ByteInv, isHeldBit, hasParkedBit,
     mask, Barge, BargeExpects, CASSucceeds, Goto, parkingVars
<1>frame. Frame(t)
  BY <1>lock DEF TypeOK, ParkingTypeOK, LocalInv, Frame, Barge, BargeExpects,
     CASSucceeds, Goto, parkingVars
<1>acquisition. Acquisition(t, L)
  BY <1>lock, <1>frame DEF TypeOK, ParkingTypeOK, LocalInv, Acquisition, isHeldBit,
     hasParkedBit, mask, Barge, BargeExpects, CASSucceeds, Goto, parkingVars
<1> QED
  BY <1>type, <1>local, <1>bucket, <1>byte, <1>acquisition, AcquisitionStep

(* The exchange of a barging thread fails. *)
LEMMA BargeFailsPreserves ==
  ASSUME IInv, NEW t \in Threads, BargeFails(t)
  PROVE  IInv'
<1> USE BucketAssumption, NoneAssumption, SpinAssumption DEF IInv
<1>lock. PICK L \in Locks : L = lk[t]
  BY DEF TypeOK, ParkingTypeOK, LocalInv, BargeFails
<1>type. TypeOK'
  BY <1>lock DEF TypeOK, ParkingTypeOK, Token, PC, DirectHandoff, BargingOpportunity,
     isHeldBit, hasParkedBit, mask, BargeFails, CASFails, Goto, parkingVars
<1>local. LocalInv'
  BY <1>lock DEF TypeOK, ParkingTypeOK, LocalInv, DirectHandoff, BargingOpportunity,
     isHeldBit, hasParkedBit, mask, BargeFails, CASFails, Goto, parkingVars
<1>bucket. BucketInv'
  BY <1>lock DEF TypeOK, ParkingTypeOK, LocalInv, BucketInv, BargeFails, CASFails,
     Goto, parkingVars
<1>byte. ByteInv'
  BY <1>lock DEF TypeOK, ParkingTypeOK, LocalInv, ByteInv, isHeldBit, hasParkedBit,
     mask, BargeFails, CASFails, Goto, parkingVars
<1>frame. Frame(t)
  BY <1>lock DEF TypeOK, ParkingTypeOK, LocalInv, Frame, BargeFails, CASFails, Goto,
     parkingVars
<1>internal. Internal(t)
  BY <1>lock, <1>frame DEF TypeOK, ParkingTypeOK, LocalInv, Internal, Owns,
     DirectHandoff, BargingOpportunity, isHeldBit, hasParkedBit, mask, BargeFails,
     CASFails, Goto, parkingVars
<1> QED
  BY <1>type, <1>local, <1>bucket, <1>byte, <1>internal, InternalStep

(* lockSlow sets the parked bit of a held lock. *)
LEMMA SetParkedPreserves ==
  ASSUME IInv, NEW t \in Threads, SetParked(t)
  PROVE  IInv'
<1> USE BucketAssumption, NoneAssumption, SpinAssumption DEF IInv
<1>lock. PICK L \in Locks : L = lk[t]
  BY DEF TypeOK, ParkingTypeOK, LocalInv, SetParked
<1>type. TypeOK'
  BY <1>lock DEF TypeOK, ParkingTypeOK, Token, PC, DirectHandoff, BargingOpportunity,
     isHeldBit, hasParkedBit, mask, SetParked, CASSucceeds, Goto, parkingVars
<1>local. LocalInv'
  BY <1>lock DEF TypeOK, ParkingTypeOK, LocalInv, DirectHandoff, BargingOpportunity,
     isHeldBit, hasParkedBit, mask, SetParked, CASSucceeds, Goto, parkingVars
<1>bucket. BucketInv'
  BY <1>lock DEF TypeOK, ParkingTypeOK, LocalInv, BucketInv, SetParked, CASSucceeds,
     Goto, parkingVars
<1>byte. ByteInv'
  BY <1>lock DEF TypeOK, ParkingTypeOK, LocalInv, ByteInv, isHeldBit, hasParkedBit,
     mask, SetParked, CASSucceeds, Goto, parkingVars
<1>frame. Frame(t)
  BY <1>lock DEF TypeOK, ParkingTypeOK, LocalInv, Frame, SetParked, CASSucceeds, Goto,
     parkingVars
<1>internal. Internal(t)
  BY <1>lock, <1>frame DEF TypeOK, ParkingTypeOK, LocalInv, Internal, Owns,
     DirectHandoff, BargingOpportunity, isHeldBit, hasParkedBit, mask, SetParked,
     CASSucceeds, Goto, parkingVars
<1> QED
  BY <1>type, <1>local, <1>bucket, <1>byte, <1>internal, InternalStep

(* The exchange that sets the parked bit fails. *)
LEMMA SetParkedFailsPreserves ==
  ASSUME IInv, NEW t \in Threads, SetParkedFails(t)
  PROVE  IInv'
<1> USE BucketAssumption, NoneAssumption, SpinAssumption DEF IInv
<1>lock. PICK L \in Locks : L = lk[t]
  BY DEF TypeOK, ParkingTypeOK, LocalInv, SetParkedFails
<1>type. TypeOK'
  BY <1>lock DEF TypeOK, ParkingTypeOK, Token, PC, DirectHandoff, BargingOpportunity,
     isHeldBit, hasParkedBit, mask, SetParkedFails, CASFails, Goto, parkingVars
<1>local. LocalInv'
  BY <1>lock DEF TypeOK, ParkingTypeOK, LocalInv, DirectHandoff, BargingOpportunity,
     isHeldBit, hasParkedBit, mask, SetParkedFails, CASFails, Goto, parkingVars
<1>bucket. BucketInv'
  BY <1>lock DEF TypeOK, ParkingTypeOK, LocalInv, BucketInv, SetParkedFails, CASFails,
     Goto, parkingVars
<1>byte. ByteInv'
  BY <1>lock DEF TypeOK, ParkingTypeOK, LocalInv, ByteInv, isHeldBit, hasParkedBit,
     mask, SetParkedFails, CASFails, Goto, parkingVars
<1>frame. Frame(t)
  BY <1>lock DEF TypeOK, ParkingTypeOK, LocalInv, Frame, SetParkedFails, CASFails,
     Goto, parkingVars
<1>internal. Internal(t)
  BY <1>lock, <1>frame DEF TypeOK, ParkingTypeOK, LocalInv, Internal, Owns,
     DirectHandoff, BargingOpportunity, isHeldBit, hasParkedBit, mask, SetParkedFails,
     CASFails, Goto, parkingVars
<1> QED
  BY <1>type, <1>local, <1>bucket, <1>byte, <1>internal, InternalStep

(* A parking thread takes the bucket lock. *)
LEMMA ParkPreserves ==
  ASSUME IInv, NEW t \in Threads, Park(t)
  PROVE  IInv'
<1> USE BucketAssumption, NoneAssumption, SpinAssumption DEF IInv
<1>lock. PICK L \in Locks : L = lk[t]
  BY DEF TypeOK, ParkingTypeOK, LocalInv, Park
<1>type. TypeOK'
  BY <1>lock DEF TypeOK, ParkingTypeOK, Token, PC, DirectHandoff, BargingOpportunity,
     isHeldBit, hasParkedBit, mask, Park, ParkLockBucket, Goto
<1>local. LocalInv'
  BY <1>lock DEF TypeOK, ParkingTypeOK, LocalInv, DirectHandoff, BargingOpportunity,
     isHeldBit, hasParkedBit, mask, Park, ParkLockBucket, Goto
<1>bucket. BucketInv'
  BY <1>lock DEF TypeOK, ParkingTypeOK, LocalInv, BucketInv, Park, ParkLockBucket, Goto
<1>byte. ByteInv'
  BY <1>lock DEF TypeOK, ParkingTypeOK, LocalInv, ByteInv, isHeldBit, hasParkedBit,
     mask, Park, ParkLockBucket, Goto
<1>frame. Frame(t)
  BY <1>lock DEF TypeOK, ParkingTypeOK, LocalInv, Frame, Park, ParkLockBucket, Goto
<1>internal. Internal(t)
  BY <1>lock, <1>frame DEF TypeOK, ParkingTypeOK, LocalInv, Internal, Owns,
     DirectHandoff, BargingOpportunity, isHeldBit, hasParkedBit, mask, Park,
     ParkLockBucket, Goto
<1> QED
  BY <1>type, <1>local, <1>bucket, <1>byte, <1>internal, InternalStep

(* compareAndPark finds the byte unchanged: from here to the enqueue, the
   holder cannot release the lock. *)
LEMMA ValidatePreserves ==
  ASSUME IInv, NEW t \in Threads, Validate(t)
  PROVE  IInv'
<1> USE BucketAssumption, NoneAssumption, SpinAssumption DEF IInv, parkingVars
<1>lock. lk[t] \in Locks
  BY DEF TypeOK, ParkingTypeOK, LocalInv, Validate
<1>type. TypeOK'
  BY <1>lock DEF TypeOK, ParkingTypeOK, Token, PC, DirectHandoff, BargingOpportunity,
     isHeldBit, hasParkedBit, mask, Validate, Validation, ParkSetAddress, Goto
<1>local. LocalInv'
  BY <1>lock DEF TypeOK, ParkingTypeOK, LocalInv, TargetInv, DirectHandoff,
     BargingOpportunity, isHeldBit, hasParkedBit, mask, Validate, Validation,
     ParkSetAddress, Goto
<1>bucket. BucketInv'
  BY <1>lock DEF TypeOK, ParkingTypeOK, LocalInv, BucketInv, Validate, Validation,
     ParkSetAddress, Goto
<1>queued. \A m \in Locks : Queued(m)' = Queued(m)
  BY <1>lock DEF TypeOK, ParkingTypeOK, LocalInv, QueueInv, Queued, Validate,
     Validation, ParkSetAddress, Goto
<1>owns. \A u \in Threads, m \in Locks : Owns(u, m)' <=> Owns(u, m)
  BY <1>lock DEF TypeOK, ParkingTypeOK, LocalInv, Owns, DirectHandoff,
     BargingOpportunity, Validate, Validation, ParkSetAddress, Goto
<1>bits. /\ \A m \in Locks : isHeldBit \in byte'[m] <=> isHeldBit \in byte[m]
         /\ \A m \in Locks : hasParkedBit \in byte[m] => hasParkedBit \in byte'[m]
  BY <1>lock DEF TypeOK, ParkingTypeOK, LocalInv, isHeldBit, hasParkedBit, mask,
     Validate, Validation, ParkSetAddress, Goto
<1>engaged. \A u \in Threads, m \in Locks : Engaged(u, m) => Engaged(u, m)'
  BY <1>queued, <1>lock DEF TypeOK, ParkingTypeOK, LocalInv, Engaged, Validate,
     Validation, ParkSetAddress, Goto
<1>byte. ByteInv'
  BY <1>lock, <1>owns, <1>bits DEF TypeOK, ParkingTypeOK, LocalInv, BucketInv,
     ByteInv, MutualExclusion, isHeldBit, hasParkedBit, mask, Validate, Validation,
     ParkSetAddress, Goto
<1>queue. QueueInv'
  BY <1>lock DEF TypeOK, ParkingTypeOK, LocalInv, QueueInv, TargetInv,
     SleeperAccountedFor, DirectHandoff, BargingOpportunity, Validate, Validation,
     ParkSetAddress, Goto
<1>target. TargetInv'
  BY <1>queued, <1>lock DEF TypeOK, ParkingTypeOK, LocalInv, BucketInv, TargetInv,
     QueueInv, SleeperAccountedFor, DirectHandoff, BargingOpportunity, Validate,
     Validation, ParkSetAddress, Goto
<1>mutex. MutualExclusion'
  BY <1>lock, <1>owns, <1>bits DEF MutualExclusion
<1>bit. ParkedBitCoversQueue'
  BY <1>queued, <1>bits DEF ParkedBitCoversQueue
<1>stranded. NoStrandedThread'
  BY <1>queued, <1>engaged DEF NoStrandedThread
<1>sleeper. SleeperAccountedFor'
  BY <1>lock, <1>queued DEF TypeOK, ParkingTypeOK, LocalInv, SleeperAccountedFor,
     TargetInv, Validate, Validation, ParkSetAddress, Goto
<1> QED
  BY <1>type, <1>local, <1>bucket, <1>byte, <1>queue, <1>target, <1>mutex, <1>bit,
     <1>stranded, <1>sleeper

(* compareAndPark finds the byte changed and does not park. *)
LEMMA ValidateFailsPreserves ==
  ASSUME IInv, NEW t \in Threads, ValidateFails(t)
  PROVE  IInv'
<1> USE BucketAssumption, NoneAssumption, SpinAssumption DEF IInv
<1>lock. PICK L \in Locks : L = lk[t]
  BY DEF TypeOK, ParkingTypeOK, LocalInv, ValidateFails
<1>type. TypeOK'
  BY <1>lock DEF TypeOK, ParkingTypeOK, Token, PC, DirectHandoff, BargingOpportunity,
     isHeldBit, hasParkedBit, mask, ValidateFails, ParkRefuse, Goto
<1>local. LocalInv'
  BY <1>lock DEF TypeOK, ParkingTypeOK, LocalInv, DirectHandoff, BargingOpportunity,
     isHeldBit, hasParkedBit, mask, ValidateFails, ParkRefuse, Goto
<1>bucket. BucketInv'
  BY <1>lock DEF TypeOK, ParkingTypeOK, LocalInv, BucketInv, ValidateFails,
     ParkRefuse, Goto
<1>byte. ByteInv'
  BY <1>lock DEF TypeOK, ParkingTypeOK, LocalInv, ByteInv, isHeldBit, hasParkedBit,
     mask, ValidateFails, ParkRefuse, Goto
<1>frame. Frame(t)
  BY <1>lock DEF TypeOK, ParkingTypeOK, LocalInv, Frame, ValidateFails, ParkRefuse, Goto
<1>internal. Internal(t)
  BY <1>lock, <1>frame DEF TypeOK, ParkingTypeOK, LocalInv, Internal, Owns,
     DirectHandoff, BargingOpportunity, isHeldBit, hasParkedBit, mask, ValidateFails,
     ParkRefuse, Goto
<1> QED
  BY <1>type, <1>local, <1>bucket, <1>byte, <1>internal, InternalStep

(* The thread joins the queue and sleeps; the lock still has an owner. *)
LEMMA EnqueuePreserves ==
  ASSUME IInv, NEW t \in Threads, Enqueue(t)
  PROVE  IInv'
<1> USE BucketAssumption, NoneAssumption, SpinAssumption DEF IInv
<1>lock. PICK L \in Locks : L = lk[t]
  BY DEF TypeOK, LocalInv, Enqueue
<1>bucketof. PICK b \in Buckets : b = BucketOf[L]
  OBVIOUS
<1>names. L = lk[t] /\ b = BucketOf[L]
  BY <1>lock, <1>bucketof
<1>queueAfter. /\ queue' \in [Buckets -> Seq(Threads)]
               /\ \A c \in Buckets : c # b => queue'[c] = queue[c]
               /\ DOMAIN queue'[b] = 1..(Len(queue[b]) + 1)
               /\ DOMAIN queue[b] = 1..Len(queue[b])
               /\ Len(queue[b]) \in Nat
               /\ \A i \in DOMAIN queue[b] : queue'[b][i] = queue[b][i]
               /\ queue'[b][Len(queue[b]) + 1] = t
  BY <1>names DEF TypeOK, ParkingTypeOK, Enqueue, ParkEnqueue
<1>notQueued. \A c \in Buckets : \A i \in DOMAIN queue[c] : queue[c][i] # t
  BY DEF QueueInv, Enqueue
<1>domain. \A i : i \in DOMAIN queue'[b] <=> i \in DOMAIN queue[b] \/ i = Len(queue[b]) + 1
  BY <1>queueAfter
<1>from. \A c \in Buckets : \A j \in DOMAIN queue'[c] :
           IF c = b /\ j = Len(queue[b]) + 1
           THEN queue'[c][j] = t
           ELSE j \in DOMAIN queue[c] /\ queue'[c][j] = queue[c][j]
  BY <1>queueAfter, <1>domain
<1>members. \A u \in Threads : (\E i \in DOMAIN queue'[b] : queue'[b][i] = u) <=>
                               (u = t \/ \E i \in DOMAIN queue[b] : queue[b][i] = u)
  BY <1>queueAfter, <1>domain
<1>queued. \A m \in Locks : \A u \in Threads : u \in Queued(m)' <=> u \in Queued(m) \/ (u = t /\ m = L)
  <2> SUFFICES ASSUME NEW m \in Locks, NEW u \in Threads
               PROVE  u \in Queued(m)' <=> u \in Queued(m) \/ (u = t /\ m = L)
    OBVIOUS
  <2>1. address' = address /\ address[t] = L
    BY <1>names DEF LocalInv, Enqueue, ParkEnqueue
  <2>2. CASE BucketOf[m] # b
    BY <1>names, <1>queueAfter, <2>1, <2>2 DEF Queued
  <2>3. CASE BucketOf[m] = b
    BY <1>names, <1>members, <2>1, <2>3 DEF Queued
  <2> QED
    BY <2>2, <2>3
<1>frame. /\ pc'[t] = "asleep" /\ \A u \in Threads : u # t => pc'[u] = pc[u]
          /\ lk' = lk /\ address' = address /\ token' = token /\ target' = target
  BY DEF TypeOK, Enqueue, ParkEnqueue, Goto
<1>type. TypeOK'
  BY <1>names, <1>queueAfter DEF TypeOK, ParkingTypeOK, PC, Enqueue, ParkEnqueue, Goto
<1>local. LocalInv'
  BY <1>names DEF TypeOK, ParkingTypeOK, LocalInv, Enqueue, ParkEnqueue, Goto
<1>bucket. BucketInv'
  BY <1>names DEF TypeOK, ParkingTypeOK, LocalInv, BucketInv, Enqueue, ParkEnqueue, Goto
<1>byte. ByteInv'
  BY <1>names DEF TypeOK, ParkingTypeOK, ByteInv, Enqueue, Goto
<1>queue. QueueInv'
  <2> SUFFICES ASSUME NEW c \in Buckets, NEW i \in DOMAIN queue'[c]
               PROVE  /\ pc'[queue'[c][i]] = "asleep"
                      /\ lk'[queue'[c][i]] # None
                      /\ address'[queue'[c][i]] = lk'[queue'[c][i]]
                      /\ BucketOf[lk'[queue'[c][i]]] = c
                      /\ token'[queue'[c][i]] = BargingOpportunity
                      /\ \A j \in DOMAIN queue'[c] : queue'[c][j] = queue'[c][i] => j = i
    BY DEF QueueInv
  <2>1. CASE c # b \/ i \in DOMAIN queue[b]
    <3>1. i \in DOMAIN queue[c] /\ queue'[c][i] = queue[c][i] /\ queue[c][i] \in Threads
      BY <1>queueAfter, <2>1 DEF TypeOK, ParkingTypeOK
    <3>2. \A j \in DOMAIN queue'[c] : queue'[c][j] = queue'[c][i] => j = i
      <4>1. \A j \in DOMAIN queue'[c] : queue'[c][j] # t => j \in DOMAIN queue[c] /\ queue'[c][j] = queue[c][j]
        BY <1>from
      <4>2. queue[c][i] # t
        BY <1>notQueued, <3>1
      <4> QED
        BY <3>1, <4>1, <4>2 DEF QueueInv
    <3>3. queue[c][i] # t
      BY <1>notQueued, <3>1
    <3> QED
      BY <1>frame, <3>1, <3>2, <3>3 DEF QueueInv
  <2>2. CASE c = b /\ i \notin DOMAIN queue[b]
    <3>1. i = Len(queue[b]) + 1 /\ queue'[c][i] = t
      BY <1>queueAfter, <2>2
    <3>2. \A j \in DOMAIN queue'[c] : queue'[c][j] = t => j = i
      BY <1>from, <1>notQueued, <2>2, <3>1
    <3>3. address[t] = lk[t] /\ token[t] = BargingOpportunity
      BY DEF LocalInv, Enqueue
    <3> QED
      BY <1>names, <1>frame, <2>2, <3>1, <3>2, <3>3
  <2> QED
    BY <2>1, <2>2
<1>target. TargetInv'
  <2>1. ASSUME NEW u \in Threads, NEW m \in Locks,
               pc'[u] = "callback", lk'[u] = m, target'[u] = None
        PROVE  Queued(m)' = {}
    <3>1. u # t /\ pc[u] = "callback" /\ lk[u] = m /\ target[u] = None
      BY <2>1 DEF TypeOK, Enqueue, Goto
    <3>2. bucketLock[BucketOf[m]] = u /\ bucketLock[b] = t
      BY <1>names, <3>1 DEF BucketInv, Enqueue
    <3>3. Queued(m) = {} /\ m # L
      BY <1>names, <3>1, <3>2 DEF TargetInv
    <3> QED
      BY <1>queued, <3>3 DEF Queued
  <2> QED
    BY <2>1, <1>names DEF TypeOK, ParkingTypeOK, TargetInv, Enqueue, ParkEnqueue, Goto
<1>owns. \A u \in Threads, m \in Locks : Owns(u, m)' <=> Owns(u, m)
  BY <1>names DEF TypeOK, ParkingTypeOK, LocalInv, Owns, DirectHandoff,
     BargingOpportunity, Enqueue, ParkEnqueue, Goto
<1>held. byte' = byte /\ byte[L] = mask
  BY <1>names DEF ByteInv, Enqueue
<1>mutex. MutualExclusion'
  BY <1>owns, <1>held DEF MutualExclusion
<1>bit. ParkedBitCoversQueue'
  BY <1>queued, <1>held DEF ParkedBitCoversQueue, Queued, mask
<1>stranded. NoStrandedThread'
  <2>1. PICK w \in Threads : Owns(w, L)
    BY <1>names, <1>held DEF MutualExclusion, mask
  <2>2. Engaged(w, L)'
    BY <1>names, <1>owns, <2>1 DEF Owns, Engaged
  <2>3. \A u \in Threads, m \in Locks : m # L /\ Engaged(u, m) => Engaged(u, m)'
    BY <1>queued, <1>names DEF TypeOK, ParkingTypeOK, Engaged, Enqueue, ParkEnqueue,
       Goto
  <2> QED
    BY <1>queued, <2>1, <2>2, <2>3 DEF NoStrandedThread, Queued
<1>sleeper. SleeperAccountedFor'
  <2>1. ASSUME NEW u \in Threads, NEW m \in Locks,
               pc'[u] = "asleep", lk'[u] = m, address'[u] # None
        PROVE  u \in Queued(m)' \/ \E w \in Threads : target'[w] = u
    <3>0. lk' = lk /\ address' = address /\ target' = target
      BY DEF Enqueue, ParkEnqueue
    <3>1. CASE u = t
      BY <1>queued, <1>names, <2>1, <3>0, <3>1
    <3>2. CASE u # t
      <4>1. pc[u] = "asleep"
        BY <2>1, <3>2 DEF TypeOK, Enqueue, Goto
      <4> QED
        BY <2>1, <3>0, <4>1, <1>queued DEF SleeperAccountedFor
    <3> QED
      BY <3>1, <3>2
  <2>2. ASSUME NEW u \in Threads, target'[u] # None
        PROVE  /\ \A w \in Threads : target'[w] = target'[u] => w = u
               /\ \A c \in Buckets : \A i \in DOMAIN queue'[c] : queue'[c][i] # target'[u]
    <3>1. target' = target /\ target[u] # t /\ target[u] \in Threads
      BY <2>2 DEF TypeOK, TargetInv, Enqueue
    <3>2. \A c \in Buckets : \A i \in DOMAIN queue[c] : queue[c][i] # target[u]
      BY <2>2, <3>1 DEF SleeperAccountedFor
    <3>3. \A c \in Buckets : \A i \in DOMAIN queue'[c] : queue'[c][i] # target[u]
      <4> SUFFICES ASSUME NEW c \in Buckets, NEW i \in DOMAIN queue'[c]
                   PROVE  queue'[c][i] # target[u]
        OBVIOUS
      <4>1. CASE c = b
        BY <1>members, <3>1, <3>2, <4>1
      <4>2. CASE c # b
        BY <1>queueAfter, <3>2, <4>2
      <4> QED
        BY <4>1, <4>2
    <3> QED
      BY <2>2, <3>1, <3>3 DEF SleeperAccountedFor
  <2> QED
    BY <2>1, <2>2 DEF SleeperAccountedFor
<1> QED
  BY <1>type, <1>local, <1>bucket, <1>byte, <1>queue, <1>target, <1>mutex, <1>bit,
     <1>stranded, <1>sleeper

(* An unparked thread runs again, as the owner or as a contender. *)
LEMMA WakePreserves ==
  ASSUME IInv, NEW t \in Threads, Wake(t)
  PROVE  IInv'
<1> USE BucketAssumption, NoneAssumption, SpinAssumption DEF IInv
<1>lock. PICK L \in Locks : L = lk[t]
  BY DEF TypeOK, ParkingTypeOK, LocalInv, Wake
<1>type. TypeOK'
  BY <1>lock DEF TypeOK, ParkingTypeOK, Token, PC, DirectHandoff, BargingOpportunity,
     isHeldBit, hasParkedBit, mask, Wake, LockWasHandedOver, Goto, parkingVars
<1>local. LocalInv'
  BY <1>lock DEF TypeOK, ParkingTypeOK, LocalInv, DirectHandoff, BargingOpportunity,
     isHeldBit, hasParkedBit, mask, Wake, LockWasHandedOver, Goto, parkingVars
<1>bucket. BucketInv'
  BY <1>lock DEF TypeOK, ParkingTypeOK, LocalInv, BucketInv, Wake, LockWasHandedOver,
     Goto, parkingVars
<1>byte. ByteInv'
  BY <1>lock DEF TypeOK, ParkingTypeOK, LocalInv, ByteInv, isHeldBit, hasParkedBit,
     mask, Wake, LockWasHandedOver, Goto, parkingVars
<1>frame. Frame(t)
  BY <1>lock DEF TypeOK, ParkingTypeOK, LocalInv, Frame, Wake, LockWasHandedOver,
     Goto, parkingVars
<1>internal. Internal(t)
  BY <1>lock, <1>frame DEF TypeOK, ParkingTypeOK, LocalInv, Internal, Owns,
     DirectHandoff, BargingOpportunity, isHeldBit, hasParkedBit, mask, Wake,
     LockWasHandedOver, Goto, parkingVars
<1> QED
  BY <1>type, <1>local, <1>bucket, <1>byte, <1>internal, InternalStep

(* unlock() on the fast path: no parked bit, so nobody is queued. *)
LEMMA UnlockFastPreserves ==
  ASSUME IInv, NEW t \in Threads, UnlockFast(t)
  PROVE  IInv'
<1> USE BucketAssumption, NoneAssumption, SpinAssumption DEF IInv
<1>lock. PICK L \in Locks : L = lk[t]
  BY DEF TypeOK, ParkingTypeOK, LocalInv, UnlockFast
<1>type. TypeOK'
  BY <1>lock DEF TypeOK, ParkingTypeOK, Token, PC, DirectHandoff, BargingOpportunity,
     isHeldBit, hasParkedBit, mask, UnlockFast, CASSucceeds, UnlockReturns, Goto,
     parkingVars
<1>local. LocalInv'
  BY <1>lock DEF TypeOK, ParkingTypeOK, LocalInv, DirectHandoff, BargingOpportunity,
     isHeldBit, hasParkedBit, mask, UnlockFast, CASSucceeds, UnlockReturns, Goto,
     parkingVars
<1>bucket. BucketInv'
  BY <1>lock DEF TypeOK, ParkingTypeOK, LocalInv, BucketInv, UnlockFast, CASSucceeds,
     UnlockReturns, Goto, parkingVars
<1>others. \A m \in Locks : m # L => byte'[m] = byte[m]
  BY <1>lock DEF TypeOK, UnlockFast, CASSucceeds
<1>clear. hasParkedBit \notin byte[L]
  BY <1>lock DEF LocalInv, isHeldBit, hasParkedBit, UnlockFast, CASSucceeds
<1>moves. /\ pc'[t] \notin {"unpark", "dequeue", "callback", "enqueue"}
          /\ \A u \in Threads : u # t => pc'[u] = pc[u] /\ lk'[u] = lk[u]
  BY DEF TypeOK, UnlockFast, UnlockReturns, Goto
<1>byte. ByteInv'
  BY <1>lock, <1>others, <1>clear, <1>moves DEF TypeOK, LocalInv, ByteInv, mask
<1>frame. Frame(t)
  BY <1>lock DEF TypeOK, ParkingTypeOK, LocalInv, Frame, UnlockFast, CASSucceeds,
     UnlockReturns, Goto, parkingVars
<1>release. FastRelease(t, L)
  BY <1>lock, <1>frame DEF TypeOK, ParkingTypeOK, LocalInv, FastRelease, isHeldBit,
     hasParkedBit, mask, UnlockFast, CASSucceeds, UnlockReturns, Goto, parkingVars
<1> QED
  BY <1>type, <1>local, <1>bucket, <1>byte, <1>release, FastReleaseStep

(* unlock() enters unlockSlow. *)
LEMMA UnlockFastFailsPreserves ==
  ASSUME IInv, NEW t \in Threads, UnlockFastFails(t)
  PROVE  IInv'
<1> USE BucketAssumption, NoneAssumption, SpinAssumption DEF IInv
<1>lock. PICK L \in Locks : L = lk[t]
  BY DEF TypeOK, ParkingTypeOK, LocalInv, UnlockFastFails
<1>type. TypeOK'
  BY <1>lock DEF TypeOK, ParkingTypeOK, Token, PC, DirectHandoff, BargingOpportunity,
     isHeldBit, hasParkedBit, mask, UnlockFastFails, CASFails, Goto, parkingVars
<1>local. LocalInv'
  BY <1>lock DEF TypeOK, ParkingTypeOK, LocalInv, DirectHandoff, BargingOpportunity,
     isHeldBit, hasParkedBit, mask, UnlockFastFails, CASFails, Goto, parkingVars
<1>bucket. BucketInv'
  BY <1>lock DEF TypeOK, ParkingTypeOK, LocalInv, BucketInv, UnlockFastFails,
     CASFails, Goto, parkingVars
<1>byte. ByteInv'
  BY <1>lock DEF TypeOK, ParkingTypeOK, LocalInv, ByteInv, isHeldBit, hasParkedBit,
     mask, UnlockFastFails, CASFails, Goto, parkingVars
<1>frame. Frame(t)
  BY <1>lock DEF TypeOK, ParkingTypeOK, LocalInv, Frame, UnlockFastFails, CASFails,
     Goto, parkingVars
<1>internal. Internal(t)
  BY <1>lock, <1>frame DEF TypeOK, ParkingTypeOK, LocalInv, Internal, Owns,
     DirectHandoff, BargingOpportunity, isHeldBit, hasParkedBit, mask,
     UnlockFastFails, CASFails, Goto, parkingVars
<1> QED
  BY <1>type, <1>local, <1>bucket, <1>byte, <1>internal, InternalStep

(* safepoint() starts its fair unlock. *)
LEMMA SafepointPreserves ==
  ASSUME IInv, NEW t \in Threads, Safepoint(t)
  PROVE  IInv'
<1> USE BucketAssumption, NoneAssumption, SpinAssumption DEF IInv
<1>lock. PICK L \in Locks : L = lk[t]
  BY DEF TypeOK, ParkingTypeOK, LocalInv, Safepoint
<1>type. TypeOK'
  BY <1>lock DEF TypeOK, ParkingTypeOK, Token, PC, DirectHandoff, BargingOpportunity,
     isHeldBit, hasParkedBit, mask, Safepoint, Goto, parkingVars
<1>local. LocalInv'
  BY <1>lock DEF TypeOK, ParkingTypeOK, LocalInv, DirectHandoff, BargingOpportunity,
     isHeldBit, hasParkedBit, mask, Safepoint, Goto, parkingVars
<1>bucket. BucketInv'
  BY <1>lock DEF TypeOK, ParkingTypeOK, LocalInv, BucketInv, Safepoint, Goto,
     parkingVars
<1>byte. ByteInv'
  BY <1>lock DEF TypeOK, ParkingTypeOK, LocalInv, ByteInv, isHeldBit, hasParkedBit,
     mask, Safepoint, Goto, parkingVars
<1>frame. Frame(t)
  BY <1>lock DEF TypeOK, ParkingTypeOK, LocalInv, Frame, Safepoint, Goto, parkingVars
<1>internal. Internal(t)
  BY <1>lock, <1>frame DEF TypeOK, ParkingTypeOK, LocalInv, Internal, Owns,
     DirectHandoff, BargingOpportunity, isHeldBit, hasParkedBit, mask, Safepoint,
     Goto, parkingVars
<1> QED
  BY <1>type, <1>local, <1>bucket, <1>byte, <1>internal, InternalStep

(* unlockSlow loads the byte. *)
LEMMA UnlockLoadPreserves ==
  ASSUME IInv, NEW t \in Threads, UnlockLoad(t)
  PROVE  IInv'
<1> USE BucketAssumption, NoneAssumption, SpinAssumption DEF IInv
<1>lock. PICK L \in Locks : L = lk[t]
  BY DEF TypeOK, ParkingTypeOK, LocalInv, UnlockLoad
<1>type. TypeOK'
  BY <1>lock DEF TypeOK, ParkingTypeOK, Token, PC, DirectHandoff, BargingOpportunity,
     isHeldBit, hasParkedBit, mask, UnlockLoad, Goto, parkingVars
<1>local. LocalInv'
  BY <1>lock DEF TypeOK, ParkingTypeOK, LocalInv, DirectHandoff, BargingOpportunity,
     isHeldBit, hasParkedBit, mask, UnlockLoad, Goto, parkingVars
<1>bucket. BucketInv'
  BY <1>lock DEF TypeOK, ParkingTypeOK, LocalInv, BucketInv, UnlockLoad, Goto,
     parkingVars
<1>loaded. byte[L] = {isHeldBit} \/ byte[L] = mask
  BY <1>lock DEF TypeOK, ParkingTypeOK, MutualExclusion, Owns, isHeldBit,
     hasParkedBit, mask, UnlockLoad
<1>byte. ByteInv'
  BY <1>lock, <1>loaded DEF TypeOK, ParkingTypeOK, LocalInv, ByteInv, UnlockLoad,
     Goto, parkingVars
<1>frame. Frame(t)
  BY <1>lock DEF TypeOK, ParkingTypeOK, LocalInv, Frame, UnlockLoad, Goto, parkingVars
<1>internal. Internal(t)
  BY <1>lock, <1>frame DEF TypeOK, ParkingTypeOK, LocalInv, Internal, Owns,
     DirectHandoff, BargingOpportunity, isHeldBit, hasParkedBit, mask, UnlockLoad,
     Goto, parkingVars
<1> QED
  BY <1>type, <1>local, <1>bucket, <1>byte, <1>internal, InternalStep

(* unlockSlow releases a lock on which nobody is parked. *)
LEMMA UnlockCASPreserves ==
  ASSUME IInv, NEW t \in Threads, UnlockCAS(t)
  PROVE  IInv'
<1> USE BucketAssumption, NoneAssumption, SpinAssumption DEF IInv
<1>lock. PICK L \in Locks : L = lk[t]
  BY DEF TypeOK, ParkingTypeOK, LocalInv, UnlockCAS
<1>type. TypeOK'
  BY <1>lock DEF TypeOK, ParkingTypeOK, Token, PC, DirectHandoff, BargingOpportunity,
     isHeldBit, hasParkedBit, mask, UnlockCAS, CASSucceeds, UnlockReturns, Goto,
     parkingVars
<1>local. LocalInv'
  BY <1>lock DEF TypeOK, ParkingTypeOK, LocalInv, DirectHandoff, BargingOpportunity,
     isHeldBit, hasParkedBit, mask, UnlockCAS, CASSucceeds, UnlockReturns, Goto,
     parkingVars
<1>bucket. BucketInv'
  BY <1>lock DEF TypeOK, ParkingTypeOK, LocalInv, BucketInv, UnlockCAS, CASSucceeds,
     UnlockReturns, Goto, parkingVars
<1>others. \A m \in Locks : m # L => byte'[m] = byte[m]
  BY <1>lock DEF TypeOK, UnlockCAS, CASSucceeds
<1>clear. hasParkedBit \notin byte[L]
  BY <1>lock DEF LocalInv, isHeldBit, hasParkedBit, UnlockCAS, CASSucceeds
<1>moves. /\ pc'[t] \notin {"unpark", "dequeue", "callback", "enqueue"}
          /\ \A u \in Threads : u # t => pc'[u] = pc[u] /\ lk'[u] = lk[u]
  BY DEF TypeOK, UnlockCAS, UnlockReturns, Goto
<1>byte. ByteInv'
  BY <1>lock, <1>others, <1>clear, <1>moves DEF TypeOK, LocalInv, ByteInv, mask
<1>frame. Frame(t)
  BY <1>lock DEF TypeOK, ParkingTypeOK, LocalInv, Frame, UnlockCAS, CASSucceeds,
     UnlockReturns, Goto, parkingVars
<1>release. FastRelease(t, L)
  BY <1>lock, <1>frame DEF TypeOK, ParkingTypeOK, LocalInv, FastRelease, isHeldBit,
     hasParkedBit, mask, UnlockCAS, CASSucceeds, UnlockReturns, Goto, parkingVars
<1> QED
  BY <1>type, <1>local, <1>bucket, <1>byte, <1>release, FastReleaseStep

(* The releasing exchange fails. *)
LEMMA UnlockCASFailsPreserves ==
  ASSUME IInv, NEW t \in Threads, UnlockCASFails(t)
  PROVE  IInv'
<1> USE BucketAssumption, NoneAssumption, SpinAssumption DEF IInv
<1>lock. PICK L \in Locks : L = lk[t]
  BY DEF TypeOK, ParkingTypeOK, LocalInv, UnlockCASFails
<1>type. TypeOK'
  BY <1>lock DEF TypeOK, ParkingTypeOK, Token, PC, DirectHandoff, BargingOpportunity,
     isHeldBit, hasParkedBit, mask, UnlockCASFails, CASFails, Goto, parkingVars
<1>local. LocalInv'
  BY <1>lock DEF TypeOK, ParkingTypeOK, LocalInv, DirectHandoff, BargingOpportunity,
     isHeldBit, hasParkedBit, mask, UnlockCASFails, CASFails, Goto, parkingVars
<1>bucket. BucketInv'
  BY <1>lock DEF TypeOK, ParkingTypeOK, LocalInv, BucketInv, UnlockCASFails, CASFails,
     Goto, parkingVars
<1>byte. ByteInv'
  BY <1>lock DEF TypeOK, ParkingTypeOK, LocalInv, ByteInv, isHeldBit, hasParkedBit,
     mask, UnlockCASFails, CASFails, Goto, parkingVars
<1>frame. Frame(t)
  BY <1>lock DEF TypeOK, ParkingTypeOK, LocalInv, Frame, UnlockCASFails, CASFails,
     Goto, parkingVars
<1>internal. Internal(t)
  BY <1>lock, <1>frame DEF TypeOK, ParkingTypeOK, LocalInv, Internal, Owns,
     DirectHandoff, BargingOpportunity, isHeldBit, hasParkedBit, mask, UnlockCASFails,
     CASFails, Goto, parkingVars
<1> QED
  BY <1>type, <1>local, <1>bucket, <1>byte, <1>internal, InternalStep

(* unparkOneImpl takes the bucket lock. *)
LEMMA UnparkPreserves ==
  ASSUME IInv, NEW t \in Threads, Unpark(t)
  PROVE  IInv'
<1> USE BucketAssumption, NoneAssumption, SpinAssumption DEF IInv
<1>lock. PICK L \in Locks : L = lk[t]
  BY DEF TypeOK, ParkingTypeOK, LocalInv, Unpark
<1>type. TypeOK'
  BY <1>lock DEF TypeOK, ParkingTypeOK, Token, PC, DirectHandoff, BargingOpportunity,
     isHeldBit, hasParkedBit, mask, Unpark, UnparkLockBucket, Goto
<1>local. LocalInv'
  BY <1>lock DEF TypeOK, ParkingTypeOK, LocalInv, DirectHandoff, BargingOpportunity,
     isHeldBit, hasParkedBit, mask, Unpark, UnparkLockBucket, Goto
<1>bucket. BucketInv'
  BY <1>lock DEF TypeOK, ParkingTypeOK, LocalInv, BucketInv, Unpark, UnparkLockBucket,
     Goto
<1>byte. ByteInv'
  BY <1>lock DEF TypeOK, ParkingTypeOK, LocalInv, ByteInv, isHeldBit, hasParkedBit,
     mask, Unpark, UnparkLockBucket, Goto
<1>frame. Frame(t)
  BY <1>lock DEF TypeOK, ParkingTypeOK, LocalInv, Frame, Unpark, UnparkLockBucket, Goto
<1>internal. Internal(t)
  BY <1>lock, <1>frame DEF TypeOK, ParkingTypeOK, LocalInv, Internal, Owns,
     DirectHandoff, BargingOpportunity, isHeldBit, hasParkedBit, mask, Unpark,
     UnparkLockBucket, Goto
<1> QED
  BY <1>type, <1>local, <1>bucket, <1>byte, <1>internal, InternalStep

(* unparkOneImpl removes the first thread parked on this lock. *)
LEMMA DequeuePreserves ==
  ASSUME IInv, NEW t \in Threads, Dequeue(t)
  PROVE  IInv'
<1> USE BucketAssumption, NoneAssumption, SpinAssumption DEF IInv
<1>lock. PICK L \in Locks : L = lk[t]
  BY DEF TypeOK, LocalInv, Dequeue
<1>bucketof. PICK b \in Buckets : b = BucketOf[L]
  OBVIOUS
<1>position. PICK i \in DOMAIN queue[b] : /\ DequeueAt(i, L)
                                          /\ target' = [target EXCEPT ![t] = queue[b][i]]
  BY <1>lock, <1>bucketof DEF Dequeue
<1>victim. PICK v \in Threads : v = queue[b][i]
  BY DEF TypeOK, ParkingTypeOK
<1>names. L = lk[t] /\ b = BucketOf[L] /\ v = queue[b][i]
  BY <1>lock, <1>bucketof, <1>victim
<1>range. queue[b] \in Seq(Threads) /\ i \in 1..Len(queue[b]) /\ Len(queue[b]) \in Nat
  BY DEF TypeOK, ParkingTypeOK
<1>parked. address[v] = L
  BY <1>position, <1>names DEF DequeueAt, FirstParkedOn, ParkedOn
<1>frame. /\ pc[t] = "dequeue" /\ pc'[t] = "callback"
          /\ \A u \in Threads : u # t => pc'[u] = pc[u]
          /\ lk' = lk /\ address' = address /\ token' = token /\ byte' = byte
          /\ bucketLock' = bucketLock /\ cur' = cur
  BY <1>position DEF TypeOK, Dequeue, DequeueAt, Goto
<1>queueAfter. /\ queue' \in [Buckets -> Seq(Threads)]
               /\ \A c \in Buckets : c # b => queue'[c] = queue[c]
               /\ queue'[b] = RemoveAt(queue[b], i)
  BY <1>position, <1>names, <1>range, RemoveAtProperties DEF TypeOK, ParkingTypeOK,
     DequeueAt
<1>domain. /\ DOMAIN queue'[b] = 1..(Len(queue[b]) - 1)
           /\ DOMAIN queue[b] = 1..Len(queue[b])
           /\ \A j \in 1..(Len(queue[b]) - 1) :
                queue'[b][j] = IF j < i THEN queue[b][j] ELSE queue[b][j + 1]
  <2>1. /\ RemoveAt(queue[b], i) \in Seq(Threads)
        /\ Len(RemoveAt(queue[b], i)) = Len(queue[b]) - 1
        /\ \A j \in 1..(Len(queue[b]) - 1) :
             RemoveAt(queue[b], i)[j] = IF j < i THEN queue[b][j] ELSE queue[b][j + 1]
    BY <1>range, RemoveAtProperties
  <2> QED
    BY <1>range, <1>queueAfter, <2>1
<1>distinct. \A j, k \in DOMAIN queue[b] : queue[b][j] = queue[b][k] => j = k
  BY DEF QueueInv
<1>from. \A j \in DOMAIN queue'[b] : \E k \in DOMAIN queue[b] :
           queue'[b][j] = queue[b][k] /\ k # i /\ k = IF j < i THEN j ELSE j + 1
  BY <1>range, <1>domain
<1>kept. \A k \in DOMAIN queue[b] : k # i => \E j \in DOMAIN queue'[b] : queue'[b][j] = queue[b][k]
  <2> SUFFICES ASSUME NEW k \in DOMAIN queue[b], k # i
               PROVE  \E j \in DOMAIN queue'[b] : queue'[b][j] = queue[b][k]
    OBVIOUS
  <2>1. CASE k < i
    BY <1>range, <1>domain, <2>1
  <2>2. CASE k > i
    <3>1. k - 1 \in DOMAIN queue'[b] /\ queue'[b][k - 1] = queue[b][k]
      BY <1>range, <1>domain, <2>2
    <3> QED
      BY <3>1
  <2> QED
    BY <1>range, <1>domain, <2>1, <2>2
<1>members. \A u \in Threads : (\E j \in DOMAIN queue'[b] : queue'[b][j] = u) <=>
                               (u # v /\ \E k \in DOMAIN queue[b] : queue[b][k] = u)
  BY <1>names, <1>distinct, <1>from, <1>kept
<1>queued. \A m \in Locks : \A u \in Threads : u \in Queued(m)' <=> u \in Queued(m) /\ u # v
  <2> SUFFICES ASSUME NEW m \in Locks, NEW u \in Threads
               PROVE  u \in Queued(m)' <=> u \in Queued(m) /\ u # v
    OBVIOUS
  <2>1. CASE BucketOf[m] # b
    BY <1>names, <1>parked, <1>frame, <1>queueAfter, <2>1 DEF Queued
  <2>2. CASE BucketOf[m] = b
    BY <1>frame, <1>members, <2>2 DEF Queued
  <2> QED
    BY <2>1, <2>2
<1>victimState. /\ pc[v] = "asleep" /\ lk[v] = L /\ token[v] = BargingOpportunity /\ v # t
                /\ \A c \in Buckets : \A j \in DOMAIN queue'[c] : queue'[c][j] # v
  <2>1. pc[v] = "asleep" /\ lk[v] = L /\ token[v] = BargingOpportunity /\ v # t
    BY <1>parked, <1>frame, <1>names DEF QueueInv
  <2>2. ASSUME NEW c \in Buckets, NEW j \in DOMAIN queue'[c]
        PROVE  queue'[c][j] # v
    <3>1. CASE c = b
      BY <1>members, <3>1
    <3>2. CASE c # b
      BY <1>queueAfter, <1>names, <2>1, <3>2 DEF QueueInv
    <3> QED
      BY <3>1, <3>2
  <2> QED
    BY <2>1, <2>2
<1>targets. \A u \in Threads : IF u = t THEN target'[u] = v ELSE target'[u] = target[u]
  BY <1>position, <1>names DEF TypeOK
<1>fresh. \A u \in Threads : target[u] # v
  BY <1>names, <1>victim DEF SleeperAccountedFor
<1>type. TypeOK'
  BY <1>position, <1>queueAfter, <1>names DEF TypeOK, ParkingTypeOK, PC, Dequeue,
     DequeueAt, Goto
<1>local. LocalInv'
  BY <1>frame, <1>victimState DEF LocalInv
<1>bucket. BucketInv'
  BY <1>frame DEF BucketInv
<1>byte. ByteInv'
  BY <1>frame DEF ByteInv
<1>queue. QueueInv'
  <2> SUFFICES ASSUME NEW c \in Buckets, NEW j \in DOMAIN queue'[c]
               PROVE  /\ pc'[queue'[c][j]] = "asleep"
                      /\ lk'[queue'[c][j]] # None
                      /\ address'[queue'[c][j]] = lk'[queue'[c][j]]
                      /\ BucketOf[lk'[queue'[c][j]]] = c
                      /\ token'[queue'[c][j]] = BargingOpportunity
                      /\ \A k \in DOMAIN queue'[c] : queue'[c][k] = queue'[c][j] => k = j
    BY DEF QueueInv
  <2>1. CASE c # b
    <3>1. queue'[c] = queue[c] /\ queue[c][j] \in Threads /\ queue[c][j] # t
      BY <1>queueAfter, <1>frame, <2>1 DEF TypeOK, ParkingTypeOK, QueueInv
    <3> QED
      BY <1>frame, <3>1 DEF QueueInv
  <2>2. CASE c = b
    <3>1. PICK k \in DOMAIN queue[b] : queue'[b][j] = queue[b][k] /\ k = IF j < i THEN j ELSE j + 1
      BY <1>from, <2>2
    <3>2. queue[b][k] \in Threads /\ queue[b][k] # t
      BY <1>frame DEF TypeOK, ParkingTypeOK, QueueInv
    <3>3. \A n \in DOMAIN queue'[b] : queue'[b][n] = queue'[b][j] => n = j
      <4> SUFFICES ASSUME NEW n \in DOMAIN queue'[b], queue'[b][n] = queue'[b][j]
                   PROVE  n = j
        OBVIOUS
      <4>1. PICK o \in DOMAIN queue[b] : queue'[b][n] = queue[b][o] /\ o = IF n < i THEN n ELSE n + 1
        BY <1>from
      <4>2. o = k
        BY <1>distinct, <3>1, <4>1
      <4> QED
        BY <1>range, <1>domain, <2>2, <3>1, <4>1, <4>2
    <3> QED
      BY <1>frame, <2>2, <3>1, <3>2, <3>3 DEF QueueInv
  <2> QED
    BY <2>1, <2>2
<1>target. TargetInv'
  <2>1. ASSUME NEW u \in Threads, NEW m \in Locks,
               pc'[u] = "callback", lk'[u] = m, target'[u] = None
        PROVE  Queued(m)' = {}
    <3>1. u # t
      BY <1>targets, <2>1
    <3>2. Queued(m) = {}
      BY <1>frame, <1>targets, <2>1, <3>1 DEF TargetInv
    <3> QED
      BY <1>queued, <3>2 DEF Queued
  <2> QED
    BY <2>1, <1>parked, <1>frame, <1>targets, <1>names, <1>victimState DEF TypeOK,
       TargetInv
<1>owns. \A u \in Threads, m \in Locks : Owns(u, m)' <=> Owns(u, m)
  BY <1>frame DEF Owns
<1>mutex. MutualExclusion'
  BY <1>owns, <1>frame DEF MutualExclusion
<1>bit. ParkedBitCoversQueue'
  BY <1>queued, <1>frame DEF ParkedBitCoversQueue, Queued
<1>stranded. NoStrandedThread'
  <2>1. \A u \in Threads, m \in Locks : Engaged(u, m) => Engaged(u, m)'
    BY <1>queued, <1>frame DEF Engaged
  <2> QED
    BY <1>queued, <2>1 DEF NoStrandedThread, Queued
<1>sleeper. SleeperAccountedFor'
  <2>1. ASSUME NEW u \in Threads, NEW m \in Locks,
               pc'[u] = "asleep", lk'[u] = m, address'[u] # None
        PROVE  u \in Queued(m)' \/ \E w \in Threads : target'[w] = u
    <3>1. pc[u] = "asleep" /\ lk[u] = m /\ address[u] # None
      BY <1>frame, <2>1
    <3>2. CASE u = v
      BY <1>targets, <3>2
    <3>3. CASE u # v
      <4>1. target[t] = None
        BY <1>frame DEF TargetInv
      <4> QED
        BY <1>targets, <1>queued, <3>1, <3>3, <4>1 DEF SleeperAccountedFor
    <3> QED
      BY <3>2, <3>3
  <2>2. ASSUME NEW u \in Threads, target'[u] # None
        PROVE  /\ \A w \in Threads : target'[w] = target'[u] => w = u
               /\ \A c \in Buckets : \A j \in DOMAIN queue'[c] : queue'[c][j] # target'[u]
    <3>1. \A w \in Threads : target'[w] = target'[u] => w = u
      BY <1>targets, <1>fresh, <2>2 DEF SleeperAccountedFor
    <3>2. CASE u = t
      BY <1>targets, <1>victimState, <3>1, <3>2
    <3>3. CASE u # t
      <4>1. target'[u] = target[u] /\ target[u] \in Threads
        BY <1>targets, <2>2, <3>3 DEF TypeOK
      <4>2. \A c \in Buckets : \A j \in DOMAIN queue[c] : queue[c][j] # target[u]
        BY <2>2, <4>1 DEF SleeperAccountedFor
      <4>3. \A c \in Buckets : \A j \in DOMAIN queue'[c] : queue'[c][j] # target[u]
        <5> SUFFICES ASSUME NEW c \in Buckets, NEW j \in DOMAIN queue'[c]
                     PROVE  queue'[c][j] # target[u]
          OBVIOUS
        <5>1. CASE c = b
          BY <1>members, <4>1, <4>2, <5>1
        <5>2. CASE c # b
          BY <1>queueAfter, <4>2, <5>2
        <5> QED
          BY <5>1, <5>2
      <4> QED
        BY <3>1, <4>1, <4>3
    <3> QED
      BY <3>2, <3>3
  <2> QED
    BY <2>1, <2>2 DEF SleeperAccountedFor
<1> QED
  BY <1>type, <1>local, <1>bucket, <1>byte, <1>queue, <1>target, <1>mutex, <1>bit,
     <1>stranded, <1>sleeper

(* unparkOneImpl finds nobody parked on this lock. *)
LEMMA DequeueNobodyPreserves ==
  ASSUME IInv, NEW t \in Threads, DequeueNobody(t)
  PROVE  IInv'
<1> USE BucketAssumption, NoneAssumption, SpinAssumption DEF IInv, parkingVars
<1>lock. lk[t] \in Locks
  BY DEF TypeOK, ParkingTypeOK, LocalInv, DequeueNobody
<1>type. TypeOK'
  BY <1>lock DEF TypeOK, ParkingTypeOK, Token, PC, DirectHandoff, BargingOpportunity,
     isHeldBit, hasParkedBit, mask, DequeueNobody, ParkedOn, Goto
<1>local. LocalInv'
  BY <1>lock DEF TypeOK, ParkingTypeOK, LocalInv, TargetInv, DirectHandoff,
     BargingOpportunity, isHeldBit, hasParkedBit, mask, DequeueNobody, ParkedOn, Goto
<1>bucket. BucketInv'
  BY <1>lock DEF TypeOK, ParkingTypeOK, LocalInv, BucketInv, DequeueNobody, ParkedOn,
     Goto
<1>queued. \A m \in Locks : Queued(m)' = Queued(m)
  BY <1>lock DEF TypeOK, ParkingTypeOK, LocalInv, QueueInv, Queued, DequeueNobody,
     ParkedOn, Goto
<1>owns. \A u \in Threads, m \in Locks : Owns(u, m)' <=> Owns(u, m)
  BY <1>lock DEF TypeOK, ParkingTypeOK, LocalInv, Owns, DirectHandoff,
     BargingOpportunity, DequeueNobody, ParkedOn, Goto
<1>bits. /\ \A m \in Locks : isHeldBit \in byte'[m] <=> isHeldBit \in byte[m]
         /\ \A m \in Locks : hasParkedBit \in byte[m] => hasParkedBit \in byte'[m]
  BY <1>lock DEF TypeOK, ParkingTypeOK, LocalInv, isHeldBit, hasParkedBit, mask,
     DequeueNobody, ParkedOn, Goto
<1>engaged. \A u \in Threads, m \in Locks : Engaged(u, m) => Engaged(u, m)'
  BY <1>queued, <1>lock DEF TypeOK, ParkingTypeOK, LocalInv, Engaged, DequeueNobody,
     ParkedOn, Goto
<1>byte. ByteInv'
  BY <1>lock, <1>owns, <1>bits DEF TypeOK, ParkingTypeOK, LocalInv, BucketInv,
     ByteInv, MutualExclusion, isHeldBit, hasParkedBit, mask, DequeueNobody, ParkedOn,
     Goto
<1>queue. QueueInv'
  BY <1>lock DEF TypeOK, ParkingTypeOK, LocalInv, QueueInv, TargetInv,
     SleeperAccountedFor, DirectHandoff, BargingOpportunity, DequeueNobody, ParkedOn,
     Goto
<1>empty. Queued(lk[t]) = {}
  BY <1>lock DEF TypeOK, ParkingTypeOK, Queued, DequeueNobody, ParkedOn
<1>nobody. target[t] = None
  BY DEF TargetInv, DequeueNobody
<1>target. TargetInv'
  BY <1>empty, <1>nobody, <1>queued, <1>lock DEF TypeOK, ParkingTypeOK, LocalInv,
     TargetInv, DequeueNobody, Goto
<1>mutex. MutualExclusion'
  BY <1>lock, <1>owns, <1>bits DEF MutualExclusion
<1>bit. ParkedBitCoversQueue'
  BY <1>queued, <1>bits DEF ParkedBitCoversQueue
<1>stranded. NoStrandedThread'
  BY <1>queued, <1>engaged DEF NoStrandedThread
<1>sleeper. SleeperAccountedFor'
  BY <1>lock, <1>queued DEF TypeOK, ParkingTypeOK, LocalInv, SleeperAccountedFor,
     TargetInv, DequeueNobody, ParkedOn, Goto
<1> QED
  BY <1>type, <1>local, <1>bucket, <1>byte, <1>queue, <1>target, <1>mutex, <1>bit,
     <1>stranded, <1>sleeper

(* The callback hands the lock over: the owner changes in one step. *)
LEMMA HandOverPreserves ==
  ASSUME IInv, NEW t \in Threads, HandOver(t)
  PROVE  IInv'
<1> USE BucketAssumption, NoneAssumption, SpinAssumption DEF IInv
<1>lock. PICK L \in Locks : L = lk[t]
  BY DEF TypeOK, LocalInv, HandOver
<1>victim. PICK v \in Threads : v = target[t]
  BY DEF TypeOK, HandOver
<1>frame. /\ pc[t] = "callback" /\ pc'[t] = "signal"
          /\ \A u \in Threads : u # t => pc'[u] = pc[u]
          /\ token'[v] = DirectHandoff /\ \A u \in Threads : u # v => token'[u] = token[u]
          /\ lk' = lk /\ address' = address /\ byte' = byte /\ cur' = cur
          /\ target' = target /\ queue' = queue
  BY <1>victim DEF TypeOK, ParkingTypeOK, HandOver, FinishDequeue, Goto
<1>victimState. /\ pc[v] = "asleep" /\ lk[v] = L /\ v # t /\ address[v] = L
                /\ token[v] = BargingOpportunity
                /\ \A u \in Threads : target[u] = v => u = t
                /\ \A c \in Buckets : \A j \in DOMAIN queue[c] : queue[c][j] # v
  BY <1>lock, <1>victim, <1>frame DEF TargetInv, SleeperAccountedFor
<1>queued. \A m \in Locks : Queued(m)' = Queued(m) /\ v \notin Queued(m)
  BY <1>frame, <1>victimState DEF Queued
<1>type. TypeOK'
  BY <1>victim, <1>lock DEF TypeOK, ParkingTypeOK, PC, Token, DirectHandoff, HandOver,
     FinishDequeue, Goto
<1>local. LocalInv'
  BY <1>frame, <1>victimState DEF LocalInv
<1>bucket. BucketInv'
  <2> SUFFICES ASSUME NEW u \in Threads, u # t,
                      pc[u] \in {"validate", "enqueue", "dequeue", "callback"}
               PROVE  bucketLock'[BucketOf[lk[u]]] = u
    BY <1>frame DEF BucketInv
  <2>1. bucketLock[BucketOf[lk[u]]] = u /\ bucketLock[BucketOf[L]] = t /\ lk[u] \in Locks
    BY <1>lock, <1>frame DEF BucketInv, TypeOK, LocalInv
  <2> QED
    BY <1>lock, <2>1 DEF TypeOK, ParkingTypeOK, HandOver, FinishDequeue
<1>byte. ByteInv'
  BY <1>frame DEF ByteInv
<1>queue. QueueInv'
  BY <1>frame, <1>victimState DEF QueueInv, TypeOK, ParkingTypeOK
<1>target. TargetInv'
  BY <1>frame, <1>victimState, <1>queued, <1>victim DEF TypeOK, TargetInv
<1>owns. \A u \in Threads, m \in Locks :
           Owns(u, m)' <=> (Owns(u, m) /\ u # t) \/ (u = v /\ m = L)
  BY <1>frame, <1>victimState DEF Owns
<1>mutex. MutualExclusion'
  <2>1. Owns(t, L) /\ \A m \in Locks : Owns(t, m) => m = L
    BY <1>lock, <1>frame DEF Owns
  <2> QED
    BY <1>owns, <1>frame, <2>1 DEF MutualExclusion
<1>bit. ParkedBitCoversQueue'
  BY <1>queued, <1>frame DEF ParkedBitCoversQueue
<1>stranded. NoStrandedThread'
  <2>1. \A u \in Threads, m \in Locks : u # t /\ Engaged(u, m) => Engaged(u, m)'
    BY <1>queued, <1>frame DEF Engaged
  <2>2. Engaged(v, L)' /\ \A m \in Locks : Engaged(t, m) => m = L
    BY <1>lock, <1>queued, <1>frame, <1>victimState DEF Engaged
  <2> QED
    BY <1>queued, <2>1, <2>2 DEF NoStrandedThread
<1>sleeper. SleeperAccountedFor'
  BY <1>queued, <1>frame DEF SleeperAccountedFor
<1> QED
  BY <1>type, <1>local, <1>bucket, <1>byte, <1>queue, <1>target, <1>mutex, <1>bit,
     <1>stranded, <1>sleeper

(* The callback releases the lock: the parked bit stays if the bucket is
   not empty, and the dequeued thread will contend. *)
LEMMA AllowBargingPreserves ==
  ASSUME IInv, NEW t \in Threads, AllowBarging(t)
  PROVE  IInv'
<1> USE BucketAssumption, NoneAssumption, SpinAssumption DEF IInv
<1>lock. PICK L \in Locks : L = lk[t]
  BY DEF TypeOK, LocalInv, AllowBarging
<1>victim. PICK v \in Threads : v = target[t]
  BY DEF TypeOK, AllowBarging
<1>frame. /\ pc[t] = "callback" /\ pc'[t] = "signal"
          /\ \A u \in Threads : u # t => pc'[u] = pc[u]
          /\ lk' = lk /\ address' = address /\ cur' = cur
          /\ target' = target /\ queue' = queue
  BY <1>victim DEF TypeOK, ParkingTypeOK, AllowBarging, FinishDequeue, Goto
<1>victimState. /\ pc[v] = "asleep" /\ lk[v] = L /\ v # t /\ address[v] = L
                /\ token[v] = BargingOpportunity
                /\ \A u \in Threads : target[u] = v => u = t
                /\ \A c \in Buckets : \A j \in DOMAIN queue[c] : queue[c][j] # v
  BY <1>lock, <1>victim, <1>frame DEF TargetInv, SleeperAccountedFor
<1>tokens. \A u \in Threads : token'[u] = token[u]
  BY <1>victim, <1>victimState DEF TypeOK, ParkingTypeOK, AllowBarging, FinishDequeue
<1>bits. /\ byte' \in [Locks -> SUBSET mask]
         /\ \A m \in Locks : m # L => byte'[m] = byte[m]
         /\ isHeldBit \notin byte'[L]
         /\ queue[BucketOf[L]] # <<>> => hasParkedBit \in byte'[L]
  BY <1>lock DEF TypeOK, AllowBarging, MayHaveMoreThreads, BucketNonEmpty, isHeldBit,
     hasParkedBit, mask
<1>queued. \A m \in Locks : Queued(m)' = Queued(m) /\ v \notin Queued(m)
  BY <1>frame, <1>victimState DEF Queued
<1>type. TypeOK'
  BY <1>victim, <1>lock, <1>bits DEF TypeOK, ParkingTypeOK, PC, Token,
     BargingOpportunity, AllowBarging, FinishDequeue, Goto
<1>local. LocalInv'
  BY <1>frame, <1>victimState, <1>tokens DEF LocalInv
<1>excl. ASSUME NEW u \in Threads, u # t,
                pc[u] \in {"validate", "enqueue", "dequeue", "callback"}
         PROVE  BucketOf[lk[u]] # BucketOf[L] /\ lk[u] \in Locks
  BY <1>lock, <1>frame, <1>excl DEF BucketInv, TypeOK, LocalInv
<1>bucket. BucketInv'
  BY <1>lock, <1>frame, <1>excl DEF BucketInv, TypeOK, ParkingTypeOK, AllowBarging,
     FinishDequeue
<1>own. Owns(t, L) /\ \A m \in Locks : Owns(t, m) => m = L
  BY <1>lock, <1>frame DEF Owns
<1>byte. ByteInv'
  <2> SUFFICES ASSUME NEW u \in Threads, u # t,
                      pc[u] \in {"unpark", "dequeue", "callback", "enqueue"}
               PROVE  byte'[lk[u]] = mask
    BY <1>frame DEF ByteInv
  <2>1. lk[u] \in Locks /\ byte[lk[u]] = mask
    BY DEF ByteInv, TypeOK, LocalInv
  <2>2. CASE pc[u] = "unpark"
    <3>1. Owns(u, lk[u])
      BY <2>2 DEF Owns
    <3> QED
      BY <1>bits, <1>own, <2>1, <3>1 DEF MutualExclusion
  <2>3. CASE pc[u] # "unpark"
    BY <1>bits, <1>excl, <2>1, <2>3
  <2> QED
    BY <2>2, <2>3
<1>queue. QueueInv'
  BY <1>frame, <1>victimState, <1>tokens DEF QueueInv, TypeOK, ParkingTypeOK
<1>target. TargetInv'
  BY <1>frame, <1>victimState, <1>queued, <1>victim, <1>tokens DEF TypeOK, TargetInv
<1>owns. \A u \in Threads, m \in Locks : Owns(u, m)' <=> Owns(u, m) /\ u # t
  BY <1>frame, <1>victimState, <1>tokens DEF Owns
<1>mutex. MutualExclusion'
  BY <1>owns, <1>bits, <1>own DEF MutualExclusion
<1>bit. ParkedBitCoversQueue'
  <2>1. Queued(L) # {} => queue[BucketOf[L]] # <<>>
    BY DEF Queued
  <2> QED
    BY <1>queued, <1>bits, <2>1 DEF ParkedBitCoversQueue
<1>stranded. NoStrandedThread'
  <2>1. \A u \in Threads, m \in Locks : u # t /\ Engaged(u, m) => Engaged(u, m)'
    BY <1>queued, <1>frame, <1>tokens DEF Engaged
  <2>2. Engaged(v, L)' /\ \A m \in Locks : Engaged(t, m) => m = L
    BY <1>lock, <1>queued, <1>frame, <1>victimState DEF Engaged
  <2> QED
    BY <1>queued, <2>1, <2>2 DEF NoStrandedThread
<1>sleeper. SleeperAccountedFor'
  BY <1>queued, <1>frame DEF SleeperAccountedFor
<1> QED
  BY <1>type, <1>local, <1>bucket, <1>byte, <1>queue, <1>target, <1>mutex, <1>bit,
     <1>stranded, <1>sleeper

(* The callback releases a lock on which nobody is queued. *)
LEMMA ReleaseNobodyParkedPreserves ==
  ASSUME IInv, NEW t \in Threads, ReleaseNobodyParked(t)
  PROVE  IInv'
<1> USE BucketAssumption, NoneAssumption, SpinAssumption DEF IInv
<1>lock. PICK L \in Locks : L = lk[t]
  BY DEF TypeOK, LocalInv, ReleaseNobodyParked
<1>frame. /\ pc[t] = "callback" /\ pc'[t] \in {"idle", "relock"}
          /\ \A u \in Threads : u # t => pc'[u] = pc[u] /\ lk'[u] = lk[u]
          /\ pc'[t] = "idle" => lk'[t] = None
          /\ pc'[t] = "relock" => lk'[t] = L
          /\ address' = address /\ cur' = cur /\ token' = token
          /\ target[t] = None /\ target' = target /\ queue' = queue
  BY <1>lock DEF TypeOK, ReleaseNobodyParked, FinishDequeue, UnlockReturns, Goto
<1>bits. /\ byte' \in [Locks -> SUBSET mask]
         /\ \A m \in Locks : m # L => byte'[m] = byte[m]
         /\ isHeldBit \notin byte'[L]
  BY <1>lock DEF TypeOK, ReleaseNobodyParked
<1>queued. \A m \in Locks : Queued(m)' = Queued(m)
  BY <1>frame DEF Queued
<1>victimState. Queued(L) = {}
  BY <1>lock, <1>frame DEF TargetInv
<1>type. TypeOK'
  BY <1>lock, <1>bits DEF TypeOK, ParkingTypeOK, PC, ReleaseNobodyParked,
     FinishDequeue, UnlockReturns, Goto
<1>local. LocalInv'
  BY <1>frame DEF LocalInv
<1>excl. ASSUME NEW u \in Threads, u # t,
                pc[u] \in {"validate", "enqueue", "dequeue", "callback"}
         PROVE  BucketOf[lk[u]] # BucketOf[L] /\ lk[u] \in Locks
  BY <1>lock, <1>frame, <1>excl DEF BucketInv, TypeOK, LocalInv
<1>bucket. BucketInv'
  BY <1>lock, <1>frame, <1>excl DEF BucketInv, TypeOK, ParkingTypeOK,
     ReleaseNobodyParked, FinishDequeue
<1>own. Owns(t, L) /\ \A m \in Locks : Owns(t, m) => m = L
  BY <1>lock, <1>frame DEF Owns
<1>byte. ByteInv'
  <2> SUFFICES ASSUME NEW u \in Threads, u # t,
                      pc[u] \in {"unpark", "dequeue", "callback", "enqueue"}
               PROVE  byte'[lk[u]] = mask
    BY <1>frame DEF ByteInv
  <2>1. lk[u] \in Locks /\ byte[lk[u]] = mask
    BY DEF ByteInv, TypeOK, LocalInv
  <2>2. CASE pc[u] = "unpark"
    <3>1. Owns(u, lk[u])
      BY <2>2 DEF Owns
    <3> QED
      BY <1>bits, <1>own, <2>1, <3>1 DEF MutualExclusion
  <2>3. CASE pc[u] # "unpark"
    BY <1>bits, <1>excl, <2>1, <2>3
  <2> QED
    BY <2>2, <2>3
<1>notQueued. \A c \in Buckets : \A i \in DOMAIN queue[c] : queue[c][i] # t /\ queue[c][i] \in Threads
  BY <1>frame DEF QueueInv, TypeOK, ParkingTypeOK
<1>queue. QueueInv'
  BY <1>frame, <1>notQueued DEF QueueInv
<1>target. TargetInv'
  BY <1>frame, <1>queued DEF TypeOK, TargetInv
<1>owns. \A u \in Threads, m \in Locks : Owns(u, m)' <=> Owns(u, m) /\ u # t
  BY <1>frame DEF Owns
<1>mutex. MutualExclusion'
  BY <1>owns, <1>bits, <1>own DEF MutualExclusion
<1>bit. ParkedBitCoversQueue'
  BY <1>queued, <1>bits, <1>victimState DEF ParkedBitCoversQueue
<1>stranded. NoStrandedThread'
  <2>1. \A u \in Threads, m \in Locks : u # t /\ Engaged(u, m) => Engaged(u, m)'
    BY <1>queued, <1>frame DEF Engaged
  <2>2. \A m \in Locks : Engaged(t, m) => m = L
    BY <1>lock DEF Engaged
  <2> QED
    BY <1>queued, <1>victimState, <2>1, <2>2 DEF NoStrandedThread
<1>sleeper. SleeperAccountedFor'
  BY <1>queued, <1>frame DEF SleeperAccountedFor
<1> QED
  BY <1>type, <1>local, <1>bucket, <1>byte, <1>queue, <1>target, <1>mutex, <1>bit,
     <1>stranded, <1>sleeper

(* The dequeued thread is signalled; it is in no queue. *)
LEMMA SignalTargetPreserves ==
  ASSUME IInv, NEW t \in Threads, SignalTarget(t)
  PROVE  IInv'
<1> USE BucketAssumption, NoneAssumption, SpinAssumption DEF IInv
<1>lock. PICK L \in Locks : L = lk[t]
  BY DEF TypeOK, LocalInv, SignalTarget
<1>victim. PICK v \in Threads : v = target[t]
  BY DEF TypeOK, TargetInv, SignalTarget
<1>frame. /\ pc[t] = "signal" /\ pc'[t] \in {"idle", "relock"}
          /\ \A u \in Threads : u # t => pc'[u] = pc[u] /\ lk'[u] = lk[u] /\ target'[u] = target[u]
          /\ pc'[t] = "idle" => lk'[t] = None
          /\ pc'[t] = "relock" => lk'[t] = L
          /\ \A u \in Threads : u # v => address'[u] = address[u]
          /\ address'[v] = None /\ target'[t] = None
          /\ cur' = cur /\ token' = token /\ byte' = byte /\ queue' = queue /\ bucketLock' = bucketLock
  BY <1>lock, <1>victim DEF TypeOK, ParkingTypeOK, SignalTarget, Signal,
     UnlockReturns, Goto
<1>victimState. /\ pc[v] = "asleep" /\ lk[v] = L /\ v # t /\ address[v] = L
                /\ \A u \in Threads : target[u] = v => u = t
                /\ \A c \in Buckets : \A j \in DOMAIN queue[c] : queue[c][j] # v
  BY <1>lock, <1>victim, <1>frame DEF TargetInv, SleeperAccountedFor
<1>queued. \A m \in Locks : Queued(m)' = Queued(m)
  BY <1>frame, <1>victimState DEF Queued
<1>type. TypeOK'
  BY <1>lock, <1>victim DEF TypeOK, ParkingTypeOK, PC, SignalTarget, Signal,
     UnlockReturns, Goto
<1>local. LocalInv'
  BY <1>frame, <1>victimState DEF LocalInv
<1>bucket. BucketInv'
  BY <1>frame DEF BucketInv
<1>byte. ByteInv'
  BY <1>frame DEF ByteInv
<1>notQueued. \A c \in Buckets : \A i \in DOMAIN queue[c] : queue[c][i] # t /\ queue[c][i] \in Threads
  BY <1>frame DEF QueueInv, TypeOK, ParkingTypeOK
<1>queue. QueueInv'
  BY <1>frame, <1>victimState, <1>notQueued DEF QueueInv
<1>target. TargetInv'
  BY <1>frame, <1>queued, <1>victimState, <1>victim DEF TypeOK, TargetInv
<1>owns. \A u \in Threads, m \in Locks : Owns(u, m)' <=> Owns(u, m)
  BY <1>frame DEF Owns
<1>mutex. MutualExclusion'
  BY <1>owns, <1>frame DEF MutualExclusion
<1>bit. ParkedBitCoversQueue'
  BY <1>queued, <1>frame DEF ParkedBitCoversQueue
<1>stranded. NoStrandedThread'
  <2>1. \A u \in Threads, m \in Locks : Engaged(u, m) => Engaged(u, m)'
    BY <1>queued, <1>frame DEF Engaged
  <2> QED
    BY <1>queued, <2>1 DEF NoStrandedThread
<1>sleeper. SleeperAccountedFor'
  BY <1>queued, <1>frame, <1>victimState, <1>victim DEF SleeperAccountedFor, TypeOK
<1> QED
  BY <1>type, <1>local, <1>bucket, <1>byte, <1>queue, <1>target, <1>mutex, <1>bit,
     <1>stranded, <1>sleeper

-----------------------------------------------------------------------------
(* Initially nobody holds, waits for or sleeps on a lock. *)
LEMMA InitEstablishes == Init => IInv
<1> SUFFICES ASSUME Init PROVE IInv
  OBVIOUS
<1> USE NoneAssumption, SpinAssumption, BucketAssumption DEF Init, ParkingInit
<1>1. TypeOK
  <2>1. queue \in [Buckets -> Seq(Threads)]
    BY EmptySeq
  <2> QED
    BY <2>1 DEF TypeOK, ParkingTypeOK, PC, Token, BargingOpportunity, mask
<1>2. LocalInv /\ BucketInv /\ ByteInv
  BY DEF LocalInv, BucketInv, ByteInv
<1>3. \A b \in Buckets : DOMAIN queue[b] = {}
  BY DEF Init
<1>4. \A l \in Locks : Queued(l) = {}
  BY <1>3 DEF Queued
<1>5. QueueInv /\ TargetInv /\ SleeperAccountedFor
  BY <1>3, <1>4 DEF QueueInv, TargetInv, SleeperAccountedFor
<1>6. MutualExclusion
  BY DEF MutualExclusion, Owns, isHeldBit
<1>7. ParkedBitCoversQueue /\ NoStrandedThread
  BY <1>4 DEF ParkedBitCoversQueue, NoStrandedThread
<1> QED
  BY <1>1, <1>2, <1>5, <1>6, <1>7 DEF IInv

(* A step that changes no variable keeps the invariant. *)
LEMMA StutteringPreserves == IInv /\ UNCHANGED vars => IInv'
<1> SUFFICES ASSUME IInv, UNCHANGED vars PROVE IInv'
  OBVIOUS
<1> USE DEF IInv, vars, threadVars, parkingVars
<1>1. TypeOK' /\ LocalInv' /\ BucketInv' /\ ByteInv' /\ QueueInv'
  BY DEF TypeOK, ParkingTypeOK, LocalInv, BucketInv, ByteInv, QueueInv
<1>2. \A l \in Locks : Queued(l)' = Queued(l)
  BY DEF Queued
<1>3. \A t \in Threads, l \in Locks : (Owns(t, l)' <=> Owns(t, l)) /\ (Engaged(t, l)' <=> Engaged(t, l))
  BY <1>2 DEF Owns, Engaged
<1>4. TargetInv' /\ SleeperAccountedFor'
  BY <1>2 DEF TargetInv, SleeperAccountedFor
<1>5. MutualExclusion' /\ ParkedBitCoversQueue' /\ NoStrandedThread'
  BY <1>2, <1>3 DEF MutualExclusion, ParkedBitCoversQueue, NoStrandedThread
<1> QED
  BY <1>1, <1>4, <1>5

(* Every step of every thread preserves the invariant. *)
LEMMA NextPreserves == IInv /\ [Next]_vars => IInv'
<1> SUFFICES ASSUME IInv, Next PROVE IInv'
  BY StutteringPreserves
<1>1. PICK t \in Threads :
        \/ \E l \in Locks : LockFast(t, l) \/ LockFastFails(t, l) \/ TryLock(t, l)
        \/ Safepoint(t)
        \/ Step(t)
  BY DEF Next
<1>2. IInv'
  <2>1. ASSUME NEW l \in Locks, LockFast(t, l) PROVE IInv'
    BY <2>1, LockFastPreserves
  <2>2. ASSUME NEW l \in Locks, LockFastFails(t, l) PROVE IInv'
    BY <2>2, LockFastFailsPreserves
  <2>3. ASSUME NEW l \in Locks, TryLock(t, l) PROVE IInv'
    BY <2>3, TryLockPreserves
  <2>4. CASE RelockFast(t)
    BY <2>4, RelockFastPreserves
  <2>5. CASE RelockFastFails(t)
    BY <2>5, RelockFastFailsPreserves
  <2>6. CASE SlowLoad(t)
    BY <2>6, SlowLoadPreserves
  <2>7. CASE Barge(t)
    BY <2>7, BargePreserves
  <2>8. CASE BargeFails(t)
    BY <2>8, BargeFailsPreserves
  <2>9. CASE SetParked(t)
    BY <2>9, SetParkedPreserves
  <2>10. CASE SetParkedFails(t)
    BY <2>10, SetParkedFailsPreserves
  <2>11. CASE Park(t)
    BY <2>11, ParkPreserves
  <2>12. CASE Validate(t)
    BY <2>12, ValidatePreserves
  <2>13. CASE ValidateFails(t)
    BY <2>13, ValidateFailsPreserves
  <2>14. CASE Enqueue(t)
    BY <2>14, EnqueuePreserves
  <2>15. CASE Wake(t)
    BY <2>15, WakePreserves
  <2>16. CASE UnlockFast(t)
    BY <2>16, UnlockFastPreserves
  <2>17. CASE UnlockFastFails(t)
    BY <2>17, UnlockFastFailsPreserves
  <2>18. CASE Safepoint(t)
    BY <2>18, SafepointPreserves
  <2>19. CASE UnlockLoad(t)
    BY <2>19, UnlockLoadPreserves
  <2>20. CASE UnlockCAS(t)
    BY <2>20, UnlockCASPreserves
  <2>21. CASE UnlockCASFails(t)
    BY <2>21, UnlockCASFailsPreserves
  <2>22. CASE Unpark(t)
    BY <2>22, UnparkPreserves
  <2>23. CASE Dequeue(t)
    BY <2>23, DequeuePreserves
  <2>24. CASE DequeueNobody(t)
    BY <2>24, DequeueNobodyPreserves
  <2>25. CASE HandOver(t)
    BY <2>25, HandOverPreserves
  <2>26. CASE AllowBarging(t)
    BY <2>26, AllowBargingPreserves
  <2>27. CASE ReleaseNobodyParked(t)
    BY <2>27, ReleaseNobodyParkedPreserves
  <2>28. CASE SignalTarget(t)
    BY <2>28, SignalTargetPreserves
  <2> QED
    BY <1>1, <2>1, <2>2, <2>3, <2>4, <2>5, <2>6, <2>7, <2>8, <2>9, <2>10, <2>11,
       <2>12, <2>13, <2>14, <2>15, <2>16, <2>17, <2>18, <2>19, <2>20, <2>21, <2>22,
       <2>23, <2>24, <2>25, <2>26, <2>27, <2>28 DEF Next, Step
<1> QED
  BY <1>2

-----------------------------------------------------------------------------
(* IInv holds in every reachable state of the algorithm: together with the *)
(* properties it contains, the bucket lock protects the queues, queued     *)
(* threads sleep on an address of their bucket, and both bits stay set     *)
(* from a successful validation to the enqueue.                            *)
THEOREM InductiveInvariant == Spec => []IInv
<1>1. Init => IInv
  BY InitEstablishes
<1>2. IInv /\ [Next]_vars => IInv'
  BY NextPreserves
<1> QED
  BY <1>1, <1>2, PTL DEF Spec

(* The variables of the lock and of the parking lot keep their types. *)
THEOREM TypeCorrectness == Spec => []TypeOK
<1>1. IInv => TypeOK
  BY DEF IInv
<1> QED
  BY <1>1, InductiveInvariant, PTL

(* At most one thread owns a lock, a sleeping thread it was handed to      *)
(* included, and the held bit tells whether there is one.                  *)
THEOREM MutualExclusionHolds == Spec => []MutualExclusion
<1>1. IInv => MutualExclusion
  BY DEF IInv
<1> QED
  BY <1>1, InductiveInvariant, PTL

(* The parked bit is set as long as a thread is queued on the lock: no     *)
(* unlock() takes the fast path past a sleeping thread.                    *)
THEOREM ParkedBitHolds == Spec => []ParkedBitCoversQueue
<1>1. IInv => ParkedBitCoversQueue
  BY DEF IInv
<1> QED
  BY <1>1, InductiveInvariant, PTL

(* No thread is left in a queue with nobody awake to release it, even when *)
(* locks collide in a bucket.                                              *)
THEOREM NobodyStranded == Spec => []NoStrandedThread
<1>1. IInv => NoStrandedThread
  BY DEF IInv
<1> QED
  BY <1>1, InductiveInvariant, PTL

(* A sleeping thread is in its queue or with the one thread that dequeued  *)
(* it, never in both and never in neither.                                 *)
THEOREM SleepersAccountedFor == Spec => []SleeperAccountedFor
<1>1. IInv => SleeperAccountedFor
  BY DEF IInv
<1> QED
  BY <1>1, InductiveInvariant, PTL

(* The RELEASE_ASSERTs and CRASH checks of the slow paths never fire. *)
THEOREM AssertionsNeverFail == Spec => []AssertionsHold
<1>1. IInv => AssertionsHold
  <2> SUFFICES ASSUME IInv, NEW t \in Threads
               PROVE  /\ pc[t] \in {"park", "validate"} => address[t] = None
                      /\ pc[t] \in {"unlockLoop", "unlockCAS"} => isHeldBit \in byte[lk[t]]
                      /\ pc[t] = "callback" => byte[lk[t]] = mask
                      /\ pc[t] = "signal" => target[t] # None /\ address[target[t]] = lk[t]
                      /\ pc[t] = "asleep" /\ token[t] = DirectHandoff => isHeldBit \in byte[lk[t]]
    BY DEF AssertionsHold
  <2>1. pc[t] # "idle" => lk[t] \in Locks
    BY DEF IInv, TypeOK, LocalInv
  <2>2. pc[t] \in {"unlockLoop", "unlockCAS"} => Owns(t, lk[t])
    BY DEF Owns
  <2>3. pc[t] = "asleep" /\ token[t] = DirectHandoff => Owns(t, lk[t])
    BY DEF Owns
  <2>4. pc[t] # "idle" /\ Owns(t, lk[t]) => isHeldBit \in byte[lk[t]]
    BY <2>1 DEF IInv, MutualExclusion
  <2> QED
    BY <2>2, <2>3, <2>4 DEF IInv, LocalInv, ByteInv, TargetInv
<1> QED
  BY <1>1, InductiveInvariant, PTL

-----------------------------------------------------------------------------
(*                      WTF::Lock implements Mutex                         *)
(*                                                                         *)
(* WTF::Lock implements the abstract Mutex: whatever the bits, the queue   *)
(* and the tokens do, a caller sees a lock that is free, held, or handed   *)
(* from its holder to a thread that waits for it.                          *)
(*                                                                         *)
(* Who owns a lock and who waits for it depends on each thread's own       *)
(* program counter, lock, token and relock flag only.  Every step changes  *)
(* them for the thread that takes it, and a handoff for the thread it has  *)
(* dequeued as well; so each action is one of six visible changes, or      *)
(* none.  That a step which takes a lock finds it free, and that a lock is *)
(* handed over by its owner, is MutualExclusion and the invariants it was  *)
(* proved with.                                                            *)

(* t is inside lock() on l, and does not own it. *)
Waits(t, l) == lk[t] = l /\ ~Owns(t, l) /\ (pc[t] = "signal" => relock[t])

(* A step leaves what thread u owns and waits for alone. *)
Same(u) ==
  \A m \in Locks : (Owns(u, m)' <=> Owns(u, m)) /\ (Waits(u, m)' <=> Waits(u, m))

OnlyChanges(t) == \A u \in Threads \ {t} : Same(u)

(* What a thread can have to do with the locks, before and after a step. *)
Owner(t, l) == \A m \in Locks : (Owns(t, m) <=> m = l) /\ ~Waits(t, m)
Waiter(t, l) == \A m \in Locks : (Waits(t, m) <=> m = l) /\ ~Owns(t, m)
Outside(t) == \A m \in Locks : ~Owns(t, m) /\ ~Waits(t, m)

(* The holder of the abstract lock is the owner, if there is one. *)
LEMMA HolderIsOwner ==
  ASSUME IInv, NEW l \in Locks
  PROVE  /\ \A t \in Threads : Owns(t, l) => OwnerOf(l) = t
         /\ (\A t \in Threads : ~Owns(t, l)) => OwnerOf(l) = None
<1>1. \A t, u \in Threads : Owns(t, l) /\ Owns(u, l) => t = u
  BY DEF IInv, MutualExclusion
<1> QED
  BY <1>1, Zenon DEF OwnerOf

(* The same after the step. *)
LEMMA HolderIsOwnerNext ==
  ASSUME IInv', NEW l \in Locks
  PROVE  /\ \A t \in Threads : Owns(t, l)' => OwnerOf(l)' = t
         /\ (\A t \in Threads : ~Owns(t, l)') => OwnerOf(l)' = None
<1>1. \A t, u \in Threads : Owns(t, l)' /\ Owns(u, l)' => t = u
  BY DEF IInv, MutualExclusion
<1> QED
  BY <1>1, Zenon DEF OwnerOf

(* The waiting set is the set of threads that wait. *)
LEMMA WaitingIsWaits ==
  ASSUME NEW l \in Locks
  PROVE  /\ WaitingFor(l) = {t \in Threads : Waits(t, l)}
         /\ WaitingFor(l)' = {t \in Threads : Waits(t, l)'}
BY DEF WaitingFor, Waits

(* A lock that nobody takes or gives up keeps its holder. *)
LEMMA OwnerUntouched ==
  ASSUME IInv, IInv', NEW m \in Locks, \A u \in Threads : Owns(u, m)' <=> Owns(u, m)
  PROVE  OwnerOf(m)' = OwnerOf(m)
<1>1. CASE \E t \in Threads : Owns(t, m)
  BY <1>1, HolderIsOwner, HolderIsOwnerNext
<1>2. CASE \A t \in Threads : ~Owns(t, m)
  BY <1>2, HolderIsOwner, HolderIsOwnerNext
<1> QED
  BY <1>1, <1>2

(* A lock whose threads all keep their parts keeps its holder and its      *)
(* waiting threads.                                                        *)
LEMMA LockUntouched ==
  ASSUME IInv, IInv', NEW m \in Locks,
         \A u \in Threads : (Owns(u, m)' <=> Owns(u, m)) /\ (Waits(u, m)' <=> Waits(u, m))
  PROVE  OwnerOf(m)' = OwnerOf(m) /\ WaitingFor(m)' = WaitingFor(m)
<1>1. WaitingFor(m)' = WaitingFor(m)
  BY WaitingIsWaits
<1> QED
  BY <1>1, OwnerUntouched

(* A step that changes nobody's part is invisible. *)
LEMMA Invisible ==
  ASSUME IInv, IInv', \A u \in Threads : Same(u)
  PROVE  UNCHANGED M!vars
<1>1. ASSUME NEW l \in Locks
      PROVE  OwnerOf(l)' = OwnerOf(l) /\ WaitingFor(l)' = WaitingFor(l)
  BY LockUntouched DEF Same
<1> QED
  BY <1>1 DEF M!vars

(* A thread with no part in any lock is not busy. *)
LEMMA OutsideIsIdle ==
  ASSUME IInv, NEW t \in Threads, Outside(t) PROVE ~M!Busy(t)
<1>1. ASSUME NEW m \in Locks PROVE OwnerOf(m) # t /\ t \notin WaitingFor(m)
  <2>1. ~Owns(t, m) /\ ~Waits(t, m)
    BY DEF Outside
  <2>2. OwnerOf(m) # t
    <3>1. CASE \E u \in Threads : Owns(u, m)
      BY <2>1, <3>1, HolderIsOwner
    <3>2. CASE \A u \in Threads : ~Owns(u, m)
      BY <3>2, HolderIsOwner, NoneAssumption
    <3> QED
      BY <3>1, <3>2
  <2> QED
    BY <2>1, <2>2, WaitingIsWaits
<1> QED
  BY <1>1 DEF M!Busy

(* lock() or tryLock() that takes a free lock at once. *)
LEMMA TakesFree ==
  ASSUME IInv, IInv', NEW t \in Threads, NEW l \in Locks, OnlyChanges(t),
         Outside(t), Owner(t, l)'
  PROVE  M!Next
<1>1. ~M!Busy(t)
  BY OutsideIsIdle
<1>2. \A u \in Threads : ~Owns(u, l)
  <2>1. \A u \in Threads : Owns(u, l)' => u = t
    BY DEF IInv, MutualExclusion, Owner
  <2> QED
    BY <2>1 DEF OnlyChanges, Same, Outside
<1>3. OwnerOf(l) = None /\ OwnerOf(l)' = t
  BY <1>2, HolderIsOwner, HolderIsOwnerNext DEF Owner
<1>4. ASSUME NEW m \in Locks, m # l PROVE OwnerOf(m)' = OwnerOf(m)
  BY <1>4, LockUntouched DEF OnlyChanges, Same, Outside, Owner
<1>5. ASSUME NEW m \in Locks PROVE WaitingFor(m)' = WaitingFor(m)
  <2>1. \A u \in Threads : Waits(u, m)' <=> Waits(u, m)
    BY DEF OnlyChanges, Same, Outside, Owner
  <2> QED
    BY <2>1, WaitingIsWaits
<1>6. M!AcquireFree(t, l)
  BY <1>1, <1>3, <1>4, <1>5 DEF M!AcquireFree
<1> QED
  BY <1>6 DEF M!Next

(* lock() that cannot take the lock at once. *)
LEMMA StartsToWait ==
  ASSUME IInv, IInv', NEW t \in Threads, NEW l \in Locks, OnlyChanges(t),
         Outside(t), Waiter(t, l)'
  PROVE  M!Next
<1>1. ~M!Busy(t)
  BY OutsideIsIdle
<1>2. ASSUME NEW m \in Locks, m # l
      PROVE  OwnerOf(m)' = OwnerOf(m) /\ WaitingFor(m)' = WaitingFor(m)
  BY <1>2, LockUntouched DEF OnlyChanges, Same, Outside, Waiter
<1>3. OwnerOf(l)' = OwnerOf(l)
  <2>1. \A u \in Threads : Owns(u, l)' <=> Owns(u, l)
    BY DEF OnlyChanges, Same, Outside, Waiter
  <2> QED
    BY <2>1, OwnerUntouched
<1>4. WaitingFor(l)' = WaitingFor(l) \cup {t}
  <2>1. \A u \in Threads : Waits(u, l)' <=> Waits(u, l) \/ u = t
    BY DEF OnlyChanges, Same, Outside, Waiter
  <2> QED
    BY <2>1, WaitingIsWaits
<1>5. M!StartWaiting(t, l)
  BY <1>1, <1>2, <1>3, <1>4 DEF M!StartWaiting
<1> QED
  BY <1>5 DEF M!Next

(* A waiting thread that takes a free lock. *)
LEMMA TakesAfterWaiting ==
  ASSUME IInv, IInv', NEW t \in Threads, NEW l \in Locks, OnlyChanges(t),
         Waiter(t, l), Owner(t, l)'
  PROVE  M!Next
<1>1. \A u \in Threads : ~Owns(u, l)
  <2>1. \A u \in Threads : Owns(u, l)' => u = t
    BY DEF IInv, MutualExclusion, Owner
  <2> QED
    BY <2>1 DEF OnlyChanges, Same, Waiter
<1>2. OwnerOf(l) = None /\ OwnerOf(l)' = t
  BY <1>1, HolderIsOwner, HolderIsOwnerNext DEF Owner
<1>3. ASSUME NEW m \in Locks, m # l
      PROVE  OwnerOf(m)' = OwnerOf(m) /\ WaitingFor(m)' = WaitingFor(m)
  BY <1>3, LockUntouched DEF OnlyChanges, Same, Waiter, Owner
<1>4. t \in WaitingFor(l) /\ WaitingFor(l)' = WaitingFor(l) \ {t}
  <2>1. \A u \in Threads : Waits(u, l)' <=> Waits(u, l) /\ u # t
    BY DEF OnlyChanges, Same, Waiter, Owner
  <2> QED
    BY <2>1, WaitingIsWaits DEF Waiter
<1>5. M!AcquireWaiting(t, l)
  BY <1>2, <1>3, <1>4 DEF M!AcquireWaiting
<1> QED
  BY <1>4, <1>5 DEF M!Next

(* The owner's part after it has unlocked: in safepoint(), whose second    *)
(* half locks again, it waits for the lock it has just given up.           *)
GivesUp(t, l, again) == IF again THEN Waiter(t, l)' ELSE Outside(t)'

(* unlock() that frees the lock. *)
LEMMA Frees ==
  ASSUME IInv, IInv', NEW t \in Threads, NEW l \in Locks, NEW again \in BOOLEAN,
         OnlyChanges(t), Owner(t, l), GivesUp(t, l, again)
  PROVE  M!Next
<1>1. \A m \in Locks : ~Owns(t, m)' /\ (Waits(t, m)' <=> again /\ m = l)
  BY DEF GivesUp, Waiter, Outside
<1>2. \A u \in Threads : ~Owns(u, l)'
  <2>1. \A u \in Threads : Owns(u, l) => u = t
    BY DEF IInv, MutualExclusion, Owner
  <2> QED
    BY <1>1, <2>1 DEF OnlyChanges, Same
<1>3. OwnerOf(l) = t /\ OwnerOf(l)' = None
  BY <1>2, HolderIsOwner, HolderIsOwnerNext DEF Owner
<1>4. ASSUME NEW m \in Locks, m # l
      PROVE  OwnerOf(m)' = OwnerOf(m) /\ WaitingFor(m)' = WaitingFor(m)
  BY <1>1, <1>4, LockUntouched DEF OnlyChanges, Same, Owner
<1>5. WaitingFor(l)' = IF again THEN WaitingFor(l) \cup {t} ELSE WaitingFor(l)
  <2>1. \A u \in Threads : Waits(u, l)' <=> Waits(u, l) \/ (again /\ u = t)
    BY <1>1 DEF OnlyChanges, Same, Owner
  <2> QED
    BY <2>1, WaitingIsWaits
<1>6. M!Release(t, l, again)
  BY <1>3, <1>4, <1>5 DEF M!Release
<1> QED
  BY <1>3, <1>6 DEF M!Next

(* unlockFairly(), or an unlock() that is fair by chance: the lock passes  *)
(* from its owner to a waiting thread.                                     *)
LEMMA Hands ==
  ASSUME IInv, IInv', NEW t \in Threads, NEW v \in Threads, NEW l \in Locks,
         NEW again \in BOOLEAN, \A u \in Threads \ {t, v} : Same(u), t # v,
         Owner(t, l), GivesUp(t, l, again), Waiter(v, l), Owner(v, l)'
  PROVE  M!Next
<1>1. \A m \in Locks : ~Owns(t, m)' /\ (Waits(t, m)' <=> again /\ m = l)
  BY DEF GivesUp, Waiter, Outside
<1>2. OwnerOf(l) = t /\ OwnerOf(l)' = v
  BY HolderIsOwner, HolderIsOwnerNext DEF Owner
<1>3. ASSUME NEW m \in Locks, m # l
      PROVE  OwnerOf(m)' = OwnerOf(m) /\ WaitingFor(m)' = WaitingFor(m)
  BY <1>1, <1>3, LockUntouched DEF Same, Owner, Waiter
<1>4. v \in WaitingFor(l)
  BY WaitingIsWaits DEF Waiter
<1>5. WaitingFor(l)' = IF again THEN (WaitingFor(l) \ {v}) \cup {t} ELSE WaitingFor(l) \ {v}
  <2>1. \A u \in Threads : Waits(u, l)' <=> (Waits(u, l) /\ u # v) \/ (again /\ u = t)
    BY <1>1 DEF Same, Owner, Waiter
  <2> QED
    BY <2>1, WaitingIsWaits
<1>6. M!Handoff(t, v, l, again)
  BY <1>2, <1>3, <1>4, <1>5 DEF M!Handoff
<1> QED
  BY <1>2, <1>4, <1>6 DEF M!Next

(* The steps that no caller can see: the thread keeps its part, and nobody *)
(* else's program counter, lock, token or relock flag changes.             *)
LEMMA UnseenSteps ==
  ASSUME IInv, NEW t \in Threads,
         RelockFastFails(t) \/ SlowLoad(t) \/ BargeFails(t) \/ SetParked(t)
         \/ SetParkedFails(t) \/ Park(t) \/ Validate(t) \/ ValidateFails(t)
         \/ Enqueue(t) \/ Wake(t) \/ UnlockFastFails(t) \/ Safepoint(t) \/
         UnlockLoad(t) \/ UnlockCASFails(t) \/ Unpark(t) \/ Dequeue(t) \/
         DequeueNobody(t) \/ SignalTarget(t)
  PROVE  \A u \in Threads : Same(u)
<1> SUFFICES OnlyChanges(t) /\ Same(t)
  BY DEF OnlyChanges
<1> USE NoneAssumption DEF IInv, TypeOK, ParkingTypeOK, PC, LocalInv, OnlyChanges, Same,
          Owns, Waits, Goto, parkingVars, BargingOpportunity, DirectHandoff
<1>1. CASE RelockFastFails(t)
  BY <1>1 DEF RelockFastFails
<1>2. CASE SlowLoad(t)
  BY <1>2 DEF SlowLoad, AfterLoad, MaySpin
<1>3. CASE BargeFails(t)
  BY <1>3 DEF BargeFails
<1>4. CASE SetParked(t)
  BY <1>4 DEF SetParked
<1>5. CASE SetParkedFails(t)
  BY <1>5 DEF SetParkedFails
<1>6. CASE Park(t)
  BY <1>6 DEF Park, ParkLockBucket
<1>7. CASE Validate(t)
  BY <1>7 DEF Validate, ParkSetAddress
<1>8. CASE ValidateFails(t)
  BY <1>8 DEF ValidateFails, ParkRefuse
<1>9. CASE Enqueue(t)
  BY <1>9 DEF Enqueue, ParkEnqueue
<1>10. CASE Wake(t)
  BY <1>10 DEF Wake, LockWasHandedOver
<1>11. CASE UnlockFastFails(t)
  BY <1>11 DEF UnlockFastFails
<1>12. CASE Safepoint(t)
  BY <1>12 DEF Safepoint
<1>13. CASE UnlockLoad(t)
  BY <1>13 DEF UnlockLoad
<1>14. CASE UnlockCASFails(t)
  BY <1>14 DEF UnlockCASFails
<1>15. CASE Unpark(t)
  BY <1>15 DEF Unpark, UnparkLockBucket
<1>16. CASE Dequeue(t)
  BY <1>16 DEF Dequeue, DequeueAt
<1>17. CASE DequeueNobody(t)
  BY <1>17 DEF DequeueNobody
<1>18. CASE SignalTarget(t)
  BY <1>18 DEF SignalTarget, Signal, UnlockReturns
<1> QED
  BY <1>1, <1>2, <1>3, <1>4, <1>5, <1>6, <1>7, <1>8, <1>9, <1>10, <1>11,
     <1>12, <1>13, <1>14, <1>15, <1>16, <1>17, <1>18

(* Outside lock(), tryLock() and unlock() a thread has no part in a lock. *)
LEMMA LockingSteps ==
  ASSUME IInv, NEW t \in Threads, NEW l \in Locks
  PROVE  /\ LockFast(t, l) \/ TryLock(t, l) => OnlyChanges(t) /\ Outside(t) /\ Owner(t, l)'
         /\ LockFastFails(t, l) => OnlyChanges(t) /\ Outside(t) /\ Waiter(t, l)'
<1> USE NoneAssumption
    DEF IInv, TypeOK, ParkingTypeOK, PC, LocalInv, OnlyChanges, Same, Owns, Waits,
        Outside, Goto, parkingVars
<1>1. LockFast(t, l) => OnlyChanges(t) /\ Outside(t) /\ Owner(t, l)'
  BY DEF LockFast, Owner
<1>2. TryLock(t, l) => OnlyChanges(t) /\ Outside(t) /\ Owner(t, l)'
  BY DEF TryLock, Owner
<1>3. LockFastFails(t, l) => OnlyChanges(t) /\ Outside(t) /\ Waiter(t, l)'
  BY DEF LockFastFails, Waiter
<1> QED
  BY <1>1, <1>2, <1>3, Zenon

(* A thread that barges in, or locks again in safepoint(), was waiting. *)
LEMMA BargingSteps ==
  ASSUME IInv, NEW t \in Threads, NEW l \in Locks, l = lk[t], RelockFast(t) \/ Barge(t)
  PROVE  OnlyChanges(t) /\ Waiter(t, l) /\ Owner(t, l)'
BY NoneAssumption
   DEF RelockFast, Barge, IInv, TypeOK, ParkingTypeOK, PC, LocalInv, OnlyChanges, Same,
       Owns, Waits, Owner, Waiter, Goto, parkingVars

(* The three unlocks that free the lock, on the fast path, in unlockSlow   *)
(* and in its callback, are steps of the owner.                            *)
LEMMA UnlockingSteps ==
  ASSUME IInv, NEW t \in Threads, NEW l \in Locks, l = lk[t],
         UnlockFast(t) \/ UnlockCAS(t) \/ ReleaseNobodyParked(t)
  PROVE  OnlyChanges(t) /\ Owner(t, l) /\ GivesUp(t, l, relock[t])
<1> USE NoneAssumption
    DEF IInv, TypeOK, ParkingTypeOK, PC, LocalInv, OnlyChanges, Same, Owns, Waits,
        Owner, Waiter, Outside, GivesUp, UnlockReturns, Goto, parkingVars
<1>1. CASE UnlockFast(t)
  BY <1>1 DEF UnlockFast
<1>2. CASE UnlockCAS(t)
  BY <1>2 DEF UnlockCAS
<1>3. CASE ReleaseNobodyParked(t)
  BY <1>3 DEF ReleaseNobodyParked, FinishDequeue
<1> QED
  BY <1>1, <1>2, <1>3

(* The callback that allows barging frees the lock too: the thread it has  *)
(* dequeued goes on waiting.                                               *)
LEMMA AllowBargingStep ==
  ASSUME IInv, NEW t \in Threads, NEW l \in Locks, l = lk[t], AllowBarging(t)
  PROVE  OnlyChanges(t) /\ Owner(t, l) /\ GivesUp(t, l, relock[t])
<1>1. PICK v \in Threads : v = target[t]
  BY DEF AllowBarging, IInv, TypeOK
<1>2. pc[v] = "asleep" /\ token[v] = BargingOpportunity
  BY <1>1, NoneAssumption DEF AllowBarging, IInv, TargetInv
<1>3. token' = token
  BY <1>1, <1>2, NoneAssumption DEF AllowBarging, FinishDequeue, IInv, TypeOK, ParkingTypeOK
<1> QED
  BY <1>3, NoneAssumption
  DEF AllowBarging, IInv, TypeOK, ParkingTypeOK, PC, LocalInv, OnlyChanges, Same, Owns,
      Waits, Owner, Waiter, Outside, GivesUp, Goto

(* The callback that hands the lock over: the thread it has dequeued was   *)
(* waiting for this lock, and owns it from the moment its token is stored. *)
LEMMA HandOverStep ==
  ASSUME IInv, NEW t \in Threads, NEW l \in Locks, l = lk[t], HandOver(t),
         NEW v \in Threads, v = target[t]
  PROVE  /\ \A u \in Threads \ {t, v} : Same(u)
         /\ t # v /\ Owner(t, l) /\ GivesUp(t, l, relock[t])
         /\ Waiter(v, l) /\ Owner(v, l)'
<1>1. /\ pc[v] = "asleep" /\ token[v] = BargingOpportunity /\ lk[v] = l
      /\ pc[t] = "callback" /\ pc' = [pc EXCEPT ![t] = "signal"]
      /\ token' = [token EXCEPT ![v] = DirectHandoff]
      /\ UNCHANGED <<lk, relock>>
  BY NoneAssumption DEF HandOver, FinishDequeue, Goto, IInv, TargetInv
<1>2. /\ pc \in [Threads -> PC] /\ token \in [Threads -> Token]
      /\ lk \in [Threads -> Locks \cup {None}] /\ relock \in [Threads -> BOOLEAN]
  BY DEF IInv, TypeOK, ParkingTypeOK
<1>3. t # v
  BY <1>1
<1>4. \A u \in Threads \ {t, v} : Same(u)
  BY <1>1, <1>2 DEF Same, Owns, Waits
<1>5. Owner(t, l) /\ GivesUp(t, l, relock[t])
  BY <1>1, <1>2, <1>3, NoneAssumption DEF Owner, GivesUp, Waiter, Outside, Owns, Waits
<1>6. Waiter(v, l) /\ Owner(v, l)'
  BY <1>1, <1>2, <1>3, NoneAssumption
  DEF Waiter, Owner, Owns, Waits, BargingOpportunity, DirectHandoff
<1> QED
  BY <1>3, <1>4, <1>5, <1>6

(* Every step of the lock is a step of the abstract lock or is invisible.  *)
LEMMA StepRefines ==
  ASSUME IInv, IInv', [Next]_vars PROVE [M!Next]_(M!vars)
<1>1. CASE UNCHANGED vars
  <2>1. \A u \in Threads : Same(u)
    BY <1>1 DEF vars, threadVars, parkingVars, Same, Owns, Waits
  <2> QED
    BY <2>1, Invisible
<1>2. CASE Next
  <2>1. PICK t \in Threads :
          \/ \E l \in Locks : LockFast(t, l) \/ LockFastFails(t, l) \/ TryLock(t, l)
          \/ Safepoint(t)
          \/ Step(t)
    BY <1>2 DEF Next
  <2>2. CASE \E l \in Locks : LockFast(t, l) \/ LockFastFails(t, l) \/ TryLock(t, l)
    BY <2>2, LockingSteps, TakesFree, StartsToWait
  <2>3. ASSUME pc[t] # "idle" PROVE lk[t] \in Locks /\ relock[t] \in BOOLEAN
    BY <2>3 DEF IInv, TypeOK, LocalInv
  <2>4. CASE RelockFast(t) \/ Barge(t)
    <3>1. PICK l \in Locks : l = lk[t]
      BY <2>3, <2>4 DEF RelockFast, Barge
    <3> QED
      BY <2>4, <3>1, BargingSteps, TakesAfterWaiting
  <2>5. CASE UnlockFast(t) \/ UnlockCAS(t) \/ ReleaseNobodyParked(t) \/ AllowBarging(t)
    <3>1. PICK l \in Locks, again \in BOOLEAN : l = lk[t] /\ again = relock[t]
      BY <2>3, <2>5 DEF UnlockFast, UnlockCAS, ReleaseNobodyParked, AllowBarging
    <3>2. OnlyChanges(t) /\ Owner(t, l) /\ GivesUp(t, l, again)
      BY <2>5, <3>1, UnlockingSteps, AllowBargingStep
    <3> QED
      BY <3>2, Frees
  <2>6. CASE HandOver(t)
    <3>1. PICK l \in Locks, again \in BOOLEAN : l = lk[t] /\ again = relock[t]
      BY <2>3, <2>6 DEF HandOver
    <3>2. PICK v \in Threads : v = target[t]
      BY <2>6 DEF HandOver, IInv, TypeOK
    <3>3. /\ \A u \in Threads \ {t, v} : Same(u)
          /\ t # v /\ Owner(t, l) /\ GivesUp(t, l, again)
          /\ Waiter(v, l) /\ Owner(v, l)'
      BY <2>6, <3>1, <3>2, HandOverStep
    <3> QED
      BY <3>3, Hands
  <2> QED
    BY <2>1, <2>2, <2>4, <2>5, <2>6, UnseenSteps, Invisible DEF Step
<1> QED
  BY <1>1, <1>2

(* The initial states of the lock are initial states of the abstract lock. *)
LEMMA InitRefines == Init => M!Init
<1> SUFFICES ASSUME Init PROVE M!Init
  OBVIOUS
<1>1. \A t \in Threads, l \in Locks : ~Owns(t, l) /\ lk[t] # l
  BY NoneAssumption DEF Init, ParkingInit, Owns
<1>2. \A l \in Locks : OwnerOf(l) = None /\ WaitingFor(l) = {}
  BY <1>1 DEF OwnerOf, WaitingFor
<1> QED
  BY <1>2 DEF M!Init

(* WTF::Lock implements Mutex: lock(), tryLock(), unlock(), unlockFairly() *)
(* and safepoint() do to the callers' view of the lock exactly what the    *)
(* abstract lock allows.                                                   *)
THEOREM LockImplementsMutex == Spec => ImplementsMutex
<1>1. IInv /\ IInv' /\ [Next]_vars => [M!Next]_(M!vars)
  BY StepRefines
<1> QED
  BY <1>1, InitRefines, InductiveInvariant, PTL DEF Spec, ImplementsMutex, M!Spec
=============================================================================
