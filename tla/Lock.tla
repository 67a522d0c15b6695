-------------------------------- MODULE Lock --------------------------------
(***************************************************************************)
(* WTF::Lock: the fast paths of Source/WTF/wtf/Lock.h, the slow paths of   *)
(* Source/WTF/wtf/LockAlgorithmInlines.h, and the parking of threads in    *)
(* the ParkingLot. One step of the model is one atomic access to the lock  *)
(* byte or one step of the ParkingLot; any thread may run between two      *)
(* steps. A compareExchangeWeak may fail although the byte has the         *)
(* expected value when SpuriousFailure is TRUE. Atomic::transaction and    *)
(* tryLock retry a failed exchange from the load, changing nothing, so     *)
(* each is one step.                                                       *)
(***************************************************************************)
EXTENDS ParkingLot

CONSTANTS
  SpinLimit,        \* spinLimit of lockSlow (40 in the code)
  SpuriousFailure   \* whether compareExchangeWeak fails spuriously

ASSUME SpinAssumption == SpinLimit \in Nat
ASSUME SpuriousAssumption == SpuriousFailure \in BOOLEAN

isHeldBit == "isHeldBit"
hasParkedBit == "hasParkedBit"
mask == {isHeldBit, hasParkedBit}

VARIABLES
  byte,     \* byte[l]: the bits set in the lock's m_byte
  pc,       \* pc[t]: where t is in the code
  lk,       \* lk[t]: the lock t is operating on, None when idle
  cur,      \* cur[t]: currentValue of lockSlow, oldByteValue of unlockSlow
  spin,     \* spin[t]: spinCount
  fair,     \* fair[t]: the fairness argument of unlockSlow
  relock,   \* relock[t]: the unlock is the first half of safepointSlow
  target    \* target[t]: threadData of unparkOneImpl, None when none

threadVars == <<pc, lk, cur, spin, fair, relock, target>>
vars == <<byte, threadVars, parkingVars>>

PC == {"idle", "relock",
       "slow", "barge", "setParked", "park", "validate", "enqueue", "asleep",
       "locked",
       "unlockLoop", "unlockCAS", "unpark", "dequeue", "callback", "signal"}

TypeOK ==
  /\ ParkingTypeOK
  /\ byte \in [Locks -> SUBSET mask]
  /\ pc \in [Threads -> PC]
  /\ lk \in [Threads -> Locks \cup {None}]
  /\ cur \in [Threads -> SUBSET mask]
  /\ spin \in [Threads -> 0..SpinLimit]
  /\ fair \in [Threads -> BOOLEAN]
  /\ relock \in [Threads -> BOOLEAN]
  /\ target \in [Threads -> Threads \cup {None}]

Init ==
  /\ ParkingInit
  /\ byte = [l \in Locks |-> {}]
  /\ pc = [t \in Threads |-> "idle"]
  /\ lk = [t \in Threads |-> None]
  /\ cur = [t \in Threads |-> {}]
  /\ spin = [t \in Threads |-> 0]
  /\ fair = [t \in Threads |-> FALSE]
  /\ relock = [t \in Threads |-> FALSE]
  /\ target = [t \in Threads |-> None]

Goto(t, label) == pc' = [pc EXCEPT ![t] = label]

(* CASSucceeds if the exchange were a plain store. *)
CASSucceedsUnconditionally(l, expected, new) ==
  byte' = [byte EXCEPT ![l] = new]

(* The outcomes of compareExchangeWeak on the byte of l. *)
CASSucceeds(l, expected, new) ==
  /\ byte[l] = expected
  /\ byte' = [byte EXCEPT ![l] = new]

CASFails(l, expected) ==
  /\ byte[l] # expected \/ SpuriousFailure
  /\ UNCHANGED byte

-----------------------------------------------------------------------------
(*                                 lock()                                  *)

(* Lock::lock when lockFastAssumingZero succeeds. *)
LockFast(t, l) ==
  /\ pc[t] = "idle"
  /\ CASSucceeds(l, {}, {isHeldBit})
  /\ Goto(t, "locked")
  /\ lk' = [lk EXCEPT ![t] = l]
  /\ UNCHANGED <<cur, spin, fair, relock, target, parkingVars>>

(* Lock::lock when lockFastAssumingZero fails: lockSlow is entered. *)
LockFastFails(t, l) ==
  /\ pc[t] = "idle"
  /\ CASFails(l, {})
  /\ Goto(t, "slow")
  /\ lk' = [lk EXCEPT ![t] = l]
  /\ spin' = [spin EXCEPT ![t] = 0]
  /\ UNCHANGED <<cur, fair, relock, target, parkingVars>>

(* Lock::tryLock that returns true. One that returns false changes nothing. *)
TryLock(t, l) ==
  /\ pc[t] = "idle"
  /\ isHeldBit \notin byte[l]
  /\ byte' = [byte EXCEPT ![l] = @ \cup {isHeldBit}]
  /\ Goto(t, "locked")
  /\ lk' = [lk EXCEPT ![t] = l]
  /\ UNCHANGED <<cur, spin, fair, relock, target, parkingVars>>

(* The second half of safepointSlow: lock(lockWord), whose lockFast takes  *)
(* the lock whenever the held bit is clear ...                             *)
RelockFast(t) ==
  /\ pc[t] = "relock"
  /\ isHeldBit \notin byte[lk[t]]
  /\ byte' = [byte EXCEPT ![lk[t]] = @ \cup {isHeldBit}]
  /\ Goto(t, "locked")
  /\ relock' = [relock EXCEPT ![t] = FALSE]
  /\ UNCHANGED <<lk, cur, spin, fair, target, parkingVars>>

(* ... and which otherwise calls lockSlow. *)
RelockFastFails(t) ==
  /\ pc[t] = "relock"
  /\ isHeldBit \in byte[lk[t]]
  /\ Goto(t, "slow")
  /\ spin' = [spin EXCEPT ![t] = 0]
  /\ relock' = [relock EXCEPT ![t] = FALSE]
  /\ UNCHANGED <<byte, lk, cur, fair, target, parkingVars>>

(* "We haven't spun too much." *)
MaySpin(t) == spin[t] < SpinLimit

(* The branches of lockSlow on the value v that it loaded. *)
AfterLoad(t, v) ==
  IF isHeldBit \notin v THEN "barge"
  ELSE IF hasParkedBit \in v THEN "park"
  ELSE IF MaySpin(t) THEN "slow"
  ELSE "setParked"

(* The head of lockSlow's loop: load the byte and branch on it, counting   *)
(* the iterations that only spin.                                          *)
SlowLoad(t) ==
  /\ pc[t] = "slow"
  /\ cur' = [cur EXCEPT ![t] = byte[lk[t]]]
  /\ Goto(t, AfterLoad(t, byte[lk[t]]))
  /\ spin' = [spin EXCEPT ![t] = IF AfterLoad(t, byte[lk[t]]) = "slow" THEN @ + 1 ELSE @]
  /\ UNCHANGED <<byte, lk, fair, relock, target, parkingVars>>

(* The value that the exchange of a barging thread expects. *)
BargeExpects(t) == cur[t]

(* "We allow ourselves to barge in." *)
Barge(t) ==
  /\ pc[t] = "barge"
  /\ CASSucceeds(lk[t], BargeExpects(t), cur[t] \cup {isHeldBit})
  /\ Goto(t, "locked")
  /\ UNCHANGED <<lk, cur, spin, fair, relock, target, parkingVars>>

BargeFails(t) ==
  /\ pc[t] = "barge"
  /\ CASFails(lk[t], BargeExpects(t))
  /\ Goto(t, "slow")
  /\ UNCHANGED <<lk, cur, spin, fair, relock, target, parkingVars>>

(* Set the parked bit before parking; start over if the exchange fails. *)
SetParked(t) ==
  /\ pc[t] = "setParked"
  /\ CASSucceeds(lk[t], cur[t], cur[t] \cup {hasParkedBit})
  /\ cur' = [cur EXCEPT ![t] = @ \cup {hasParkedBit}]
  /\ Goto(t, "park")
  /\ UNCHANGED <<lk, spin, fair, relock, target, parkingVars>>

SetParkedFails(t) ==
  /\ pc[t] = "setParked"
  /\ CASFails(lk[t], cur[t])
  /\ Goto(t, "slow")
  /\ UNCHANGED <<lk, cur, spin, fair, relock, target, parkingVars>>

(* compareAndPark: enter parkConditionallyImpl and lock the bucket. *)
Park(t) ==
  /\ pc[t] = "park"
  /\ ParkLockBucket(t, lk[t])
  /\ Goto(t, "validate")
  /\ UNCHANGED <<byte, lk, cur, spin, fair, relock, target>>

(* The validation if it were skipped. *)
NoValidation(t) == TRUE

(* compareAndPark's validation functor: is the byte still the value that   *)
(* lockSlow saw?                                                           *)
Validation(t) == byte[lk[t]] = cur[t]

(* The validation runs under the bucket lock. *)
Validate(t) ==
  /\ pc[t] = "validate"
  /\ Validation(t)
  /\ ParkSetAddress(t, lk[t])
  /\ Goto(t, "enqueue")
  /\ UNCHANGED <<byte, lk, cur, spin, fair, relock, target>>

ValidateFails(t) ==
  /\ pc[t] = "validate"
  /\ ~Validation(t)
  /\ ParkRefuse(t, lk[t])
  /\ Goto(t, "slow")
  /\ UNCHANGED <<byte, lk, cur, spin, fair, relock, target>>

Enqueue(t) ==
  /\ pc[t] = "enqueue"
  /\ ParkEnqueue(t, lk[t])
  /\ Goto(t, "asleep")
  /\ UNCHANGED <<byte, lk, cur, spin, fair, relock, target>>

(* LockWasHandedOver if every unpark were taken for a handoff. *)
AnyUnparkIsHandoff(t) == TRUE

(* case DirectHandoff of lockSlow's switch. *)
LockWasHandedOver(t) == token[t] = DirectHandoff

(* The sleeping thread finds its address cleared, and lockSlow acts on the *)
(* token: the lock is ours, or we may compete for it.                      *)
Wake(t) ==
  /\ pc[t] = "asleep"
  /\ address[t] = None
  /\ Goto(t, IF LockWasHandedOver(t) THEN "locked" ELSE "slow")
  /\ UNCHANGED <<byte, lk, cur, spin, fair, relock, target, parkingVars>>

-----------------------------------------------------------------------------
(*                       unlock() and unlockFairly()                       *)

(* unlock returns to the caller, or safepointSlow goes on to lock again. *)
UnlockReturns(t) ==
  /\ Goto(t, IF relock[t] THEN "relock" ELSE "idle")
  /\ lk' = [lk EXCEPT ![t] = IF relock[t] THEN @ ELSE None]

(* Lock::unlock or unlockFairly when unlockFastAssumingZero succeeds. *)
UnlockFast(t) ==
  /\ pc[t] = "locked"
  /\ CASSucceeds(lk[t], {isHeldBit}, {})
  /\ UnlockReturns(t)
  /\ UNCHANGED <<cur, spin, fair, relock, target, parkingVars>>

(* ... and when it fails: unlockSlow is called, Fair or Unfair. *)
UnlockFastFails(t) ==
  /\ pc[t] = "locked"
  /\ CASFails(lk[t], {isHeldBit})
  /\ Goto(t, "unlockLoop")
  /\ \E fairness \in BOOLEAN : fair' = [fair EXCEPT ![t] = fairness]
  /\ UNCHANGED <<lk, cur, spin, relock, target, parkingVars>>

(* Lock::safepoint: safepointFast saw a parked thread, so safepointSlow    *)
(* unlocks fairly and locks again. Its unlockFast cannot succeed, because  *)
(* only the holder clears the parked bit: the step ends in unlockSlow.     *)
Safepoint(t) ==
  /\ pc[t] = "locked"
  /\ hasParkedBit \in byte[lk[t]]
  /\ Goto(t, "unlockLoop")
  /\ fair' = [fair EXCEPT ![t] = TRUE]
  /\ relock' = [relock EXCEPT ![t] = TRUE]
  /\ UNCHANGED <<byte, lk, cur, spin, target, parkingVars>>

(* The head of unlockSlow's loop: is somebody parked? *)
UnlockLoad(t) ==
  /\ pc[t] = "unlockLoop"
  /\ cur' = [cur EXCEPT ![t] = byte[lk[t]]]
  /\ Goto(t, IF byte[lk[t]] = {isHeldBit} THEN "unlockCAS" ELSE "unpark")
  /\ UNCHANGED <<byte, lk, spin, fair, relock, target, parkingVars>>

(* Nobody was: release with an exchange, or start over. *)
UnlockCAS(t) ==
  /\ pc[t] = "unlockCAS"
  /\ CASSucceeds(lk[t], cur[t], cur[t] \ {isHeldBit})
  /\ UnlockReturns(t)
  /\ UNCHANGED <<cur, spin, fair, relock, target, parkingVars>>

UnlockCASFails(t) ==
  /\ pc[t] = "unlockCAS"
  /\ CASFails(lk[t], cur[t])
  /\ Goto(t, "unlockLoop")
  /\ UNCHANGED <<lk, cur, spin, fair, relock, target, parkingVars>>

(* ParkingLot::unparkOne(&lock, callback). *)
Unpark(t) ==
  /\ pc[t] = "unpark"
  /\ UnparkLockBucket(t, lk[t])
  /\ Goto(t, "dequeue")
  /\ UNCHANGED <<byte, lk, cur, spin, fair, relock, target>>

(* Take the first thread of the queue that is parked on this lock ... *)
Dequeue(t) ==
  /\ pc[t] = "dequeue"
  /\ \E i \in DOMAIN queue[BucketOf[lk[t]]] :
       /\ DequeueAt(i, lk[t])
       /\ target' = [target EXCEPT ![t] = queue[BucketOf[lk[t]]][i]]
  /\ Goto(t, "callback")
  /\ UNCHANGED <<byte, lk, cur, spin, fair, relock>>

(* ... which may not exist: the bit can be set before its setter parks. *)
DequeueNobody(t) ==
  /\ pc[t] = "dequeue"
  /\ ParkedOn(lk[t]) = {}
  /\ Goto(t, "callback")
  /\ UNCHANGED <<byte, lk, cur, spin, fair, relock, target, parkingVars>>

(* MayHaveMoreThreads if the parked bit were always dropped. *)
NeverMoreThreads(t) == FALSE

(* result.mayHaveMoreThreads, when a thread was dequeued *)
MayHaveMoreThreads(t) == BucketNonEmpty(lk[t])

(* The callback of unlockSlow, under the bucket lock, when it hands the    *)
(* lock over: the unlock is fair or timeToBeFair is true. The latter is so *)
(* roughly once per millisecond; any dequeue may find it so.               *)
HandOver(t) ==
  /\ pc[t] = "callback"
  /\ target[t] # None
  /\ FinishDequeue(lk[t], target[t], DirectHandoff)
  /\ Goto(t, "signal")
  /\ UNCHANGED <<byte, lk, cur, spin, fair, relock, target>>

(* The callback when it releases the lock and allows barging. *)
AllowBarging(t) ==
  /\ pc[t] = "callback"
  /\ target[t] # None
  /\ ~fair[t]
  /\ byte' = [byte EXCEPT ![lk[t]] = IF MayHaveMoreThreads(t) THEN {hasParkedBit} ELSE {}]
  /\ FinishDequeue(lk[t], target[t], BargingOpportunity)
  /\ Goto(t, "signal")
  /\ UNCHANGED <<lk, cur, spin, fair, relock, target>>

(* The callback when no thread was dequeued: unparkOneImpl returns. *)
ReleaseNobodyParked(t) ==
  /\ pc[t] = "callback"
  /\ target[t] = None
  /\ byte' = [byte EXCEPT ![lk[t]] = {}]
  /\ FinishDequeue(lk[t], None, BargingOpportunity)
  /\ UnlockReturns(t)
  /\ UNCHANGED <<cur, spin, fair, relock, target>>

(* The dequeued thread is told to run. *)
SignalTarget(t) ==
  /\ pc[t] = "signal"
  /\ Signal(target[t])
  /\ target' = [target EXCEPT ![t] = None]
  /\ UnlockReturns(t)
  /\ UNCHANGED <<byte, cur, spin, fair, relock>>

-----------------------------------------------------------------------------
(* The steps of a thread that is inside lock(), holds a lock, or is inside *)
(* unlock(). Safepoint is optional, so it is no part of what a thread must *)
(* do.                                                                     *)
Step(t) ==
  \/ RelockFast(t) \/ RelockFastFails(t)
  \/ SlowLoad(t) \/ Barge(t) \/ BargeFails(t) \/ SetParked(t) \/ SetParkedFails(t)
  \/ Park(t) \/ Validate(t) \/ ValidateFails(t) \/ Enqueue(t) \/ Wake(t)
  \/ UnlockFast(t) \/ UnlockFastFails(t)
  \/ UnlockLoad(t) \/ UnlockCAS(t) \/ UnlockCASFails(t)
  \/ Unpark(t) \/ Dequeue(t) \/ DequeueNobody(t)
  \/ HandOver(t) \/ AllowBarging(t) \/ ReleaseNobodyParked(t) \/ SignalTarget(t)

Next ==
  \E t \in Threads :
    \/ \E l \in Locks : LockFast(t, l) \/ LockFastFails(t, l) \/ TryLock(t, l)
    \/ Safepoint(t)
    \/ Step(t)

Spec == Init /\ [][Next]_vars

(* Every thread that is not idle is eventually scheduled, and a critical   *)
(* section ends.                                                           *)
FairSpec == Spec /\ \A t \in Threads : WF_vars(Step(t))

-----------------------------------------------------------------------------
(*                               Properties                                *)

(* The threads queued on l, which may share their bucket with others. *)
Queued(l) ==
  {t \in Threads : \E i \in DOMAIN queue[BucketOf[l]] :
                     queue[BucketOf[l]][i] = t /\ address[t] = l}

(* t is between the successful acquisition of l and its release. A thread  *)
(* that was handed the lock owns it from the moment its token is stored,   *)
(* while it is still asleep.                                               *)
Owns(t, l) ==
  /\ lk[t] = l
  /\ \/ pc[t] \in {"locked", "unlockLoop", "unlockCAS", "unpark", "dequeue", "callback"}
     \/ pc[t] = "asleep" /\ token[t] = DirectHandoff

(* t is inside lock() or unlock() on l and is not merely queued: it runs,  *)
(* or it was handed the lock, or some thread has dequeued it to wake it.   *)
Engaged(t, l) ==
  /\ lk[t] = l
  /\ \/ pc[t] \notin {"asleep", "signal"}
     \/ pc[t] = "asleep" /\ (token[t] = DirectHandoff \/ t \notin Queued(l))

(* The threads inside lock() on l that do not own it, in safepoint() too. *)
WaitingFor(l) ==
  {t \in Threads : /\ lk[t] = l
                   /\ ~Owns(t, l)
                   /\ pc[t] = "signal" => relock[t]}

(* A lock has at most one owner, counting a sleeping thread that the lock  *)
(* was handed to, and the held bit of the byte says exactly whether it has *)
(* one: a direct handoff, a barging thread and tryLock never overlap.      *)
MutualExclusion ==
  \A l \in Locks :
    /\ \A t, u \in Threads : Owns(t, l) /\ Owns(u, l) => t = u
    /\ isHeldBit \in byte[l] <=> \E t \in Threads : Owns(t, l)

(* Whenever a thread is queued on l, the parked bit of l is set, so the    *)
(* next unlock must take the slow path and find it, even when other locks  *)
(* share the bucket: the bit is not cleared under a queued thread.         *)
ParkedBitCoversQueue ==
  \A l \in Locks : Queued(l) # {} => hasParkedBit \in byte[l]

(* A thread queued on l is never stranded: somebody owns l and will unlock *)
(* it, or somebody runs (or is being woken) who will acquire l or park.    *)
NoStrandedThread ==
  \A l \in Locks : Queued(l) # {} => \E t \in Threads : Engaged(t, l)

(* The assertions of the code hold where they are evaluated: me->address   *)
(* is null when parking starts, unlockSlow finds the held bit, its         *)
(* callback finds both bits, the dequeued thread is still parked when it   *)
(* is signalled, and a thread woken by a handoff finds the lock held.      *)
AssertionsHold ==
  \A t \in Threads :
    /\ pc[t] \in {"park", "validate"} => address[t] = None
    /\ pc[t] \in {"unlockLoop", "unlockCAS"} => isHeldBit \in byte[lk[t]]
    /\ pc[t] = "callback" => byte[lk[t]] = mask
    /\ pc[t] = "signal" => target[t] # None /\ address[target[t]] = lk[t]
    /\ pc[t] = "asleep" /\ token[t] = DirectHandoff => isHeldBit \in byte[lk[t]]

(* A sleeping thread that nobody has signalled yet is in the queue of its  *)
(* bucket, or in the hands of the one thread that dequeued it, never in    *)
(* neither and never in both: unparkOneImpl clears the address after the   *)
(* bucket lock is gone, and no other unlocker can take the same thread.    *)
SleeperAccountedFor ==
  /\ \A t \in Threads, l \in Locks :
       pc[t] = "asleep" /\ lk[t] = l /\ address[t] # None =>
         t \in Queued(l) \/ \E u \in Threads : target[u] = t
  /\ \A t \in Threads : target[t] # None =>
       /\ \A u \in Threads : target[u] = target[t] => u = t
       /\ \A b \in Buckets : \A i \in DOMAIN queue[b] : queue[b][i] # target[t]

(* A parked thread is eventually unparked, provided holders unlock. *)
SleepersWake ==
  \A t \in Threads : (pc[t] = "asleep") ~> (pc[t] # "asleep")

-----------------------------------------------------------------------------
(* The invariant that an induction over the steps needs. *)

(* Each program counter fixes what the thread's own variables can be. *)
LocalInv ==
  \A t \in Threads :
    /\ lk[t] = None <=> pc[t] = "idle"
    /\ pc[t] = "barge" => isHeldBit \notin cur[t]
    /\ pc[t] \in {"setParked", "unlockCAS"} => cur[t] = {isHeldBit}
    /\ pc[t] \in {"park", "validate", "enqueue"} => cur[t] = mask
    /\ pc[t] \notin {"enqueue", "asleep"} => address[t] = None
    /\ pc[t] = "enqueue" => address[t] = lk[t]
    /\ pc[t] = "asleep" => address[t] \in {lk[t], None}
    /\ pc[t] \in {"validate", "enqueue"} => token[t] = BargingOpportunity

(* The bucket lock is held from its acquisition to the end of the section. *)
BucketInv ==
  \A t \in Threads :
    pc[t] \in {"validate", "enqueue", "dequeue", "callback"} =>
      bucketLock[BucketOf[lk[t]]] = t

(* Both bits are set under an unlocker that found the parked bit, and      *)
(* under a thread that has passed its validation: the holder cannot        *)
(* release the lock before that thread is in the queue.                    *)
ByteInv ==
  \A t \in Threads :
    pc[t] \in {"unpark", "dequeue", "callback", "enqueue"} => byte[lk[t]] = mask

(* A queue holds each thread once: threads asleep on an address of the     *)
(* bucket, with the token they parked with.                                *)
QueueInv ==
  \A b \in Buckets : \A i \in DOMAIN queue[b] :
    /\ pc[queue[b][i]] = "asleep"
    /\ lk[queue[b][i]] # None
    /\ address[queue[b][i]] = lk[queue[b][i]]
    /\ BucketOf[lk[queue[b][i]]] = b
    /\ token[queue[b][i]] = BargingOpportunity
    /\ \A j \in DOMAIN queue[b] : queue[b][j] = queue[b][i] => j = i

(* A dequeued thread sleeps on the lock of the thread that dequeued it,    *)
(* and one that dequeued nobody knows that nobody is queued.               *)
TargetInv ==
  \A t \in Threads :
    /\ \A l \in Locks :
         pc[t] = "callback" /\ lk[t] = l /\ target[t] = None => Queued(l) = {}
    /\ pc[t] = "signal" => target[t] # None
    /\ target[t] # None =>
         /\ pc[t] \in {"callback", "signal"}
         /\ pc[target[t]] = "asleep"
         /\ address[target[t]] = lk[t]
         /\ lk[target[t]] = lk[t]
         /\ pc[t] = "callback" => token[target[t]] = BargingOpportunity

IInv ==
  /\ TypeOK /\ LocalInv /\ BucketInv /\ ByteInv /\ QueueInv /\ TargetInv
  /\ MutualExclusion /\ ParkedBitCoversQueue /\ NoStrandedThread
  /\ SleeperAccountedFor

-----------------------------------------------------------------------------
(* The refinement mapping to Mutex. *)
OwnerOf(l) == IF \E t \in Threads : Owns(t, l)
              THEN CHOOSE t \in Threads : Owns(t, l)
              ELSE None

M == INSTANCE Mutex WITH holder <- [l \in Locks |-> OwnerOf(l)],
                         waiting <- [l \in Locks |-> WaitingFor(l)]

(* Lock implements Mutex: every step of the algorithm is a step of the     *)
(* abstract lock or changes nothing a caller can see.                      *)
ImplementsMutex == M!Spec
=============================================================================
