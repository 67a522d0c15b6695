-------------------------- MODULE WordLockProofs --------------------------
(***************************************************************************)
(* WordLock is a mutual exclusion lock, for every set of threads and every *)
(* spin limit, whether or not compareExchangeWeak fails spuriously.        *)
(*                                                                         *)
(* The argument is about the word only.  The queue lock is taken only      *)
(* while the lock is held and keeps the holder from releasing it, so while *)
(* a thread has the queue lock nobody else can change the word: that is    *)
(* what makes the plain stores of lockSlow() and unlockSlow() safe.        *)
(*                                                                         *)
(* The queue is a second invariant over the first: its nodes are a list of *)
(* distinct waiting threads, which Enqueue extends at its end and Dequeue  *)
(* shortens at its head, and a node that has left it is in the hands of    *)
(* one unlocking thread.                                                   *)
(***************************************************************************)
EXTENDS WordLock, FiniteSetTheorems, WellFoundedInduction, TLAPS

(* A thread about to compare-exchange remembers the tests it made on the   *)
(* value it loaded, and one that dequeues has somebody to dequeue.         *)
Remembers(t) ==
    /\ At(t, "acquire") => ~current[t].locked
    /\ At(t, "lockQueue") => current[t].locked /\ ~current[t].queueLocked
    /\ At(t, "unlockLockQueue") =>
            ~current[t].queueLocked /\ current[t].head # None
    /\ At(t, "dequeue") => word.head # None
    /\ pc[t] \in {"release", "clear", "wake", "notify"} => queueHead[t] \in Threads

Inv ==
    /\ TypeOK
    /\ MutualExclusion
    /\ PlainStoresLoseNothing
    /\ word.queueLocked => word.locked
    /\ \A t \in Threads : Remembers(t)

(* What the loads and the compare-exchanges make of a word is a word, and  *)
(* a word with the locked bit, no queue lock and more than the locked bit  *)
(* has a queue head.                                                       *)
LEMMA WordFacts ==
    /\ Zero \in Word /\ isLockedBit \in Word
    /\ \A w \in Word : /\ [w EXCEPT !.locked = TRUE] \in Word
                       /\ [w EXCEPT !.queueLocked = TRUE] \in Word
                       /\ w.locked /\ ~w.queueLocked /\ w # isLockedBit =>
                              w.head # None
  <1>1. Zero \in Word /\ isLockedBit \in Word
    BY DEF Word, Zero, isLockedBit
  <1>2. ASSUME NEW w \in Word
        PROVE  [w EXCEPT !.locked = TRUE] \in Word /\ [w EXCEPT !.queueLocked = TRUE] \in Word
    BY DEF Word
  <1>3. ASSUME NEW w \in Word, w.locked, ~w.queueLocked, w # isLockedBit
        PROVE  w.head # None
    <2>1. SUFFICES ASSUME w.head = None PROVE w = isLockedBit
      BY <1>3
    <2>a. w.locked \in BOOLEAN /\ w.queueLocked \in BOOLEAN
      BY DEF Word
    <2>2. w.locked = TRUE /\ w.queueLocked = FALSE
      BY <1>3, <2>a, Zenon
    <2>3. w = [locked |-> w.locked, queueLocked |-> w.queueLocked, head |-> w.head]
      BY DEF Word
    <2>4. isLockedBit = [locked |-> TRUE, queueLocked |-> FALSE, head |-> None]
      BY DEF isLockedBit
    <2>5. QED
      BY <2>1, <2>2, <2>3, <2>4
  <1>4. QED
    BY <1>1, <1>2, <1>3

(* The invariant holds initially.                                          *)
LEMMA InitInv == Init => Inv
  BY NoneAssumption, SpinLimitAssumption
  DEF Init, Inv, TypeOK, Word, Zero, MutualExclusion, HoldsLock, HoldsQueue,
      PlainStoresLoseNothing, Remembers, At

(* lock(): the fast path takes the lock or enters lockSlow().              *)
LEMMA LockPreserves == ASSUME Inv, NEW t \in Threads, Lock(t) PROVE Inv'
  <1> USE NoneAssumption, SpinLimitAssumption DEF At, Goto, nodeVars
  <1>1. TypeOK'
    <2>1. word' \in Word
      <3>1. word \in Word /\ current[t] \in Word
        BY DEF Inv, TypeOK
      <3>2. \/ CASSucceeds(Zero, isLockedBit)
            \/ CASFails(Zero)
        BY DEF Lock
      <3>3. QED
        BY <3>1, <3>2, WordFacts DEF CASSucceeds, CASFails
    <2>2. pc' \in [Threads -> {"idle", "slow", "acquire", "reload", "lockQueue",
                           "enqueue", "publish", "park", "asleep", "locked",
                           "unlockSlow", "unlockCAS", "unlockLockQueue",
                           "dequeue", "release", "clear", "wake", "notify"}]
      BY DEF Lock, Inv, TypeOK
    <2>3. QED
      BY <2>1, <2>2 DEF Lock, Inv, TypeOK
  <1> USE DEF Lock, CASSucceeds, CASFails, Zero, isLockedBit
  <1>2. MutualExclusion'
    BY DEF Inv, TypeOK, Word, MutualExclusion, HoldsLock, HoldsQueue,
         PlainStoresLoseNothing, Remembers
  <1>3. PlainStoresLoseNothing'
    BY DEF Inv, TypeOK, Word, MutualExclusion, HoldsLock, HoldsQueue,
         PlainStoresLoseNothing, Remembers
  <1>4. (word.queueLocked => word.locked)'
    BY DEF Inv, TypeOK, Word, MutualExclusion, HoldsLock, HoldsQueue,
         PlainStoresLoseNothing, Remembers
  <1>5. \A u \in Threads : Remembers(u)'
    BY DEF Inv, TypeOK, Word, MutualExclusion, HoldsLock, HoldsQueue,
         PlainStoresLoseNothing, Remembers
  <1>6. QED
    BY <1>1, <1>2, <1>3, <1>4, <1>5 DEF Inv

(* The top of lockSlow()'s loop.                                           *)
LEMMA LockSlowPreserves == ASSUME Inv, NEW t \in Threads, LockSlow(t) PROVE Inv'
  <1> USE NoneAssumption, SpinLimitAssumption DEF LockSlow, At, Goto, nodeVars, Load, SpinOrQueue
  <1>1. TypeOK'
    BY DEF Inv, TypeOK, Word, Remembers
  <1>2. MutualExclusion'
    BY DEF Inv, TypeOK, Word, MutualExclusion, HoldsLock, HoldsQueue,
         PlainStoresLoseNothing, Remembers
  <1>3. PlainStoresLoseNothing'
    BY DEF Inv, TypeOK, Word, MutualExclusion, HoldsLock, HoldsQueue,
         PlainStoresLoseNothing, Remembers
  <1>4. (word.queueLocked => word.locked)'
    BY DEF Inv, TypeOK, Word, MutualExclusion, HoldsLock, HoldsQueue,
         PlainStoresLoseNothing, Remembers
  <1>5. \A u \in Threads : Remembers(u)'
    BY DEF Inv, TypeOK, Word, MutualExclusion, HoldsLock, HoldsQueue,
         PlainStoresLoseNothing, Remembers
  <1>6. QED
    BY <1>1, <1>2, <1>3, <1>4, <1>5 DEF Inv

(* Barging in on a free lock.                                              *)
LEMMA AcquirePreserves == ASSUME Inv, NEW t \in Threads, Acquire(t) PROVE Inv'
  <1> USE NoneAssumption, SpinLimitAssumption DEF At, Goto, nodeVars
  <1>1. TypeOK'
    <2>1. word' \in Word
      <3>1. word \in Word /\ current[t] \in Word
        BY DEF Inv, TypeOK
      <3>2. \/ CASSucceeds(current[t], [current[t] EXCEPT !.locked = TRUE])
            \/ CASFails(current[t])
        BY DEF Acquire
      <3>3. QED
        BY <3>1, <3>2, WordFacts DEF CASSucceeds, CASFails
    <2>2. pc' \in [Threads -> {"idle", "slow", "acquire", "reload", "lockQueue",
                           "enqueue", "publish", "park", "asleep", "locked",
                           "unlockSlow", "unlockCAS", "unlockLockQueue",
                           "dequeue", "release", "clear", "wake", "notify"}]
      BY DEF Acquire, Inv, TypeOK, SpinOrQueue
    <2>3. QED
      BY <2>1, <2>2 DEF Acquire, Inv, TypeOK, SpinOrQueue
  <1> USE DEF Acquire, CASSucceeds, CASFails, SpinOrQueue
  <1>2. MutualExclusion'
    BY DEF Inv, TypeOK, Word, MutualExclusion, HoldsLock, HoldsQueue,
         PlainStoresLoseNothing, Remembers
  <1>3. PlainStoresLoseNothing'
    BY DEF Inv, TypeOK, Word, MutualExclusion, HoldsLock, HoldsQueue,
         PlainStoresLoseNothing, Remembers
  <1>4. (word.queueLocked => word.locked)'
    BY DEF Inv, TypeOK, Word, MutualExclusion, HoldsLock, HoldsQueue,
         PlainStoresLoseNothing, Remembers
  <1>5. \A u \in Threads : Remembers(u)'
    BY DEF Inv, TypeOK, Word, MutualExclusion, HoldsLock, HoldsQueue,
         PlainStoresLoseNothing, Remembers
  <1>6. QED
    BY <1>1, <1>2, <1>3, <1>4, <1>5 DEF Inv

(* Looking at the word again before locking the queue.                     *)
LEMMA ReloadPreserves == ASSUME Inv, NEW t \in Threads, Reload(t) PROVE Inv'
  <1> USE NoneAssumption, SpinLimitAssumption DEF Reload, At, Goto, nodeVars, Load, NewThreadData
  <1>1. TypeOK'
    BY DEF Inv, TypeOK, Word, Remembers
  <1>2. MutualExclusion'
    BY DEF Inv, TypeOK, Word, MutualExclusion, HoldsLock, HoldsQueue,
         PlainStoresLoseNothing, Remembers
  <1>3. PlainStoresLoseNothing'
    BY DEF Inv, TypeOK, Word, MutualExclusion, HoldsLock, HoldsQueue,
         PlainStoresLoseNothing, Remembers
  <1>4. (word.queueLocked => word.locked)'
    BY DEF Inv, TypeOK, Word, MutualExclusion, HoldsLock, HoldsQueue,
         PlainStoresLoseNothing, Remembers
  <1>5. \A u \in Threads : Remembers(u)'
    BY DEF Inv, TypeOK, Word, MutualExclusion, HoldsLock, HoldsQueue,
         PlainStoresLoseNothing, Remembers
  <1>6. QED
    BY <1>1, <1>2, <1>3, <1>4, <1>5 DEF Inv

(* A waiting thread locks the queue.                                       *)
LEMMA LockQueuePreserves == ASSUME Inv, NEW t \in Threads, LockQueue(t) PROVE Inv'
  <1> USE NoneAssumption, SpinLimitAssumption DEF At, Goto, nodeVars
  <1>1. TypeOK'
    <2>1. word' \in Word
      <3>1. word \in Word /\ current[t] \in Word
        BY DEF Inv, TypeOK
      <3>2. \/ CASSucceeds(current[t], [current[t] EXCEPT !.queueLocked = TRUE])
            \/ CASFails(current[t])
        BY DEF LockQueue
      <3>3. QED
        BY <3>1, <3>2, WordFacts DEF CASSucceeds, CASFails
    <2>2. pc' \in [Threads -> {"idle", "slow", "acquire", "reload", "lockQueue",
                           "enqueue", "publish", "park", "asleep", "locked",
                           "unlockSlow", "unlockCAS", "unlockLockQueue",
                           "dequeue", "release", "clear", "wake", "notify"}]
      BY DEF LockQueue, Inv, TypeOK
    <2>3. QED
      BY <2>1, <2>2 DEF LockQueue, Inv, TypeOK
  <1> USE DEF LockQueue, CASSucceeds, CASFails
  <1>2. MutualExclusion'
    BY DEF Inv, TypeOK, Word, MutualExclusion, HoldsLock, HoldsQueue,
         PlainStoresLoseNothing, Remembers
  <1>3. PlainStoresLoseNothing'
    BY DEF Inv, TypeOK, Word, MutualExclusion, HoldsLock, HoldsQueue,
         PlainStoresLoseNothing, Remembers
  <1>4. (word.queueLocked => word.locked)'
    BY DEF Inv, TypeOK, Word, MutualExclusion, HoldsLock, HoldsQueue,
         PlainStoresLoseNothing, Remembers
  <1>5. \A u \in Threads : Remembers(u)'
    BY DEF Inv, TypeOK, Word, MutualExclusion, HoldsLock, HoldsQueue,
         PlainStoresLoseNothing, Remembers
  <1>6. QED
    BY <1>1, <1>2, <1>3, <1>4, <1>5 DEF Inv

(* A waiting thread links its node.                                        *)
LEMMA EnqueuePreserves == ASSUME Inv, NEW t \in Threads, Enqueue(t) PROVE Inv'
  <1> USE NoneAssumption, SpinLimitAssumption DEF Enqueue, At, Goto, nodeVars, Load
  <1>1. TypeOK'
    BY DEF Inv, TypeOK, Word, Remembers
  <1>2. MutualExclusion'
    BY DEF Inv, TypeOK, Word, MutualExclusion, HoldsLock, HoldsQueue,
         PlainStoresLoseNothing, Remembers
  <1>3. PlainStoresLoseNothing'
    BY DEF Inv, TypeOK, Word, MutualExclusion, HoldsLock, HoldsQueue,
         PlainStoresLoseNothing, Remembers
  <1>4. (word.queueLocked => word.locked)'
    BY DEF Inv, TypeOK, Word, MutualExclusion, HoldsLock, HoldsQueue,
         PlainStoresLoseNothing, Remembers
  <1>5. \A u \in Threads : Remembers(u)'
    BY DEF Inv, TypeOK, Word, MutualExclusion, HoldsLock, HoldsQueue,
         PlainStoresLoseNothing, Remembers
  <1>6. QED
    BY <1>1, <1>2, <1>3, <1>4, <1>5 DEF Inv

(* A waiting thread unlocks the queue with a plain store.                  *)
LEMMA PublishPreserves == ASSUME Inv, NEW t \in Threads, Publish(t) PROVE Inv'
  <1> USE NoneAssumption, SpinLimitAssumption DEF Publish, At, Goto, nodeVars
  <1>1. TypeOK'
    BY DEF Inv, TypeOK, Word, Remembers
  <1>2. MutualExclusion'
    BY DEF Inv, TypeOK, Word, MutualExclusion, HoldsLock, HoldsQueue,
         PlainStoresLoseNothing, Remembers
  <1>3. PlainStoresLoseNothing'
    BY DEF Inv, TypeOK, Word, MutualExclusion, HoldsLock, HoldsQueue,
         PlainStoresLoseNothing, Remembers
  <1>4. (word.queueLocked => word.locked)'
    BY DEF Inv, TypeOK, Word, MutualExclusion, HoldsLock, HoldsQueue,
         PlainStoresLoseNothing, Remembers
  <1>5. \A u \in Threads : Remembers(u)'
    BY DEF Inv, TypeOK, Word, MutualExclusion, HoldsLock, HoldsQueue,
         PlainStoresLoseNothing, Remembers
  <1>6. QED
    BY <1>1, <1>2, <1>3, <1>4, <1>5 DEF Inv

(* A waiting thread goes to sleep or goes around the loop.                 *)
LEMMA ParkPreserves == ASSUME Inv, NEW t \in Threads, Park(t) PROVE Inv'
  <1> USE NoneAssumption, SpinLimitAssumption DEF Park, At, Goto, nodeVars
  <1>1. TypeOK'
    BY DEF Inv, TypeOK, Word, Remembers
  <1>2. MutualExclusion'
    BY DEF Inv, TypeOK, Word, MutualExclusion, HoldsLock, HoldsQueue,
         PlainStoresLoseNothing, Remembers
  <1>3. PlainStoresLoseNothing'
    BY DEF Inv, TypeOK, Word, MutualExclusion, HoldsLock, HoldsQueue,
         PlainStoresLoseNothing, Remembers
  <1>4. (word.queueLocked => word.locked)'
    BY DEF Inv, TypeOK, Word, MutualExclusion, HoldsLock, HoldsQueue,
         PlainStoresLoseNothing, Remembers
  <1>5. \A u \in Threads : Remembers(u)'
    BY DEF Inv, TypeOK, Word, MutualExclusion, HoldsLock, HoldsQueue,
         PlainStoresLoseNothing, Remembers
  <1>6. QED
    BY <1>1, <1>2, <1>3, <1>4, <1>5 DEF Inv

(* A sleeping thread wakes for no reason.                                  *)
LEMMA SpuriousWakeupPreserves == ASSUME Inv, NEW t \in Threads, SpuriousWakeup(t) PROVE Inv'
  <1> USE NoneAssumption, SpinLimitAssumption DEF SpuriousWakeup, At, Goto, nodeVars
  <1>1. TypeOK'
    BY DEF Inv, TypeOK, Word, Remembers
  <1>2. MutualExclusion'
    BY DEF Inv, TypeOK, Word, MutualExclusion, HoldsLock, HoldsQueue,
         PlainStoresLoseNothing, Remembers
  <1>3. PlainStoresLoseNothing'
    BY DEF Inv, TypeOK, Word, MutualExclusion, HoldsLock, HoldsQueue,
         PlainStoresLoseNothing, Remembers
  <1>4. (word.queueLocked => word.locked)'
    BY DEF Inv, TypeOK, Word, MutualExclusion, HoldsLock, HoldsQueue,
         PlainStoresLoseNothing, Remembers
  <1>5. \A u \in Threads : Remembers(u)'
    BY DEF Inv, TypeOK, Word, MutualExclusion, HoldsLock, HoldsQueue,
         PlainStoresLoseNothing, Remembers
  <1>6. QED
    BY <1>1, <1>2, <1>3, <1>4, <1>5 DEF Inv

(* unlock(): the fast path frees the lock or enters unlockSlow().          *)
LEMMA UnlockPreserves == ASSUME Inv, NEW t \in Threads, Unlock(t) PROVE Inv'
  <1> USE NoneAssumption, SpinLimitAssumption DEF At, Goto, nodeVars
  <1>1. TypeOK'
    <2>1. word' \in Word
      <3>1. word \in Word /\ current[t] \in Word
        BY DEF Inv, TypeOK
      <3>2. \/ CASSucceeds(isLockedBit, Zero)
            \/ CASFails(isLockedBit)
        BY DEF Unlock
      <3>3. QED
        BY <3>1, <3>2, WordFacts DEF CASSucceeds, CASFails
    <2>2. pc' \in [Threads -> {"idle", "slow", "acquire", "reload", "lockQueue",
                           "enqueue", "publish", "park", "asleep", "locked",
                           "unlockSlow", "unlockCAS", "unlockLockQueue",
                           "dequeue", "release", "clear", "wake", "notify"}]
      BY DEF Unlock, Inv, TypeOK
    <2>3. QED
      BY <2>1, <2>2 DEF Unlock, Inv, TypeOK
  <1> USE DEF Unlock, CASSucceeds, CASFails, Zero, isLockedBit
  <1>2. MutualExclusion'
    BY DEF Inv, TypeOK, Word, MutualExclusion, HoldsLock, HoldsQueue,
         PlainStoresLoseNothing, Remembers
  <1>3. PlainStoresLoseNothing'
    BY DEF Inv, TypeOK, Word, MutualExclusion, HoldsLock, HoldsQueue,
         PlainStoresLoseNothing, Remembers
  <1>4. (word.queueLocked => word.locked)'
    BY DEF Inv, TypeOK, Word, MutualExclusion, HoldsLock, HoldsQueue,
         PlainStoresLoseNothing, Remembers
  <1>5. \A u \in Threads : Remembers(u)'
    BY DEF Inv, TypeOK, Word, MutualExclusion, HoldsLock, HoldsQueue,
         PlainStoresLoseNothing, Remembers
  <1>6. QED
    BY <1>1, <1>2, <1>3, <1>4, <1>5 DEF Inv

(* The top of unlockSlow()'s loop.                                         *)
LEMMA UnlockSlowPreserves == ASSUME Inv, NEW t \in Threads, UnlockSlow(t) PROVE Inv'
  <1> USE NoneAssumption, SpinLimitAssumption DEF UnlockSlow, At, Goto, nodeVars, Load, Zero, isLockedBit
  <1>1. TypeOK'
    BY DEF Inv, TypeOK, Word, Remembers
  <1>a. word.locked
    BY DEF Inv, MutualExclusion, HoldsLock
  <1>b. \/ word = isLockedBit /\ pc' = [pc EXCEPT ![t] = "unlockCAS"]
        \/ word.queueLocked /\ pc' = [pc EXCEPT ![t] = "unlockSlow"]
        \/ /\ ~word.queueLocked /\ word.head # None
           /\ pc' = [pc EXCEPT ![t] = "unlockLockQueue"]
    BY <1>a, WordFacts DEF Inv, TypeOK, Word
  <1> HIDE DEF UnlockSlow
  <1>c. word' = word /\ queueHead' = queueHead /\ current' = [current EXCEPT ![t] = word]
    BY DEF UnlockSlow
  <1>d. pc[t] = "unlockSlow"
    BY DEF UnlockSlow
  <1>2. MutualExclusion'
    BY <1>b, <1>c, <1>d DEF Inv, TypeOK, Word, MutualExclusion, HoldsLock, HoldsQueue,
         PlainStoresLoseNothing, Remembers
  <1>3. PlainStoresLoseNothing'
    BY <1>b, <1>c, <1>d DEF Inv, TypeOK, Word, MutualExclusion, HoldsLock, HoldsQueue,
         PlainStoresLoseNothing, Remembers
  <1>4. (word.queueLocked => word.locked)'
    BY <1>b, <1>c, <1>d DEF Inv, TypeOK, Word, MutualExclusion, HoldsLock, HoldsQueue,
         PlainStoresLoseNothing, Remembers
  <1>5. \A u \in Threads : Remembers(u)'
    BY <1>b, <1>c, <1>d DEF Inv, TypeOK, Word, MutualExclusion, HoldsLock, HoldsQueue,
         PlainStoresLoseNothing, Remembers
  <1>6. QED
    BY <1>1, <1>2, <1>3, <1>4, <1>5 DEF Inv

(* unlockSlow() frees a lock without a queue.                              *)
LEMMA UnlockCASPreserves == ASSUME Inv, NEW t \in Threads, UnlockCAS(t) PROVE Inv'
  <1> USE NoneAssumption, SpinLimitAssumption DEF At, Goto, nodeVars
  <1>1. TypeOK'
    <2>1. word' \in Word
      <3>1. word \in Word /\ current[t] \in Word
        BY DEF Inv, TypeOK
      <3>2. \/ CASSucceeds(isLockedBit, Zero)
            \/ CASFails(isLockedBit)
        BY DEF UnlockCAS
      <3>3. QED
        BY <3>1, <3>2, WordFacts DEF CASSucceeds, CASFails
    <2>2. pc' \in [Threads -> {"idle", "slow", "acquire", "reload", "lockQueue",
                           "enqueue", "publish", "park", "asleep", "locked",
                           "unlockSlow", "unlockCAS", "unlockLockQueue",
                           "dequeue", "release", "clear", "wake", "notify"}]
      BY DEF UnlockCAS, Inv, TypeOK
    <2>3. QED
      BY <2>1, <2>2 DEF UnlockCAS, Inv, TypeOK
  <1> USE DEF UnlockCAS, CASSucceeds, CASFails, Zero, isLockedBit
  <1>2. MutualExclusion'
    BY DEF Inv, TypeOK, Word, MutualExclusion, HoldsLock, HoldsQueue,
         PlainStoresLoseNothing, Remembers
  <1>3. PlainStoresLoseNothing'
    BY DEF Inv, TypeOK, Word, MutualExclusion, HoldsLock, HoldsQueue,
         PlainStoresLoseNothing, Remembers
  <1>4. (word.queueLocked => word.locked)'
    BY DEF Inv, TypeOK, Word, MutualExclusion, HoldsLock, HoldsQueue,
         PlainStoresLoseNothing, Remembers
  <1>5. \A u \in Threads : Remembers(u)'
    BY DEF Inv, TypeOK, Word, MutualExclusion, HoldsLock, HoldsQueue,
         PlainStoresLoseNothing, Remembers
  <1>6. QED
    BY <1>1, <1>2, <1>3, <1>4, <1>5 DEF Inv

(* The holder locks the queue.                                             *)
LEMMA UnlockLockQueuePreserves == ASSUME Inv, NEW t \in Threads, UnlockLockQueue(t) PROVE Inv'
  <1> USE NoneAssumption, SpinLimitAssumption DEF At, Goto, nodeVars
  <1>1. TypeOK'
    <2>1. word' \in Word
      <3>1. word \in Word /\ current[t] \in Word
        BY DEF Inv, TypeOK
      <3>2. \/ CASSucceeds(current[t], [current[t] EXCEPT !.queueLocked = TRUE])
            \/ CASFails(current[t])
        BY DEF UnlockLockQueue
      <3>3. QED
        BY <3>1, <3>2, WordFacts DEF CASSucceeds, CASFails
    <2>2. pc' \in [Threads -> {"idle", "slow", "acquire", "reload", "lockQueue",
                           "enqueue", "publish", "park", "asleep", "locked",
                           "unlockSlow", "unlockCAS", "unlockLockQueue",
                           "dequeue", "release", "clear", "wake", "notify"}]
      BY DEF UnlockLockQueue, Inv, TypeOK
    <2>3. QED
      BY <2>1, <2>2 DEF UnlockLockQueue, Inv, TypeOK
  <1> USE DEF UnlockLockQueue, CASSucceeds, CASFails
  <1>2. MutualExclusion'
    BY DEF Inv, TypeOK, Word, MutualExclusion, HoldsLock, HoldsQueue,
         PlainStoresLoseNothing, Remembers
  <1>3. PlainStoresLoseNothing'
    BY DEF Inv, TypeOK, Word, MutualExclusion, HoldsLock, HoldsQueue,
         PlainStoresLoseNothing, Remembers
  <1>4. (word.queueLocked => word.locked)'
    BY DEF Inv, TypeOK, Word, MutualExclusion, HoldsLock, HoldsQueue,
         PlainStoresLoseNothing, Remembers
  <1>5. \A u \in Threads : Remembers(u)'
    BY DEF Inv, TypeOK, Word, MutualExclusion, HoldsLock, HoldsQueue,
         PlainStoresLoseNothing, Remembers
  <1>6. QED
    BY <1>1, <1>2, <1>3, <1>4, <1>5 DEF Inv

(* The holder picks the head of the queue.                                 *)
LEMMA DequeuePreserves == ASSUME Inv, NEW t \in Threads, Dequeue(t) PROVE Inv'
  <1> USE NoneAssumption, SpinLimitAssumption DEF Dequeue, At, Goto, nodeVars, Load
  <1>1. TypeOK'
    BY DEF Inv, TypeOK, Word, Remembers
  <1>2. MutualExclusion'
    BY DEF Inv, TypeOK, Word, MutualExclusion, HoldsLock, HoldsQueue,
         PlainStoresLoseNothing, Remembers
  <1>3. PlainStoresLoseNothing'
    BY DEF Inv, TypeOK, Word, MutualExclusion, HoldsLock, HoldsQueue,
         PlainStoresLoseNothing, Remembers
  <1>4. (word.queueLocked => word.locked)'
    BY DEF Inv, TypeOK, Word, MutualExclusion, HoldsLock, HoldsQueue,
         PlainStoresLoseNothing, Remembers
  <1>5. \A u \in Threads : Remembers(u)'
    BY DEF Inv, TypeOK, Word, MutualExclusion, HoldsLock, HoldsQueue,
         PlainStoresLoseNothing, Remembers
  <1>6. QED
    BY <1>1, <1>2, <1>3, <1>4, <1>5 DEF Inv

(* The holder frees lock and queue with a plain store.                     *)
LEMMA ReleasePreserves == ASSUME Inv, NEW t \in Threads, Release(t) PROVE Inv'
  <1> USE NoneAssumption, SpinLimitAssumption DEF Release, At, Goto, nodeVars
  <1>1. TypeOK'
    BY DEF Inv, TypeOK, Word, Remembers
  <1>2. MutualExclusion'
    BY DEF Inv, TypeOK, Word, MutualExclusion, HoldsLock, HoldsQueue,
         PlainStoresLoseNothing, Remembers
  <1>3. PlainStoresLoseNothing'
    BY DEF Inv, TypeOK, Word, MutualExclusion, HoldsLock, HoldsQueue,
         PlainStoresLoseNothing, Remembers
  <1>4. (word.queueLocked => word.locked)'
    BY DEF Inv, TypeOK, Word, MutualExclusion, HoldsLock, HoldsQueue,
         PlainStoresLoseNothing, Remembers
  <1>5. \A u \in Threads : Remembers(u)'
    BY DEF Inv, TypeOK, Word, MutualExclusion, HoldsLock, HoldsQueue,
         PlainStoresLoseNothing, Remembers
  <1>6. QED
    BY <1>1, <1>2, <1>3, <1>4, <1>5 DEF Inv

(* The old head's links are cleared.                                       *)
LEMMA ClearPreserves == ASSUME Inv, NEW t \in Threads, Clear(t) PROVE Inv'
  <1> USE NoneAssumption, SpinLimitAssumption DEF Clear, At, Goto, nodeVars
  <1>1. TypeOK'
    BY DEF Inv, TypeOK, Word, Remembers
  <1>2. MutualExclusion'
    BY DEF Inv, TypeOK, Word, MutualExclusion, HoldsLock, HoldsQueue,
         PlainStoresLoseNothing, Remembers
  <1>3. PlainStoresLoseNothing'
    BY DEF Inv, TypeOK, Word, MutualExclusion, HoldsLock, HoldsQueue,
         PlainStoresLoseNothing, Remembers
  <1>4. (word.queueLocked => word.locked)'
    BY DEF Inv, TypeOK, Word, MutualExclusion, HoldsLock, HoldsQueue,
         PlainStoresLoseNothing, Remembers
  <1>5. \A u \in Threads : Remembers(u)'
    BY DEF Inv, TypeOK, Word, MutualExclusion, HoldsLock, HoldsQueue,
         PlainStoresLoseNothing, Remembers
  <1>6. QED
    BY <1>1, <1>2, <1>3, <1>4, <1>5 DEF Inv

(* The old head is told not to park.                                       *)
LEMMA WakePreserves == ASSUME Inv, NEW t \in Threads, Wake(t) PROVE Inv'
  <1> USE NoneAssumption, SpinLimitAssumption DEF Wake, At, Goto, nodeVars
  <1>1. TypeOK'
    BY DEF Inv, TypeOK, Word, Remembers
  <1>2. MutualExclusion'
    BY DEF Inv, TypeOK, Word, MutualExclusion, HoldsLock, HoldsQueue,
         PlainStoresLoseNothing, Remembers
  <1>3. PlainStoresLoseNothing'
    BY DEF Inv, TypeOK, Word, MutualExclusion, HoldsLock, HoldsQueue,
         PlainStoresLoseNothing, Remembers
  <1>4. (word.queueLocked => word.locked)'
    BY DEF Inv, TypeOK, Word, MutualExclusion, HoldsLock, HoldsQueue,
         PlainStoresLoseNothing, Remembers
  <1>5. \A u \in Threads : Remembers(u)'
    BY DEF Inv, TypeOK, Word, MutualExclusion, HoldsLock, HoldsQueue,
         PlainStoresLoseNothing, Remembers
  <1>6. QED
    BY <1>1, <1>2, <1>3, <1>4, <1>5 DEF Inv

(* The old head is notified.                                               *)
LEMMA NotifyPreserves == ASSUME Inv, NEW t \in Threads, Notify(t) PROVE Inv'
  <1> USE NoneAssumption, SpinLimitAssumption DEF Notify, At, Goto, nodeVars
  <1>1. TypeOK'
    BY DEF Inv, TypeOK, Word, Remembers
  <1>2. MutualExclusion'
    BY DEF Inv, TypeOK, Word, MutualExclusion, HoldsLock, HoldsQueue,
         PlainStoresLoseNothing, Remembers
  <1>3. PlainStoresLoseNothing'
    BY DEF Inv, TypeOK, Word, MutualExclusion, HoldsLock, HoldsQueue,
         PlainStoresLoseNothing, Remembers
  <1>4. (word.queueLocked => word.locked)'
    BY DEF Inv, TypeOK, Word, MutualExclusion, HoldsLock, HoldsQueue,
         PlainStoresLoseNothing, Remembers
  <1>5. \A u \in Threads : Remembers(u)'
    BY DEF Inv, TypeOK, Word, MutualExclusion, HoldsLock, HoldsQueue,
         PlainStoresLoseNothing, Remembers
  <1>6. QED
    BY <1>1, <1>2, <1>3, <1>4, <1>5 DEF Inv

(* Inv is inductive.                                                       *)
THEOREM WordLockInvariant == Spec => []Inv
  <1>1. Inv /\ [Next]_vars => Inv'
    <2> SUFFICES ASSUME Inv, [Next]_vars PROVE Inv'
      OBVIOUS
    <2>1. CASE Next
      <3>1. PICK t \in Threads : Lock(t) \/ Step(t) \/ SpuriousWakeup(t)
        BY <2>1 DEF Next
      <3>2. QED
        BY <3>1, LockPreserves, LockSlowPreserves, AcquirePreserves, ReloadPreserves,
           LockQueuePreserves, EnqueuePreserves, PublishPreserves, ParkPreserves,
           SpuriousWakeupPreserves, UnlockPreserves, UnlockSlowPreserves,
           UnlockCASPreserves, UnlockLockQueuePreserves, DequeuePreserves,
           ReleasePreserves, ClearPreserves, WakePreserves, NotifyPreserves
        DEF Step
    <2>2. CASE UNCHANGED vars
      BY <2>2 DEF vars, nodeVars, Inv, TypeOK, MutualExclusion,
                  PlainStoresLoseNothing, Remembers, At
    <2>3. QED
      BY <2>1, <2>2 DEF vars
  <1>2. QED
    BY <1>1, InitInv, PTL DEF Spec

(* The type invariant of WordLock.                                         *)
THEOREM WordLockTypeCorrectness == Spec => []TypeOK
  <1>1. Inv => TypeOK
    BY DEF Inv
  <1>2. QED
    BY <1>1, WordLockInvariant, PTL

(* At most one thread holds a WordLock and at most one its queue lock, and *)
(* the two bits of the word say so (lockSlow() and unlockSlow(),           *)
(* WordLock.cpp).                                                          *)
THEOREM WordLockMutualExclusion == Spec => []MutualExclusion
  <1>1. Inv => MutualExclusion
    BY DEF Inv
  <1>2. QED
    BY <1>1, WordLockInvariant, PTL

(* The stores at WordLock.cpp:122, 137 and 225, which are not              *)
(* compare-exchanges, never overwrite another thread's update.             *)
THEOREM WordLockPlainStores == Spec => []PlainStoresLoseNothing
  <1>1. Inv => PlainStoresLoseNothing
    BY DEF Inv
  <1>2. QED
    BY <1>1, WordLockInvariant, PTL

-----------------------------------------------------------------------------
(* WordLock implements Mutex                                               *)

(* The program points of a thread that is inside lock().                   *)
InLock == {"slow", "acquire", "reload", "lockQueue", "enqueue", "publish", "park",
           "asleep"}

(* The two variables of the abstract lock.                                 *)
HolderOf == IF \E t \in Threads : pc[t] \in HoldsLock
            THEN CHOOSE t \in Threads : pc[t] \in HoldsLock ELSE None
WaitingThreads == {t \in Threads : pc[t] \in InLock}

(* The abstract variables, by their names.                                 *)
LEMMA AbstractView ==
    /\ M!vars = <<[l \in {"m_word"} |-> HolderOf], [l \in {"m_word"} |-> WaitingThreads]>>
    /\ M!vars' = <<[l \in {"m_word"} |-> HolderOf'],
                   [l \in {"m_word"} |-> WaitingThreads']>>
  BY DEF M!vars, HolderOf, WaitingThreads, InLock

(* The holder is the thread between the acquisition and the release.       *)
LEMMA HolderFacts ==
  ASSUME Inv
  PROVE  /\ \A t \in Threads : pc[t] \in HoldsLock => HolderOf = t
         /\ (\A t \in Threads : pc[t] \notin HoldsLock) => HolderOf = None
  <1>1. \A t, u \in Threads : pc[t] \in HoldsLock /\ pc[u] \in HoldsLock => t = u
    BY DEF Inv, MutualExclusion
  <1>2. QED
    BY <1>1, Zenon DEF HolderOf

(* The same after a step.                                                  *)
LEMMA HolderFactsNext ==
  ASSUME Inv'
  PROVE  /\ \A t \in Threads : pc'[t] \in HoldsLock => HolderOf' = t
         /\ (\A t \in Threads : pc'[t] \notin HoldsLock) => HolderOf' = None
  <1>1. \A t, u \in Threads : pc'[t] \in HoldsLock /\ pc'[u] \in HoldsLock => t = u
    BY DEF Inv, MutualExclusion
  <1>2. QED
    BY <1>1, Zenon DEF HolderOf

(* What a thread is to the lock: one of HoldsLock, InLock and neither.  A  *)
(* step in which every thread keeps its part is invisible.                 *)
Same(u) == /\ pc'[u] \in HoldsLock <=> pc[u] \in HoldsLock
           /\ pc'[u] \in InLock <=> pc[u] \in InLock

LEMMA InvisibleStep ==
  ASSUME Inv, Inv', \A u \in Threads : Same(u) PROVE UNCHANGED M!vars
  <1>1. WaitingThreads' = WaitingThreads
    BY DEF WaitingThreads, Same
  <1>2. HolderOf' = HolderOf
    <2>1. CASE \E t \in Threads : pc[t] \in HoldsLock
      BY <2>1, HolderFacts, HolderFactsNext DEF Same
    <2>2. CASE \A t \in Threads : pc[t] \notin HoldsLock
      BY <2>2, HolderFacts, HolderFactsNext DEF Same
    <2>3. QED
      BY <2>1, <2>2
  <1>3. QED
    BY <1>1, <1>2, AbstractView

(* A thread that is outside the lock takes it, free, at once.              *)
LEMMA TakesFree ==
  ASSUME Inv, Inv', NEW t \in Threads, \A u \in Threads \ {t} : Same(u),
         pc[t] \notin HoldsLock \cup InLock, pc'[t] \in HoldsLock \ InLock
  PROVE  M!Next
  <1>1. \A u \in Threads : pc[u] \notin HoldsLock
    BY DEF Same, Inv, MutualExclusion
  <1>2. HolderOf = None /\ HolderOf' = t
    BY <1>1, HolderFacts, HolderFactsNext
  <1>3. WaitingThreads' = WaitingThreads /\ t \notin WaitingThreads
    BY DEF WaitingThreads, Same
  <1>4. M!AcquireFree(t, "m_word")
    BY <1>2, <1>3, NoneAssumption
    DEF M!AcquireFree, M!Busy, HolderOf, WaitingThreads, InLock
  <1>5. QED
    BY <1>4 DEF M!Next

(* A thread that is outside the lock finds it taken.                       *)
LEMMA StartsToWait ==
  ASSUME Inv, Inv', NEW t \in Threads, \A u \in Threads \ {t} : Same(u),
         pc[t] \notin HoldsLock \cup InLock, pc'[t] \in InLock \ HoldsLock
  PROVE  M!Next
  <1>1. HolderOf' = HolderOf /\ HolderOf # t
    <2>1. CASE \E u \in Threads : pc[u] \in HoldsLock
      BY <2>1, HolderFacts, HolderFactsNext DEF Same
    <2>2. CASE \A u \in Threads : pc[u] \notin HoldsLock
      BY <2>2, HolderFacts, HolderFactsNext, NoneAssumption DEF Same
    <2>3. QED
      BY <2>1, <2>2
  <1>2. WaitingThreads' = WaitingThreads \cup {t} /\ t \notin WaitingThreads
    BY DEF WaitingThreads, Same
  <1>3. M!StartWaiting(t, "m_word")
    BY <1>1, <1>2 DEF M!StartWaiting, M!Busy, HolderOf, WaitingThreads, InLock
  <1>4. QED
    BY <1>3 DEF M!Next

(* A waiting thread barges in on a free lock.                              *)
LEMMA TakesAfterWaiting ==
  ASSUME Inv, Inv', NEW t \in Threads, \A u \in Threads \ {t} : Same(u),
         pc[t] \in InLock \ HoldsLock, pc'[t] \in HoldsLock \ InLock
  PROVE  M!Next
  <1>1. \A u \in Threads : pc[u] \notin HoldsLock
    BY DEF Same, Inv, MutualExclusion
  <1>2. HolderOf = None /\ HolderOf' = t
    BY <1>1, HolderFacts, HolderFactsNext
  <1>3. WaitingThreads' = WaitingThreads \ {t} /\ t \in WaitingThreads
    BY DEF WaitingThreads, Same
  <1>4. M!AcquireWaiting(t, "m_word")
    BY <1>2, <1>3 DEF M!AcquireWaiting, HolderOf, WaitingThreads, InLock
  <1>5. QED
    BY <1>3, <1>4 DEF M!Next, WaitingThreads, InLock

(* The holder frees the lock, and does not want it back.                   *)
LEMMA Frees ==
  ASSUME Inv, Inv', NEW t \in Threads, \A u \in Threads \ {t} : Same(u),
         pc[t] \in HoldsLock \ InLock, pc'[t] \notin HoldsLock \cup InLock
  PROVE  M!Next
  <1>1. \A u \in Threads : pc'[u] \notin HoldsLock
    BY DEF Same, Inv, MutualExclusion
  <1>2. HolderOf = t /\ HolderOf' = None
    BY <1>1, HolderFacts, HolderFactsNext
  <1>3. WaitingThreads' = WaitingThreads
    BY DEF WaitingThreads, Same
  <1>4. M!Release(t, "m_word", FALSE)
    BY <1>2, <1>3 DEF M!Release, HolderOf, WaitingThreads, InLock
  <1>5. QED
    BY <1>2, <1>4 DEF M!Next, HolderOf

(* Every step of the algorithm is a step of the abstract mutex or is       *)
(* invisible.                                                              *)
LEMMA StepRefines == ASSUME Inv, Inv', [Next]_vars PROVE [M!Next]_(M!vars)
  <1> USE DEF Inv, TypeOK, Same, HoldsLock, InLock, At, Goto
  <1>1. CASE UNCHANGED vars
    BY <1>1, InvisibleStep DEF vars
  <1>2. ASSUME NEW t \in Threads, Lock(t) PROVE [M!Next]_(M!vars)
    <2>1. /\ \A u \in Threads \ {t} : Same(u)
          /\ pc[t] \notin HoldsLock \cup InLock
          /\ \/ pc'[t] \in HoldsLock \ InLock
             \/ pc'[t] \in InLock \ HoldsLock
      BY <1>2 DEF Lock
    <2>2. QED
      BY <2>1, TakesFree, StartsToWait
  <1>3. ASSUME NEW t \in Threads, Acquire(t) PROVE [M!Next]_(M!vars)
    <2>1. \/ \A u \in Threads : Same(u)
          \/ /\ \A u \in Threads \ {t} : Same(u)
             /\ pc[t] \in InLock \ HoldsLock /\ pc'[t] \in HoldsLock \ InLock
      BY <1>3 DEF Acquire, SpinOrQueue
    <2>2. QED
      BY <2>1, InvisibleStep, TakesAfterWaiting
  <1>4. ASSUME NEW t \in Threads, Unlock(t) \/ UnlockCAS(t) \/ Release(t)
        PROVE  [M!Next]_(M!vars)
    <2>1. \/ \A u \in Threads : Same(u)
          \/ /\ \A u \in Threads \ {t} : Same(u)
             /\ pc[t] \in HoldsLock \ InLock /\ pc'[t] \notin HoldsLock \cup InLock
      BY <1>4 DEF Unlock, UnlockCAS, Release
    <2>2. QED
      BY <2>1, InvisibleStep, Frees
  <1>5. ASSUME NEW t \in Threads,
               \/ LockSlow(t) \/ Reload(t) \/ LockQueue(t) \/ Enqueue(t) \/ Publish(t)
               \/ Park(t) \/ SpuriousWakeup(t)
        PROVE  \A u \in Threads : Same(u)
    BY <1>5 DEF LockSlow, SpinOrQueue, Reload, LockQueue, Enqueue, Publish, Park,
                SpuriousWakeup
  <1>6. ASSUME NEW t \in Threads,
               \/ UnlockSlow(t) \/ UnlockLockQueue(t) \/ Dequeue(t) \/ Clear(t)
               \/ Wake(t) \/ Notify(t)
        PROVE  \A u \in Threads : Same(u)
    BY <1>6 DEF UnlockSlow, UnlockLockQueue, Dequeue, Clear, Wake, Notify
  <1>7. QED
    BY <1>1, <1>2, <1>3, <1>4, <1>5, <1>6, InvisibleStep DEF Next, Step

(* The free lock that nobody waits for.                                    *)
LEMMA InitRefines == Init => M!Init
  BY DEF Init, M!Init, HoldsLock

(* WordLock implements the abstract mutex, without ever handing the lock   *)
(* over (lock() and unlock(), WordLock.h and WordLock.cpp).                *)
THEOREM WordLockImplementsMutex == Spec => ImplementsMutex
  <1>1. Inv /\ Inv' /\ [Next]_vars => [M!Next]_(M!vars)
    BY StepRefines
  <1>2. QED
    BY <1>1, InitRefines, WordLockInvariant, PTL DEF Spec, ImplementsMutex, M!Spec

-----------------------------------------------------------------------------
(* The queue                                                               *)

(* The program points of a thread that has a dequeued node in its hands.   *)
InHand == {"release", "clear", "wake", "notify"}

(* The node u has dequeued belongs to a thread that cannot leave its       *)
(* scope: it still has to park, or u holds its parkingLock.  And what u    *)
(* relies on between two accesses to the word while it has the queue lock. *)
Hand(u) ==
    /\ queueHead[u] # None <=> pc[u] \in InHand
    /\ pc[u] \in InHand =>
          /\ pc[queueHead[u]] \in Queued
          /\ pc[u] # "notify" => shouldPark[queueHead[u]]
          /\ pc[u] = "notify" => /\ ~shouldPark[queueHead[u]]
                                 /\ parkingLock[queueHead[u]] = u
          /\ \A v \in Threads : v # u => queueHead[v] # queueHead[u]
    /\ At(u, "release") => queueHead[u] = word.head
    /\ At(u, "enqueue") => current[u].head = word.head
    /\ pc[u] \in {"lockQueue", "enqueue"} => nextInQueue[u] = None
    /\ At(u, "publish") => shouldPark[u]

(* The threads whose nodes are in the queue: those that wait to be woken   *)
(* and are in nobody's hands, and the one that has linked its node and is  *)
(* about to say so in the word.                                            *)
Waits(t) == \/ /\ pc[t] \in Queued /\ shouldPark[t]
               /\ \A u \in Threads : queueHead[u] # t
            \/ At(t, "publish")

First(n, q) == IF n = 0 THEN None ELSE q[1]

(* The nodes of the queue are q[1], ..., q[n].  The word has the first one *)
(* except while a thread is about to store it there.                       *)
List(n, q) ==
    /\ \A i, j \in 1..n : q[i] = q[j] => i = j
    /\ \A t \in Threads : Waits(t) <=> \E i \in 1..n : q[i] = t
    /\ \A i \in 1..n : nextInQueue[q[i]] = IF i = n THEN None ELSE q[i + 1]
    /\ n # 0 => queueTail[q[1]] = q[n]
    /\ \A t \in Threads : At(t, "publish") =>
          n # 0 /\ q[n] = t /\ word.head = IF n = 1 THEN None ELSE q[1]
    /\ \A t \in Threads : At(t, "release") => nextInQueue[word.head] = First(n, q)
    /\ (\A t \in Threads : pc[t] \notin {"publish", "release"}) =>
          word.head = First(n, q)

Hands == \A u \in Threads : Hand(u)
QueueIs(n, q) == n \in Nat /\ q \in [1..n -> Threads] /\ List(n, q)

QInv == Inv /\ Hands /\ \E n, q : QueueIs(n, q)

(* Initially there is no queue, and nobody has a node.                     *)
LEMMA InitQueue == Init => QInv
  <1> SUFFICES ASSUME Init PROVE QInv
    OBVIOUS
  <1>1. Inv
    BY InitInv
  <1>2. Hands
    BY NoneAssumption DEF Hands, Hand, Init, InHand, At
  <1> DEFINE q == [i \in 1..0 |-> None]
  <1>3. 0 \in Nat /\ q \in [1..0 -> Threads]
    OBVIOUS
  <1>4. List(0, q)
    BY DEF List, Waits, Init, At, Queued, First, Zero
  <1> QED
    BY <1>1, <1>2, <1>3, <1>4 DEF QInv, QueueIs

(* A step that does not change the nodes of the queue, who waits and who   *)
(* is about to store leaves the queue as it is.                            *)
LEMMA QueueFrame ==
  ASSUME NEW n, NEW q, QueueIs(n, q), word'.head = word.head,
         \A t \in Threads :
            /\ Waits(t)' = Waits(t)
            /\ At(t, "publish")' = At(t, "publish")
            /\ At(t, "release")' = At(t, "release")
            /\ Waits(t) => nextInQueue'[t] = nextInQueue[t] /\ queueTail'[t] = queueTail[t]
            /\ At(t, "release") => nextInQueue'[word.head] = nextInQueue[word.head]
  PROVE  QueueIs(n, q)'
  <1>1. n \in Nat /\ q \in [1..n -> Threads] /\ List(n, q)
    BY DEF QueueIs
  <1>2. \A i \in 1..n : q[i] \in Threads /\ Waits(q[i])
    BY <1>1 DEF List
  <1>3. \A i \in 1..n : nextInQueue'[q[i]] = nextInQueue[q[i]] /\ queueTail'[q[i]] = queueTail[q[i]]
    BY <1>2
  <1>4. n # 0 => 1 \in 1..n
    BY <1>1
  <1>5. n # 0 => queueTail'[q[1]] = q[n]
    BY <1>1, <1>3, <1>4 DEF List
  <1>6. \A i \in 1..n : nextInQueue'[q[i]] = IF i = n THEN None ELSE q[i + 1]
    BY <1>1, <1>3 DEF List
  <1>7. \A t \in Threads : Waits(t)' <=> \E i \in 1..n : q[i] = t
    BY <1>1 DEF List
  <1>8. \A t \in Threads : At(t, "release")' => nextInQueue'[word'.head] = First(n, q)
    BY <1>1 DEF List
  <1>9. \A t \in Threads : At(t, "publish")' =>
          n # 0 /\ q[n] = t /\ word'.head = IF n = 1 THEN None ELSE q[1]
    BY <1>1 DEF List
  <1>10. (\A t \in Threads : pc'[t] \notin {"publish", "release"}) =>
          word'.head = First(n, q)
    BY <1>1 DEF List, At
  <1> QED
    BY <1>1, <1>5, <1>6, <1>7, <1>8, <1>9, <1>10 DEF QueueIs, List, First

(* lock(): the queue is not looked at.                                     *)
LEMMA LockKeepsQueue ==
  ASSUME Inv, Inv', Hands, NEW n, NEW q, QueueIs(n, q), NEW t \in Threads, Lock(t)
  PROVE  Hands' /\ QueueIs(n, q)'
  <1> USE NoneAssumption DEF Lock, CASSucceeds, CASFails, Zero, isLockedBit, At, Goto, nodeVars
  <1>1. word'.head = word.head
    BY DEF Inv, TypeOK, Word
  <1>2. Hands'
    BY <1>1 DEF Inv, TypeOK, MutualExclusion, HoldsQueue, Remembers, Hands, Hand, InHand, Queued
  <1>3. \A u \in Threads :
            /\ At(u, "publish")' = At(u, "publish")
            /\ At(u, "release")' = At(u, "release")
    BY DEF Inv, TypeOK, Hands, Hand, InHand, Queued
  <1>4. \A u \in Threads : Waits(u)' = Waits(u)
    BY DEF Inv, TypeOK, Hands, Hand, InHand, Queued, Waits
  <1>5. \A u \in Threads :
            /\ Waits(u) => nextInQueue'[u] = nextInQueue[u] /\ queueTail'[u] = queueTail[u]
            /\ At(u, "release") => nextInQueue'[word.head] = nextInQueue[word.head]
    BY DEF Inv, TypeOK, Hands, Hand, InHand, Queued, Waits
  <1> QED
    BY <1>1, <1>2, <1>3, <1>4, <1>5, QueueFrame

(* The top of lockSlow()'s loop.                                           *)
LEMMA LockSlowKeepsQueue ==
  ASSUME Inv, Inv', Hands, NEW n, NEW q, QueueIs(n, q), NEW t \in Threads, LockSlow(t)
  PROVE  Hands' /\ QueueIs(n, q)'
  <1> USE NoneAssumption DEF LockSlow, Load, SpinOrQueue, At, Goto, nodeVars
  <1>1. word'.head = word.head
    BY DEF Inv, TypeOK, Word
  <1>2. Hands'
    BY <1>1 DEF Inv, TypeOK, MutualExclusion, HoldsQueue, Remembers, Hands, Hand, InHand, Queued
  <1>3. \A u \in Threads :
            /\ At(u, "publish")' = At(u, "publish")
            /\ At(u, "release")' = At(u, "release")
    BY DEF Inv, TypeOK, Hands, Hand, InHand, Queued
  <1>4. \A u \in Threads : Waits(u)' = Waits(u)
    BY DEF Inv, TypeOK, Hands, Hand, InHand, Queued, Waits
  <1>5. \A u \in Threads :
            /\ Waits(u) => nextInQueue'[u] = nextInQueue[u] /\ queueTail'[u] = queueTail[u]
            /\ At(u, "release") => nextInQueue'[word.head] = nextInQueue[word.head]
    BY DEF Inv, TypeOK, Hands, Hand, InHand, Queued, Waits
  <1> QED
    BY <1>1, <1>2, <1>3, <1>4, <1>5, QueueFrame

(* Barging in changes the locked bit only.                                 *)
LEMMA AcquireKeepsQueue ==
  ASSUME Inv, Inv', Hands, NEW n, NEW q, QueueIs(n, q), NEW t \in Threads, Acquire(t)
  PROVE  Hands' /\ QueueIs(n, q)'
  <1> USE NoneAssumption DEF Acquire, CASSucceeds, CASFails, SpinOrQueue, At, Goto, nodeVars
  <1>1. word'.head = word.head
    BY DEF Inv, TypeOK, Word
  <1>2. Hands'
    BY <1>1 DEF Inv, TypeOK, MutualExclusion, HoldsQueue, Remembers, Hands, Hand, InHand, Queued
  <1>3. \A u \in Threads :
            /\ At(u, "publish")' = At(u, "publish")
            /\ At(u, "release")' = At(u, "release")
    BY DEF Inv, TypeOK, Hands, Hand, InHand, Queued
  <1>4. \A u \in Threads : Waits(u)' = Waits(u)
    BY DEF Inv, TypeOK, Hands, Hand, InHand, Queued, Waits
  <1>5. \A u \in Threads :
            /\ Waits(u) => nextInQueue'[u] = nextInQueue[u] /\ queueTail'[u] = queueTail[u]
            /\ At(u, "release") => nextInQueue'[word.head] = nextInQueue[word.head]
    BY DEF Inv, TypeOK, Hands, Hand, InHand, Queued, Waits
  <1> QED
    BY <1>1, <1>2, <1>3, <1>4, <1>5, QueueFrame

(* A new ThreadData is in no queue.                                        *)
LEMMA ReloadKeepsQueue ==
  ASSUME Inv, Inv', Hands, NEW n, NEW q, QueueIs(n, q), NEW t \in Threads, Reload(t)
  PROVE  Hands' /\ QueueIs(n, q)'
  <1> USE NoneAssumption DEF Reload, Load, NewThreadData, At, Goto, nodeVars
  <1>1. word'.head = word.head
    BY DEF Inv, TypeOK, Word
  <1>2. Hands'
    BY <1>1 DEF Inv, TypeOK, MutualExclusion, HoldsQueue, Remembers, Hands, Hand, InHand, Queued
  <1>3. \A u \in Threads :
            /\ At(u, "publish")' = At(u, "publish")
            /\ At(u, "release")' = At(u, "release")
    BY DEF Inv, TypeOK, Hands, Hand, InHand, Queued
  <1>4. \A u \in Threads : Waits(u)' = Waits(u)
    BY DEF Inv, TypeOK, Hands, Hand, InHand, Queued, Waits
  <1>5. \A u \in Threads :
            /\ Waits(u) => nextInQueue'[u] = nextInQueue[u] /\ queueTail'[u] = queueTail[u]
            /\ At(u, "release") => nextInQueue'[word.head] = nextInQueue[word.head]
    BY DEF Inv, TypeOK, Hands, Hand, InHand, Queued, Waits
  <1> QED
    BY <1>1, <1>2, <1>3, <1>4, <1>5, QueueFrame

(* The head stays the one that the thread loaded.                          *)
LEMMA LockQueueKeepsQueue ==
  ASSUME Inv, Inv', Hands, NEW n, NEW q, QueueIs(n, q), NEW t \in Threads, LockQueue(t)
  PROVE  Hands' /\ QueueIs(n, q)'
  <1> USE NoneAssumption DEF LockQueue, CASSucceeds, CASFails, At, Goto, nodeVars
  <1>1. word'.head = word.head
    BY DEF Inv, TypeOK, Word
  <1>2. Hands'
    BY <1>1 DEF Inv, TypeOK, MutualExclusion, HoldsQueue, Remembers, Hands, Hand, InHand, Queued
  <1>3. \A u \in Threads :
            /\ At(u, "publish")' = At(u, "publish")
            /\ At(u, "release")' = At(u, "release")
    BY DEF Inv, TypeOK, Hands, Hand, InHand, Queued
  <1>4. \A u \in Threads : Waits(u)' = Waits(u)
    BY DEF Inv, TypeOK, Hands, Hand, InHand, Queued, Waits
  <1>5. \A u \in Threads :
            /\ Waits(u) => nextInQueue'[u] = nextInQueue[u] /\ queueTail'[u] = queueTail[u]
            /\ At(u, "release") => nextInQueue'[word.head] = nextInQueue[word.head]
    BY DEF Inv, TypeOK, Hands, Hand, InHand, Queued, Waits
  <1> QED
    BY <1>1, <1>2, <1>3, <1>4, <1>5, QueueFrame

(* A thread whose node is in somebody's hands does not leave its scope.    *)
LEMMA ParkKeepsQueue ==
  ASSUME Inv, Inv', Hands, NEW n, NEW q, QueueIs(n, q), NEW t \in Threads, Park(t)
  PROVE  Hands' /\ QueueIs(n, q)'
  <1> USE NoneAssumption DEF Park, At, Goto, nodeVars
  <1>1. word'.head = word.head
    BY DEF Inv, TypeOK, Word
  <1>2. Hands'
    BY <1>1 DEF Inv, TypeOK, MutualExclusion, HoldsQueue, Remembers, Hands, Hand, InHand, Queued
  <1>3. \A u \in Threads :
            /\ At(u, "publish")' = At(u, "publish")
            /\ At(u, "release")' = At(u, "release")
    BY DEF Inv, TypeOK, Hands, Hand, InHand, Queued
  <1>4. \A u \in Threads : Waits(u)' = Waits(u)
    BY DEF Inv, TypeOK, Hands, Hand, InHand, Queued, Waits
  <1>5. \A u \in Threads :
            /\ Waits(u) => nextInQueue'[u] = nextInQueue[u] /\ queueTail'[u] = queueTail[u]
            /\ At(u, "release") => nextInQueue'[word.head] = nextInQueue[word.head]
    BY DEF Inv, TypeOK, Hands, Hand, InHand, Queued, Waits
  <1> QED
    BY <1>1, <1>2, <1>3, <1>4, <1>5, QueueFrame

(* A sleeping thread wakes for no reason, and waits again.                 *)
LEMMA SpuriousWakeupKeepsQueue ==
  ASSUME Inv, Inv', Hands, NEW n, NEW q, QueueIs(n, q), NEW t \in Threads, SpuriousWakeup(t)
  PROVE  Hands' /\ QueueIs(n, q)'
  <1> USE NoneAssumption DEF SpuriousWakeup, At, Goto, nodeVars
  <1>1. word'.head = word.head
    BY DEF Inv, TypeOK, Word
  <1>2. Hands'
    BY <1>1 DEF Inv, TypeOK, MutualExclusion, HoldsQueue, Remembers, Hands, Hand, InHand, Queued
  <1>3. \A u \in Threads :
            /\ At(u, "publish")' = At(u, "publish")
            /\ At(u, "release")' = At(u, "release")
    BY DEF Inv, TypeOK, Hands, Hand, InHand, Queued
  <1>4. \A u \in Threads : Waits(u)' = Waits(u)
    BY DEF Inv, TypeOK, Hands, Hand, InHand, Queued, Waits
  <1>5. \A u \in Threads :
            /\ Waits(u) => nextInQueue'[u] = nextInQueue[u] /\ queueTail'[u] = queueTail[u]
            /\ At(u, "release") => nextInQueue'[word.head] = nextInQueue[word.head]
    BY DEF Inv, TypeOK, Hands, Hand, InHand, Queued, Waits
  <1> QED
    BY <1>1, <1>2, <1>3, <1>4, <1>5, QueueFrame

(* unlock(): the fast path finds no queue.                                 *)
LEMMA UnlockKeepsQueue ==
  ASSUME Inv, Inv', Hands, NEW n, NEW q, QueueIs(n, q), NEW t \in Threads, Unlock(t)
  PROVE  Hands' /\ QueueIs(n, q)'
  <1> USE NoneAssumption DEF Unlock, CASSucceeds, CASFails, Zero, isLockedBit, At, Goto, nodeVars
  <1>1. word'.head = word.head
    BY DEF Inv, TypeOK, Word
  <1>2. Hands'
    BY <1>1 DEF Inv, TypeOK, MutualExclusion, HoldsQueue, Remembers, Hands, Hand, InHand, Queued
  <1>3. \A u \in Threads :
            /\ At(u, "publish")' = At(u, "publish")
            /\ At(u, "release")' = At(u, "release")
    BY DEF Inv, TypeOK, Hands, Hand, InHand, Queued
  <1>4. \A u \in Threads : Waits(u)' = Waits(u)
    BY DEF Inv, TypeOK, Hands, Hand, InHand, Queued, Waits
  <1>5. \A u \in Threads :
            /\ Waits(u) => nextInQueue'[u] = nextInQueue[u] /\ queueTail'[u] = queueTail[u]
            /\ At(u, "release") => nextInQueue'[word.head] = nextInQueue[word.head]
    BY DEF Inv, TypeOK, Hands, Hand, InHand, Queued, Waits
  <1> QED
    BY <1>1, <1>2, <1>3, <1>4, <1>5, QueueFrame

(* Looking at the word.                                                    *)
LEMMA UnlockSlowKeepsQueue ==
  ASSUME Inv, Inv', Hands, NEW n, NEW q, QueueIs(n, q), NEW t \in Threads, UnlockSlow(t)
  PROVE  Hands' /\ QueueIs(n, q)'
  <1> USE NoneAssumption DEF UnlockSlow, Load, At, Goto, nodeVars
  <1>1. word'.head = word.head
    BY DEF Inv, TypeOK, Word
  <1>2. Hands'
    BY <1>1 DEF Inv, TypeOK, MutualExclusion, HoldsQueue, Remembers, Hands, Hand, InHand, Queued
  <1>3. \A u \in Threads :
            /\ At(u, "publish")' = At(u, "publish")
            /\ At(u, "release")' = At(u, "release")
    BY DEF Inv, TypeOK, Hands, Hand, InHand, Queued
  <1>4. \A u \in Threads : Waits(u)' = Waits(u)
    BY DEF Inv, TypeOK, Hands, Hand, InHand, Queued, Waits
  <1>5. \A u \in Threads :
            /\ Waits(u) => nextInQueue'[u] = nextInQueue[u] /\ queueTail'[u] = queueTail[u]
            /\ At(u, "release") => nextInQueue'[word.head] = nextInQueue[word.head]
    BY DEF Inv, TypeOK, Hands, Hand, InHand, Queued, Waits
  <1> QED
    BY <1>1, <1>2, <1>3, <1>4, <1>5, QueueFrame

(* Unlocking finds no queue.                                               *)
LEMMA UnlockCASKeepsQueue ==
  ASSUME Inv, Inv', Hands, NEW n, NEW q, QueueIs(n, q), NEW t \in Threads, UnlockCAS(t)
  PROVE  Hands' /\ QueueIs(n, q)'
  <1> USE NoneAssumption DEF UnlockCAS, CASSucceeds, CASFails, Zero, isLockedBit, At, Goto, nodeVars
  <1>1. word'.head = word.head
    BY DEF Inv, TypeOK, Word
  <1>2. Hands'
    BY <1>1 DEF Inv, TypeOK, MutualExclusion, HoldsQueue, Remembers, Hands, Hand, InHand, Queued
  <1>3. \A u \in Threads :
            /\ At(u, "publish")' = At(u, "publish")
            /\ At(u, "release")' = At(u, "release")
    BY DEF Inv, TypeOK, Hands, Hand, InHand, Queued
  <1>4. \A u \in Threads : Waits(u)' = Waits(u)
    BY DEF Inv, TypeOK, Hands, Hand, InHand, Queued, Waits
  <1>5. \A u \in Threads :
            /\ Waits(u) => nextInQueue'[u] = nextInQueue[u] /\ queueTail'[u] = queueTail[u]
            /\ At(u, "release") => nextInQueue'[word.head] = nextInQueue[word.head]
    BY DEF Inv, TypeOK, Hands, Hand, InHand, Queued, Waits
  <1> QED
    BY <1>1, <1>2, <1>3, <1>4, <1>5, QueueFrame

(* Locking the queue.                                                      *)
LEMMA UnlockLockQueueKeepsQueue ==
  ASSUME Inv, Inv', Hands, NEW n, NEW q, QueueIs(n, q), NEW t \in Threads, UnlockLockQueue(t)
  PROVE  Hands' /\ QueueIs(n, q)'
  <1> USE NoneAssumption DEF UnlockLockQueue, CASSucceeds, CASFails, At, Goto, nodeVars
  <1>1. word'.head = word.head
    BY DEF Inv, TypeOK, Word
  <1>2. Hands'
    BY <1>1 DEF Inv, TypeOK, MutualExclusion, HoldsQueue, Remembers, Hands, Hand, InHand, Queued
  <1>3. \A u \in Threads :
            /\ At(u, "publish")' = At(u, "publish")
            /\ At(u, "release")' = At(u, "release")
    BY DEF Inv, TypeOK, Hands, Hand, InHand, Queued
  <1>4. \A u \in Threads : Waits(u)' = Waits(u)
    BY DEF Inv, TypeOK, Hands, Hand, InHand, Queued, Waits
  <1>5. \A u \in Threads :
            /\ Waits(u) => nextInQueue'[u] = nextInQueue[u] /\ queueTail'[u] = queueTail[u]
            /\ At(u, "release") => nextInQueue'[word.head] = nextInQueue[word.head]
    BY DEF Inv, TypeOK, Hands, Hand, InHand, Queued, Waits
  <1> QED
    BY <1>1, <1>2, <1>3, <1>4, <1>5, QueueFrame

(* The node that is cleared is not in the queue.                           *)
LEMMA ClearKeepsQueue ==
  ASSUME Inv, Inv', Hands, NEW n, NEW q, QueueIs(n, q), NEW t \in Threads, Clear(t)
  PROVE  Hands' /\ QueueIs(n, q)'
  <1> USE NoneAssumption DEF Clear, At, Goto, nodeVars
  <1>1. word'.head = word.head
    BY DEF Inv, TypeOK, Word
  <1>2. Hands'
    BY <1>1 DEF Inv, TypeOK, MutualExclusion, HoldsQueue, Remembers, Hands, Hand, InHand, Queued
  <1>3. \A u \in Threads :
            /\ At(u, "publish")' = At(u, "publish")
            /\ At(u, "release")' = At(u, "release")
    BY DEF Inv, TypeOK, Hands, Hand, InHand, Queued
  <1>4. \A u \in Threads : Waits(u)' = Waits(u)
    BY DEF Inv, TypeOK, Hands, Hand, InHand, Queued, Waits
  <1>5. \A u \in Threads :
            /\ Waits(u) => nextInQueue'[u] = nextInQueue[u] /\ queueTail'[u] = queueTail[u]
            /\ At(u, "release") => nextInQueue'[word.head] = nextInQueue[word.head]
    BY DEF Inv, TypeOK, Hands, Hand, InHand, Queued, Waits
  <1> QED
    BY <1>1, <1>2, <1>3, <1>4, <1>5, QueueFrame

(* The thread that is told not to park is not in the queue.                *)
LEMMA WakeKeepsQueue ==
  ASSUME Inv, Inv', Hands, NEW n, NEW q, QueueIs(n, q), NEW t \in Threads, Wake(t)
  PROVE  Hands' /\ QueueIs(n, q)'
  <1> USE NoneAssumption DEF Wake, At, Goto, nodeVars
  <1>1. word'.head = word.head
    BY DEF Inv, TypeOK, Word
  <1>2. Hands'
    BY <1>1 DEF Inv, TypeOK, MutualExclusion, HoldsQueue, Remembers, Hands, Hand, InHand, Queued
  <1>3. \A u \in Threads :
            /\ At(u, "publish")' = At(u, "publish")
            /\ At(u, "release")' = At(u, "release")
    BY DEF Inv, TypeOK, Hands, Hand, InHand, Queued
  <1>4. \A u \in Threads : Waits(u)' = Waits(u)
    BY DEF Inv, TypeOK, Hands, Hand, InHand, Queued, Waits
  <1>5. \A u \in Threads :
            /\ Waits(u) => nextInQueue'[u] = nextInQueue[u] /\ queueTail'[u] = queueTail[u]
            /\ At(u, "release") => nextInQueue'[word.head] = nextInQueue[word.head]
    BY DEF Inv, TypeOK, Hands, Hand, InHand, Queued, Waits
  <1> QED
    BY <1>1, <1>2, <1>3, <1>4, <1>5, QueueFrame

(* Letting go of the node does not put it back in the queue.               *)
LEMMA NotifyKeepsQueue ==
  ASSUME Inv, Inv', Hands, NEW n, NEW q, QueueIs(n, q), NEW t \in Threads, Notify(t)
  PROVE  Hands' /\ QueueIs(n, q)'
  <1> USE NoneAssumption DEF Notify, At, Goto, nodeVars
  <1>1. word'.head = word.head
    BY DEF Inv, TypeOK, Word
  <1>2. Hands'
    BY <1>1 DEF Inv, TypeOK, MutualExclusion, HoldsQueue, Remembers, Hands, Hand, InHand, Queued
  <1>3. \A u \in Threads :
            /\ At(u, "publish")' = At(u, "publish")
            /\ At(u, "release")' = At(u, "release")
    BY DEF Inv, TypeOK, Hands, Hand, InHand, Queued
  <1>4. \A u \in Threads : Waits(u)' = Waits(u)
    BY DEF Inv, TypeOK, Hands, Hand, InHand, Queued, Waits
  <1>5. \A u \in Threads :
            /\ Waits(u) => nextInQueue'[u] = nextInQueue[u] /\ queueTail'[u] = queueTail[u]
            /\ At(u, "release") => nextInQueue'[word.head] = nextInQueue[word.head]
    BY DEF Inv, TypeOK, Hands, Hand, InHand, Queued, Waits
  <1> QED
    BY <1>1, <1>2, <1>3, <1>4, <1>5, QueueFrame

(* The new thread's node goes to the end of the queue.                     *)
LEMMA EnqueueExtendsQueue ==
  ASSUME Inv, Inv', Hands, NEW n, NEW q, QueueIs(n, q), NEW t \in Threads, Enqueue(t)
  PROVE  Hands' /\ QueueIs(n + 1, [i \in 1..n + 1 |-> IF i = n + 1 THEN t ELSE q[i]])'
  <1> DEFINE r == [i \in 1..n + 1 |-> IF i = n + 1 THEN t ELSE q[i]]
  <1> USE NoneAssumption DEF Enqueue, At, Goto, Load
  <1>1. n \in Nat /\ q \in [1..n -> Threads] /\ List(n, q)
    BY DEF QueueIs
  <1>2. \A u \in Threads \ {t} : pc[u] \notin HoldsQueue
    BY DEF Inv, TypeOK, MutualExclusion, HoldsQueue
  <1>3. \A u \in Threads : pc[u] \notin {"publish", "release"}
    BY <1>2 DEF HoldsQueue
  <1>4. word.head = First(n, q) /\ current[t].head = First(n, q)
    BY <1>1, <1>3 DEF List, Hands, Hand
  <1>5. ~Waits(t) /\ \A i \in 1..n : q[i] # t
    BY <1>1 DEF Waits, Queued, List
  <1>6. n # 0 => /\ 1 \in 1..n /\ n \in 1..n
                 /\ q[1] \in Threads /\ q[n] \in Threads
                 /\ queueTail[q[1]] = q[n]
                 /\ Waits(q[1]) /\ Waits(q[n])
    BY <1>1 DEF List
  <1>7. n # 0 => /\ nextInQueue' = [nextInQueue EXCEPT ![q[n]] = t]
                 /\ queueTail' = [queueTail EXCEPT ![q[1]] = t]
    BY <1>4, <1>6 DEF First
  <1>8. n = 0 => nextInQueue' = nextInQueue /\ queueTail' = [queueTail EXCEPT ![t] = t]
    BY <1>4 DEF First
  <1>9. Hands'
    <2>1. \A u \in Threads \ {t} : pc[u] \in {"lockQueue", "enqueue"} => nextInQueue'[u] = None
      <3>1. \A u \in Threads : pc[u] \in {"lockQueue", "enqueue"} => ~Waits(u)
        BY DEF Waits, Queued
      <3> QED BY <1>6, <1>7, <1>8, <3>1 DEF Hands, Hand, Inv, TypeOK
    <2> QED
      BY <2>1, <1>3 DEF Inv, TypeOK, MutualExclusion, HoldsQueue, Remembers, Hands, Hand,
                     InHand, Queued
  <1>10. \A u \in Threads : Waits(u)' <=> Waits(u) \/ u = t
    BY <1>3 DEF Inv, TypeOK, Hands, Hand, InHand, Queued, Waits
  <1>11. n + 1 \in Nat /\ r \in [1..n + 1 -> Threads]
    BY <1>1
  <1>12. \A i, j \in 1..n + 1 : r[i] = r[j] => i = j
    BY <1>1, <1>5 DEF List
  <1>13. \A u \in Threads : Waits(u)' <=> \E i \in 1..n + 1 : r[i] = u
    <2>1. \A u \in Threads : Waits(u) <=> \E i \in 1..n : q[i] = u
      BY <1>1 DEF List
    <2>2. \A i \in 1..n : i \in 1..n + 1 /\ r[i] = q[i]
      BY <1>1
    <2>3. r[n + 1] = t /\ n + 1 \in 1..n + 1
      BY <1>1
    <2>4. \A i \in 1..n + 1 : i = n + 1 \/ i \in 1..n
      BY <1>1
    <2> HIDE DEF r
    <2> QED
      BY <1>10, <2>1, <2>2, <2>3, <2>4
  <1>14. \A i \in 1..n + 1 : nextInQueue'[r[i]] = IF i = n + 1 THEN None ELSE r[i + 1]
    <2> SUFFICES ASSUME NEW i \in 1..n + 1
                 PROVE  nextInQueue'[r[i]] = IF i = n + 1 THEN None ELSE r[i + 1]
      OBVIOUS
    <2>1. CASE i = n + 1
      <3>1. nextInQueue[t] = None
        BY DEF Hands, Hand
      <3>2. nextInQueue'[t] = nextInQueue[t]
        BY <1>5, <1>6, <1>7, <1>8 DEF Inv, TypeOK
      <3> QED BY <1>1, <2>1, <3>1, <3>2
    <2>2. CASE i = n /\ i # n + 1
      <3>1. n # 0 /\ r[i] = q[n] /\ r[i + 1] = t
        BY <1>1, <2>2
      <3>2. nextInQueue'[q[n]] = t
        BY <3>1, <1>6, <1>7 DEF Inv, TypeOK
      <3> QED BY <2>2, <3>1, <3>2
    <2>3. CASE i < n
      <3>1. i \in 1..n /\ i + 1 \in 1..n /\ i # n /\ n \in 1..n /\ n # 0
        BY <1>1, <2>3
      <3>2. r[i] = q[i] /\ r[i + 1] = q[i + 1]
        BY <1>1, <2>3
      <3>3. q[i] # q[n] /\ q[i] \in Threads
        BY <1>1, <3>1 DEF List
      <3>4. nextInQueue'[q[i]] = nextInQueue[q[i]]
        BY <3>1, <3>3, <1>7 DEF Inv, TypeOK
      <3>5. nextInQueue[q[i]] = q[i + 1]
        BY <1>1, <3>1 DEF List
      <3> QED BY <1>1, <2>3, <3>2, <3>4, <3>5
    <2> QED BY <1>1, <2>1, <2>2, <2>3
  <1>15. queueTail'[r[1]] = r[n + 1]
    BY <1>1, <1>6, <1>7, <1>8 DEF Inv, TypeOK
  <1>16. \A u \in Threads : At(u, "publish")' =>
            r[n + 1] = u /\ word'.head = IF n + 1 = 1 THEN None ELSE r[1]
    BY <1>1, <1>3, <1>4 DEF Inv, TypeOK, First
  <1>17. \A u \in Threads : ~At(u, "release")'
    BY <1>3 DEF Inv, TypeOK
  <1>18. At(t, "publish")'
    BY DEF Inv, TypeOK
  <1>19. n + 1 # 0
    BY <1>1
  <1> HIDE DEF r
  <1>20. List(n + 1, r)'
    BY <1>12, <1>13, <1>14, <1>15, <1>16, <1>17, <1>18, <1>19 DEF List
  <1>21. QueueIs(n + 1, r)'
    BY <1>11, <1>20 DEF QueueIs
  <1> QED
    BY <1>9, <1>21 DEF r

(* The word gets the head of the queue that the thread has extended.       *)
LEMMA PublishKeepsQueue ==
  ASSUME Inv, Inv', Hands, NEW n, NEW q, QueueIs(n, q), NEW t \in Threads, Publish(t)
  PROVE  Hands' /\ QueueIs(n, q)'
  <1> USE NoneAssumption DEF Publish, At, Goto, nodeVars
  <1>1. n \in Nat /\ q \in [1..n -> Threads] /\ List(n, q)
    BY DEF QueueIs
  <1>2. \A u \in Threads \ {t} : pc[u] \notin HoldsQueue
    BY DEF Inv, TypeOK, MutualExclusion, HoldsQueue
  <1>3. current[t] = word /\ word \in Word
    BY DEF Inv, TypeOK, PlainStoresLoseNothing
  <1>4. n # 0 /\ q[n] = t /\ word.head = IF n = 1 THEN None ELSE q[1]
    BY <1>1 DEF List
  <1>5. word'.head = q[1]
    <2>1. q[1] \in Threads
      BY <1>1, <1>4
    <2>2. word'.head = IF word.head = None THEN t ELSE word.head
      BY <1>3 DEF Word
    <2> QED BY <1>4, <2>1, <2>2
  <1>6. Hands'
    BY <1>2 DEF Inv, TypeOK, HoldsQueue, Remembers, Hands, Hand, InHand, Queued
  <1>7. \A u \in Threads : Waits(u)' <=> Waits(u)
    <2>1. \A u \in Threads : queueHead[u] # t
      BY DEF Hands, Hand, InHand, Queued
    <2>2. shouldPark[t]
      BY DEF Hands, Hand
    <2> QED BY <2>1, <2>2 DEF Inv, TypeOK, Queued, Waits
  <1>8. \A u \in Threads : ~At(u, "publish")' /\ ~At(u, "release")'
    BY <1>2 DEF Inv, TypeOK, HoldsQueue
  <1>9. UNCHANGED <<nextInQueue, queueTail>>
    OBVIOUS
  <1>10. List(n, q)'
    BY <1>1, <1>4, <1>5, <1>7, <1>8, <1>9 DEF List, First
  <1> QED
    BY <1>1, <1>6, <1>10 DEF QueueIs

(* The head leaves the queue, and the next thread knows its tail.          *)
LEMMA DequeueShortensQueue ==
  ASSUME Inv, Inv', Hands, NEW n, NEW q, QueueIs(n, q), NEW t \in Threads, Dequeue(t)
  PROVE  Hands' /\ QueueIs(n - 1, [i \in 1..n - 1 |-> q[i + 1]])'
  <1> DEFINE r == [i \in 1..n - 1 |-> q[i + 1]]
  <1> USE NoneAssumption DEF Dequeue, At, Goto, Load
  <1>1. n \in Nat /\ q \in [1..n -> Threads] /\ List(n, q)
    BY DEF QueueIs
  <1>2. \A u \in Threads \ {t} : pc[u] \notin HoldsQueue
    BY DEF Inv, TypeOK, MutualExclusion, HoldsQueue
  <1>3. \A u \in Threads : pc[u] \notin {"publish", "release"}
    BY <1>2 DEF HoldsQueue
  <1>4. word.head = First(n, q) /\ word.head # None /\ word.head \in Threads
    BY <1>1, <1>3 DEF List, Inv, Remembers, TypeOK, Word
  <1>5. n # 0 /\ word.head = q[1]
    BY <1>4 DEF First
  <1>6. Waits(q[1]) /\ 1 \in 1..n
    BY <1>1, <1>5 DEF List
  <1>7. /\ pc[q[1]] \in Queued /\ shouldPark[q[1]]
        /\ \A u \in Threads : queueHead[u] # q[1]
    BY <1>1, <1>3, <1>6 DEF Waits
  <1>8. queueHead' = [queueHead EXCEPT ![t] = q[1]]
    BY <1>5
  <1>9. Hands'
    BY <1>3, <1>5, <1>7, <1>8
    DEF Inv, TypeOK, MutualExclusion, HoldsQueue, Remembers, Hands, Hand, InHand, Queued
  <1>10. \A u \in Threads : Waits(u)' <=> Waits(u) /\ u # q[1]
    <2>1. queueHead[t] = None
      BY DEF Hands, Hand, InHand
    <2>2. pc'[t] = "release" /\ \A u \in Threads \ {t} : pc'[u] = pc[u]
      BY DEF Inv, TypeOK
    <2> QED BY <1>3, <1>8, <2>1, <2>2 DEF Inv, TypeOK, Queued, Waits
  <1>11. n - 1 \in Nat /\ r \in [1..n - 1 -> Threads]
    BY <1>1, <1>5
  <1>12. \A i \in 1..n - 1 : r[i] = q[i + 1] /\ i + 1 \in 1..n
    BY <1>1
  <1>13. \A i, j \in 1..n - 1 : r[i] = r[j] => i = j
    BY <1>1, <1>12 DEF List
  <1>14. \A i \in 1..n : i = 1 \/ (i - 1 \in 1..n - 1 /\ r[i - 1] = q[i])
    BY <1>1
  <1>15. \A u \in Threads : Waits(u)' <=> \E i \in 1..n - 1 : r[i] = u
    <2>1. \A u \in Threads : Waits(u) <=> \E i \in 1..n : q[i] = u
      BY <1>1 DEF List
    <2>2. \A i \in 1..n - 1 : q[i + 1] # q[1]
      BY <1>1, <1>6, <1>12 DEF List
    <2> HIDE DEF r
    <2> QED
      BY <1>6, <1>10, <1>12, <1>14, <2>1, <2>2
  <1>16. nextInQueue' = nextInQueue
    OBVIOUS
  <1>17. \A i \in 1..n - 1 : nextInQueue'[r[i]] = IF i = n - 1 THEN None ELSE r[i + 1]
    <2> SUFFICES ASSUME NEW i \in 1..n - 1
                 PROVE  nextInQueue[r[i]] = IF i = n - 1 THEN None ELSE r[i + 1]
      BY <1>16
    <2>1. nextInQueue[q[i + 1]] = IF i + 1 = n THEN None ELSE q[i + 1 + 1]
      BY <1>1, <1>12 DEF List
    <2>2. CASE i = n - 1
      BY <1>1, <1>12, <2>1, <2>2
    <2>3. CASE i # n - 1
      <3>1. i + 1 \in 1..n - 1
        BY <1>1, <2>3
      <3> QED BY <1>1, <1>12, <2>1, <2>3, <3>1
    <2> QED BY <2>2, <2>3
  <1>18. nextInQueue[q[1]] = First(n - 1, r)
    BY <1>1, <1>5, <1>6, <1>12 DEF List, First
  <1>19. n - 1 # 0 => queueTail'[r[1]] = r[n - 1]
    <2> SUFFICES ASSUME n - 1 # 0 PROVE queueTail'[r[1]] = r[n - 1]
      OBVIOUS
    <2>1. r[1] = q[2] /\ r[n - 1] = q[n] /\ q[2] \in Threads
      BY <1>1, <1>5
    <2>2. nextInQueue[q[1]] = q[2]
      BY <2>1, <1>18 DEF First
    <2>3. queueTail[q[1]] = q[n]
      BY <1>1, <1>5 DEF List
    <2> QED BY <1>5, <2>1, <2>2, <2>3 DEF Inv, TypeOK
  <1>20. \A u \in Threads : ~At(u, "publish")'
    BY <1>3 DEF Inv, TypeOK
  <1>21. At(t, "release")'
    BY DEF Inv, TypeOK
  <1>22. word' = word
    OBVIOUS
  <1> HIDE DEF r
  <1>23. List(n - 1, r)'
    BY <1>5, <1>13, <1>15, <1>16, <1>17, <1>18, <1>19, <1>20, <1>21, <1>22 DEF List, First
  <1>24. QueueIs(n - 1, r)'
    BY <1>11, <1>23 DEF QueueIs
  <1> QED
    BY <1>9, <1>24 DEF r

(* The word gets the head of the queue that the thread has shortened.      *)
LEMMA ReleaseKeepsQueue ==
  ASSUME Inv, Inv', Hands, NEW n, NEW q, QueueIs(n, q), NEW t \in Threads, Release(t)
  PROVE  Hands' /\ QueueIs(n, q)'
  <1> USE NoneAssumption DEF Release, At, Goto, nodeVars
  <1>1. n \in Nat /\ q \in [1..n -> Threads] /\ List(n, q)
    BY DEF QueueIs
  <1>2. \A u \in Threads \ {t} : pc[u] \notin HoldsQueue
    BY DEF Inv, TypeOK, MutualExclusion, HoldsQueue
  <1>3. queueHead[t] = word.head
    BY DEF Hands, Hand
  <1>4. word'.head = First(n, q)
    <2>1. nextInQueue[word.head] = First(n, q)
      BY <1>1 DEF List
    <2>2. word'.head = nextInQueue[queueHead[t]]
      BY DEF Inv, TypeOK, Word
    <2> QED BY <1>3, <2>1, <2>2
  <1>5. Hands'
    BY <1>2 DEF Inv, TypeOK, HoldsQueue, Remembers, Hands, Hand, InHand, Queued
  <1>6. \A u \in Threads : Waits(u)' <=> Waits(u)
    BY DEF Inv, TypeOK, Queued, Waits
  <1>7. \A u \in Threads : ~At(u, "publish")' /\ ~At(u, "release")'
    BY <1>2 DEF Inv, TypeOK, HoldsQueue
  <1>8. UNCHANGED <<nextInQueue, queueTail>>
    OBVIOUS
  <1>9. List(n, q)'
    BY <1>1, <1>4, <1>6, <1>7, <1>8 DEF List, First
  <1> QED
    BY <1>1, <1>5, <1>9 DEF QueueIs

(* The queue is a list, and dequeued nodes are in safe hands, in every     *)
(* state.                                                                  *)
THEOREM WordLockQueue == Spec => []QInv
  <1>1. Inv /\ Inv' /\ QInv /\ [Next]_vars => QInv'
    <2> SUFFICES ASSUME Inv, Inv', QInv, [Next]_vars PROVE QInv'
      OBVIOUS
    <2>1. PICK n, q : QueueIs(n, q)
      BY DEF QInv
    <2>2. Hands
      BY DEF QInv
    <2> SUFFICES Hands' /\ \E m, r : QueueIs(m, r)'
      BY DEF QInv
    <2>3. CASE UNCHANGED vars
      <3>1. Hands' /\ QueueIs(n, q)'
        BY <2>1, <2>2, <2>3
        DEF vars, nodeVars, Hands, Hand, At, QueueIs, List, Waits, First
      <3> QED BY <3>1
    <2>4. CASE Next
      <3>1. PICK t \in Threads : Lock(t) \/ Step(t) \/ SpuriousWakeup(t)
        BY <2>4 DEF Next
      <3>2. CASE Enqueue(t)
        BY <2>1, <2>2, <3>2, EnqueueExtendsQueue
      <3>3. CASE Dequeue(t)
        BY <2>1, <2>2, <3>3, DequeueShortensQueue
      <3>4. CASE \/ Lock(t) \/ LockSlow(t) \/ Acquire(t) \/ Reload(t) \/ LockQueue(t)
                 \/ Publish(t) \/ Park(t) \/ SpuriousWakeup(t)
        BY <2>1, <2>2, <3>4, LockKeepsQueue, LockSlowKeepsQueue, AcquireKeepsQueue,
           ReloadKeepsQueue, LockQueueKeepsQueue, PublishKeepsQueue, ParkKeepsQueue,
           SpuriousWakeupKeepsQueue
      <3>5. CASE \/ Unlock(t) \/ UnlockSlow(t) \/ UnlockCAS(t) \/ UnlockLockQueue(t)
                 \/ Release(t) \/ Clear(t) \/ Wake(t) \/ Notify(t)
        BY <2>1, <2>2, <3>5, UnlockKeepsQueue, UnlockSlowKeepsQueue, UnlockCASKeepsQueue,
           UnlockLockQueueKeepsQueue, ReleaseKeepsQueue, ClearKeepsQueue, WakeKeepsQueue,
           NotifyKeepsQueue
      <3> QED BY <3>1, <3>2, <3>3, <3>4, <3>5 DEF Step
    <2> QED BY <2>3, <2>4
  <1>2. QED
    BY <1>1, InitQueue, WordLockInvariant, PTL DEF Spec

(* unlockSlow() touches the ThreadData it has dequeued (WordLock.cpp:      *)
(* 228-249) only while its thread is in that ThreadData's scope.           *)
THEOREM WordLockNoUseAfterScope == Spec => []NoUseAfterScope
  <1>1. QInv => NoUseAfterScope
    BY DEF QInv, Hands, Hand, InHand, NoUseAfterScope
  <1>2. QED
    BY <1>1, WordLockQueue, PTL

(* A list of distinct threads is no longer than there are threads.         *)
LEMMA QueueLength ==
  ASSUME NEW n, NEW q, QueueIs(n, q)
  PROVE  Cardinality(Threads) \in Nat /\ n <= Cardinality(Threads)
  <1>1. n \in Nat /\ q \in [1..n -> Threads] /\ \A i, j \in 1..n : q[i] = q[j] => i = j
    BY DEF QueueIs, List
  <1>2. Cardinality(Threads) \in Nat
    BY ThreadsAssumption, FS_CardinalityType
  <1>3. q \in Injection(1..n, Threads)
    BY <1>1 DEF Injection, IsInjective
  <1>4. Cardinality(1..n) <= Cardinality(Threads)
    BY <1>3, ThreadsAssumption, FS_Injection
  <1>5. Cardinality(1..n) = n
    BY <1>1, FS_Interval
  <1> QED
    BY <1>2, <1>4, <1>5

(* Every nonempty set of natural numbers has a least element.              *)
LEMMA LeastNatural ==
  ASSUME NEW S, S \subseteq Nat, S # {}
  PROVE  \E n \in S : \A m \in S : n <= m
  <1> DEFINE R == OpToRel(<, Nat)
  <1>1. IsWellFoundedOn(R, Nat)
    BY NatLessThanWellFounded
  <1> HIDE DEF R
  <1>2. PICK n \in S : \A m \in S : ~ (<<m, n>> \in R)
    BY <1>1, WFMin
  <1>3. \A m \in S : ~ (m < n)
    BY <1>2 DEF R, OpToRel
  <1> QED
    BY <1>3

(* Following nextInQueue from the first node of the queue gives its nodes  *)
(* and then None.                                                          *)
LEMMA QueueFromIs ==
  ASSUME NEW n, NEW q, QueueIs(n, q)
  PROVE  QueueFrom(First(n, q)) =
            [i \in 1..Cardinality(Threads) + 1 |-> IF i <= n THEN q[i] ELSE None]
  <1> DEFINE D == 1..Cardinality(Threads) + 1
             h == First(n, q)
             Eqn(g) == [i \in D |->
                          IF i = 1 THEN h
                          ELSE IF g[i - 1] = None THEN None ELSE nextInQueue[g[i - 1]]]
             f == [i \in D |-> IF i <= n THEN q[i] ELSE None]
             node == CHOOSE g : g = Eqn(g)
  <1>1. QueueFrom(h) = node
    BY DEF QueueFrom
  <1>2. /\ n \in Nat /\ Cardinality(Threads) \in Nat /\ n <= Cardinality(Threads)
        /\ q \in [1..n -> Threads] /\ List(n, q)
    BY QueueLength DEF QueueIs
  <1>3. ASSUME NEW i \in D, i # 1
        PROVE  /\ i - 1 \in D
               /\ f[i] = IF f[i - 1] = None THEN None ELSE nextInQueue[f[i - 1]]
    <2>1. i - 1 \in D
      BY <1>2, <1>3
    <2>2. CASE i - 1 > n
      <3>1. f[i] = None /\ f[i - 1] = None
        BY <1>2, <1>3, <2>1, <2>2
      <3> QED BY <2>1, <3>1
    <2>3. CASE i - 1 <= n
      <3>1. i - 1 \in 1..n
        BY <1>2, <1>3, <2>1, <2>3
      <3>2. f[i - 1] = q[i - 1] /\ q[i - 1] # None
        BY <1>2, <2>1, <3>1, NoneAssumption
      <3>3. nextInQueue[q[i - 1]] = IF i - 1 = n THEN None ELSE q[i]
        BY <1>2, <3>1 DEF List
      <3>4. f[i] = IF i - 1 = n THEN None ELSE q[i]
        BY <1>2, <3>1
      <3> QED BY <2>1, <3>2, <3>3, <3>4
    <2> QED BY <1>2, <2>2, <2>3
  <1>4. f[1] = h /\ 1 \in D
    BY <1>2 DEF First
  <1>5. f = Eqn(f)
    <2>1. \A i \in D : f[i] = Eqn(f)[i]
      BY <1>3, <1>4
    <2> HIDE DEF h
    <2> QED BY <2>1
  <1>6. node = Eqn(node)
    <2> HIDE DEF f, Eqn
    <2> QED BY <1>5
  <1> HIDE DEF node, h
  <1>7. node[1] = h /\ \A i \in D : i # 1 =>
            node[i] = IF node[i - 1] = None THEN None ELSE nextInQueue[node[i - 1]]
    BY <1>4, <1>6
  <1>8. \A i \in D : node[i] = f[i]
    <2> DEFINE Bad == {i \in D : node[i] # f[i]}
    <2> SUFFICES ASSUME Bad # {} PROVE FALSE
      OBVIOUS
    <2>1. Bad \subseteq Nat
      BY <1>2
    <2> HIDE DEF Bad
    <2>2. PICK k \in Bad : \A m \in Bad : k <= m
      BY <2>1, LeastNatural
    <2>3. k \in D /\ node[k] # f[k] /\ k \in Nat
      BY <2>1 DEF Bad
    <2>4. k # 1
      BY <1>4, <1>7, <2>3
    <2> HIDE DEF f
    <2>5. k - 1 \in D /\ k - 1 \notin Bad
      BY <1>3, <2>2, <2>3, <2>4
    <2>6. node[k - 1] = f[k - 1]
      BY <2>5 DEF Bad
    <2> QED BY <1>3, <1>7, <2>3, <2>4, <2>6
  <1>9. node = f
    <2>1. node = [i \in D |-> node[i]]
      BY <1>6
    <2>2. f = [i \in D |-> f[i]]
      OBVIOUS
    <2> HIDE DEF f
    <2> QED BY <1>8, <2>1, <2>2
  <1> QED
    BY <1>1, <1>9 DEF h

(* While nobody has the queue lock, the queue that the word points to is a *)
(* list that ends, its head knows its last node, and its nodes are the     *)
(* threads to be woken (lockSlow() and unlockSlow(), WordLock.cpp).        *)
THEOREM WordLockQueueWellFormed == Spec => []QueueWellFormed
  <1>1. QInv => QueueWellFormed
    <2> SUFFICES ASSUME QInv, ~word.queueLocked
                 PROVE  LET q == QueueFrom(word.head)
                            nodes == {q[i] : i \in DOMAIN q} \ {None} IN
                        /\ q[Cardinality(Threads) + 1] = None
                        /\ nodes = {t \in Threads :
                                      /\ pc[t] \in Queued /\ shouldPark[t]
                                      /\ \A u \in Threads : queueHead[u] # t}
                        /\ word.head # None => /\ queueTail[word.head] \in nodes
                                               /\ nextInQueue[queueTail[word.head]] = None
      BY DEF QueueWellFormed
    <2>1. PICK n, p : QueueIs(n, p)
      BY DEF QInv
    <2>2. /\ n \in Nat /\ Cardinality(Threads) \in Nat /\ n <= Cardinality(Threads)
          /\ p \in [1..n -> Threads] /\ List(n, p)
      BY <2>1, QueueLength DEF QueueIs
    <2>3. \A t \in Threads : pc[t] \notin {"publish", "release"}
      BY DEF QInv, Inv, MutualExclusion, HoldsQueue
    <2>4. word.head = First(n, p)
      BY <2>2, <2>3 DEF List
    <2> DEFINE q == QueueFrom(word.head)
               nodes == {q[i] : i \in DOMAIN q} \ {None}
    <2>5. q = [i \in 1..Cardinality(Threads) + 1 |-> IF i <= n THEN p[i] ELSE None]
      BY <2>1, <2>4, QueueFromIs
    <2> HIDE DEF q
    <2>6. q[Cardinality(Threads) + 1] = None
      BY <2>2, <2>5
    <2>7. DOMAIN q = 1..Cardinality(Threads) + 1
      BY <2>5
    <2>8. \A x : x \in nodes <=> \E i \in 1..n : p[i] = x
      <3>1. ASSUME NEW i \in 1..n PROVE i \in DOMAIN q /\ q[i] = p[i] /\ p[i] # None
        BY <2>2, <2>5, <2>7, NoneAssumption
      <3>2. ASSUME NEW i \in DOMAIN q, q[i] # None PROVE i \in 1..n
        BY <2>2, <2>5, <2>7, <3>2
      <3> QED BY <3>1, <3>2
    <2>9. nodes = {t \in Threads : /\ pc[t] \in Queued /\ shouldPark[t]
                                   /\ \A u \in Threads : queueHead[u] # t}
      <3>1. \A t \in Threads : t \in nodes <=> /\ pc[t] \in Queued /\ shouldPark[t]
                                               /\ \A u \in Threads : queueHead[u] # t
        <4>1. \A t \in Threads : Waits(t) <=> \E i \in 1..n : p[i] = t
          BY <2>2 DEF List
        <4> HIDE DEF nodes
        <4> QED BY <2>3, <2>8, <4>1 DEF Waits, At
      <3>2. nodes \subseteq Threads
        <4> HIDE DEF nodes
        <4> QED BY <2>2, <2>8
      <3> HIDE DEF nodes
      <3> QED BY <3>1, <3>2
    <2>10. ASSUME word.head # None
           PROVE  queueTail[word.head] \in nodes /\ nextInQueue[queueTail[word.head]] = None
      <3>1. n # 0 /\ word.head = p[1] /\ n \in 1..n
        BY <2>2, <2>4, <2>10 DEF First
      <3>2. queueTail[word.head] = p[n] /\ nextInQueue[p[n]] = None
        BY <2>2, <3>1 DEF List
      <3> HIDE DEF nodes
      <3> QED BY <2>8, <3>1, <3>2
    <2> QED
      BY <2>6, <2>9, <2>10 DEF q
  <1>2. QED
    BY <1>1, WordLockQueue, PTL

=============================================================================
