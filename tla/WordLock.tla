------------------------------ MODULE WordLock ------------------------------
(***************************************************************************)
(* WTF::WordLock (Source/WTF/wtf/WordLock.h and .cpp): a mutex in one word *)
(* that holds a locked bit, a bit that locks the queue of waiting threads, *)
(* and the address of the queue's head.  A queue node is the ThreadData on *)
(* the stack of the waiting thread, so a node dies when its thread leaves  *)
(* lockSlow() or goes around its loop, and an unlocking thread that still  *)
(* points to it would write to a dead stack frame.                         *)
(*                                                                         *)
(* One step is one access to the word, or what a thread does to nodes      *)
(* between two such accesses.  The loads and stores that the code does not *)
(* make one atomic operation (lines 118-137, 197-225) are two steps.       *)
(***************************************************************************)
EXTENDS Naturals, FiniteSets

CONSTANTS
    Threads, None,
    SpinLimit,          \* spinLimit of lockSlow (40 in the code)
    SpuriousFailure     \* whether compareExchangeWeak fails spuriously

ASSUME ThreadsAssumption == IsFiniteSet(Threads)
ASSUME NoneAssumption == None \notin Threads
ASSUME SpinLimitAssumption == SpinLimit \in Nat
ASSUME SpuriousFailureAssumption == SpuriousFailure \in BOOLEAN

VARIABLES
    word,           \* m_word: [locked, queueLocked, head]
    pc,             \* where each thread is in the code
    current,        \* currentWordValue of each thread
    spinCount,
    queueHead,      \* queueHead of an unlocking thread
    shouldPark, nextInQueue, queueTail,     \* each thread's ThreadData
    parkingLock     \* who holds the parkingLock of each ThreadData

nodeVars == <<shouldPark, nextInQueue, queueTail, parkingLock>>
vars == <<word, pc, current, spinCount, queueHead, nodeVars>>

Word == [locked : BOOLEAN, queueLocked : BOOLEAN, head : Threads \cup {None}]
Zero == [locked |-> FALSE, queueLocked |-> FALSE, head |-> None]
isLockedBit == [locked |-> TRUE, queueLocked |-> FALSE, head |-> None]

TypeOK ==
    /\ word \in Word
    /\ pc \in [Threads -> {"idle", "slow", "acquire", "reload", "lockQueue",
                           "enqueue", "publish", "park", "asleep", "locked",
                           "unlockSlow", "unlockCAS", "unlockLockQueue",
                           "dequeue", "release", "clear", "wake", "notify"}]
    /\ current \in [Threads -> Word]
    /\ spinCount \in [Threads -> 0..SpinLimit]
    /\ queueHead \in [Threads -> Threads \cup {None}]
    /\ shouldPark \in [Threads -> BOOLEAN]
    /\ nextInQueue \in [Threads -> Threads \cup {None}]
    /\ queueTail \in [Threads -> Threads \cup {None}]
    /\ parkingLock \in [Threads -> Threads \cup {None}]

Init ==
    /\ word = Zero
    /\ pc = [t \in Threads |-> "idle"]
    /\ current = [t \in Threads |-> Zero]
    /\ spinCount = [t \in Threads |-> 0]
    /\ queueHead = [t \in Threads |-> None]
    /\ shouldPark = [t \in Threads |-> FALSE]
    /\ nextInQueue = [t \in Threads |-> None]
    /\ queueTail = [t \in Threads |-> None]
    /\ parkingLock = [t \in Threads |-> None]

At(t, label)   == pc[t] = label
Goto(t, label) == pc' = [pc EXCEPT ![t] = label]
Load(t)        == current' = [current EXCEPT ![t] = word]

(* Mutant: a plain store.                                                  *)
StoreUnconditionally(expected, new) == word' = new

(* The outcomes of compareExchangeWeak on the word.                        *)
CASSucceeds(expected, new) == word = expected /\ word' = new
CASFails(expected) == (word # expected \/ SpuriousFailure) /\ UNCHANGED word

-----------------------------------------------------------------------------
(* lock() and lockSlow()                                                   *)

Lock(t) ==
    /\ At(t, "idle")
    /\ \/ CASSucceeds(Zero, isLockedBit) /\ Goto(t, "locked")
       \/ CASFails(Zero) /\ Goto(t, "slow")
    /\ spinCount' = [spinCount EXCEPT ![t] = 0]
    /\ UNCHANGED <<current, queueHead, nodeVars>>

(* "If there is no queue and we haven't spun too much": v is the value     *)
(* loaded at the top of the loop.                                          *)
SpinOrQueue(t, v) ==
    \/ /\ v.head = None /\ spinCount[t] < SpinLimit
       /\ spinCount' = [spinCount EXCEPT ![t] = @ + 1]
       /\ Goto(t, "slow")
    \/ /\ v.head # None \/ spinCount[t] >= SpinLimit
       /\ Goto(t, "reload")
       /\ UNCHANGED spinCount

(* The top of the loop ...                                                 *)
LockSlow(t) ==
    /\ At(t, "slow")
    /\ Load(t)
    /\ \/ word.locked /\ SpinOrQueue(t, word)
       \/ ~word.locked /\ Goto(t, "acquire") /\ UNCHANGED spinCount
    /\ UNCHANGED <<word, queueHead, nodeVars>>

(* ... and the attempt to barge in on a free lock.                         *)
Acquire(t) ==
    /\ At(t, "acquire")
    /\ \/ /\ CASSucceeds(current[t], [current[t] EXCEPT !.locked = TRUE])
          /\ Goto(t, "locked")
          /\ UNCHANGED spinCount
       \/ /\ CASFails(current[t])
          /\ SpinOrQueue(t, current[t])
    /\ UNCHANGED <<current, queueHead, nodeVars>>

NewThreadData(t) ==
    /\ shouldPark' = [shouldPark EXCEPT ![t] = FALSE]
    /\ nextInQueue' = [nextInQueue EXCEPT ![t] = None]
    /\ queueTail' = [queueTail EXCEPT ![t] = None]

(* Mutant: the queue is locked although the WordLock has been released.    *)
ReloadIgnoringLockedBit(t) ==
    /\ At(t, "reload")
    /\ Load(t)
    /\ Goto(t, IF word.queueLocked THEN "slow" ELSE "lockQueue")
    /\ NewThreadData(t)
    /\ UNCHANGED <<word, spinCount, queueHead, parkingLock>>

(* A new ThreadData, and a fresh look at the word.                         *)
Reload(t) ==
    /\ At(t, "reload")
    /\ Load(t)
    /\ Goto(t, IF word.queueLocked \/ ~word.locked THEN "slow" ELSE "lockQueue")
    /\ NewThreadData(t)
    /\ UNCHANGED <<word, spinCount, queueHead, parkingLock>>

LockQueue(t) ==
    /\ At(t, "lockQueue")
    /\ \/ /\ CASSucceeds(current[t], [current[t] EXCEPT !.queueLocked = TRUE])
          /\ Goto(t, "enqueue")
       \/ CASFails(current[t]) /\ Goto(t, "slow")
    /\ UNCHANGED <<current, spinCount, queueHead, nodeVars>>

(* Mutant: the tail of the queue is not moved to the new thread.           *)
EnqueueKeepingTail(t) ==
    LET head == current[t].head IN
    /\ At(t, "enqueue")
    /\ shouldPark' = [shouldPark EXCEPT ![t] = TRUE]
    /\ nextInQueue' = IF head = None THEN nextInQueue
                      ELSE [nextInQueue EXCEPT ![queueTail[head]] = t]
    /\ queueTail' = IF head = None THEN [queueTail EXCEPT ![t] = t] ELSE queueTail
    /\ Load(t)
    /\ Goto(t, "publish")
    /\ UNCHANGED <<word, spinCount, queueHead, parkingLock>>

(* With the queue locked, append to it or become it.                       *)
Enqueue(t) ==
    LET head == current[t].head IN
    /\ At(t, "enqueue")
    /\ shouldPark' = [shouldPark EXCEPT ![t] = TRUE]
    /\ nextInQueue' = IF head = None THEN nextInQueue
                      ELSE [nextInQueue EXCEPT ![queueTail[head]] = t]
    /\ queueTail' = [queueTail EXCEPT ![IF head = None THEN t ELSE head] = t]
    /\ Load(t)
    /\ Goto(t, "publish")
    /\ UNCHANGED <<word, spinCount, queueHead, parkingLock>>

(* A plain store of the value loaded before, the queue unlocked in it.     *)
Publish(t) ==
    /\ At(t, "publish")
    /\ word' = [current[t] EXCEPT !.queueLocked = FALSE,
                                  !.head = IF @ = None THEN t ELSE @]
    /\ Goto(t, "park")
    /\ UNCHANGED <<current, spinCount, queueHead, nodeVars>>

(* The critical section on the thread's own parkingLock: wait, releasing   *)
(* it, or leave the scope of the ThreadData and go around the loop.        *)
Park(t) ==
    /\ At(t, "park")
    /\ parkingLock[t] = None
    /\ Goto(t, IF shouldPark[t] THEN "asleep" ELSE "slow")
    /\ UNCHANGED <<word, current, spinCount, queueHead, nodeVars>>

(* A condition variable may wake its waiter for no reason.                 *)
SpuriousWakeup(t) ==
    /\ At(t, "asleep")
    /\ Goto(t, "park")
    /\ UNCHANGED <<word, current, spinCount, queueHead, nodeVars>>

-----------------------------------------------------------------------------
(* unlock() and unlockSlow()                                               *)

Unlock(t) ==
    /\ At(t, "locked")
    /\ \/ CASSucceeds(isLockedBit, Zero) /\ Goto(t, "idle")
       \/ CASFails(isLockedBit) /\ Goto(t, "unlockSlow")
    /\ UNCHANGED <<current, spinCount, queueHead, nodeVars>>

UnlockSlow(t) ==
    /\ At(t, "unlockSlow")
    /\ Load(t)
    /\ Goto(t, CASE word = isLockedBit -> "unlockCAS"
                 [] word # isLockedBit /\ word.queueLocked -> "unlockSlow"
                 [] word # isLockedBit /\ ~word.queueLocked -> "unlockLockQueue")
    /\ UNCHANGED <<word, spinCount, queueHead, nodeVars>>

UnlockCAS(t) ==
    /\ At(t, "unlockCAS")
    /\ \/ CASSucceeds(isLockedBit, Zero) /\ Goto(t, "idle")
       \/ CASFails(isLockedBit) /\ Goto(t, "unlockSlow")
    /\ UNCHANGED <<current, spinCount, queueHead, nodeVars>>

(* Mutant: the queue is taken without its lock.                            *)
UnlockWithoutQueueLock(t) ==
    /\ At(t, "unlockLockQueue")
    /\ \/ CASSucceeds(current[t], current[t]) /\ Goto(t, "dequeue")
       \/ CASFails(current[t]) /\ Goto(t, "unlockSlow")
    /\ UNCHANGED <<current, spinCount, queueHead, nodeVars>>

UnlockLockQueue(t) ==
    /\ At(t, "unlockLockQueue")
    /\ \/ /\ CASSucceeds(current[t], [current[t] EXCEPT !.queueLocked = TRUE])
          /\ Goto(t, "dequeue")
       \/ CASFails(current[t]) /\ Goto(t, "unlockSlow")
    /\ UNCHANGED <<current, spinCount, queueHead, nodeVars>>

(* The next thread in the queue takes over the queue head's duties.        *)
Dequeue(t) ==
    LET newQueueHead == nextInQueue[word.head] IN
    /\ At(t, "dequeue")
    /\ queueHead' = [queueHead EXCEPT ![t] = word.head]
    /\ queueTail' = IF newQueueHead = None THEN queueTail
                    ELSE [queueTail EXCEPT ![newQueueHead] = queueTail[word.head]]
    /\ Load(t)
    /\ Goto(t, "release")
    /\ UNCHANGED <<word, spinCount, shouldPark, nextInQueue, parkingLock>>

(* Mutant: the queue is thrown away with its head.                         *)
ReleaseDroppingQueue(t) ==
    /\ At(t, "release")
    /\ word' = Zero
    /\ Goto(t, "clear")
    /\ UNCHANGED <<current, spinCount, queueHead, nodeVars>>

(* A plain store releases the lock, unlocks the queue and installs the new *)
(* head.                                                                   *)
Release(t) ==
    /\ At(t, "release")
    /\ word' = [current[t] EXCEPT !.locked = FALSE, !.queueLocked = FALSE,
                                  !.head = nextInQueue[queueHead[t]]]
    /\ Goto(t, "clear")
    /\ UNCHANGED <<current, spinCount, queueHead, nodeVars>>

(* The old head is out of the queue, and nobody else touches its node.     *)
Clear(t) ==
    /\ At(t, "clear")
    /\ nextInQueue' = [nextInQueue EXCEPT ![queueHead[t]] = None]
    /\ queueTail' = [queueTail EXCEPT ![queueHead[t]] = None]
    /\ Goto(t, "wake")
    /\ UNCHANGED <<word, current, spinCount, queueHead, shouldPark, parkingLock>>

(* Mutant: shouldPark is cleared without the parkingLock.                  *)
WakeWithoutParkingLock(t) ==
    /\ At(t, "wake")
    /\ shouldPark' = [shouldPark EXCEPT ![queueHead[t]] = FALSE]
    /\ Goto(t, "notify")
    /\ UNCHANGED <<word, current, spinCount, queueHead, nextInQueue, queueTail,
                   parkingLock>>

(* shouldPark is cleared under the old head's parkingLock ...              *)
Wake(t) ==
    /\ At(t, "wake")
    /\ parkingLock[queueHead[t]] = None
    /\ parkingLock' = [parkingLock EXCEPT ![queueHead[t]] = t]
    /\ shouldPark' = [shouldPark EXCEPT ![queueHead[t]] = FALSE]
    /\ Goto(t, "notify")
    /\ UNCHANGED <<word, current, spinCount, queueHead, nextInQueue, queueTail>>

(* ... which is held across notify_one(): the last access to the node.     *)
Notify(t) ==
    LET h == queueHead[t] IN
    /\ At(t, "notify")
    /\ parkingLock' = [parkingLock EXCEPT ![h] = None]
    /\ pc' = [pc EXCEPT ![t] = "idle",
                        ![h] = IF @ = "asleep" THEN "park" ELSE @]
    /\ queueHead' = [queueHead EXCEPT ![t] = None]
    /\ UNCHANGED <<word, current, spinCount, shouldPark, nextInQueue, queueTail>>

-----------------------------------------------------------------------------
(* Everything a thread does once it has called lock().                     *)
Step(t) ==
    \/ LockSlow(t) \/ Acquire(t) \/ Reload(t) \/ LockQueue(t)
    \/ Enqueue(t) \/ Publish(t) \/ Park(t)
    \/ Unlock(t) \/ UnlockSlow(t) \/ UnlockCAS(t) \/ UnlockLockQueue(t)
    \/ Dequeue(t) \/ Release(t) \/ Clear(t) \/ Wake(t) \/ Notify(t)

Next == \E t \in Threads : Lock(t) \/ Step(t) \/ SpuriousWakeup(t)

Spec == Init /\ [][Next]_vars

(* Threads are scheduled and critical sections end.                        *)
FairSpec == Spec /\ \A t \in Threads : WF_vars(Step(t))

-----------------------------------------------------------------------------
(* Properties                                                              *)

HoldsLock == {"locked", "unlockSlow", "unlockCAS", "unlockLockQueue", "dequeue",
              "release"}
HoldsQueue == {"enqueue", "publish", "dequeue", "release"}
Queued == {"park", "asleep"}

(* The queue that starts at h, as the sequence of its nodes; a cycle would *)
(* make it longer than the number of threads.                              *)
QueueFrom(h) ==
    LET node[i \in 1..Cardinality(Threads) + 1] ==
            IF i = 1 THEN h
            ELSE IF node[i - 1] = None THEN None ELSE nextInQueue[node[i - 1]]
    IN node

InQueue(t) == \E i \in DOMAIN QueueFrom(word.head) : QueueFrom(word.head)[i] = t

(* At most one thread is between the acquisition and the release, and the  *)
(* locked bit says so; the same for the queue lock, which only exists      *)
(* while the lock is held.                                                 *)
MutualExclusion ==
    /\ \A t, u \in Threads :
        /\ pc[t] \in HoldsLock /\ pc[u] \in HoldsLock => t = u
        /\ pc[t] \in HoldsQueue /\ pc[u] \in HoldsQueue => t = u
    /\ word.locked <=> \E t \in Threads : pc[t] \in HoldsLock
    /\ word.queueLocked <=> \E t \in Threads : pc[t] \in HoldsQueue

(* Publish and Release store without a compare-exchange: the word has not  *)
(* changed since they loaded it, so that no other thread's update is lost. *)
PlainStoresLoseNothing ==
    \A t \in Threads : pc[t] \in {"publish", "release"} => current[t] = word

(* Unless somebody is changing it, the queue is a list that ends, its head *)
(* knows its last node, and its nodes are exactly the threads that wait to *)
(* be woken and are in no unlocking thread's hands.                        *)
QueueWellFormed ==
    LET q == QueueFrom(word.head)
        nodes == {q[i] : i \in DOMAIN q} \ {None} IN
    ~word.queueLocked =>
        /\ q[Cardinality(Threads) + 1] = None
        /\ nodes = {t \in Threads : /\ pc[t] \in Queued /\ shouldPark[t]
                                    /\ \A u \in Threads : queueHead[u] # t}
        /\ word.head # None => /\ queueTail[word.head] \in nodes
                               /\ nextInQueue[queueTail[word.head]] = None

(* An unlocking thread touches the node of the thread it dequeued only     *)
(* while that thread is still in the scope of that very ThreadData.        *)
NoUseAfterScope ==
    \A u \in Threads : pc[u] \in {"release", "clear", "wake", "notify"} =>
        /\ pc[queueHead[u]] \in Queued
        /\ pc[u] # "notify" => shouldPark[queueHead[u]]
        /\ \A v \in Threads : v # u => queueHead[v] # queueHead[u]

(* The step is an exchange that fails although it need not.                *)
SpuriouslyFails ==
    \E t \in Threads :
        /\ pc'[t] # pc[t] /\ word' = word
        /\ \/ At(t, "idle") /\ word = Zero
           \/ At(t, "locked") /\ word = isLockedBit
           \/ /\ pc[t] \in {"acquire", "lockQueue", "unlockCAS", "unlockLockQueue"}
              /\ word = current[t]

(* Every thread that goes to sleep is woken, unless exchanges fail         *)
(* spuriously for ever.                                                    *)
SleepersWake ==
    <>[][~SpuriouslyFails]_vars =>
        \A t \in Threads : At(t, "asleep") ~> ~shouldPark[t]

(* WordLock is a mutex.                                                    *)
M == INSTANCE Mutex WITH
    Locks <- {"m_word"},
    holder <- [l \in {"m_word"} |->
                IF \E t \in Threads : pc[t] \in HoldsLock
                THEN CHOOSE t \in Threads : pc[t] \in HoldsLock ELSE None],
    waiting <- [l \in {"m_word"} |->
                {t \in Threads : pc[t] \in {"slow", "acquire", "reload", "lockQueue",
                                      "enqueue", "publish", "park", "asleep"}}]

(* Each step of the algorithm is a step of an abstract mutex or leaves it  *)
(* alone; no thread is handed the lock.                                    *)
ImplementsMutex == M!Spec

=============================================================================
