----------------------------- MODULE Condition -----------------------------
(***************************************************************************)
(* WTF::Condition (Source/WTF/wtf/Condition.h) over the whole ParkingLot   *)
(* (Source/WTF/wtf/ParkingLot.cpp): waits with and without a timeout,      *)
(* notifyOne and notifyAll, the table of buckets that threads load without *)
(* a lock, and its rehash when a thread parks for the first time.          *)
(*                                                                         *)
(* The work a thread does under one bucket lock is one step, since nothing *)
(* else touches the bucket meanwhile and the only other shared variable in *)
(* it, m_hasWaiters, is accessed there once. The bucket lock is a variable *)
(* because a rehash holds all the locks of a table, one after the other.   *)
(* The lock a Condition is used with, a WTF::Lock, is the mutex holder[c]. *)
(* Any wait may time out: one without a timeout is a wait that does not.   *)
(* Threads do not end, which would only lower numThreads.                  *)
(***************************************************************************)
EXTENDS Naturals, FiniteSets, Sequences, SequencesExt, Selection

CONSTANTS
  Threads,        \* the threads of the process
  Conditions,     \* the Conditions, addresses that threads park on
  Hash,           \* Hash[c]: hashAddress(c)
  MaxLoadFactor,  \* maxLoadFactor (3 in the code)
  GrowthFactor,   \* growthFactor (2 in the code)
  None            \* nullptr

ASSUME ThreadsAssumption == IsFiniteSet(Threads)
ASSUME HashAssumption == Hash \in [Conditions -> Nat]
ASSUME FactorAssumption == MaxLoadFactor \in Nat \ {0} /\ GrowthFactor \in Nat \ {0}
ASSUME NoneAssumption == None \notin Threads /\ None \notin Conditions

VARIABLES
  holder,      \* holder[c]: the thread that holds the lock c is used with, or None
  hasWaiters,  \* hasWaiters[c]: m_hasWaiters
  tables,      \* every Hashtable created, `hashtable' points to the last one;
               \* a table is a sequence of buckets, 0 where there is none yet
  numThreads,
  bucketLock,  \* bucketLock[b]: the rehashing thread that holds it, or None
  queue,       \* queue[b]: Bucket::queueHead ... queueTail
  address,     \* address[t]: ThreadData::address
  pc,          \* pc[t]: where t is in the code
  cond,        \* cond[t]: the Condition of the operation t is in
  all,         \* all[t]: the notification is notifyAll
  my,          \* my[t]: index in tables of myHashtable or currentHashtable
  count,       \* count[t]: the thread's number while it rehashes, else 0
  registered,  \* the threads that have a ThreadData
  toSignal,    \* toSignal[t]: threads t has dequeued and not yet signalled
  result       \* result[t]: wasUnparked of t's wait, until it returns

mutexVars == <<holder, result>>
tableVars == <<tables, numThreads, bucketLock, registered>>
callVars == <<cond, all, count>>
vars == <<holder, hasWaiters, tables, numThreads, bucketLock, queue, address, pc,
          cond, all, my, count, registered, toSignal, result>>

(* A bucket is a number; their order stands for that of their addresses.   *)
(* No table is larger than what the largest number of threads asks for.    *)
Buckets == 1..(Cardinality(Threads) * MaxLoadFactor * GrowthFactor)

Init ==
  /\ holder = [c \in Conditions |-> None]
  /\ hasWaiters = [c \in Conditions |-> FALSE]
  /\ tables = <<>>
  /\ numThreads = 0
  /\ bucketLock = [b \in Buckets |-> None]
  /\ queue = [b \in Buckets |-> <<>>]
  /\ address = [t \in Threads |-> None]
  /\ pc = [t \in Threads |-> "idle"]
  /\ cond = [t \in Threads |-> None]
  /\ all = [t \in Threads |-> FALSE]
  /\ my = [t \in Threads |-> 0]
  /\ count = [t \in Threads |-> 0]
  /\ registered = {}
  /\ toSignal = [t \in Threads |-> <<>>]
  /\ result = [t \in Threads |-> FALSE]

Goto(t, label) == pc' = [pc EXCEPT ![t] = label]

-----------------------------------------------------------------------------
(*                         Tables and their buckets                        *)

Null == 0

(* hash % size, as a position of the sequence. *)
Index(c, size) == (Hash[c] % size) + 1

(* The bucket of c in the i-th table of ts, Null if it has none. *)
BucketIn(ts, i, c) == ts[i][Index(c, Len(ts[i]))]

(* ts after ensureHashtable(). *)
EnsureHashtable(ts) ==
  IF ts # <<>> THEN ts ELSE <<[i \in 1..MaxLoadFactor |-> Null]>>

(* data with new buckets in the empty positions of S, filled from the last *)
(* to the first. All buckets there are belong to the current table, so the *)
(* ones made later have the next numbers.                                  *)
Materialize(data, S) ==
  LET empty == {i \in DOMAIN data : data[i] = Null}
  IN [i \in DOMAIN data |->
        IF i \in empty \cap S
        THEN Len(data) - Cardinality(empty) + Cardinality({j \in empty \cap S : j >= i})
        ELSE data[i]]

(* ts once a thread has found the current table and a bucket for c in it,  *)
(* and the index it then has in my[t]. A thread does this as soon as it    *)
(* gets there: what it loads later can only be less out of date.           *)
WithBucket(ts, c) ==
  [EnsureHashtable(ts) EXCEPT ![Len(EnsureHashtable(ts))] =
     Materialize(@, {Index(c, Len(@))})]

LoadTable(t, ts) ==
  /\ tables' = WithBucket(ts, cond[t])
  /\ my' = [my EXCEPT ![t] = Len(EnsureHashtable(ts))]

(* The table is not rehashed under n threads. *)
LargeEnough(data, n) == Len(data) >= n * MaxLoadFactor

(* t knows that the table it loaded is still the current one. *)
MyHashtableIsCurrent(t) == my[t] = Len(tables)

MyBucket(t) == BucketIn(tables, my[t], cond[t])

(* The threads whose ThreadData says that they are parked on c. *)
ParkedOn(c) == {u \in Threads : address[u] = c}

-----------------------------------------------------------------------------
(*              The lock of a Condition, as its users use it               *)

Lock(t, c) ==
  /\ pc[t] = "idle"
  /\ holder[c] = None
  /\ holder' = [holder EXCEPT ![c] = t]
  /\ cond' = [cond EXCEPT ![t] = c]
  /\ Goto(t, "locked")
  /\ UNCHANGED <<hasWaiters, tableVars, queue, address, all, count, my, toSignal, result>>

(* The lock of t's condition is given up. *)
ReleaseLock(t) == holder' = [holder EXCEPT ![cond[t]] = None]

Unlock(t) ==
  /\ pc[t] = "locked"
  /\ ReleaseLock(t)
  /\ cond' = [cond EXCEPT ![t] = None]
  /\ Goto(t, "idle")
  /\ UNCHANGED <<hasWaiters, tableVars, queue, address, all, count, my, toSignal, result>>

-----------------------------------------------------------------------------
(*                        waitUntil() and parking                          *)

(* waitUntilUnchecked with a timeout in the past. *)
WaitPast(t) ==
  /\ pc[t] = "locked"
  /\ ReleaseLock(t)
  /\ result' = [result EXCEPT ![t] = FALSE]
  /\ Goto(t, "relock")
  /\ UNCHANGED <<hasWaiters, tableVars, queue, address, callVars, my, toSignal>>

(* wait, waitFor or waitUntil, up to the first bucket lock: the            *)
(* constructor of a new ThreadData counts the thread and does "a fast      *)
(* check to see if rehashing is needed".                                   *)
WaitUntil(t) ==
  LET isNew == t \notin registered
      n == IF isNew THEN numThreads + 1 ELSE numThreads
  IN
  /\ pc[t] = "locked"
  /\ registered' = registered \cup {t}
  /\ numThreads' = n
  /\ IF isNew /\ (tables = <<>> \/ ~LargeEnough(Last(tables), n))
     THEN /\ Goto(t, "lockHashtable")
          /\ count' = [count EXCEPT ![t] = n]
          /\ UNCHANGED <<tables, my>>
     ELSE /\ Goto(t, "enqueue")
          /\ LoadTable(t, tables)
          /\ UNCHANGED count
  /\ UNCHANGED <<mutexVars, hasWaiters, bucketLock, queue, address, cond, all, toSignal>>

(* lockHashtable fills the table with buckets ... *)
LockHashtable(t) ==
  LET ts == EnsureHashtable(tables) IN
  /\ pc[t] = "lockHashtable"
  /\ tables' = [ts EXCEPT ![Len(ts)] = Materialize(@, DOMAIN @)]
  /\ my' = [my EXCEPT ![t] = Len(ts)]
  /\ Goto(t, "lockBuckets")
  /\ UNCHANGED <<mutexVars, hasWaiters, numThreads, bucketLock, registered, queue, address, callVars, toSignal>>

(* The buckets of t's table that it has not locked yet. *)
NotLocked(t) == {b \in ToSet(tables[my[t]]) : bucketLock[b] # t}

(* "Now lock the buckets in the right order." *)
NextToLock(t) == CHOOSE b \in NotLocked(t) : \A a \in NotLocked(t) : b <= a

LockBucket(t) ==
  /\ pc[t] = "lockBuckets"
  /\ NotLocked(t) # {}
  /\ bucketLock[NextToLock(t)] = None
  /\ bucketLock' = [bucketLock EXCEPT ![NextToLock(t)] = t]
  /\ UNCHANGED <<mutexVars, hasWaiters, tables, numThreads, registered, queue, address,
                 pc, callVars, my, toSignal>>

(* unlockHashtable *)
UnlockBuckets(t) ==
  bucketLock' = [b \in Buckets |-> IF bucketLock[b] = t THEN None ELSE bucketLock[b]]

(* "The hashtable rehashed. Unlock everything and try again." *)
TableWasRehashed(t) ==
  /\ pc[t] = "lockBuckets"
  /\ NotLocked(t) = {}
  /\ ~MyHashtableIsCurrent(t)
  /\ UnlockBuckets(t)
  /\ Goto(t, "lockHashtable")
  /\ UNCHANGED <<mutexVars, hasWaiters, tables, numThreads, registered, queue, address,
                 callVars, my, toSignal>>

(* The data of a new table of that size for the threads tds, which takes   *)
(* over the n buckets of the old one, last bucket first: where there is a  *)
(* thread to be queued, in the order of tds, and then, as long as buckets  *)
(* are left, in the other positions. New buckets are made for threads only.*)
NewTable(size, tds, n) ==
  LET positions == [k \in DOMAIN tds |-> Index(address[tds[k]], size)]
      first == [i \in 1..size |->
                  IF Contains(positions, i)
                  THEN CHOOSE k \in DOMAIN tds :
                         positions[k] = i /\ \A j \in 1..(k - 1) : positions[j] # i
                  ELSE Len(tds) + i]
      rank == [i \in 1..size |-> Cardinality({j \in 1..size : first[j] <= first[i]})]
  IN [i \in 1..size |->
        IF rank[i] <= n THEN n + 1 - rank[i]
        ELSE IF Contains(positions, i) THEN rank[i] ELSE Null]

(* All buckets are locked, and the table is rehashed if it is still too    *)
(* small: the threads of all queues, in queue order, move to a new table.  *)
Rehash(t) ==
  LET old == Last(tables)
      tds == FlattenSeq([b \in 1..Len(old) |-> queue[b]])
  IN
  /\ pc[t] = "lockBuckets"
  /\ NotLocked(t) = {}
  /\ MyHashtableIsCurrent(t)
  /\ \/ /\ LargeEnough(old, count[t])
        /\ LoadTable(t, tables)
        /\ UNCHANGED queue
     \/ /\ ~LargeEnough(old, count[t])
        /\ \E new \in {NewTable(count[t] * GrowthFactor * MaxLoadFactor, tds, Len(old))} :
             /\ LoadTable(t, Append(tables, new))
             /\ queue' = [b \in Buckets |->
                            Selected(tds, {u \in ToSet(tds) : new[Index(address[u], Len(new))] = b})]
  /\ UnlockBuckets(t)
  /\ count' = [count EXCEPT ![t] = 0]
  /\ Goto(t, "enqueue")
  /\ UNCHANGED <<mutexVars, hasWaiters, numThreads, registered, address, cond, all, toSignal>>

(* TableUnchanged if nobody looked again. *)
TableNotRechecked(t) == TRUE

(* "At this point the hashtable could have rehashed under us." *)
TableUnchanged(t) == MyHashtableIsCurrent(t)

(* The bucket lock was free, but the table has changed: go round again. *)
TryAgain(t, at) ==
  /\ pc[t] = at
  /\ bucketLock[MyBucket(t)] = None
  /\ ~TableUnchanged(t)

EnqueueAgain(t) ==
  /\ TryAgain(t, "enqueue")
  /\ LoadTable(t, tables)
  /\ UNCHANGED <<mutexVars, hasWaiters, numThreads, bucketLock, registered, queue, address,
                 pc, callVars, toSignal>>

(* The bucket is locked and belongs to the current table. *)
UnderBucketLock(t, at) ==
  /\ pc[t] = at
  /\ bucketLock[MyBucket(t)] = None
  /\ TableUnchanged(t)
  /\ my' = [my EXCEPT ![t] = 0]

(* The validation functor sets m_hasWaiters, and the thread is queued. *)
Enqueue(t) ==
  /\ UnderBucketLock(t, "enqueue")
  /\ hasWaiters' = [hasWaiters EXCEPT ![cond[t]] = TRUE]
  /\ address' = [address EXCEPT ![t] = cond[t]]
  /\ queue' = [queue EXCEPT ![MyBucket(t)] = Append(@, t)]
  /\ Goto(t, "beforeSleep")
  /\ UNCHANGED <<mutexVars, tableVars, callVars, toSignal>>

(* The beforeSleep functor: lock.unlock(). *)
BeforeSleep(t) ==
  /\ pc[t] = "beforeSleep"
  /\ ReleaseLock(t)
  /\ Goto(t, "asleep")
  /\ UNCHANGED <<hasWaiters, tableVars, queue, address, callVars, my, toSignal, result>>

(* parkConditionallyImpl returns to waitUntilUnchecked. *)
ParkReturns(t, wasUnparked) ==
  /\ result' = [result EXCEPT ![t] = wasUnparked]
  /\ Goto(t, "relock")
  /\ UNCHANGED <<holder, hasWaiters, tableVars, callVars, toSignal>>

(* "Great! We actually got dequeued rather than the timeout expiring." *)
Woken(t) ==
  /\ pc[t] = "asleep"
  /\ address[t] = None
  /\ ParkReturns(t, TRUE)
  /\ UNCHANGED <<queue, address, my>>

(* dequeue() with IgnoreEmpty, up to the bucket lock. *)
DequeueSelfLoad(t) ==
  /\ IF BucketIn(tables, Len(tables), cond[t]) = Null
     THEN Goto(t, "awaitSignal") /\ UNCHANGED my
     ELSE Goto(t, "dequeueSelf") /\ my' = [my EXCEPT ![t] = Len(tables)]
  /\ UNCHANGED <<mutexVars, hasWaiters, tableVars, queue, address, callVars, toSignal>>

(* The timeout expires and nobody has cleared the address. *)
TimesOut(t) ==
  /\ pc[t] = "asleep"
  /\ address[t] # None
  /\ DequeueSelfLoad(t)

(* The table has changed while the thread waited for the bucket lock. *)
DequeueSelfAgain(t) ==
  /\ TryAgain(t, "dequeueSelf")
  /\ DequeueSelfLoad(t)

(* didDequeue: the thread was still in the queue, and was not unparked. *)
DequeueSelf(t) ==
  /\ UnderBucketLock(t, "dequeueSelf")
  /\ Contains(queue[MyBucket(t)], t)
  /\ queue' = [queue EXCEPT ![MyBucket(t)] = Selected(@, Threads \ {t})]
  /\ address' = [address EXCEPT ![t] = None]
  /\ ParkReturns(t, FALSE)

(* "If didDequeue is false, then someone unparked us." *)
NotInQueue(t) ==
  /\ UnderBucketLock(t, "dequeueSelf")
  /\ ~Contains(queue[MyBucket(t)], t)
  /\ Goto(t, "awaitSignal")
  /\ UNCHANGED <<mutexVars, hasWaiters, tableVars, queue, address, callVars, toSignal>>

(* SignalArrived if the late signal were not waited for. *)
SignalNotAwaited(t) == TRUE

(* while (me->address) me->parkingCondition.wait(me->parkingLock); *)
SignalArrived(t) == address[t] = None

(* "They will set our address to null. We don't want to proceed until they *)
(* do this."                                                               *)
AwaitSignal(t) ==
  /\ pc[t] = "awaitSignal"
  /\ SignalArrived(t)
  /\ address' = [address EXCEPT ![t] = None]
  /\ ParkReturns(t, TRUE)
  /\ UNCHANGED <<queue, my>>

(* lock.lock() at the end of waitUntilUnchecked, which returns the result. *)
Relock(t) ==
  /\ pc[t] = "relock"
  /\ holder[cond[t]] = None
  /\ holder' = [holder EXCEPT ![cond[t]] = t]
  /\ result' = [result EXCEPT ![t] = FALSE]
  /\ Goto(t, "locked")
  /\ UNCHANGED <<hasWaiters, tableVars, queue, address, callVars, my, toSignal>>

-----------------------------------------------------------------------------
(*                       notifyOne() and notifyAll()                       *)

(* The notification is over. *)
NotifyReturns(t) ==
  /\ all' = [all EXCEPT ![t] = FALSE]
  /\ IF holder[cond[t]] = t
     THEN Goto(t, "locked") /\ UNCHANGED cond
     ELSE Goto(t, "idle") /\ cond' = [cond EXCEPT ![t] = None]

(* dequeue() up to the bucket lock: with EnsureNonEmpty for unparkOne, ... *)
UnparkOneLoad(t, c) ==
  /\ tables' = WithBucket(tables, c)
  /\ my' = [my EXCEPT ![t] = Len(tables)]
  /\ Goto(t, "unpark")

(* ... with IgnoreEmpty for unparkCount, which returns if there is no      *)
(* bucket.                                                                 *)
UnparkAllLoad(t) ==
  /\ IF BucketIn(tables, Len(tables), cond[t]) = Null
     THEN NotifyReturns(t) /\ UNCHANGED my
     ELSE /\ Goto(t, "unpark")
          /\ my' = [my EXCEPT ![t] = Len(tables)]
          /\ UNCHANGED <<cond, all>>
  /\ UNCHANGED <<mutexVars, hasWaiters, tableVars, queue, address, count, toSignal>>

(* With or without the lock. Both begin with a load of m_hasWaiters, and   *)
(* nothing happens when it is false.                                       *)
MayNotify(t, c) ==
  /\ pc[t] = "idle" \/ (pc[t] = "locked" /\ cond[t] = c)
  /\ hasWaiters[c]
  /\ cond' = [cond EXCEPT ![t] = c]

NotifyOne(t, c) ==
  /\ MayNotify(t, c)
  /\ UnparkOneLoad(t, c)
  /\ UNCHANGED <<mutexVars, hasWaiters, numThreads, bucketLock, registered, queue, address,
                 all, count, toSignal>>

NotifyAll(t, c) ==
  /\ MayNotify(t, c)
  /\ all' = [all EXCEPT ![t] = TRUE]
  /\ Goto(t, "clear")
  /\ UNCHANGED <<mutexVars, hasWaiters, tableVars, queue, address, count, my, toSignal>>

(* notifyAll's m_hasWaiters.store(false) *)
Clear(t) ==
  /\ pc[t] = "clear"
  /\ hasWaiters' = [hasWaiters EXCEPT ![cond[t]] = FALSE]
  /\ Goto(t, "unparkAll")
  /\ UNCHANGED <<mutexVars, tableVars, queue, address, callVars, my, toSignal>>

BeginUnparkAll(t) ==
  /\ pc[t] = "unparkAll"
  /\ UnparkAllLoad(t)

UnparkOneAgain(t) ==
  /\ TryAgain(t, "unpark") /\ ~all[t]
  /\ UnparkOneLoad(t, cond[t])
  /\ UNCHANGED <<mutexVars, hasWaiters, numThreads, bucketLock, registered, queue, address,
                 callVars, toSignal>>

UnparkAllAgain(t) ==
  /\ TryAgain(t, "unpark") /\ all[t]
  /\ UnparkAllLoad(t)

(* The threads of t's bucket that are parked on t's condition. *)
Parked(t) == Selected(queue[MyBucket(t)], ParkedOn(cond[t]))

(* MayHaveMoreThreads if the flag were always cleared. *)
NeverMoreThreads(t, rest) == FALSE

(* m_hasWaiters after notifyOne, whose functor is told that there may be   *)
(* more threads if it dequeued one and the bucket is not empty.            *)
MayHaveMoreThreads(t, rest) == Parked(t) # <<>> /\ rest # <<>>

(* unparkOne under the bucket lock. *)
UnparkOne(t) ==
  LET rest == IF Parked(t) = <<>> THEN queue[MyBucket(t)]
              ELSE Selected(queue[MyBucket(t)], Threads \ {Head(Parked(t))})
  IN
  /\ UnderBucketLock(t, "unpark")
  /\ ~all[t]
  /\ queue' = [queue EXCEPT ![MyBucket(t)] = rest]
  /\ IF MayHaveMoreThreads(t, rest) THEN UNCHANGED hasWaiters
     ELSE hasWaiters' = [hasWaiters EXCEPT ![cond[t]] = FALSE]
  /\ IF Parked(t) = <<>>
     THEN NotifyReturns(t) /\ UNCHANGED toSignal
     ELSE /\ toSignal' = [toSignal EXCEPT ![t] = <<Head(Parked(t))>>]
          /\ Goto(t, "signal")
          /\ UNCHANGED <<cond, all>>
  /\ UNCHANGED <<mutexVars, tableVars, address, count>>

(* unparkCount with UINT_MAX under the bucket lock. *)
UnparkAll(t) ==
  /\ UnderBucketLock(t, "unpark")
  /\ all[t]
  /\ queue' = [queue EXCEPT ![MyBucket(t)] = Selected(@, Threads \ ParkedOn(cond[t]))]
  /\ IF Parked(t) = <<>>
     THEN NotifyReturns(t) /\ UNCHANGED toSignal
     ELSE /\ toSignal' = [toSignal EXCEPT ![t] = Parked(t)]
          /\ Goto(t, "signal")
          /\ UNCHANGED <<cond, all>>
  /\ UNCHANGED <<mutexVars, hasWaiters, tableVars, address, count>>

(* After the bucket lock is gone: clear the address of one dequeued thread *)
(* under its parkingLock, signal it, and go on to the next.                *)
Signal(t) ==
  /\ pc[t] = "signal"
  /\ address' = [address EXCEPT ![Head(toSignal[t])] = None]
  /\ toSignal' = [toSignal EXCEPT ![t] = Tail(@)]
  /\ IF Len(toSignal[t]) = 1 THEN NotifyReturns(t) ELSE UNCHANGED <<pc, cond, all>>
  /\ UNCHANGED <<mutexVars, hasWaiters, tableVars, queue, count, my>>

-----------------------------------------------------------------------------
Step(t) ==
  \/ LockHashtable(t) \/ LockBucket(t) \/ TableWasRehashed(t) \/ Rehash(t)
  \/ EnqueueAgain(t) \/ Enqueue(t) \/ BeforeSleep(t) \/ Woken(t) \/ TimesOut(t)
  \/ DequeueSelfAgain(t) \/ DequeueSelf(t) \/ NotInQueue(t) \/ AwaitSignal(t) \/ Relock(t)
  \/ Clear(t) \/ BeginUnparkAll(t) \/ UnparkOneAgain(t) \/ UnparkAllAgain(t)
  \/ UnparkOne(t) \/ UnparkAll(t) \/ Signal(t)

Next ==
  \E t \in Threads :
    \/ \E c \in Conditions : Lock(t, c) \/ NotifyOne(t, c) \/ NotifyAll(t, c)
    \/ Unlock(t) \/ WaitPast(t) \/ WaitUntil(t)
    \/ Step(t)

Spec == Init /\ [][Next]_vars

-----------------------------------------------------------------------------
(*                               Properties                                *)

(* The queue of c in the current table. *)
WaitersOf(c) ==
  IF tables = <<>> \/ BucketIn(tables, Len(tables), c) = Null THEN <<>>
  ELSE Selected(queue[BucketIn(tables, Len(tables), c)], ParkedOn(c))

(* t is between joining the queue and the end of its park. *)
InPark(t) ==
  pc[t] \in {"beforeSleep", "asleep", "dequeueSelf", "awaitSignal"}

(* A notification is not missed: while threads wait on c the flag that     *)
(* notifyOne and notifyAll test says so, unless a notifyAll has cleared it *)
(* and has yet to dequeue those threads.                                   *)
NoMissedNotification ==
  \A c \in Conditions : WaitersOf(c) # <<>> =>
    \/ hasWaiters[c]
    \/ \E t \in Threads : pc[t] \in {"unparkAll", "unpark"} /\ all[t] /\ cond[t] = c

(* In the hands of how many notifying threads t is. *)
Signallers(t) == {u \in Threads : Contains(toSignal[u], t)}

(* No parked thread is lost and none is woken twice, whichever table it    *)
(* was queued in: until its address is cleared it is either once in the    *)
(* queue where a notification will look for it, or in the hands of one     *)
(* thread that will signal it; after its park it is in neither, so that no *)
(* late signal can end a later wait.                                       *)
ParkedThreadsAccountedFor ==
  \A t \in Threads :
    /\ address[t] # None =>
         /\ InPark(t)
         /\ LET places == {i \in DOMAIN WaitersOf(address[t]) :
                             WaitersOf(address[t])[i] = t}
            IN \/ Cardinality(places) = 1 /\ Signallers(t) = {}
               \/ places = {} /\ Cardinality(Signallers(t)) = 1
    /\ address[t] = None =>
         Signallers(t) = {} /\ \A b \in Buckets : ~Contains(queue[b], t)

(* What has become of t's wait, as Monitor tells it. *)
StatusOf(t) ==
  IF address[t] # None /\ Contains(WaitersOf(address[t]), t) THEN "waiting"
  ELSE IF InPark(t) THEN "notified"
  ELSE IF pc[t] = "relock" THEN (IF result[t] THEN "notified" ELSE "timedOut")
  ELSE "running"

M == INSTANCE Monitor WITH waiters <- [c \in Conditions |-> WaitersOf(c)],
                           status <- [t \in Threads |-> StatusOf(t)]

(* A Condition is a Monitor: FIFO notification, no wake-up that nobody     *)
(* sent, and a wait that returns true exactly when a notification took it  *)
(* from the queue, whatever timeout or rehash was under way.               *)
ImplementsMonitor == M!Spec
=============================================================================
