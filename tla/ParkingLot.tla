----------------------------- MODULE ParkingLot -----------------------------
(***************************************************************************)
(* The state of Source/WTF/wtf/ParkingLot.cpp and the steps of parking and *)
(* unparking that WTF::Lock is built from: a table of buckets, each with a *)
(* lock and a FIFO queue of parked threads. A bucket is shared by every    *)
(* address that hashes to it, so a queue may hold threads that are parked  *)
(* on different addresses.                                                 *)
(*                                                                         *)
(* Every operator below is one atomic step of the code as other threads    *)
(* can observe it; the modules that extend this one order the steps.       *)
(* The bucket lock (WordLock) is a plain mutex here. The hashtable does    *)
(* not grow: BucketOf is fixed.                                            *)
(***************************************************************************)
EXTENDS Naturals, Sequences, SequencesExt

CONSTANTS
  Threads,    \* the threads of the process
  Locks,      \* the addresses threads park on, one per WTF::Lock
  Buckets,    \* the buckets of the hashtable
  BucketOf,   \* BucketOf[l]: hashAddress(l) % size
  None        \* nullptr

ASSUME BucketAssumption == BucketOf \in [Locks -> Buckets]
ASSUME NoneAssumption == None \notin Threads /\ None \notin Locks

BargingOpportunity == "BargingOpportunity"   \* token 0, the value a park starts from
DirectHandoff == "DirectHandoff"
Token == {BargingOpportunity, DirectHandoff}

VARIABLES
  bucketLock,  \* bucketLock[b]: the thread that holds Bucket::lock, or None
  queue,       \* queue[b]: Bucket::queueHead ... queueTail
  address,     \* address[t]: ThreadData::address, None when t is not parked
  token        \* token[t]: ThreadData::token

parkingVars == <<bucketLock, queue, address, token>>

ParkingTypeOK ==
  /\ bucketLock \in [Buckets -> Threads \cup {None}]
  /\ queue \in [Buckets -> Seq(Threads)]
  /\ address \in [Threads -> Locks \cup {None}]
  /\ token \in [Threads -> Token]

ParkingInit ==
  /\ bucketLock = [b \in Buckets |-> None]
  /\ queue = [b \in Buckets |-> <<>>]
  /\ address = [t \in Threads |-> None]
  /\ token = [t \in Threads |-> BargingOpportunity]

-----------------------------------------------------------------------------
(* parkConditionallyImpl: me->token = 0, then enqueue() takes the bucket lock. *)
ParkLockBucket(t, l) ==
  /\ bucketLock[BucketOf[l]] = None
  /\ bucketLock' = [bucketLock EXCEPT ![BucketOf[l]] = t]
  /\ token' = [token EXCEPT ![t] = BargingOpportunity]
  /\ UNCHANGED <<queue, address>>

(* The validation functor returned true: me->address = address. *)
ParkSetAddress(t, l) ==
  /\ address' = [address EXCEPT ![t] = l]
  /\ UNCHANGED <<bucketLock, queue, token>>

(* The validation functor returned false: release the bucket, do not park. *)
ParkRefuse(t, l) ==
  /\ bucketLock' = [bucketLock EXCEPT ![BucketOf[l]] = None]
  /\ UNCHANGED <<queue, address, token>>

(* Bucket::enqueue and the release of the bucket lock. *)
ParkEnqueue(t, l) ==
  /\ queue' = [queue EXCEPT ![BucketOf[l]] = Append(@, t)]
  /\ bucketLock' = [bucketLock EXCEPT ![BucketOf[l]] = None]
  /\ UNCHANGED <<address, token>>

(* dequeue(): take the bucket lock of the address. *)
UnparkLockBucket(t, l) ==
  /\ bucketLock[BucketOf[l]] = None
  /\ bucketLock' = [bucketLock EXCEPT ![BucketOf[l]] = t]
  /\ UNCHANGED <<queue, address, token>>

(* ParkedOn if the functor did not compare addresses. *)
ParkedOnIgnoringAddress(l) == DOMAIN queue[BucketOf[l]]

(* The positions of the bucket's queue whose thread is parked on l. *)
ParkedOn(l) == {i \in DOMAIN queue[BucketOf[l]] : address[queue[BucketOf[l]][i]] = l}

(* i is the first position of the queue that the dequeue functor of *)
(* unparkOneImpl does not ignore.                                   *)
FirstParkedOn(i, l) == i \in ParkedOn(l) /\ \A j \in ParkedOn(l) : i <= j

(* genericDequeue with RemoveAndStop at position i. *)
DequeueAt(i, l) ==
  /\ FirstParkedOn(i, l)
  /\ queue' = [queue EXCEPT ![BucketOf[l]] = RemoveAt(@, i)]
  /\ UNCHANGED <<bucketLock, address, token>>

(* The end of unparkOneImpl's finish functor: the token is stored in the   *)
(* dequeued thread u (None when nobody was dequeued) and the bucket lock   *)
(* is released.                                                            *)
FinishDequeue(l, u, tok) ==
  /\ token' = IF u = None THEN token ELSE [token EXCEPT ![u] = tok]
  /\ bucketLock' = [bucketLock EXCEPT ![BucketOf[l]] = None]
  /\ UNCHANGED <<queue, address>>

(* The bool that dequeue() passes to the finish functor: queueHead is not null *)
(* whichever address the remaining threads wait for.                           *)
BucketNonEmpty(l) == queue[BucketOf[l]] # <<>>

(* threadData->address = nullptr under its parkingLock, then signal. *)
Signal(u) ==
  /\ address' = [address EXCEPT ![u] = None]
  /\ UNCHANGED <<bucketLock, queue, token>>
=============================================================================
