------------------------------- MODULE Mutex -------------------------------
(***************************************************************************)
(* What WTF::Lock and WTF::WordLock promise, without bits or queues: a     *)
(* lock has at most one holder, a thread that asked for a lock becomes its *)
(* holder or keeps waiting, and unlocking either frees the lock or hands   *)
(* it directly to a thread that is waiting for that very lock (the fair    *)
(* unlock, Source/WTF/wtf/Lock.h).                                         *)
(***************************************************************************)
CONSTANTS Threads, Locks, None

VARIABLES
  holder,   \* holder[l]: the thread that holds l, or None
  waiting   \* waiting[l]: threads inside lock() on l that do not hold it yet

vars == <<holder, waiting>>

TypeOK == /\ holder \in [Locks -> Threads \cup {None}]
          /\ waiting \in [Locks -> SUBSET Threads]

Init == /\ holder = [l \in Locks |-> None]
        /\ waiting = [l \in Locks |-> {}]

Busy(t) == \E l \in Locks : holder[l] = t \/ t \in waiting[l]

(* lock() or tryLock() on a free lock. *)
AcquireFree(t, l) ==
  /\ ~Busy(t)
  /\ holder[l] = None
  /\ holder' = [holder EXCEPT ![l] = t]
  /\ UNCHANGED waiting

(* lock() that could not take the lock at once. *)
StartWaiting(t, l) ==
  /\ ~Busy(t)
  /\ waiting' = [waiting EXCEPT ![l] = @ \cup {t}]
  /\ UNCHANGED holder

(* A waiting thread barges in on a free lock. *)
AcquireWaiting(t, l) ==
  /\ t \in waiting[l]
  /\ holder[l] = None
  /\ holder' = [holder EXCEPT ![l] = t]
  /\ waiting' = [waiting EXCEPT ![l] = @ \ {t}]

(* unlock(): again is TRUE when the unlock is the first half of safepoint(), *)
(* after which the thread wants the lock back.                               *)
Release(t, l, again) ==
  /\ holder[l] = t
  /\ holder' = [holder EXCEPT ![l] = None]
  /\ waiting' = [waiting EXCEPT ![l] = IF again THEN @ \cup {t} ELSE @]

(* unlockFairly(): u never sees the lock free, nor does anybody else. *)
Handoff(t, u, l, again) ==
  /\ holder[l] = t
  /\ u \in waiting[l]
  /\ holder' = [holder EXCEPT ![l] = u]
  /\ waiting' = [waiting EXCEPT ![l] = IF again THEN (@ \ {u}) \cup {t} ELSE @ \ {u}]

Next == \E l \in Locks :
          \/ \E t \in Threads : AcquireFree(t, l) \/ StartWaiting(t, l)
          \/ \E t \in waiting[l] : AcquireWaiting(t, l)
          \/ \E t \in {holder[l]} \cap Threads, again \in BOOLEAN :
               \/ Release(t, l, again)
               \/ \E u \in waiting[l] : Handoff(t, u, l, again)

Spec == Init /\ [][Next]_vars
=============================================================================
