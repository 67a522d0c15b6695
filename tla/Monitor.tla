------------------------------ MODULE Monitor ------------------------------
(***************************************************************************)
(* What a WTF::Condition promises to the threads that use it with a lock   *)
(* (Source/WTF/wtf/Condition.h), without queues, buckets or flags: waiting *)
(* starts before the lock is given up; notifyOne wakes the thread that has *)
(* waited longest, notifyAll all that wait; a wait ends because it was     *)
(* notified or because it timed out, and says which.                       *)
(***************************************************************************)
EXTENDS Sequences, SequencesExt, Selection

CONSTANTS Threads, Conditions, None

VARIABLES
  holder,    \* holder[c]: the thread that holds the lock of c, or None
  waiters,   \* waiters[c]: the threads waiting on c, longest waiting first
  status     \* status[t]: what has become of t's wait

vars == <<holder, waiters, status>>

Init ==
  /\ holder = [c \in Conditions |-> None]
  /\ waiters = [c \in Conditions |-> <<>>]
  /\ status = [t \in Threads |-> "running"]

Acquire(t, c) ==
  /\ holder[c] = None /\ status[t] = "running"
  /\ holder' = [holder EXCEPT ![c] = t]
  /\ UNCHANGED <<waiters, status>>

Release(t, c) ==
  /\ holder[c] = t
  /\ holder' = [holder EXCEPT ![c] = None]
  /\ UNCHANGED <<waiters, status>>

(* A wait begins; the lock is given up by Release, later. *)
Wait(t, c) ==
  /\ holder[c] = t /\ status[t] = "running"
  /\ waiters' = [waiters EXCEPT ![c] = Append(@, t)]
  /\ status' = [status EXCEPT ![t] = "waiting"]
  /\ UNCHANGED holder

(* A wait whose timeout is in the past only gives up the lock. *)
WaitPast(t, c) ==
  /\ holder[c] = t /\ status[t] = "running"
  /\ holder' = [holder EXCEPT ![c] = None]
  /\ status' = [status EXCEPT ![t] = "timedOut"]
  /\ UNCHANGED waiters

NotifyOne(c) ==
  /\ waiters[c] # <<>>
  /\ waiters' = [waiters EXCEPT ![c] = Tail(@)]
  /\ status' = [status EXCEPT ![Head(waiters[c])] = "notified"]
  /\ UNCHANGED holder

NotifyAll(c) ==
  /\ waiters' = [waiters EXCEPT ![c] = <<>>]
  /\ status' = [t \in Threads |-> IF Contains(waiters[c], t) THEN "notified" ELSE status[t]]
  /\ UNCHANGED holder

(* A thread that has given up the lock stops waiting of its own accord. *)
TimeOut(t, c) ==
  /\ holder[c] # t /\ Contains(waiters[c], t)
  /\ waiters' = [waiters EXCEPT ![c] = Selected(@, Threads \ {t})]
  /\ status' = [status EXCEPT ![t] = "timedOut"]
  /\ UNCHANGED holder

(* wait() returns with the lock: true if it was notified, else false. *)
Return(t, c) ==
  /\ holder[c] = None /\ status[t] \in {"notified", "timedOut"}
  /\ holder' = [holder EXCEPT ![c] = t]
  /\ status' = [status EXCEPT ![t] = "running"]
  /\ UNCHANGED waiters

Next ==
  \E c \in Conditions :
    \/ NotifyOne(c) \/ NotifyAll(c)
    \/ \E t \in Threads : Acquire(t, c) \/ Release(t, c) \/ Wait(t, c) \/ WaitPast(t, c)
                          \/ TimeOut(t, c) \/ Return(t, c)

Spec == Init /\ [][Next]_vars
=============================================================================
