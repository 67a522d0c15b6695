----------------------------- MODULE LockTimed ------------------------------
(***************************************************************************)
(* Lock::tryLockWithTimeout (Source/WTF/wtf/Lock.cpp), on top of the model *)
(* of the other operations of WTF::Lock. It polls tryLock, sleeping a      *)
(* second between attempts, and returns isHeld().                          *)
(***************************************************************************)
EXTENDS Lock

CONSTANT MaxRetries   \* maxRetries: the timeout in seconds

VARIABLES
  polled,    \* polled[t]: the lock t is polling, None outside tryLockWithTimeout
  tryCount,  \* tryCount[t]
  result     \* result[t]: what the last call returned, None before it returns

timedVars == <<polled, tryCount, result>>
allVars == <<vars, timedVars>>

TimedInit ==
  /\ Init
  /\ polled = [t \in Threads |-> None]
  /\ tryCount = [t \in Threads |-> 0]
  /\ result = [t \in Threads |-> None]

TryLockWithTimeout(t, l) ==
  /\ pc[t] = "idle"
  /\ polled[t] = None
  /\ polled' = [polled EXCEPT ![t] = l]
  /\ tryCount' = [tryCount EXCEPT ![t] = 0]
  /\ result' = [result EXCEPT ![t] = None]
  /\ UNCHANGED vars

(* tryLock() fails; tryCount++ <= maxRetries decides whether the loop goes *)
(* on, so the loop ends once tryCount has reached MaxRetries + 2.          *)
Polling(t) == polled[t] # None /\ tryCount[t] <= MaxRetries + 1

PollFails(t) ==
  /\ Polling(t)
  /\ pc[t] = "idle"
  /\ isHeldBit \in byte[polled[t]]
  /\ tryCount' = [tryCount EXCEPT ![t] = @ + 1]
  /\ UNCHANGED <<vars, polled, result>>

(* tryLock() succeeded: the loop ends with the lock acquired. *)
PollSucceeds(t) ==
  /\ Polling(t)
  /\ TryLock(t, polled[t])
  /\ UNCHANGED timedVars

(* return isHeld(), after tryLock() succeeded or the retries ran out. *)
TimedReturn(t) ==
  /\ polled[t] # None
  /\ pc[t] = "locked" \/ tryCount[t] > MaxRetries + 1
  /\ result' = [result EXCEPT ![t] = isHeldBit \in byte[polled[t]]]
  /\ polled' = [polled EXCEPT ![t] = None]
  /\ UNCHANGED <<vars, tryCount>>

(* The other operations of a thread that is not inside tryLockWithTimeout. *)
OtherSteps(t) ==
  /\ polled[t] = None
  /\ \/ \E l \in Locks : LockFast(t, l) \/ LockFastFails(t, l) \/ TryLock(t, l)
     \/ Safepoint(t)
     \/ Step(t)
  /\ result' = [result EXCEPT ![t] = None]
  /\ UNCHANGED <<polled, tryCount>>

TimedNext ==
  \E t \in Threads :
    \/ \E l \in Locks : TryLockWithTimeout(t, l)
    \/ PollFails(t) \/ PollSucceeds(t) \/ TimedReturn(t)
    \/ OtherSteps(t)

TimedSpec == TimedInit /\ [][TimedNext]_allVars

(* tryLockWithTimeout returns true only to a thread that acquired the lock *)
(* in that call: Lock.h annotates it WTF_ACQUIRES_LOCK_IF(true), and its   *)
(* callers adopt the lock when it returns true.                            *)
TrueMeansAcquired ==
  \A t \in Threads : result[t] = TRUE => \E l \in Locks : Owns(t, l)
=============================================================================
