--------------------------- MODULE HeapHandshake ---------------------------
(***************************************************************************)
(* The protocol by which the mutator and the collector thread of a         *)
(* JSC::Heap share a garbage collection (JavaScriptCore/heap/Heap.cpp):    *)
(* heap access, the conn (who conducts the collection), stopping and       *)
(* resuming the world, collection tickets, finalization, preventing        *)
(* collections and shutting down.                                          *)
(*                                                                         *)
(* One step is one atomic access to m_worldState, one critical section of  *)
(* m_threadLock, or one ParkingLot::unparkAll. A compareExchangeWeak loop  *)
(* on m_worldState is its last, successful iteration: a failed one has     *)
(* changed nothing and starts again. For the same reason a load followed   *)
(* by compareAndPark of the loaded value is one step. What a phase does to *)
(* objects (marking, sweeping, weak references) is left out; which phase   *)
(* may follow it, and who may run it, is not.                              *)
(***************************************************************************)
EXTENDS Naturals, Sequences

CONSTANTS
  Scopes,      \* the scopes collections are asked for, of {"Eden", "Full"}
  MaxTickets,  \* bound: collections granted in one behaviour
  Continuous   \* Options::collectContinuously()

ASSUME ScopesAssumption == Scopes \subseteq {"Eden", "Full"}
ASSUME MaxTicketsAssumption == MaxTickets \in Nat
ASSUME ContinuousAssumption == Continuous \in BOOLEAN

Mutator == "Mutator"
Collector == "Collector"
Conductors == {Mutator, Collector}

Phases == {"NotRunning", "Begin", "Fixpoint", "Concurrent", "Reloop", "End"}

(* The bits of m_worldState. *)
mutatorHasConn == "mutatorHasConnBit"
stopped        == "stoppedBit"
hasAccess      == "hasAccessBit"
needFinalize   == "needFinalizeBit"
mutatorWaiting == "mutatorWaitingBit"
Bits == {mutatorHasConn, stopped, hasAccess, needFinalize, mutatorWaiting}

(* The scope of a request that leaves the choice to the heap. *)
AnyScope == "nullopt"

VARIABLES
  world,        \* m_worldState, the set of its bits that are set
  parked,       \* the threads parked on the address of m_worldState
  phase,        \* m_currentPhase
  nextPhase,    \* m_nextPhase
  worldIsStopped,   \* m_worldIsStopped
  collectionScope,  \* whether m_collectionScope is engaged
  requests,     \* m_requests, the scopes asked for
  served,       \* m_lastServedTicket
  granted,      \* m_lastGrantedTicket
  collectorThreadIsRunning,  \* m_collectorThreadIsRunning
  threadShouldStop,          \* m_threadShouldStop
  isSafeToCollect,           \* m_isSafeToCollect
  collectingContinuously,    \* the continuous GC thread exists
  timer,        \* whether m_stopIfNecessaryTimer is scheduled
  mutatorDidRun,    \* m_mutatorDidRun
  pc,           \* pc[c]: where each of the two threads is
  op,           \* the Heap operation the mutator is in
  after,        \* where the mutator's handleNeedFinalize returns to
  old,          \* oldState of waitForCollector
  done,         \* done of waitForCollector
  ticket,       \* the ticket collectSync waits for
  scope         \* the scope the mutator asks for

worldVars == <<world, parked>>
phaseVars == <<phase, nextPhase, worldIsStopped, collectionScope>>
requestVars == <<requests, served, granted>>
threadVars == <<collectorThreadIsRunning, threadShouldStop>>
heapVars == <<isSafeToCollect, collectingContinuously>>
waitVars == <<old, done, ticket>>
vars == <<worldVars, phaseVars, requestVars, threadVars, heapVars, timer,
          mutatorDidRun, pc, op, after, waitVars, scope>>

(* The program points at which a thread runs a phase or changes phases. *)
Conducting == {"runPhase", "stopTheMutator", "stopThePeriphery",
               "resumeTheMutator", "resumeUnpark", "endUnpark",
               "setNeedFinalize", "needFinalizeUnpark"}

MutatorPC ==
  Conducting \cup
  {"outside", "acquire", "acquireFinalize", "timerWork", "running",
   "stopCheck", "stopLoop", "stopTail", "request", "waitTop", "waitStop",
   "relinquishConn", "relinquished", "park", "prevented", "bringDown",
   "join", "finished", "release", "released", "finalize"}

CollectorPC ==
  Conducting \cup {"noThread", "poll", "waiting", "handedOff", "stopped"}

(* The operations. "timer" is the run loop timer taking the API lock,      *)
(* "timerWork" its doWork; "stop" is stopIfNecessary; "async" and          *)
(* "syncRequest" are a collectAsync and a collectSync in requestCollection. *)
(* The rest are in waitForCollector.                                       *)
Waits == {"sync", "prevent", "shutdown"}
Asks == {"async", "syncRequest"}
Ops == Waits \cup Asks \cup {"none", "acquire", "timer", "timerWork", "stop"}

TypeOK ==
  /\ world \subseteq Bits
  /\ parked \subseteq Conductors
  /\ phase \in Phases /\ nextPhase \in Phases
  /\ worldIsStopped \in BOOLEAN /\ collectionScope \in BOOLEAN
  /\ requests \in Seq(Scopes \cup {AnyScope})
  /\ served \in Nat /\ granted \in 0..MaxTickets
  /\ collectorThreadIsRunning \in BOOLEAN /\ threadShouldStop \in BOOLEAN
  /\ isSafeToCollect \in BOOLEAN /\ collectingContinuously \in BOOLEAN
  /\ timer \in BOOLEAN /\ mutatorDidRun \in BOOLEAN
  /\ pc \in [Conductors -> MutatorPC \cup CollectorPC]
  /\ pc[Mutator] \in MutatorPC /\ pc[Collector] \in CollectorPC
  /\ op \in Ops /\ after \in MutatorPC
  /\ old \subseteq Bits /\ done \in BOOLEAN /\ ticket \in Nat
  /\ scope \in Scopes \cup {AnyScope}

(* A heap whose constructor has run; the VM constructor has yet to call    *)
(* notifyIsSafeToCollect.                                                  *)
Init ==
  /\ world = {} /\ parked = {}
  /\ phase = "NotRunning" /\ nextPhase = "NotRunning"
  /\ worldIsStopped = FALSE /\ collectionScope = FALSE
  /\ requests = <<>> /\ served = 0 /\ granted = 0
  /\ collectorThreadIsRunning = FALSE /\ threadShouldStop = FALSE
  /\ isSafeToCollect = FALSE /\ collectingContinuously = FALSE
  /\ timer = FALSE /\ mutatorDidRun = TRUE
  /\ pc = [c \in Conductors |-> IF c = Mutator THEN "outside" ELSE "noThread"]
  /\ op = "none" /\ after = "running"
  /\ old = {} /\ done = FALSE /\ ticket = 0 /\ scope = AnyScope

At(c, label) == pc[c] = label /\ c \notin parked

Goto(c, label) == pc' = [pc EXCEPT ![c] = label]

UnparkAll == parked' = {}

(* ParkingLot::compareAndPark(&m_worldState, value). *)
ParkIf(c, value) ==
  parked' = IF world = value THEN parked \cup {c} ELSE parked

(* NotifyOne if a thread that timed out were not started again. *)
NotifyOnlyWaiting(pcs) ==
  [pcs EXCEPT ![Collector] = IF @ = "waiting" THEN "poll" ELSE @]

(* AutomaticThreadCondition::notifyOne: the collector thread is awoken if  *)
(* it waits and started if it does not exist. pcs is the assignment of     *)
(* program points to change.                                               *)
NotifyOne(pcs) ==
  [pcs EXCEPT ![Collector] = IF @ \in {"waiting", "noThread"} THEN "poll" ELSE @]

-----------------------------------------------------------------------------
(*                        Finalization by the mutator                      *)

(* handleNeedFinalize that finds the bit set and clears it. finalize runs  *)
(* next; the mutator then returns to ret. The mutator calls                *)
(* handleNeedFinalize at every slow path, but it can only find the bit set *)
(* in acquireAccess and as it resumes the world itself (the invariant      *)
(* PendingFinalization): at the other calls the model keeps the branch     *)
(* that finds it clear, and stops there if it is not.                      *)
TakeFinalize(ret) ==
  /\ needFinalize \in world
  /\ world' = world \ {needFinalize}
  /\ after' = ret
  /\ Goto(Mutator, "finalize")
  /\ UNCHANGED <<parked, phaseVars, requestVars, threadVars, heapVars, timer,
                 mutatorDidRun, op, waitVars, scope>>

(* The end of finalize and the unparkAll that follows it. *)
Finalized ==
  /\ At(Mutator, "finalize")
  /\ UnparkAll
  /\ Goto(Mutator, after)
  /\ UNCHANGED <<world, phaseVars, requestVars, threadVars, heapVars, timer,
                 mutatorDidRun, op, after, waitVars, scope>>

-----------------------------------------------------------------------------
(*                     Phases, run by either conductor                     *)

(* worldShouldBeSuspended if the world also ran during Reloop. *)
SuspendedExceptReloop(p) == p \in {"Begin", "Fixpoint", "End"}

worldShouldBeSuspended(p) == p \in {"Begin", "Fixpoint", "Reloop", "End"}

(* Where a conductor goes when runCurrentPhase returns Finished. *)
Finished(c) ==
  IF c = Collector THEN "poll"
  ELSE IF op \in Waits THEN "relinquishConn" ELSE "stopTail"

(* A phase runs when no change of phase is pending. *)
Runs(c, p) == At(c, "runPhase") /\ phase = nextPhase /\ phase = p

NotRunningPhaseIdle(c) ==
  /\ Runs(c, "NotRunning")
  /\ requests = <<>>
  /\ Goto(c, Finished(c))
  /\ UNCHANGED <<worldVars, phaseVars, requestVars, threadVars, heapVars, timer,
                 mutatorDidRun, op, after, waitVars, scope>>

(* changePhase as far as the assignment of m_nextPhase; the rest is        *)
(* finishChangingPhase, below.                                             *)
ChangePhase(p, q) ==
  /\ phase = p
  /\ nextPhase' = q
  /\ UNCHANGED <<worldVars, phase, worldIsStopped, requestVars, threadVars, heapVars,
                 timer, mutatorDidRun, pc, op, after, waitVars, scope>>

NotRunningPhase(c) ==
  /\ Runs(c, "NotRunning")
  /\ requests # <<>>
  /\ ChangePhase("NotRunning", "Begin")
  /\ UNCHANGED collectionScope

BeginPhase(c) ==
  /\ Runs(c, "Begin")
  /\ collectionScope' = TRUE
  /\ ChangePhase("Begin", "Fixpoint")

(* The fixpoint has converged ... *)
FixpointConverges(c) ==
  /\ Runs(c, "Fixpoint")
  /\ ChangePhase("Fixpoint", "End")
  /\ UNCHANGED collectionScope

(* ... or the scheduler lets the mutator resume before it has. *)
FixpointResumes(c) ==
  /\ Runs(c, "Fixpoint")
  /\ ChangePhase("Fixpoint", "Concurrent")
  /\ UNCHANGED collectionScope

(* The collector drains until it is time to stop; the mutator, polling,    *)
(* finds that it is time to stop.                                          *)
ConcurrentStops(c) ==
  /\ Runs(c, "Concurrent")
  /\ ChangePhase("Concurrent", "Reloop")
  /\ UNCHANGED collectionScope

(* The mutator polls and finds that it is not yet time. *)
ConcurrentPolls ==
  /\ Runs(Mutator, "Concurrent")
  /\ Goto(Mutator, Finished(Mutator))
  /\ UNCHANGED <<worldVars, phaseVars, requestVars, threadVars, heapVars, timer,
                 mutatorDidRun, op, after, waitVars, scope>>

ReloopPhase(c) ==
  /\ Runs(c, "Reloop")
  /\ ChangePhase("Reloop", "Fixpoint")
  /\ UNCHANGED collectionScope

(* ServedFirst if the request that was served stayed queued. *)
ServedNone == requests

(* m_requests.removeFirst(). *)
ServedFirst == Tail(requests)

(* EndPhase: the request is served under m_threadLock, which clears the    *)
(* waiting bit; then unparkAll; then setNeedFinalize, which sets the bit,  *)
(* calls unparkAll and schedules the timer.                                *)
EndPhase(c) ==
  /\ Runs(c, "End")
  /\ collectionScope' = FALSE
  /\ requests' = ServedFirst
  /\ served' = served + 1
  /\ world' = world \ {mutatorWaiting}
  /\ Goto(c, "endUnpark")
  /\ UNCHANGED <<parked, phase, nextPhase, worldIsStopped, granted, threadVars, heapVars,
                 timer, mutatorDidRun, op, after, waitVars, scope>>

EndUnpark(c) ==
  /\ At(c, "endUnpark")
  /\ UnparkAll
  /\ Goto(c, "setNeedFinalize")
  /\ UNCHANGED <<world, phaseVars, requestVars, threadVars, heapVars, timer,
                 mutatorDidRun, op, after, waitVars, scope>>

SetNeedFinalize(c) ==
  /\ At(c, "setNeedFinalize")
  /\ world' = world \cup {needFinalize}
  /\ Goto(c, "needFinalizeUnpark")
  /\ UNCHANGED <<parked, phaseVars, requestVars, threadVars, heapVars, timer,
                 mutatorDidRun, op, after, waitVars, scope>>

NeedFinalizeUnpark(c) ==
  /\ At(c, "needFinalizeUnpark")
  /\ UnparkAll
  /\ timer' = TRUE
  /\ nextPhase' = "NotRunning"
  /\ Goto(c, "runPhase")
  /\ UNCHANGED <<world, phase, worldIsStopped, collectionScope, requestVars, threadVars,
                 heapVars, mutatorDidRun, op, after, waitVars, scope>>

-----------------------------------------------------------------------------
(*                           finishChangingPhase                           *)

Changes(c) == At(c, "runPhase") /\ phase # nextPhase

Enters == ~worldShouldBeSuspended(phase) /\ worldShouldBeSuspended(nextPhase)
Leaves == worldShouldBeSuspended(phase) /\ ~worldShouldBeSuspended(nextPhase)

(* A change of phase that neither suspends nor resumes the world. *)
ChangeWithinWorld(c) ==
  /\ Changes(c)
  /\ ~Enters /\ ~Leaves
  /\ phase' = nextPhase
  /\ UNCHANGED <<worldVars, nextPhase, worldIsStopped, collectionScope, requestVars,
                 threadVars, heapVars, timer, mutatorDidRun, pc, op, after, waitVars, scope>>

(* resumeThePeriphery. *)
ResumeThePeriphery(c) ==
  /\ Changes(c) /\ Leaves
  /\ worldIsStopped' = FALSE
  /\ Goto(c, "resumeTheMutator")
  /\ UNCHANGED <<worldVars, phase, nextPhase, collectionScope, requestVars, threadVars,
                 heapVars, timer, mutatorDidRun, op, after, waitVars, scope>>

FinishPhaseChange(c) ==
  /\ phase' = nextPhase
  /\ Goto(c, "runPhase")
  /\ UNCHANGED <<nextPhase, worldIsStopped, collectionScope, requestVars, threadVars,
                 heapVars, timer, mutatorDidRun, op, after, waitVars, scope>>

(* resumeTheMutator, run by the collector. That the stopped bit is set,    *)
(* which the code tests, is part of AssertionsHold.                        *)
ResumeTheMutator ==
  /\ At(Collector, "resumeTheMutator")
  /\ world' = world \ {stopped}
  /\ Goto(Collector, "resumeUnpark")
  /\ UNCHANGED <<parked, phaseVars, requestVars, threadVars, heapVars, timer,
                 mutatorDidRun, op, after, waitVars, scope>>

ResumeUnpark ==
  /\ At(Collector, "resumeUnpark")
  /\ UnparkAll
  /\ FinishPhaseChange(Collector)
  /\ UNCHANGED world

(* The mutator that resumes itself finalizes first. *)
MutatorResumesFinalize ==
  At(Mutator, "resumeTheMutator") /\ TakeFinalize("resumeTheMutator")

(* FinalizedBeforeResume if the mutator resumed whatever is pending. *)
ResumeAnyway == TRUE

(* The mutator resumes once handleNeedFinalize has nothing left to do. *)
FinalizedBeforeResume == needFinalize \notin world

MutatorResumes ==
  /\ At(Mutator, "resumeTheMutator")
  /\ FinalizedBeforeResume
  /\ FinishPhaseChange(Mutator)
  /\ UNCHANGED worldVars

(* FinalizedBeforeStop if the collector did not wait for finalization. *)
NeverWaitForFinalize == TRUE

(* What the conductor waits for before it stops the world. *)
FinalizedBeforeStop == needFinalize \notin world

(* waitWhileNeedFinalize that parks, and that passes. *)
WaitWhileNeedFinalize ==
  /\ Changes(Collector) /\ Enters
  /\ ~FinalizedBeforeStop
  /\ ParkIf(Collector, world)
  /\ UNCHANGED <<world, phaseVars, requestVars, threadVars, heapVars, timer,
                 mutatorDidRun, pc, op, after, waitVars, scope>>

NoNeedToWait ==
  /\ Changes(Collector) /\ Enters
  /\ FinalizedBeforeStop
  /\ Goto(Collector, "stopTheMutator")
  /\ UNCHANGED <<worldVars, phaseVars, requestVars, threadVars, heapVars, timer,
                 mutatorDidRun, op, after, waitVars, scope>>

(* StoppedBits if the collector relied on the mutator having no access. *)
StoppedBitsUnset == {}

(* The bit that makes acquireAccess block. *)
StoppedBits == {stopped}

(* stopTheMutator when the mutator is stopped already or has no access.    *)
StopTheMutator ==
  /\ At(Collector, "stopTheMutator")
  /\ hasAccess \notin world
  /\ world' = world \cup StoppedBits
  /\ Goto(Collector, "stopThePeriphery")
  /\ UNCHANGED <<parked, phaseVars, requestVars, threadVars, heapVars, timer,
                 mutatorDidRun, op, after, waitVars, scope>>

(* stopTheMutator when the mutator has access: it gets the conn, and the   *)
(* change of phase stays pending.                                          *)
HandOffConn ==
  /\ At(Collector, "stopTheMutator")
  /\ hasAccess \in world
  /\ world' = (world \cup {mutatorHasConn}) \ {mutatorWaiting}
  /\ Goto(Collector, "handedOff")
  /\ UNCHANGED <<parked, phaseVars, requestVars, threadVars, heapVars, timer,
                 mutatorDidRun, op, after, waitVars, scope>>

HandOffUnpark ==
  /\ At(Collector, "handedOff")
  /\ timer' = TRUE
  /\ UnparkAll
  /\ Goto(Collector, Finished(Collector))
  /\ UNCHANGED <<world, phaseVars, requestVars, threadVars, heapVars,
                 mutatorDidRun, op, after, waitVars, scope>>

(* The mutator that stops itself: handleNeedFinalize and stopThePeriphery. *)
MutatorStops ==
  /\ Changes(Mutator) /\ Enters
  /\ needFinalize \notin world
  /\ Goto(Mutator, "stopThePeriphery")
  /\ UNCHANGED <<worldVars, phaseVars, requestVars, threadVars, heapVars, timer,
                 mutatorDidRun, op, after, waitVars, scope>>

(* stopThePeriphery. *)
StopThePeriphery(c) ==
  /\ At(c, "stopThePeriphery")
  /\ worldIsStopped' = TRUE
  /\ mutatorDidRun' = FALSE
  /\ phase' = nextPhase
  /\ Goto(c, "runPhase")
  /\ UNCHANGED <<worldVars, nextPhase, collectionScope, requestVars, threadVars, heapVars,
                 timer, op, after, waitVars, scope>>

PhaseNext(c) ==
  \/ NotRunningPhaseIdle(c) \/ NotRunningPhase(c) \/ BeginPhase(c)
  \/ FixpointConverges(c) \/ FixpointResumes(c) \/ ConcurrentStops(c) \/ ReloopPhase(c)
  \/ EndPhase(c) \/ EndUnpark(c) \/ SetNeedFinalize(c) \/ NeedFinalizeUnpark(c)
  \/ ChangeWithinWorld(c) \/ ResumeThePeriphery(c) \/ StopThePeriphery(c)

-----------------------------------------------------------------------------
(*                The collector thread, an AutomaticThread                 *)

(* poll when the heap is shutting down: notifyThreadStopping, then the     *)
(* thread stops for good.                                                  *)
PollStop ==
  /\ At(Collector, "poll")
  /\ threadShouldStop
  /\ world' = world \ {mutatorWaiting}
  /\ UnparkAll
  /\ collectorThreadIsRunning' = FALSE
  /\ Goto(Collector, "stopped")
  /\ UNCHANGED <<phaseVars, requestVars, threadShouldStop, heapVars, timer,
                 mutatorDidRun, op, after, waitVars, scope>>

(* shouldCollectInCollectorThread if it looked at the requests alone. *)
AnyRequest == requests # <<>>

shouldCollectInCollectorThread ==
  requests # <<>> /\ mutatorHasConn \notin world

PollWork ==
  /\ At(Collector, "poll")
  /\ ~threadShouldStop /\ shouldCollectInCollectorThread
  /\ collectorThreadIsRunning' = TRUE
  /\ Goto(Collector, "runPhase")
  /\ UNCHANGED <<worldVars, phaseVars, requestVars, threadShouldStop, heapVars, timer,
                 mutatorDidRun, op, after, waitVars, scope>>

PollWait ==
  /\ At(Collector, "poll")
  /\ ~threadShouldStop /\ ~shouldCollectInCollectorThread
  /\ collectorThreadIsRunning' = FALSE
  /\ Goto(Collector, "waiting")
  /\ UNCHANGED <<worldVars, phaseVars, requestVars, threadShouldStop, heapVars, timer,
                 mutatorDidRun, op, after, waitVars, scope>>

(* The wait times out before a notify and the underlying thread goes away. *)
StopForTimeout ==
  /\ At(Collector, "waiting")
  /\ collectorThreadIsRunning' = FALSE
  /\ Goto(Collector, "noThread")
  /\ UNCHANGED <<worldVars, phaseVars, requestVars, threadShouldStop, heapVars, timer,
                 mutatorDidRun, op, after, waitVars, scope>>

CollectorNext ==
  \/ PhaseNext(Collector)
  \/ ResumeTheMutator \/ ResumeUnpark \/ WaitWhileNeedFinalize \/ NoNeedToWait
  \/ StopTheMutator \/ HandOffConn \/ HandOffUnpark
  \/ PollStop \/ PollWork \/ PollWait \/ StopForTimeout

-----------------------------------------------------------------------------
(*                     The mutator: access and stopping                    *)

(* Where an operation goes on when its stopIfNecessary (or, for "acquire"  *)
(* and "timer", its acquireAccess) returns.                                *)
AfterStop ==
  CASE op \in {"acquire", "stop"} -> "running"
    [] op = "timer" -> "timerWork"
    [] op = "timerWork" -> "release"
    [] op \in Asks -> "request"

OpAfterStop == IF op \in {"acquire", "stop", "timerWork"} THEN "none" ELSE op

(* acquireAccess, by the embedder or by the timer's API lock. *)
AcquireAccess ==
  /\ At(Mutator, "outside")
  /\ \/ op' = "acquire"
     \/ timer /\ op' = "timer"
  /\ Goto(Mutator, "acquire")
  /\ UNCHANGED <<worldVars, phaseVars, requestVars, threadVars, heapVars, timer,
                 mutatorDidRun, after, waitVars, scope>>

AcquireFast ==
  /\ At(Mutator, "acquire")
  /\ world = {}
  /\ world' = {hasAccess}
  /\ Goto(Mutator, AfterStop)
  /\ op' = OpAfterStop
  /\ UNCHANGED <<parked, phaseVars, requestVars, threadVars, heapVars, timer,
                 mutatorDidRun, after, waitVars, scope>>

AcquireParks ==
  /\ At(Mutator, "acquire")
  /\ stopped \in world
  /\ ParkIf(Mutator, world)
  /\ UNCHANGED <<world, phaseVars, requestVars, threadVars, heapVars, timer,
                 mutatorDidRun, pc, op, after, waitVars, scope>>

(* MayAcquire if acquireAccess did not look at the stopped bit. *)
MayAlwaysAcquire == TRUE

MayAcquire == stopped \notin world

AcquireSlow ==
  /\ At(Mutator, "acquire")
  /\ world # {} /\ MayAcquire
  /\ world' = world \cup {hasAccess}
  /\ Goto(Mutator, "acquireFinalize")
  /\ UNCHANGED <<parked, phaseVars, requestVars, threadVars, heapVars, timer,
                 mutatorDidRun, op, after, waitVars, scope>>

AcquireFinalizes ==
  At(Mutator, "acquireFinalize") /\ TakeFinalize("acquireFinalize")

AcquireFinalized ==
  /\ At(Mutator, "acquireFinalize")
  /\ needFinalize \notin world
  /\ mutatorDidRun' = TRUE
  /\ Goto(Mutator, "stopCheck")
  /\ UNCHANGED <<worldVars, phaseVars, requestVars, threadVars, heapVars, timer,
                 op, after, waitVars, scope>>

(* StopIfNecessaryTimer::doWork, on the run loop of a mutator that has     *)
(* access already or has just acquired it.                                 *)
TimerFires ==
  /\ \/ At(Mutator, "running") /\ timer /\ op' = "stop"
     \/ At(Mutator, "timerWork") /\ op' = "timerWork"
  /\ timer' = FALSE
  /\ Goto(Mutator, "stopCheck")
  /\ UNCHANGED <<worldVars, phaseVars, requestVars, threadVars, heapVars,
                 mutatorDidRun, after, waitVars, scope>>

(* stopIfNecessary from an allocation slow path. *)
StopIfNecessary ==
  /\ At(Mutator, "running")
  /\ op' = "stop"
  /\ Goto(Mutator, "stopCheck")
  /\ UNCHANGED <<worldVars, phaseVars, requestVars, threadVars, heapVars, timer,
                 mutatorDidRun, after, waitVars, scope>>

(* stopIfNecessary when mayNeedToStop is false ... *)
NoNeedToStop ==
  /\ At(Mutator, "stopCheck")
  /\ world = {hasAccess}
  /\ Goto(Mutator, AfterStop)
  /\ op' = OpAfterStop
  /\ UNCHANGED <<worldVars, phaseVars, requestVars, threadVars, heapVars, timer,
                 mutatorDidRun, after, waitVars, scope>>

(* ... and when it is true: stopIfNecessarySlow. *)
MayNeedToStop ==
  /\ At(Mutator, "stopCheck")
  /\ world # {hasAccess}
  /\ Goto(Mutator, "stopLoop")
  /\ UNCHANGED <<worldVars, phaseVars, requestVars, threadVars, heapVars, timer,
                 mutatorDidRun, op, after, waitVars, scope>>

(* collectInMutatorThread if the mutator has the conn. *)
StopLoads ==
  /\ At(Mutator, "stopLoop")
  /\ needFinalize \notin world
  /\ Goto(Mutator, IF mutatorHasConn \in world THEN "runPhase" ELSE "stopTail")
  /\ UNCHANGED <<worldVars, phaseVars, requestVars, threadVars, heapVars, timer,
                 mutatorDidRun, op, after, waitVars, scope>>

StopReturns ==
  /\ At(Mutator, "stopTail")
  /\ needFinalize \notin world
  /\ mutatorDidRun' = TRUE
  /\ Goto(Mutator, AfterStop)
  /\ op' = OpAfterStop
  /\ UNCHANGED <<worldVars, phaseVars, requestVars, threadVars, heapVars, timer,
                 after, waitVars, scope>>

ReleaseAccess ==
  /\ At(Mutator, "running")
  /\ Goto(Mutator, "release")
  /\ UNCHANGED <<worldVars, phaseVars, requestVars, threadVars, heapVars, timer,
                 mutatorDidRun, op, after, waitVars, scope>>

(* The collector had given the mutator the conn in the middle of a change  *)
(* of phase: the mutator stops as it gives it back.                        *)
StopOnRelease ==
  IF mutatorHasConn \in world /\ nextPhase # phase THEN {stopped} ELSE {}

Released ==
  /\ At(Mutator, "release")
  /\ needFinalize \notin world
  /\ world' = (world \ {hasAccess, mutatorHasConn}) \cup StopOnRelease
  /\ Goto(Mutator, IF mutatorHasConn \in world THEN "released" ELSE "outside")
  /\ UNCHANGED <<parked, phaseVars, requestVars, threadVars, heapVars, timer,
                 mutatorDidRun, op, after, waitVars, scope>>

(* RelinquishNotifies if only a running collector needed to be told. *)
NeverNotify(pcs) == pcs

(* The notifyOne of finishRelinquishingConn. *)
RelinquishNotifies(pcs) == IF requests # <<>> THEN NotifyOne(pcs) ELSE pcs

(* finishRelinquishingConn, from releaseAccess or relinquishConn. *)
FinishRelinquishingConn ==
  /\ \E from \in {"released", "relinquished"} :
       /\ At(Mutator, from)
       /\ pc' = RelinquishNotifies(
                  [pc EXCEPT ![Mutator] =
                     IF from = "released" THEN "outside" ELSE "relinquishConn"])
  /\ UnparkAll
  /\ UNCHANGED <<world, phaseVars, requestVars, threadVars, heapVars, timer,
                 mutatorDidRun, op, after, waitVars, scope>>

-----------------------------------------------------------------------------
(*                  The mutator: asking for and awaiting GC                *)

NotifyIsSafeToCollect ==
  /\ At(Mutator, "running")
  /\ ~isSafeToCollect /\ pc[Collector] = "noThread" /\ granted = 0
  /\ isSafeToCollect' = TRUE
  /\ collectingContinuously' = Continuous
  /\ UNCHANGED <<worldVars, phaseVars, requestVars, threadVars, timer, mutatorDidRun,
                 pc, op, after, waitVars, scope>>

(* GCRequest::subsumedBy, for requests without a callback. *)
SubsumedBy(s, other) ==
  \/ other = "Full"
  \/ s = "Eden"
  \/ s = AnyScope /\ other = AnyScope

(* collectNow(Async): collectAsync and a stopIfNecessary, which is all     *)
(* there is to it when a queued request subsumes this one.                 *)
CollectAsync ==
  /\ At(Mutator, "running")
  /\ isSafeToCollect
  /\ granted < MaxTickets
  /\ \E s \in Scopes :
       /\ scope' = s
       /\ op' = IF \E i \in DOMAIN requests : SubsumedBy(s, requests[i])
                  THEN "stop" ELSE "async"
  /\ Goto(Mutator, "stopCheck")
  /\ UNCHANGED <<worldVars, phaseVars, requestVars, threadVars, heapVars, timer,
                 mutatorDidRun, after, waitVars>>

CollectSync ==
  /\ At(Mutator, "running")
  /\ isSafeToCollect
  /\ granted < MaxTickets
  /\ scope' \in Scopes
  /\ op' = "syncRequest"
  /\ Goto(Mutator, "stopCheck")
  /\ UNCHANGED <<worldVars, phaseVars, requestVars, threadVars, heapVars, timer,
                 mutatorDidRun, after, waitVars>>

(* MayStealConn if requestCollection did not ask whether the collector     *)
(* thread is running.                                                      *)
MayStealConnFromRunning == served = granted

(* "We may be able to steal the conn. That only works if the collector is  *)
(* definitely not running right now."                                      *)
MayStealConn == served = granted /\ ~collectorThreadIsRunning

(* requestCollection under m_threadLock. *)
RequestCollection ==
  /\ At(Mutator, "request")
  /\ world' = world \cup (IF MayStealConn THEN {mutatorHasConn} ELSE {})
  /\ requests' = Append(requests, scope)
  /\ granted' = granted + 1
  /\ ticket' = granted'
  /\ op' = IF op = "async" THEN "stop" ELSE "sync"
  /\ LET pcs == [pc EXCEPT ![Mutator] = IF op = "async" THEN "stopCheck" ELSE "waitTop"]
     IN pc' = IF mutatorHasConn \in world' THEN pcs ELSE NotifyOne(pcs)
  /\ UNCHANGED <<parked, phaseVars, served, threadVars, heapVars, timer, mutatorDidRun,
                 after, old, done, scope>>

(* The continuous GC thread. The mutator keeps it out from                 *)
(* preventCollection to allowCollection with m_collectContinuouslyLock.    *)
(* The bound leaves the mutator the ticket it is about to take.            *)
ContinuousRequest ==
  /\ collectingContinuously
  /\ op # "prevent"
  /\ requests = <<>>
  /\ granted + (IF op \in Asks THEN 1 ELSE 0) < MaxTickets
  /\ requests' = <<AnyScope>>
  /\ granted' = granted + 1
  /\ pc' = NotifyOne(pc)
  /\ UNCHANGED <<worldVars, phaseVars, served, threadVars, heapVars, timer,
                 mutatorDidRun, op, after, waitVars, scope>>

(* preventCollection, as far as waitForCollector. *)
PreventCollection ==
  /\ At(Mutator, "running")
  /\ isSafeToCollect
  /\ op' = "prevent"
  /\ Goto(Mutator, "waitTop")
  /\ UNCHANGED <<worldVars, phaseVars, requestVars, threadVars, heapVars, timer,
                 mutatorDidRun, after, waitVars, scope>>

AllowCollection ==
  /\ At(Mutator, "prevented")
  /\ op' = "none"
  /\ Goto(Mutator, "running")
  /\ UNCHANGED <<worldVars, phaseVars, requestVars, threadVars, heapVars, timer,
                 mutatorDidRun, after, waitVars, scope>>

(* lastChanceToFinalize: the continuous thread is stopped and joined, no   *)
(* collection may be asked for any more, and a collection under way is     *)
(* awaited.                                                                *)
LastChanceToFinalize ==
  /\ At(Mutator, "running")
  /\ isSafeToCollect
  /\ isSafeToCollect' = FALSE
  /\ collectingContinuously' = FALSE
  /\ op' = "shutdown"
  /\ Goto(Mutator, IF served < granted THEN "waitTop" ELSE "bringDown")
  /\ UNCHANGED <<worldVars, phaseVars, requestVars, threadVars, timer, mutatorDidRun,
                 after, waitVars, scope>>

(* CollectorDone if it were off by one ticket. *)
CollectorDoneEarly ==
  IF op = "sync" THEN served + 1 >= ticket ELSE served + 1 >= granted

(* The func argument of waitForCollector. *)
CollectorDone == IF op = "sync" THEN served >= ticket ELSE served = granted

(* waitForCollector: the locked section of an iteration, *)
WaitTop ==
  /\ At(Mutator, "waitTop")
  /\ done' = CollectorDone
  /\ world' = IF done' THEN world ELSE world \cup {mutatorWaiting}
  /\ Goto(Mutator, "waitStop")
  /\ UNCHANGED <<parked, phaseVars, requestVars, threadVars, heapVars, timer,
                 mutatorDidRun, op, after, old, ticket, scope>>

(* its stopIfNecessarySlow(oldState), which runs phases if the mutator has *)
(* the conn,                                                               *)
WaitStop ==
  /\ At(Mutator, "waitStop")
  /\ needFinalize \notin world
  /\ old' = world
  /\ Goto(Mutator, IF mutatorHasConn \in world THEN "runPhase" ELSE "relinquishConn")
  /\ UNCHANGED <<worldVars, phaseVars, requestVars, threadVars, heapVars, timer,
                 mutatorDidRun, op, after, done, ticket, scope>>

(* relinquishConn has nothing to do. *)
NothingToRelinquish == mutatorHasConn \notin world \/ threadShouldStop

(* its relinquishConn that gives the conn back, *)
RelinquishConn ==
  /\ At(Mutator, "relinquishConn")
  /\ ~NothingToRelinquish
  /\ world' = world \ {mutatorHasConn}
  /\ mutatorDidRun' = TRUE
  /\ Goto(Mutator, "relinquished")
  /\ UNCHANGED <<parked, phaseVars, requestVars, threadVars, heapVars, timer,
                 op, after, waitVars, scope>>

(* and that has none to give: the wait is over, or the mutator parks.      *)
WaitReturns ==
  /\ At(Mutator, "relinquishConn")
  /\ NothingToRelinquish
  /\ done
  /\ world' = world \ {mutatorWaiting}
  /\ mutatorDidRun' = TRUE
  /\ op' = IF op = "sync" THEN "none" ELSE op
  /\ Goto(Mutator, CASE op = "sync" -> "running"
                     [] op = "prevent" -> "prevented"
                     [] op = "shutdown" -> "bringDown")
  /\ UNCHANGED <<parked, phaseVars, requestVars, threadVars, heapVars, timer,
                 after, waitVars, scope>>

GoPark ==
  /\ At(Mutator, "relinquishConn")
  /\ NothingToRelinquish
  /\ ~done
  /\ mutatorDidRun' = TRUE
  /\ Goto(Mutator, "park")
  /\ UNCHANGED <<worldVars, phaseVars, requestVars, threadVars, heapVars, timer,
                 op, after, waitVars, scope>>

(* "If mutatorWaitingBit is still set then we want to wait." *)
ParkValue == old \cup {mutatorWaiting}

Park ==
  /\ At(Mutator, "park")
  /\ ParkIf(Mutator, ParkValue)
  /\ Goto(Mutator, "waitTop")
  /\ UNCHANGED <<world, phaseVars, requestVars, threadVars, heapVars, timer,
                 mutatorDidRun, op, after, waitVars, scope>>

(* AutomaticThread::tryStop. *)
TryStop == pc[Collector] = "noThread"

(* "Carefully bring the thread down." *)
BringDown ==
  /\ At(Mutator, "bringDown")
  /\ threadShouldStop' = TRUE
  /\ pc' = IF TryStop
             THEN [pc EXCEPT ![Collector] = "stopped", ![Mutator] = "finished"]
             ELSE NotifyOne([pc EXCEPT ![Mutator] = "join"])
  /\ UNCHANGED <<worldVars, phaseVars, requestVars, collectorThreadIsRunning, heapVars,
                 timer, mutatorDidRun, op, after, waitVars, scope>>

(* AutomaticThread::join. *)
Join ==
  /\ At(Mutator, "join")
  /\ pc[Collector] = "stopped"
  /\ Goto(Mutator, "finished")
  /\ UNCHANGED <<worldVars, phaseVars, requestVars, threadVars, heapVars, timer,
                 mutatorDidRun, op, after, waitVars, scope>>

(* The heap is gone. *)
Terminated == pc[Mutator] = "finished" /\ UNCHANGED vars

-----------------------------------------------------------------------------

(* What the mutator does of its own accord, ... *)
MutatorCalls ==
  \/ AcquireAccess \/ StopIfNecessary \/ TimerFires \/ ReleaseAccess
  \/ NotifyIsSafeToCollect \/ CollectAsync \/ CollectSync
  \/ PreventCollection \/ AllowCollection \/ LastChanceToFinalize

(* ... and the steps of the operation that it is in. *)
MutatorSteps ==
  \/ PhaseNext(Mutator) \/ ConcurrentPolls \/ Finalized
  \/ MutatorResumesFinalize \/ MutatorResumes \/ MutatorStops
  \/ AcquireFast \/ AcquireParks \/ AcquireSlow \/ AcquireFinalizes \/ AcquireFinalized
  \/ NoNeedToStop \/ MayNeedToStop \/ StopLoads \/ StopReturns
  \/ Released \/ FinishRelinquishingConn
  \/ RequestCollection
  \/ WaitTop \/ WaitStop \/ RelinquishConn
  \/ WaitReturns \/ GoPark \/ Park
  \/ BringDown \/ Join

Next ==
  CollectorNext \/ MutatorCalls \/ MutatorSteps \/ ContinuousRequest \/ Terminated

Spec == Init /\ [][Next]_vars

-----------------------------------------------------------------------------
(*                                Properties                               *)

(* The mutator points of stopIfNecessarySlow, waitForCollector,            *)
(* relinquishConn, releaseAccessSlow and handleNeedFinalize, whose         *)
(* RELEASE_ASSERTs say that the mutator has access and is not stopped.     *)
NeedsAccess ==
  {"running", "prevented", "request", "stopCheck", "stopLoop", "stopTail", "waitTop",
   "waitStop", "relinquishConn", "park", "release", "finalize", "acquireFinalize"}

(* checkConn, at every point where a thread runs or changes a phase: the   *)
(* collector conducts only without the conn being the mutator's, and the   *)
(* mutator only with the conn, with heap access and while not stopped.     *)
(* Hence the two never conduct at once.                                    *)
ConnDiscipline ==
  /\ pc[Collector] \in Conducting => mutatorHasConn \notin world
  /\ pc[Mutator] \in Conducting =>
       {mutatorHasConn, hasAccess} \subseteq world /\ stopped \notin world

(* While the periphery is stopped, either the mutator is itself conducting *)
(* or the stopped bit keeps it out of the heap: acquireAccess blocks.      *)
StoppedWorldHasNoMutator ==
  worldIsStopped =>
    \/ pc[Mutator] \in Conducting
    \/ /\ pc[Mutator] \in {"outside", "acquire", "released"}
       /\ stopped \in world /\ hasAccess \notin world

(* The finalization of one collection is over before the next one begins   *)
(* (waitWhileNeedFinalize and handleNeedFinalize in finishChangingPhase),  *)
(* and finalize only runs in a resumed world.                              *)
FinalizedBeforeNextCycle ==
  /\ (collectionScope \/ phase = "Begin") =>
       needFinalize \notin world /\ pc[Mutator] # "finalize"
  /\ pc[Mutator] = "finalize" => ~worldIsStopped

(* Finalization is pending only where somebody is bound to see it: the     *)
(* mutator has no access, and handles it in acquireAccess, or is ending    *)
(* the collection itself, and handles it as it resumes. So it runs no code *)
(* over a heap that is not finalized, and the calls of handleNeedFinalize  *)
(* in stopIfNecessarySlow, waitForCollector and releaseAccessSlow find     *)
(* nothing to do.                                                          *)
PendingFinalization ==
  needFinalize \in world =>
    pc[Mutator] \in Conducting \cup {"outside", "acquire", "acquireFinalize", "released"}

(* The RELEASE_ASSERTs of the protocol that are not in checkConn: those of *)
(* stopTheMutator, resumeTheMutator, stopThePeriphery, resumeThePeriphery, *)
(* acquireAccessSlow and of the mutator's slow paths, of                   *)
(* shouldCollectInCollectorThread, runBeginPhase, didFinishCollection,     *)
(* lastChanceToFinalize and AutomaticThread::start.                        *)
AssertionsHold ==
  /\ pc[Collector] = "stopTheMutator" =>
       /\ stopped \in world => hasAccess \notin world
       /\ hasAccess \notin world => mutatorWaiting \notin world
  /\ pc[Collector] = "resumeTheMutator" =>
       stopped \in world /\ hasAccess \notin world
  /\ \A c \in Conductors :
       /\ pc[c] = "stopThePeriphery" => ~worldIsStopped
       /\ pc[c] = "runPhase" /\ phase # nextPhase /\ Leaves => worldIsStopped
       /\ pc[c] = "runPhase" /\ phase = nextPhase =>
            /\ phase = "Begin" => requests # <<>> /\ ~collectionScope
            /\ phase = "End" => requests # <<>> /\ collectionScope
  /\ pc[Mutator] \in NeedsAccess => hasAccess \in world /\ stopped \notin world
  /\ pc[Mutator] = "acquire" => hasAccess \notin world
  /\ served <= granted /\ ((requests = <<>>) <=> (served = granted))
  /\ pc[Mutator] = "bringDown" => requests = <<>>
  /\ pc[Collector] = "stopped" => pc[Mutator] \in {"join", "finished"}

(* From the return of preventCollection to allowCollection no collection   *)
(* is under way or asked for, and nobody can start one but the mutator.    *)
NoCollectionWhilePrevented ==
  pc[Mutator] = "prevented" =>
    /\ ~collectionScope /\ ~worldIsStopped
    /\ requests = <<>> /\ nextPhase = "NotRunning"
    /\ mutatorHasConn \notin world

(* collectSync returns only once the collection it asked for, or a later   *)
(* one, has been served.                                                   *)
SyncMeansCollected ==
  [][op = "sync" /\ op' # "sync" => served >= ticket]_vars

(* Both threads are scheduled, and marking, which is retried in every      *)
(* fixpoint, converges in one of them.                                     *)
Fairness ==
  /\ WF_vars(CollectorNext)
  /\ WF_vars(MutatorSteps)
  /\ SF_vars(\E c \in Conductors : FixpointConverges(c))

LiveSpec == Spec /\ Fairness

(* The mutator gives the conn back in the middle of a change of phase that *)
(* the collector handed to it: the "conn bounce-back" of runCurrentPhase.  *)
BounceBack == RelinquishConn /\ phase # nextPhase

(* "A mischevious mutator could repeatedly relinquish the conn back to     *)
(* us." No fairness of scheduling excludes it, so liveness is claimed of   *)
(* the behaviours in which it stops happening.                             *)
BouncesStop == <>[][~BounceBack]_vars

(* acquireAccess returns, since the world it waits for is resumed; so do   *)
(* collectSync, preventCollection and lastChanceToFinalize, whoever has    *)
(* the conn when they start waiting, unless the conn bounces for ever.     *)
WaitsReturn ==
  BouncesStop =>
    /\ pc[Mutator] = "acquire" ~> pc[Mutator] # "acquire"
    /\ op \in {"syncRequest", "sync"} ~> op = "none"
    /\ op = "prevent" ~> pc[Mutator] = "prevented"
    /\ op = "shutdown" ~> pc[Mutator] = "finished"

(* A mutator that keeps polling, and whose run loop serves its timers:     *)
(* stopIfNecessary is called from the allocation slow paths, and the       *)
(* scheduler does not say "not yet" for ever.                              *)
Polling ==
  /\ WF_vars(StopIfNecessary)
  /\ WF_vars(TimerFires)
  /\ WF_vars(timer /\ AcquireAccess)
  /\ SF_vars(ConcurrentStops(Mutator))

(* Every collection a polling mutator requests is served, by whichever     *)
(* thread gets the conn, unless the conn bounces for ever.                 *)
RequestsServed ==
  Polling /\ BouncesStop => (requests # <<>> ~> requests = <<>>)

=============================================================================
