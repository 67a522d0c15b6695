-------------------------- MODULE ParallelMarking --------------------------
(***************************************************************************)
(* Marking by several threads in JavaScriptCore: the SlotVisitors share    *)
(* work through shared mark stacks (heap/SlotVisitor.cpp), the conductor   *)
(* of the collection drives them to a fixpoint with the marking            *)
(* constraints (heap/Heap.cpp, heap/MarkingConstraintSolver.cpp), and the  *)
(* helper threads come from a ParallelHelperPool (wtf/ParallelHelperPool). *)
(*                                                                         *)
(* What a thread does under m_markingMutex is one step. A mark stack is a  *)
(* set, as no property tells orders apart, and the collector and mutator   *)
(* stack of a visitor, which are always treated alike, are one. The heap   *)
(* does not change here: ConcurrentMarking is about stores. Cells visited  *)
(* between two attempts to donate: one, the least the option allows.       *)
(***************************************************************************)
EXTENDS Naturals, FiniteSets, Sequences, SequencesExt

CONSTANTS
  Helpers,      \* the threads of the helper pool, and their visitors
  Collector,    \* the conductor, and m_collectorSlotVisitor
  Mutator,      \* the mutator, and m_mutatorSlotVisitor
  Cells,
  Roots,        \* the cells that the root constraints mark
  Children,     \* Children[c]: the cells c points to
  Outgrowth,    \* Outgrowth[c]: the cells the other constraints mark when c is marked
  MaxCycles,    \* bound: collections
  MaxTimeouts   \* bound: times that the scheduler's deadline passes

ASSUME VisitorAssumption == Collector # Mutator /\ {Collector, Mutator} \cap Helpers = {}
ASSUME GraphAssumption ==
  /\ Roots \subseteq Cells
  /\ Children \in [Cells -> SUBSET Cells]
  /\ Outgrowth \in [Cells -> SUBSET Cells]
(* The threads and the cells are finitely many, and no cell is taken for   *)
(* the name of a constraint (see doing).                                   *)
ASSUME FiniteAssumption == IsFiniteSet(Helpers) /\ IsFiniteSet(Cells)
ASSUME NamesAssumption == {"roots", "output", "none"} \cap Cells = {}
ASSUME BoundAssumption == MaxCycles \in Nat /\ MaxTimeouts \in Nat

Visitors == Helpers \cup {Collector, Mutator}

VARIABLES
  pc,          \* pc[v]: where the thread of visitor v is
  stack,       \* stack[v]: v's mark stacks
  shared,      \* the shared mark stacks
  marked,      \* the cells whose mark bit is set
  active,      \* m_numberOfActiveParallelMarkers
  waiting,     \* m_numberOfWaitingParallelMarkers
  isActive,    \* isActive[v]: the local variable of drainFromShared
  asleep,      \* the threads in a wait on m_markingConditionVariable
  bonus,       \* m_bonusVisitorTask is set
  shouldExit,  \* m_parallelMarkersShouldExit
  task,        \* ParallelHelperClient::m_task is set
  resumed,     \* the mutator runs
  conn,        \* who has the conn: "Collector" or "Mutator"
  elapsed,     \* the deadline of the conductor's draining has passed
  timeouts,    \* how often one has
  iteration,   \* m_iteration of the MarkingConstraintSet
  pending,     \* the constraints that pickNext has yet to return
  tasks,       \* m_toExecuteInParallel
  unclaimed,   \* the tasks of which something is left to do
  doing,       \* doing[v]: the constraint or task v executes, or "none"
  mayProduce,  \* m_numThreadsThatMayProduceWork
  solversAsleep, \* the threads in a wait on the solver's condition
  produced,    \* solver.didVisitSomething()
  cycle,       \* collections begun
  increments   \* Options::gcIncrementScale() is not zero

solverVars == <<iteration, pending, tasks, unclaimed, doing, mayProduce, solversAsleep, produced>>
drainVars == <<stack, shared, marked, active, waiting, isActive>>
cycleVars == <<shouldExit, task, resumed, conn, cycle, increments>>
vars == <<pc, drainVars, asleep, bonus, elapsed, timeouts, solverVars, cycleVars>>

Init ==
  /\ pc = [v \in Visitors |-> "idle"]
  /\ stack = [v \in Visitors |-> {}]
  /\ shared = {}
  /\ marked = {}
  /\ active = 0
  /\ waiting = 0
  /\ isActive = [v \in Visitors |-> FALSE]
  /\ asleep = {}
  /\ bonus = FALSE
  /\ shouldExit = FALSE
  /\ task = FALSE
  /\ resumed = FALSE
  /\ conn = "Collector"
  /\ elapsed = FALSE
  /\ timeouts = 0
  /\ iteration = 0
  /\ pending = {}
  /\ tasks = <<>>
  /\ unclaimed = {}
  /\ mayProduce = 0
  /\ solversAsleep = {}
  /\ doing = [v \in Visitors |-> "none"]
  /\ produced = FALSE
  /\ cycle = 0
  /\ increments \in BOOLEAN

Goto(v, label) == pc' = [pc EXCEPT ![v] = label]

NotifyAll == asleep' = {}

-----------------------------------------------------------------------------
(*                       The decision that work is over                    *)

HasWork(v) == stack[v] # {} \/ shared # {}

(* DidReachTermination if the active markers were not looked at. *)
StacksAreEmpty(v, numberOfActive) == ~HasWork(v)

DidReachTermination(v, numberOfActive) == numberOfActive = 0 /\ ~HasWork(v)

-----------------------------------------------------------------------------
(*                            Draining and donating                        *)

(* donateKnownParallel, which does nothing with less than two cells, and   *)
(* then around the loop of drain().                                        *)
DrainFrom(v, cells) == Goto(v, IF Cardinality(cells) < 2 THEN "drain" ELSE "donate")

(* The conductor has run out of time; the helpers have no deadline. *)
HasElapsed(v) == v = Collector /\ elapsed

(* Mark and push cells that are not marked yet. *)
AppendTo(v, from, cells) ==
  /\ marked' = marked \cup cells
  /\ stack' = [stack EXCEPT ![v] = from \cup (cells \ marked)]

(* visitChildren on a cell taken from the stack. *)
Visit(v) ==
  /\ pc[v] \in {"start", "drain"} /\ ~HasElapsed(v)
  /\ \E c \in stack[v] :
       /\ AppendTo(v, stack[v] \ {c}, Children[c])
       /\ DrainFrom(v, (stack[v] \ {c}) \cup (Children[c] \ marked))
  /\ UNCHANGED <<shared, active, waiting, isActive, asleep, bonus, elapsed, timeouts,
                 solverVars, cycleVars>>

(* donateKnownParallel. The sizes are read before the lock is taken.       *)
Donate(v) ==
  /\ pc[v] = "donate"
  /\ \E S \in kSubset(Cardinality(stack[v]) \div 2, stack[v]) :
       /\ stack' = [stack EXCEPT ![v] = @ \ S]
       /\ shared' = shared \cup S
  /\ NotifyAll
  /\ Goto(v, "drain")
  /\ UNCHANGED <<marked, active, waiting, isActive, bonus, elapsed, timeouts, solverVars, cycleVars>>

(* There is shared work already, or the lock is taken. *)
DoNotDonate(v) ==
  /\ pc[v] = "donate"
  /\ Goto(v, "drain")
  /\ UNCHANGED <<drainVars, asleep, bonus, elapsed, timeouts, solverVars, cycleVars>>

(* donateAll *)
DonateAll(v) ==
  /\ shared' = shared \cup stack[v]
  /\ stack' = [stack EXCEPT ![v] = {}]
  /\ NotifyAll

-----------------------------------------------------------------------------
(*                             drainFromShared                             *)

(* CellsToSteal if the division rounded down. *)
CellsToStealRoundedDown(n) == Cardinality(shared) \div n

(* stealSomeCellsFrom: "Steal ceil(other.size() / idleThreadCount)". *)
CellsToSteal(n) == (Cardinality(shared) + n - 1) \div n

(* A visitor with an empty stack steals, and goes on to drain. *)
TakeWork(v, numberOfActive, numberOfWaiting) ==
  /\ HasWork(v)
  /\ IF stack[v] # {} THEN UNCHANGED <<stack, shared>>
     ELSE \E S \in kSubset(CellsToSteal(numberOfWaiting), shared) :
            /\ stack' = [stack EXCEPT ![v] = S]
            /\ shared' = shared \ S
  /\ active' = numberOfActive + 1
  /\ waiting' = numberOfWaiting - 1
  /\ isActive' = [isActive EXCEPT ![v] = TRUE]
  /\ Goto(v, "start")

(* drainFromShared returns, and does not undo waiting's increment. *)
Leave(v, label, numberOfActive, numberOfWaiting) ==
  /\ active' = numberOfActive
  /\ waiting' = numberOfWaiting
  /\ isActive' = [isActive EXCEPT ![v] = FALSE]
  /\ Goto(v, label)
  /\ UNCHANGED <<stack, shared>>

Sleep(v, sleepers, numberOfActive, numberOfWaiting) ==
  /\ active' = numberOfActive
  /\ waiting' = numberOfWaiting
  /\ isActive' = [isActive EXCEPT ![v] = FALSE]
  /\ asleep' = sleepers \cup {v}
  /\ Goto(v, "wait")
  /\ UNCHANGED <<stack, shared>>

(* The conductor returns to runFixpointPhase or to runConcurrentPhase. *)
Drained == IF resumed THEN "reloop" ELSE "drained"

(* MainDrain: the body of the loop, with these others asleep. *)
MainDrain(sleepers, n, w) ==
  \/ /\ elapsed
     /\ Leave(Collector, Drained, n, w)
     /\ asleep' = sleepers
  \/ /\ ~elapsed /\ DidReachTermination(Collector, n)
     /\ Leave(Collector, Drained, n, w)
     /\ NotifyAll
  \/ /\ ~elapsed /\ TakeWork(Collector, n, w)
     /\ asleep' = sleepers
  \/ /\ ~elapsed /\ ~DidReachTermination(Collector, n) /\ ~HasWork(Collector)
     /\ Sleep(Collector, sleepers, n, w)

(* HelperDrain: the wait until there is something to do, and what is done. *)
IsReady(h) == HasWork(h) \/ bonus \/ shouldExit

HelperDrain(h, sleepers, n, w) ==
  \/ /\ shouldExit
     /\ Leave(h, "exit", n, w)
     /\ asleep' = sleepers
  \/ /\ ~shouldExit /\ bonus /\ ~HasWork(h)
     /\ active' = n + 1
     /\ waiting' = w - 1
     /\ isActive' = [isActive EXCEPT ![h] = TRUE]
     /\ Goto(h, "solve")
     /\ asleep' = sleepers
     /\ UNCHANGED <<stack, shared>>
  \/ /\ ~shouldExit /\ TakeWork(h, n, w)
     /\ asleep' = sleepers
  \/ /\ ~IsReady(h)
     /\ Sleep(h, sleepers, n, w)

(* HelperNotifies if a helper did not tell the others. *)
HelperIsSilent(h, n) == asleep

(* A helper that finds no work left wakes those who wait for that. *)
HelperNotifies(h, n) == IF DidReachTermination(h, n) THEN {} ELSE asleep

(* A round of drainFromShared, up to the first wait ... *)
DrainFromShared(v) ==
  LET n == IF isActive[v] THEN active - 1 ELSE active IN
  /\ pc[v] = "shared"
  /\ IF v = Collector THEN MainDrain(asleep, n, waiting + 1)
     ELSE HelperDrain(v, HelperNotifies(v, n), n, waiting + 1)
  /\ UNCHANGED <<marked, bonus, elapsed, timeouts, solverVars, cycleVars>>

(* ... and after a notification, or the end of the conductor's time. *)
WakeUp(v) ==
  /\ pc[v] = "wait"
  /\ v \notin asleep \/ HasElapsed(v)
  /\ IF v = Collector THEN MainDrain(asleep \ {v}, active, waiting)
     ELSE HelperDrain(v, asleep, active, waiting)
  /\ UNCHANGED <<marked, bonus, elapsed, timeouts, solverVars, cycleVars>>

(* drain() ends; the next round begins. *)
DrainEnds(v) ==
  /\ v # Mutator
  /\ pc[v] \in {"start", "drain"}
  /\ stack[v] = {} \/ HasElapsed(v)
  /\ Goto(v, "shared")
  /\ UNCHANGED <<drainVars, asleep, bonus, elapsed, timeouts, solverVars, cycleVars>>

-----------------------------------------------------------------------------
(*                      The constraints and their solver                   *)

(* The constraints of an iteration: "roots" marks the roots, and "output"  *)
(* is parallel, it asks for a task for each block that has output.         *)
Constraints(i) ==
  CASE i = 1 -> {"roots"}
    [] i = 2 -> {"output"}
    [] OTHER -> {"roots", "output"}

Blocks == {c \in Cells : Outgrowth[c] # {}}

(* executeConvergenceImpl up to runTaskInParallel's setBonusVisitorTask. *)
ExecuteConvergence ==
  /\ iteration' = IF iteration < 3 THEN iteration + 1 ELSE 3
  /\ pending' = Constraints(iteration + 1)
  /\ produced' = FALSE
  /\ bonus' = TRUE
  /\ NotifyAll
  /\ Goto(Collector, "solve")

(* pickNext has something: converge() stops at the first new mark. *)
MorePending == pending # {} /\ ~(iteration = 3 /\ produced)

(* runExecutionThread, under the solver's lock: the next constraint first, *)
(* or when it converges the tasks first. *)
PickNext(v) ==
  /\ pc[v] = "solve"
  /\ MorePending /\ (iteration = 3 => tasks = <<>>)
  /\ \E k \in pending :
       /\ pending' = pending \ {k}
       /\ doing' = [doing EXCEPT ![v] = k]
       /\ mayProduce' = IF k = "output" THEN mayProduce + 1 ELSE mayProduce
  /\ Goto(v, "execute")
  /\ UNCHANGED <<drainVars, asleep, bonus, elapsed, timeouts, iteration, produced, tasks, unclaimed,
                 solversAsleep, cycleVars>>

(* A task stays in the queue while threads do it. What is left of it goes  *)
(* to the first that asks for it, the others find nothing to do.           *)
PickTask(v) ==
  /\ pc[v] = "solve"
  /\ tasks # <<>> /\ (iteration < 3 => ~MorePending)
  /\ doing' = [doing EXCEPT ![v] = Head(tasks)]
  /\ unclaimed' = unclaimed \ {Head(tasks)}
  /\ Goto(v, IF Head(tasks) \in unclaimed THEN "work" ELSE "worked")
  /\ UNCHANGED <<drainVars, asleep, bonus, elapsed, timeouts, iteration, pending, produced, tasks,
                 mayProduce, solversAsleep, cycleVars>>

(* "The only way for us to have more work is if someone is running a       *)
(* constraint that may produce parallel work." *)
SolverIsDone == ~MorePending /\ tasks = <<>> /\ mayProduce = 0

SolverWaits(v) ==
  /\ pc[v] = "solve"
  /\ ~MorePending /\ tasks = <<>> /\ ~SolverIsDone
  /\ solversAsleep' = solversAsleep \cup {v}
  /\ Goto(v, "solverWait")
  /\ UNCHANGED <<drainVars, asleep, bonus, elapsed, timeouts, iteration, pending, produced, tasks,
                 unclaimed, doing, mayProduce, cycleVars>>

SolverWakes(v) ==
  /\ pc[v] = "solverWait"
  /\ v \notin solversAsleep
  /\ Goto(v, "solve")
  /\ UNCHANGED <<drainVars, asleep, bonus, elapsed, timeouts, solverVars, cycleVars>>

(* The marks that a constraint or a task makes, without the lock. *)
Demand(v, cells, label) ==
  /\ AppendTo(v, stack[v], cells)
  /\ produced' = (produced \/ ~(cells \subseteq marked))
  /\ Goto(v, label)
  /\ UNCHANGED <<shared, active, waiting, isActive, asleep, bonus, elapsed, timeouts,
                 iteration, pending, doing, mayProduce, solversAsleep, cycleVars>>

(* constraint->execute; addParallelTask queues the tasks of "output". *)
Execute(v) ==
  /\ pc[v] = "execute"
  /\ IF doing[v] = "roots"
     THEN Demand(v, Roots, "executed") /\ UNCHANGED <<tasks, unclaimed>>
     ELSE /\ Demand(v, {}, "executed")
          /\ tasks' = SetToSeq(Blocks)
          /\ unclaimed' = Blocks

DoParallelWork(v) ==
  /\ pc[v] = "work"
  /\ Demand(v, IF doing[v] \in marked THEN Outgrowth[doing[v]] ELSE {}, "worked")
  /\ UNCHANGED <<tasks, unclaimed>>

(* Back under the lock: the thread puts away what it has done, and wakes   *)
(* the others.                                                             *)
Executed(v) ==
  /\ pc[v] \in {"executed", "worked"}
  /\ tasks' = IF pc[v] = "worked" /\ tasks # <<>> /\ Head(tasks) = doing[v] THEN Tail(tasks) ELSE tasks
  /\ mayProduce' = IF doing[v] = "output" THEN mayProduce - 1 ELSE mayProduce
  /\ doing' = [doing EXCEPT ![v] = "none"]
  /\ solversAsleep' = {}
  /\ Goto(v, "solve")
  /\ UNCHANGED <<drainVars, asleep, bonus, elapsed, timeouts, iteration, pending, produced, unclaimed,
                 cycleVars>>

(* A thread has nothing left to run. A helper clears the bonus task so as  *)
(* not to run it again and goes back to drainFromShared, the conductor     *)
(* goes on in runTaskInParallel with setBonusVisitorTask(nullptr).         *)
SolverReturns(v) ==
  /\ pc[v] = "solve"
  /\ SolverIsDone
  /\ bonus' = FALSE
  /\ NotifyAll
  /\ Goto(v, IF v = Collector THEN "await" ELSE "shared")
  /\ UNCHANGED <<drainVars, elapsed, timeouts, solverVars, cycleVars>>

(* The labels of a thread in runExecutionThread. *)
Solving == {"solve", "solverWait", "execute", "executed", "work", "worked"}

(* TaskIsReferenced if runTaskInParallel did not wait for the helpers. *)
NeverReferenced == FALSE

(* task->refCount() > initialRefCount: a helper still has the task. *)
TaskIsReferenced == \E h \in Helpers : pc[h] \in Solving

AwaitTask ==
  /\ pc[Collector] = "await"
  /\ Collector \notin asleep
  /\ TaskIsReferenced
  /\ asleep' = asleep \cup {Collector}
  /\ UNCHANGED <<pc, drainVars, bonus, elapsed, timeouts, solverVars, cycleVars>>

-----------------------------------------------------------------------------
(*                     The phases, run by the conductor                    *)

(* visitor.drainInParallel, or the part of it that it shares. *)
StartDraining ==
  /\ DrainFrom(Collector, stack[Collector])
  /\ elapsed' = FALSE

BeginPhase ==
  /\ pc[Collector] = "idle"
  /\ cycle < MaxCycles
  /\ cycle' = cycle + 1
  /\ marked' = {}
  /\ stack' = [stack EXCEPT ![Collector] = {}]
  /\ shouldExit' = FALSE
  /\ task' = TRUE
  /\ conn' \in {"Collector", "Mutator"}
  /\ iteration' = 0
  /\ Goto(Collector, "fixpoint")
  /\ UNCHANGED <<shared, active, waiting, isActive, asleep, bonus, elapsed, timeouts,
                 pending, tasks, unclaimed, doing, mayProduce, solversAsleep, produced,
                 resumed, increments>>

(* The top of runFixpointPhase: either constraints, or more draining. *)
FixpointSolves ==
  /\ pc[Collector] = "fixpoint"
  /\ DidReachTermination(Collector, active)
  /\ ExecuteConvergence
  /\ UNCHANGED <<drainVars, elapsed, timeouts, tasks, unclaimed, doing, mayProduce, solversAsleep, cycleVars>>

FixpointDrains ==
  /\ pc[Collector] = "fixpoint"
  /\ ~DidReachTermination(Collector, active)
  /\ StartDraining
  /\ UNCHANGED <<drainVars, asleep, bonus, timeouts, solverVars, cycleVars>>

(* executeConvergence returns to runFixpointPhase: "it only returns true   *)
(* if it runs all constraints", and they demanded nothing.                 *)
Converged == iteration = 3 /\ ~produced /\ stack[Collector] = {}

ConvergenceReturns ==
  /\ pc[Collector] = "await"
  /\ Collector \notin asleep
  /\ ~TaskIsReferenced
  /\ IF Converged THEN Goto(Collector, "end") /\ UNCHANGED elapsed ELSE StartDraining
  /\ UNCHANGED <<drainVars, asleep, bonus, timeouts, solverVars, cycleVars>>

(* The end of runFixpointPhase: around again if work is over or the        *)
(* scheduler does not want to resume the mutator, *)
FixpointAgain ==
  /\ pc[Collector] = "drained"
  /\ Goto(Collector, "fixpoint")
  /\ UNCHANGED <<drainVars, asleep, bonus, elapsed, timeouts, solverVars, cycleVars>>

(* and else the world is resumed. *)
Resume ==
  /\ pc[Collector] = "drained"
  /\ ~DidReachTermination(Collector, active)
  /\ elapsed' = FALSE
  /\ resumed' = TRUE
  /\ Goto(Collector, "concurrent")
  /\ UNCHANGED <<drainVars, asleep, bonus, timeouts, solverVars, shouldExit, task, conn, cycle, increments>>

(* runConcurrentPhase with the mutator's conn: the mutator comes here when *)
(* it polls, and otherwise runs.                                           *)
MutatorPolls ==
  /\ pc[Collector] = "concurrent" /\ conn = "Mutator"
  /\ pc[Mutator] = "idle"
  /\ \/ /\ DidReachTermination(Collector, active) \/ elapsed
        /\ Goto(Collector, "reloop")
        /\ UNCHANGED <<stack, shared, asleep>>
     \/ /\ ~DidReachTermination(Collector, active) /\ ~elapsed
        /\ stack[Collector] # {}
        /\ DonateAll(Collector)
        /\ UNCHANGED pc
  /\ UNCHANGED <<marked, active, waiting, isActive, bonus, elapsed, timeouts, solverVars, cycleVars>>

(* runConcurrentPhase with the collector's conn: drainInParallelPassively  *)
(* drains if the mutator waits or has no heap access, *)
DrainConcurrently ==
  /\ pc[Collector] = "concurrent" /\ conn = "Collector"
  /\ StartDraining
  /\ UNCHANGED <<drainVars, asleep, bonus, timeouts, solverVars, cycleVars>>

(* and else leaves the work to the others. *)
DonateAndWait ==
  /\ pc[Collector] = "concurrent" /\ conn = "Collector"
  /\ Helpers # {}
  /\ DonateAll(Collector)
  /\ Goto(Collector, "waitForTermination")
  /\ UNCHANGED <<marked, active, waiting, isActive, bonus, elapsed, timeouts, solverVars, cycleVars>>

WaitForTermination ==
  /\ pc[Collector] = "waitForTermination"
  /\ Collector \notin asleep \/ elapsed
  /\ \/ /\ elapsed
        /\ Goto(Collector, "reloop")
        /\ asleep' = asleep \ {Collector}
     \/ /\ ~elapsed /\ DidReachTermination(Collector, active)
        /\ Goto(Collector, "reloop")
        /\ NotifyAll
     \/ /\ ~elapsed /\ ~DidReachTermination(Collector, active)
        /\ asleep' = asleep \cup {Collector}
        /\ UNCHANGED pc
  /\ UNCHANGED <<drainVars, bonus, elapsed, timeouts, solverVars, cycleVars>>

(* The change to the Reloop phase stops the mutator, at a safepoint. *)
ReloopPhase ==
  /\ pc[Collector] = "reloop"
  /\ pc[Mutator] = "idle"
  /\ resumed' = FALSE
  /\ Goto(Collector, "fixpoint")
  /\ UNCHANGED <<drainVars, asleep, bonus, elapsed, timeouts, solverVars, shouldExit, task, conn, cycle, increments>>

(* runEndPhase: first the markers are told to leave, *)
EndPhase ==
  /\ pc[Collector] = "end"
  /\ shouldExit' = TRUE
  /\ NotifyAll
  /\ Goto(Collector, "finish")
  /\ UNCHANGED <<drainVars, bonus, elapsed, timeouts, solverVars, task, resumed, conn, cycle, increments>>

(* and then m_helperClient.finish() waits until they have. *)
CancelTask ==
  /\ pc[Collector] = "finish"
  /\ task
  /\ task' = FALSE
  /\ UNCHANGED <<pc, drainVars, asleep, bonus, elapsed, timeouts, solverVars, shouldExit, resumed, conn, cycle, increments>>

Finish ==
  /\ pc[Collector] = "finish"
  /\ ~task
  /\ \A h \in Helpers : pc[h] = "idle"
  /\ Goto(Collector, "idle")
  /\ UNCHANGED <<drainVars, asleep, bonus, elapsed, timeouts, solverVars, cycleVars>>

(* timeToResume: the pause has lasted long enough. *)
TimeToResume ==
  /\ pc[Collector] \in {"start", "drain", "donate", "shared", "wait"} /\ ~resumed
  /\ ~elapsed /\ timeouts < MaxTimeouts
  /\ elapsed' = TRUE
  /\ timeouts' = timeouts + 1
  /\ UNCHANGED <<pc, drainVars, asleep, bonus, solverVars, cycleVars>>

(* timeToStop: the mutator has run long enough. *)
TimeToStop ==
  /\ resumed /\ ~elapsed
  /\ elapsed' = TRUE
  /\ UNCHANGED <<pc, drainVars, asleep, bonus, timeouts, solverVars, cycleVars>>

-----------------------------------------------------------------------------
(*                     The helper pool and the mutator                     *)

(* A thread of the pool claims the task, which drains for the heap. *)
ClaimTask(h) ==
  /\ pc[h] = "idle"
  /\ task
  /\ Goto(h, "shared")
  /\ UNCHANGED <<drainVars, asleep, bonus, elapsed, timeouts, solverVars, cycleVars>>

(* The end of runTask. *)
TaskDone(h) ==
  /\ pc[h] = "exit"
  /\ task' = FALSE
  /\ Goto(h, "idle")
  /\ UNCHANGED <<drainVars, asleep, bonus, elapsed, timeouts, solverVars, shouldExit, resumed, conn, cycle, increments>>

(* performIncrementOfDraining takes shared work into the mutator's visitor *)
(* (none to take: nothing happens), *)
PerformIncrement ==
  /\ increments
  /\ pc[Mutator] = "idle" /\ resumed
  /\ conn = "Mutator" => pc[Collector] = "concurrent"
  /\ \E S \in (SUBSET shared) \ {{}} :
       /\ shared' = shared \ S
       /\ stack' = [stack EXCEPT ![Mutator] = S]
  /\ Goto(Mutator, "start")
  /\ UNCHANGED <<marked, active, waiting, isActive, asleep, bonus, elapsed, timeouts,
                 solverVars, cycleVars>>

(* drains it as Visit and Donate say, and donates what is left when it has *)
(* visited enough.                                                         *)
IncrementEnds ==
  /\ pc[Mutator] = "drain"
  /\ IF stack[Mutator] = {} THEN UNCHANGED <<stack, shared, asleep>> ELSE DonateAll(Mutator)
  /\ Goto(Mutator, "idle")
  /\ UNCHANGED <<marked, active, waiting, isActive, bonus, elapsed, timeouts, solverVars, cycleVars>>

-----------------------------------------------------------------------------
Drain(v) == Visit(v) \/ Donate(v) \/ DoNotDonate(v)

Share(v) ==
  \/ Drain(v) \/ DrainEnds(v) \/ DrainFromShared(v) \/ WakeUp(v)
  \/ PickNext(v) \/ PickTask(v) \/ SolverWaits(v) \/ SolverWakes(v) \/ Execute(v)
  \/ DoParallelWork(v) \/ Executed(v) \/ SolverReturns(v)

HelperStep(h) == Share(h) \/ ClaimTask(h) \/ TaskDone(h)

CollectorStep ==
  \/ Share(Collector)
  \/ AwaitTask \/ FixpointSolves \/ FixpointDrains \/ ConvergenceReturns \/ FixpointAgain
  \/ Resume \/ MutatorPolls \/ DrainConcurrently \/ DonateAndWait \/ WaitForTermination
  \/ ReloopPhase \/ EndPhase \/ CancelTask \/ Finish

MutatorStep == Drain(Mutator) \/ IncrementEnds

Next ==
  \/ \E h \in Helpers : HelperStep(h)
  \/ CollectorStep \/ MutatorStep
  \/ BeginPhase \/ PerformIncrement \/ TimeToResume \/ TimeToStop

(* Threads that can run do so, and the mutator polls and ends increments.  *)
(* The time to stop need not come with the StochasticSpaceTime scheduler;  *)
(* increments, which are made on one processor, go with the SpaceTime one, *)
(* for which it always does.                                               *)
Spec ==
  /\ Init /\ [][Next]_vars
  /\ WF_vars(CollectorStep) /\ WF_vars(MutatorStep)
  /\ \A h \in Helpers : WF_vars(HelperStep(h))
  /\ WF_vars(increments /\ TimeToStop)

-----------------------------------------------------------------------------
(*                               Properties                                *)

(* The cells that no collection may free: those in every set that has the  *)
(* roots and, with a cell, its children and outgrowth.                     *)
Live ==
  LET Closed(S) == Roots \subseteq S /\ \A c \in S : Children[c] \cup Outgrowth[c] \subseteq S
  IN {c \in Cells : \A S \in SUBSET Cells : Closed(S) => c \in S}

(* Marking ends when it is complete: once the conductor leaves the         *)
(* fixpoint every live cell is marked, whoever it had been handed to.      *)
MarkingComplete == pc[Collector] \in {"end", "finish"} => Live \subseteq marked

(* The assertions of the code: runBeginPhase's that marking starts from    *)
(* nothing and setTask's that there is no task, assertMarkStacksEmpty      *)
(* before and after the constraints, the solver's that no constraint or    *)
(* task is left or done out of turn, and drainFromShared's that a visitor  *)
(* that starts to drain has something to drain.                            *)
AssertionsHold ==
  /\ pc[Collector] = "idle" => DidReachTermination(Collector, active) /\ ~task
  /\ pc[Collector] = "fixpoint" /\ DidReachTermination(Collector, active) =>
       \A v \in Visitors : stack[v] = {}
  /\ pc[Collector] = "end" => shared = {} /\ \A v \in Visitors : stack[v] = {}
  /\ \A v \in Visitors : pc[v] = "start" => stack[v] # {}
  /\ pc[Collector] = "await" => tasks = <<>> /\ mayProduce = 0 /\ ~MorePending
  /\ \A v \in Visitors : pc[v] = "worked" => \A i \in 2..Len(tasks) : tasks[i] # doing[v]

(* The task of the constraint solver is a closure on the conductor's       *)
(* stack: no helper runs it once runTaskInParallel has returned.           *)
TaskEndsBeforeReturn ==
  (\E h \in Helpers : pc[h] \in Solving) => pc[Collector] \in Solving \cup {"await"}

(* Every collection that is begun ends, with the helpers back in the pool. *)
CollectionEnds == pc[Collector] = "fixpoint" ~> pc[Collector] = "idle"
=============================================================================
