---------------------- MODULE ParallelMarkingProofs ----------------------
(***************************************************************************)
(* The safety of parallel marking, for every heap, every number of helper  *)
(* threads and every bound on the collections and the timeouts.            *)
(*                                                                         *)
(* Marking is over when nobody is active and no stack has a cell.  That no *)
(* cell is then left behind rests on a count and a closure: the number of  *)
(* active markers is the number of threads whose isActive is set, a helper *)
(* that is not one of them has no cells, and a marked cell whose children  *)
(* are not marked is always on some stack.  The rest of the invariant is   *)
(* about the constraint solver: as long as an execution of all constraints *)
(* has produced nothing, nothing is marked and every stack is empty, so    *)
(* that what each constraint and each task has found to be marked is still *)
(* all there is to mark at the end.                                        *)
(***************************************************************************)
EXTENDS ParallelMarking, FiniteSetTheorems, TLAPS

(* The threads that run drainFromShared and the constraint solver. *)
Markers == Helpers \cup {Collector}

Draining == {"start", "drain", "donate", "shared", "wait"}

(* The conductor's points with the mutator resumed, but for Draining. *)
Concurrent == {"concurrent", "waitForTermination", "reloop"}

CollectorLabels ==
  {"idle", "fixpoint", "await", "drained", "end", "finish"}
    \cup Concurrent \cup Draining \cup Solving

HelperLabels == {"idle", "exit"} \cup Draining \cup Solving

MutatorLabels == {"idle", "start", "drain", "donate"}

ConstraintNames == {"roots", "output"}

(* The values of the variables.  What the sets of sleepers, the conn and   *)
(* the two counters of the bounds hold plays no part in the argument.      *)
TypeOK ==
  /\ pc \in [Visitors -> CollectorLabels \cup HelperLabels]
  /\ pc[Collector] \in CollectorLabels /\ pc[Mutator] \in MutatorLabels
  /\ \A h \in Helpers : pc[h] \in HelperLabels
  /\ stack \in [Visitors -> SUBSET Cells]
  /\ shared \subseteq Cells /\ marked \subseteq Cells
  /\ active \in Nat /\ waiting \in Nat /\ isActive \in [Visitors -> BOOLEAN]
  /\ iteration \in 0..3 /\ pending \subseteq ConstraintNames
  /\ tasks \in Seq(Blocks) /\ unclaimed \subseteq Blocks
  /\ doing \in [Visitors -> ConstraintNames \cup Blocks \cup {"none"}]
  /\ mayProduce \in Nat

Actives == {v \in Visitors : isActive[v]}

Waiters == {v \in Visitors : pc[v] = "wait"}

(* m_numberOfActiveParallelMarkers is exact. The number of waiting markers *)
(* is not, as drainFromShared does not undo its increment when it returns; *)
(* it is enough that it is never too small to divide by.                   *)
CountInv ==
  /\ active = Cardinality(Actives)
  /\ waiting >= Cardinality(Waiters)

StacksEmpty == shared = {} /\ \A v \in Visitors : stack[v] = {}

(* Who is active, and who can have cells. *)
ActiveInv ==
  /\ \A h \in Helpers :
       /\ pc[h] \in {"start", "drain", "donate"} \cup Solving => isActive[h]
       /\ pc[h] \in {"idle", "wait", "exit"} => ~isActive[h]
       /\ ~isActive[h] => stack[h] = {}
  /\ isActive[Collector] =>
       pc[Collector] \in {"start", "drain", "donate", "shared"}
  /\ ~isActive[Mutator]
  /\ \A v \in Visitors : pc[v] = "start" => stack[v] # {}

(* How far the collection is. *)
PhaseInv ==
  /\ pc[Mutator] = "idle" => stack[Mutator] = {}
  /\ ~resumed => pc[Mutator] = "idle"
  /\ resumed => pc[Collector] \in Draining \cup Concurrent
  /\ pc[Collector] \in Concurrent => resumed
  /\ shouldExit => pc[Collector] \in {"finish", "idle"}
  /\ pc[Collector] = "idle" => ~task /\ \A h \in Helpers : pc[h] = "idle"
  /\ pc[Collector] \in {"end", "finish", "idle"} => StacksEmpty

(* The conductor is in runTaskInParallel. *)
InSolver == pc[Collector] \in Solving \cup {"await"}

(* Who takes part in the solver, and what it leaves alone while it has     *)
(* produced nothing.                                                       *)
SolverInv ==
  /\ \A h \in Helpers : pc[h] \in Solving => InSolver
  /\ bonus => pc[Collector] \in Solving
  /\ InSolver /\ ~produced => StacksEmpty
  /\ \A v \in Visitors :
       /\ pc[v] \in {"execute", "executed"} => doing[v] \in ConstraintNames
       /\ pc[v] \in {"work", "worked"} => doing[v] \in Blocks
       /\ pc[v] \notin {"execute", "executed", "work", "worked"} =>
            doing[v] = "none"
  /\ pc[Collector] \notin Solving => tasks = <<>> /\ mayProduce = 0
  /\ pc[Collector] = "await" => ~MorePending

Executes(k) == \E v \in Visitors : pc[v] = "execute" /\ doing[v] = k

(* The parallel constraint is executed by one thread, once, before there   *)
(* is a task.                                                              *)
ProduceInv ==
  /\ \A v \in Visitors :
       doing[v] = "output" => mayProduce = 1 /\ "output" \notin pending
  /\ mayProduce # 0 => \E v \in Visitors : doing[v] = "output"
  /\ \A v, w \in Visitors : doing[v] = "output" /\ doing[w] = "output" => v = w
  /\ "output" \in pending \/ Executes("output") =>
       tasks = <<>> /\ \A v \in Visitors : pc[v] \notin {"work", "worked"}

(* The tasks in the queue and in the hands of threads. *)
TaskInv ==
  /\ \A i, j \in 1..Len(tasks) : tasks[i] = tasks[j] => i = j
  /\ \A c \in unclaimed : \E i \in 1..Len(tasks) : tasks[i] = c
  /\ \A v \in Visitors : pc[v] \in {"work", "worked"} =>
       /\ doing[v] \notin unclaimed
       /\ \A i \in 2..Len(tasks) : tasks[i] # doing[v]

(* A cell whose children are to be visited is on a stack. *)
ChildrenInv ==
  \A c \in marked :
    \/ Children[c] \subseteq marked
    \/ c \in shared \/ \E v \in Visitors : c \in stack[v]

(* What the constraints have seen to in the last execution of all of them, *)
(* and so in the end.                                                      *)
ConstraintInv ==
  /\ InSolver /\ iteration = 3 =>
       "roots" \in pending \/ Executes("roots") \/ Roots \subseteq marked
  /\ InSolver /\ iteration = 3 /\ ~produced =>
       \/ "output" \in pending \/ Executes("output")
       \/ \A c \in Blocks \cap marked :
            \/ c \in unclaimed
            \/ \E v \in Visitors : pc[v] = "work" /\ doing[v] = c
            \/ Outgrowth[c] \subseteq marked
  /\ pc[Collector] \in {"end", "finish"} =>
       Roots \subseteq marked /\ \A c \in marked : Outgrowth[c] \subseteq marked

IInv ==
  /\ TypeOK /\ CountInv /\ ActiveInv /\ PhaseInv /\ SolverInv /\ ProduceInv
  /\ TaskInv /\ ChildrenInv /\ ConstraintInv

USE VisitorAssumption, GraphAssumption
    DEF Visitors, Markers, Draining, Concurrent, Solving, CollectorLabels,
        HelperLabels, MutatorLabels, ConstraintNames, InSolver, StacksEmpty,
        Executes, Goto, NotifyAll, solverVars, drainVars, cycleVars

(* The counts are as before if nobody starts or ceases to be active or to  *)
(* wait.                                                                   *)
LEMMA CountUnchanged ==
  ASSUME CountInv, UNCHANGED <<active, waiting, isActive>>,
         \A v \in Visitors : pc'[v] = "wait" <=> pc[v] = "wait"
  PROVE CountInv'
  <1>1. Actives' = Actives /\ Waiters' = Waiters
    BY DEF Actives, Waiters
  <1>2. QED
    BY <1>1 DEF CountInv

(* The sets that are counted are finite. *)
LEMMA VisitorsAreFinite ==
  IsFiniteSet(Visitors) /\ IsFiniteSet(Actives) /\ IsFiniteSet(Waiters)
  <1>1. IsFiniteSet(Helpers \cup {Collector})
    BY FiniteAssumption, FS_AddElement
  <1>2. IsFiniteSet((Helpers \cup {Collector}) \cup {Mutator})
    BY <1>1, FS_AddElement
  <1>3. Visitors = (Helpers \cup {Collector}) \cup {Mutator}
    OBVIOUS
  <1>4. IsFiniteSet(Visitors)
    BY <1>2, <1>3
  <1>5. QED
    BY <1>4, FS_Subset DEF Actives, Waiters

(* With no active marker, no thread has its isActive set. *)
LEMMA NobodyActive ==
  ASSUME CountInv, active = 0 PROVE \A v \in Visitors : ~isActive[v]
  <1>1. Actives = {}
    BY VisitorsAreFinite, FS_EmptySet DEF CountInv
  <1>2. QED
    BY <1>1 DEF Actives

(* No cell is taken for a constraint. *)
LEMMA BlocksAreNotConstraints ==
  /\ Blocks \subseteq Cells
  /\ "roots" \notin Blocks /\ "output" \notin Blocks /\ "none" \notin Blocks
  BY NamesAssumption DEF Blocks

(* The tasks of the parallel constraint: every block that has output, once. *)
LEMMA OneTaskPerBlock ==
  /\ SetToSeq(Blocks) \in Seq(Blocks)
  /\ \A i, j \in 1..Len(SetToSeq(Blocks)) :
       SetToSeq(Blocks)[i] = SetToSeq(Blocks)[j] => i = j
  /\ \A c \in Blocks : \E i \in 1..Len(SetToSeq(Blocks)) : SetToSeq(Blocks)[i] = c
  <1> DEFINE n == Cardinality(Blocks)
             s == SetToSeq(Blocks)
  <1>1. IsFiniteSet(Blocks)
    BY FiniteAssumption, FS_Subset DEF Blocks
  <1>2. n \in Nat /\ ExistsBijection(1..n, Blocks)
    BY <1>1, FS_CardinalityType
  <1>3. \E f \in [1..n -> Blocks] : IsInjective(f)
    BY <1>2 DEF ExistsBijection, Bijection, Injection
  <1>4. s \in [1..n -> Blocks] /\ IsInjective(s)
    BY <1>3 DEF SetToSeq
  <1>5. s \in Seq(Blocks) /\ Len(s) = n
    <2> HIDE DEF n, s
    <2> QED BY <1>2, <1>4
  <1>6. s \in Surjection(1..n, Blocks)
    <2>1. s \in Injection(1..n, Blocks)
      BY <1>4 DEF Injection
    <2>2. Cardinality(1..n) = n
      BY <1>2, FS_Interval
    <2>3. QED
      BY <1>1, <2>1, <2>2, FS_Injection
  <1>7. QED
    BY <1>4, <1>5, <1>6 DEF IsInjective, Surjection

-----------------------------------------------------------------------------
(*                          Draining and donating                          *)

(* A cell is visited: it leaves its stack, and its children are on it or   *)
(* were marked before.                                                     *)
LEMMA VisitPreserves ==
  ASSUME IInv, NEW v \in Visitors, Visit(v) PROVE IInv'
  <1> USE DEF IInv, Visit, AppendTo, DrainFrom, HasElapsed
  <1>1. TypeOK'
    BY DEF TypeOK
  <1>2. CountInv'
    BY CountUnchanged DEF TypeOK
  <1>3. (ActiveInv /\ PhaseInv)'
    BY DEF TypeOK, ActiveInv, PhaseInv
  <1>4. (SolverInv /\ ProduceInv)'
    BY DEF SolverInv, ProduceInv, MorePending
  <1>5. TaskInv'
    BY DEF TaskInv
  <1>6. (ChildrenInv /\ ConstraintInv)'
    BY DEF TypeOK, PhaseInv, SolverInv, ChildrenInv, ConstraintInv
  <1>7. QED
    BY <1>1, <1>2, <1>3, <1>4, <1>5, <1>6

(* Cells go to the shared stacks.                                          *)
LEMMA DonatePreserves ==
  ASSUME IInv, NEW v \in Visitors, Donate(v) PROVE IInv'
  <1> USE DEF IInv, Donate, kSubset
  <1>1. TypeOK'
    BY DEF TypeOK
  <1>2. CountInv'
    BY CountUnchanged DEF TypeOK
  <1>3. (ActiveInv /\ PhaseInv)'
    BY DEF ActiveInv, PhaseInv
  <1>4. (SolverInv /\ ProduceInv)'
    BY DEF SolverInv, ProduceInv, MorePending
  <1>5. TaskInv'
    BY DEF TaskInv
  <1>6. (ChildrenInv /\ ConstraintInv)'
    BY DEF ChildrenInv, ConstraintInv
  <1>7. QED
    BY <1>1, <1>2, <1>3, <1>4, <1>5, <1>6

(* The donation is skipped.                                                *)
LEMMA DoNotDonatePreserves ==
  ASSUME IInv, NEW v \in Visitors, DoNotDonate(v) PROVE IInv'
  <1> USE DEF IInv, DoNotDonate
  <1>1. TypeOK'
    BY DEF TypeOK
  <1>2. CountInv'
    BY CountUnchanged DEF TypeOK
  <1>3. (ActiveInv /\ PhaseInv)'
    BY DEF ActiveInv, PhaseInv
  <1>4. (SolverInv /\ ProduceInv)'
    BY DEF SolverInv, ProduceInv, MorePending
  <1>5. TaskInv'
    BY DEF TaskInv
  <1>6. (ChildrenInv /\ ConstraintInv)'
    BY DEF ChildrenInv, ConstraintInv
  <1>7. QED
    BY <1>1, <1>2, <1>3, <1>4, <1>5, <1>6

(* A marker has run out of cells, or of time.                              *)
LEMMA DrainEndsPreserves ==
  ASSUME IInv, NEW v \in Markers, DrainEnds(v) PROVE IInv'
  <1> USE DEF IInv, DrainEnds
  <1>1. TypeOK'
    BY DEF TypeOK
  <1>2. CountInv'
    BY CountUnchanged DEF TypeOK
  <1>3. (ActiveInv /\ PhaseInv)'
    BY DEF ActiveInv, PhaseInv
  <1>4. (SolverInv /\ ProduceInv)'
    BY DEF SolverInv, ProduceInv, MorePending
  <1>5. TaskInv'
    BY DEF TaskInv
  <1>6. (ChildrenInv /\ ConstraintInv)'
    BY DEF ChildrenInv, ConstraintInv
  <1>7. QED
    BY <1>1, <1>2, <1>3, <1>4, <1>5, <1>6

-----------------------------------------------------------------------------
(*                             drainFromShared                             *)

(* The other active markers are n, and there are fewer waiting ones than w *)
(* when v is not counted: what a round of drainFromShared starts from.     *)
Others(v, n, w) ==
  /\ n \in Nat /\ n = Cardinality(Actives \ {v})
  /\ w \in Nat /\ w > Cardinality(Waiters \ {v})

(* What a round of drainFromShared leaves alone. *)
roundFrame == <<marked, bonus, elapsed, timeouts, solverVars, cycleVars>>

(* The numbers a round begins with, before and after a wait. *)
LEMMA RoundBegins ==
  ASSUME IInv, NEW v \in Markers
  PROVE  /\ pc[v] = "shared" =>
              Others(v, IF isActive[v] THEN active - 1 ELSE active, waiting + 1)
         /\ pc[v] = "wait" => Others(v, active, waiting)
  <1> USE DEF IInv
  <1>1. IsFiniteSet(Actives) /\ IsFiniteSet(Waiters)
    BY VisitorsAreFinite
  <1>2. /\ Cardinality(Actives \ {v}) = IF isActive[v] THEN active - 1 ELSE active
        /\ Cardinality(Actives \ {v}) \in Nat
    <2>1. v \in Actives <=> isActive[v]
      BY DEF Actives
    <2>2. IsFiniteSet(Actives \ {v})
      BY <1>1, FS_RemoveElement
    <2>3. Cardinality(Actives \ {v}) \in Nat
      BY <2>2, FS_CardinalityType
    <2>4. QED
      BY <1>1, <2>1, <2>3, FS_RemoveElement DEF CountInv
  <1>3. /\ Cardinality(Waiters \ {v}) =
             IF pc[v] = "wait" THEN Cardinality(Waiters) - 1
             ELSE Cardinality(Waiters)
        /\ Cardinality(Waiters) \in Nat
    <2>1. v \in Waiters <=> pc[v] = "wait"
      BY DEF Waiters
    <2>2. QED
      BY <1>1, <2>1, FS_RemoveElement, FS_CardinalityType
  <1>4. pc[v] = "wait" => ~isActive[v]
    BY DEF ActiveInv
  <1>5. QED
    BY <1>2, <1>3, <1>4 DEF TypeOK, CountInv, Others

(* How a round changes the counts. *)
LEMMA RoundCounts ==
  ASSUME TypeOK, NEW v \in Markers, NEW n, NEW w, Others(v, n, w),
         NEW b \in BOOLEAN, NEW label,
         isActive' = [isActive EXCEPT ![v] = b], pc' = [pc EXCEPT ![v] = label],
         active' = IF b THEN n + 1 ELSE n,
         waiting' = IF b THEN w - 1 ELSE w,
         b => label # "wait"
  PROVE  CountInv' /\ active' \in Nat /\ waiting' \in Nat
  <1>1. IsFiniteSet(Actives \ {v}) /\ IsFiniteSet(Waiters \ {v})
    BY VisitorsAreFinite, FS_RemoveElement
  <1>2. Cardinality(Waiters \ {v}) \in Nat
    BY <1>1, FS_CardinalityType
  <1>3. Cardinality(Actives') = active'
    <2>1. CASE b
      <3>1. Actives' = (Actives \ {v}) \cup {v}
        BY <2>1 DEF Actives, TypeOK
      <3>2. Cardinality((Actives \ {v}) \cup {v}) = Cardinality(Actives \ {v}) + 1
        BY <1>1, FS_AddElement
      <3>3. QED
        BY <2>1, <3>1, <3>2 DEF Others
    <2>2. CASE ~b
      <3>1. Actives' = Actives \ {v}
        BY <2>2 DEF Actives, TypeOK
      <3>2. QED
        BY <2>2, <3>1 DEF Others
    <2>3. QED
      BY <2>1, <2>2
  <1>4. Cardinality(Waiters') <= waiting'
    <2>1. CASE label = "wait"
      <3>1. Waiters' = (Waiters \ {v}) \cup {v}
        BY <2>1 DEF Waiters, TypeOK
      <3>2. Cardinality((Waiters \ {v}) \cup {v}) = Cardinality(Waiters \ {v}) + 1
        BY <1>1, FS_AddElement
      <3>3. QED
        BY <1>2, <2>1, <3>1, <3>2 DEF Others
    <2>2. CASE label # "wait"
      <3>1. Waiters' = Waiters \ {v}
        BY <2>2 DEF Waiters, TypeOK
      <3>2. QED
        BY <1>2, <2>2, <3>1 DEF Others
    <2>3. QED
      BY <2>1, <2>2
  <1>5. active' \in Nat /\ waiting' \in Nat /\ Cardinality(Waiters') \in Nat
    <2>1. IsFiniteSet(Waiters')
      BY VisitorsAreFinite, FS_Subset DEF Waiters
    <2>2. Cardinality(Waiters') \in Nat
      BY <2>1, FS_CardinalityType
    <2>3. QED
      BY <1>2, <2>2 DEF Others
  <1>6. QED
    BY <1>3, <1>4, <1>5 DEF CountInv

(* drainFromShared returns: the conductor's on termination or when its     *)
(* time is over, a helper's at the end of the collection, when there is    *)
(* nothing to drain.                                                       *)
LEMMA LeavePreserves ==
  ASSUME IInv, NEW v \in Markers, NEW label, NEW n, NEW w,
         pc[v] \in {"shared", "wait"}, Others(v, n, w),
         Leave(v, label, n, w), UNCHANGED roundFrame,
         \/ v = Collector /\ label = Drained
         \/ v \in Helpers /\ label = "exit" /\ shouldExit
  PROVE  IInv'
  <1> USE DEF IInv, Leave, roundFrame, Drained
  <1>1. label \in {"exit", "drained", "reloop"}
    OBVIOUS
  <1>2. CountInv' /\ active' \in Nat /\ waiting' \in Nat
    BY <1>1, RoundCounts
  <1>3. TypeOK'
    BY <1>1, <1>2 DEF TypeOK
  <1>4. (ActiveInv /\ PhaseInv)'
    BY DEF TypeOK, ActiveInv, PhaseInv
  <1>5. (SolverInv /\ ProduceInv /\ TaskInv)'
    BY DEF TypeOK, SolverInv, ProduceInv, TaskInv, MorePending
  <1>6. (ChildrenInv /\ ConstraintInv)'
    BY DEF TypeOK, ChildrenInv, ConstraintInv
  <1>7. QED
    BY <1>2, <1>3, <1>4, <1>5, <1>6

(* A marker that has found no work waits. *)
LEMMA SleepPreserves ==
  ASSUME IInv, NEW v \in Markers, NEW sleepers, NEW n, NEW w,
         pc[v] \in {"shared", "wait"}, Others(v, n, w),
         Sleep(v, sleepers, n, w), UNCHANGED roundFrame, ~HasWork(v)
  PROVE  IInv'
  <1> USE DEF IInv, Sleep, roundFrame
  <1>1. CountInv' /\ active' \in Nat /\ waiting' \in Nat
    BY RoundCounts
  <1>2. TypeOK'
    BY <1>1 DEF TypeOK
  <1>3. (ActiveInv /\ PhaseInv)'
    BY DEF TypeOK, ActiveInv, PhaseInv, HasWork
  <1>4. (SolverInv /\ ProduceInv /\ TaskInv)'
    BY DEF TypeOK, SolverInv, ProduceInv, TaskInv, MorePending
  <1>5. (ChildrenInv /\ ConstraintInv)'
    BY DEF TypeOK, ChildrenInv, ConstraintInv
  <1>6. QED
    BY <1>1, <1>2, <1>3, <1>4, <1>5

(* A thief takes at least one cell: the division of stealSomeCellsFrom     *)
(* rounds up, and there is a thread to divide by.                          *)
LEMMA StealsSomething ==
  ASSUME TypeOK, shared # {}, NEW w \in Nat \ {0},
         NEW S \in kSubset(CellsToSteal(w), shared)
  PROVE  S # {} /\ S \subseteq shared
  <1>1. IsFiniteSet(shared)
    BY FiniteAssumption, FS_Subset DEF TypeOK
  <1>2. Cardinality(shared) \in Nat /\ Cardinality(shared) # 0
    BY <1>1, FS_CardinalityType, FS_EmptySet
  <1>3. CellsToSteal(w) >= 1
    BY <1>2 DEF CellsToSteal
  <1>4. S \subseteq shared /\ Cardinality(S) = CellsToSteal(w)
    BY DEF kSubset
  <1>5. QED
    BY <1>3, <1>4, FS_EmptySet

(* A marker with work, or one that has stolen some, becomes active. *)
LEMMA TakeWorkPreserves ==
  ASSUME IInv, NEW v \in Markers, NEW n, NEW w,
         pc[v] \in {"shared", "wait"}, Others(v, n, w),
         TakeWork(v, n, w), UNCHANGED roundFrame
  PROVE  IInv'
  <1> USE DEF IInv, roundFrame
  <1>1. w \in Nat \ {0}
    <2>1. IsFiniteSet(Waiters \ {v})
      BY VisitorsAreFinite, FS_RemoveElement
    <2>2. QED
      BY <2>1, FS_CardinalityType DEF Others
  <1>2. \E S \in SUBSET shared :
          /\ stack' = [stack EXCEPT ![v] = @ \cup S] /\ shared' = shared \ S
          /\ stack'[v] # {}
    <2>1. CASE stack[v] # {}
      <3>1. /\ stack' = [stack EXCEPT ![v] = @ \cup {}] /\ shared' = shared \ {}
            /\ stack'[v] # {}
        BY <2>1 DEF TakeWork, TypeOK
      <3>2. QED
        BY <3>1
    <2>2. CASE stack[v] = {}
      <3>1. PICK S \in kSubset(CellsToSteal(w), shared) :
              stack' = [stack EXCEPT ![v] = S] /\ shared' = shared \ S
        BY <2>2 DEF TakeWork
      <3>2. S # {} /\ S \subseteq shared
        BY <1>1, <2>2, <3>1, StealsSomething DEF TakeWork, HasWork
      <3>3. stack' = [stack EXCEPT ![v] = @ \cup S] /\ stack'[v] # {}
        BY <2>2, <3>1, <3>2 DEF TypeOK
      <3>4. QED
        BY <3>1, <3>2, <3>3
    <2>3. QED
      BY <2>1, <2>2
  <1>3. PICK S \in SUBSET shared :
          /\ stack' = [stack EXCEPT ![v] = @ \cup S] /\ shared' = shared \ S
          /\ stack'[v] # {}
    BY <1>2
  <1>4. /\ pc' = [pc EXCEPT ![v] = "start"]
        /\ isActive' = [isActive EXCEPT ![v] = TRUE]
        /\ active' = n + 1 /\ waiting' = w - 1 /\ ~StacksEmpty
    BY DEF TakeWork, HasWork
  <1>5. CountInv' /\ active' \in Nat /\ waiting' \in Nat
    BY <1>4, RoundCounts
  <1>6. TypeOK'
    BY <1>3, <1>4, <1>5 DEF TypeOK
  <1>7. (ActiveInv /\ PhaseInv)'
    BY <1>3, <1>4 DEF TypeOK, ActiveInv, PhaseInv
  <1>8. (SolverInv /\ ProduceInv /\ TaskInv)'
    BY <1>3, <1>4 DEF TypeOK, SolverInv, ProduceInv, TaskInv, MorePending
  <1>9. ChildrenInv'
    BY <1>3, <1>4 DEF TypeOK, ChildrenInv
  <1>10. ConstraintInv'
    BY <1>3, <1>4 DEF TypeOK, ConstraintInv
  <1>11. QED
    BY <1>5, <1>6, <1>7, <1>8, <1>9, <1>10

(* A helper without work runs the bonus task: the conductor does so too.   *)
LEMMA BonusTaskPreserves ==
  ASSUME IInv, NEW v \in Helpers, NEW n, NEW w,
         pc[v] \in {"shared", "wait"}, Others(v, n, w), bonus,
         active' = n + 1, waiting' = w - 1,
         isActive' = [isActive EXCEPT ![v] = TRUE],
         pc' = [pc EXCEPT ![v] = "solve"],
         UNCHANGED <<stack, shared>>, UNCHANGED roundFrame
  PROVE  IInv'
  <1> USE DEF IInv, roundFrame
  <1>1. CountInv' /\ active' \in Nat /\ waiting' \in Nat
    BY RoundCounts
  <1>2. TypeOK'
    BY <1>1 DEF TypeOK
  <1>3. (ActiveInv /\ PhaseInv)'
    BY DEF TypeOK, ActiveInv, PhaseInv, SolverInv
  <1>4. (SolverInv /\ ProduceInv /\ TaskInv)'
    BY DEF TypeOK, SolverInv, ProduceInv, TaskInv, MorePending
  <1>5. (ChildrenInv /\ ConstraintInv)'
    BY DEF TypeOK, ChildrenInv, ConstraintInv
  <1>6. QED
    BY <1>1, <1>2, <1>3, <1>4, <1>5

(* A round of drainFromShared, by what it comes to. *)
LEMMA RoundPreserves ==
  ASSUME IInv, NEW v \in Markers, NEW sleepers, NEW n, NEW w,
         pc[v] \in {"shared", "wait"}, Others(v, n, w), UNCHANGED roundFrame,
         \/ v = Collector /\ MainDrain(sleepers, n, w)
         \/ v \in Helpers /\ HelperDrain(v, sleepers, n, w)
  PROVE  IInv'
  <1>1. CASE v = Collector /\ MainDrain(sleepers, n, w)
    BY <1>1, LeavePreserves, SleepPreserves, TakeWorkPreserves DEF MainDrain
  <1>2. CASE v \in Helpers /\ HelperDrain(v, sleepers, n, w)
    BY <1>2, LeavePreserves, SleepPreserves, TakeWorkPreserves,
      BonusTaskPreserves DEF HelperDrain, IsReady
  <1>3. QED
    BY <1>1, <1>2

(* The first round. *)
LEMMA DrainFromSharedPreserves ==
  ASSUME IInv, NEW v \in Markers, DrainFromShared(v) PROVE IInv'
  <1> DEFINE n == IF isActive[v] THEN active - 1 ELSE active
  <1>1. Others(v, n, waiting + 1) /\ pc[v] \in {"shared", "wait"}
    BY RoundBegins DEF DrainFromShared
  <1>2. UNCHANGED roundFrame
    BY DEF DrainFromShared, roundFrame
  <1>3. CASE v = Collector
    BY <1>1, <1>2, <1>3, RoundPreserves DEF DrainFromShared
  <1>4. CASE v \in Helpers
    BY <1>1, <1>2, <1>4, RoundPreserves DEF DrainFromShared
  <1>5. QED
    BY <1>3, <1>4

(* The rounds after a wait. *)
LEMMA WakeUpPreserves ==
  ASSUME IInv, NEW v \in Markers, WakeUp(v) PROVE IInv'
  <1>1. Others(v, active, waiting) /\ pc[v] \in {"shared", "wait"}
    BY RoundBegins DEF WakeUp
  <1>2. UNCHANGED roundFrame
    BY DEF WakeUp, roundFrame
  <1>3. CASE v = Collector
    BY <1>1, <1>2, <1>3, RoundPreserves DEF WakeUp
  <1>4. CASE v \in Helpers
    BY <1>1, <1>2, <1>4, RoundPreserves DEF WakeUp
  <1>5. QED
    BY <1>3, <1>4

-----------------------------------------------------------------------------
(*                          The constraint solver                          *)

(* A constraint is taken from the set. "output" is never there while a     *)
(* thread does it, or while there are tasks.                               *)
LEMMA PickNextPreserves ==
  ASSUME IInv, NEW v \in Markers, PickNext(v) PROVE IInv'
  <1> USE DEF IInv, PickNext, MorePending
  <1>1. TypeOK'
    BY DEF TypeOK
  <1>2. CountInv'
    BY CountUnchanged DEF TypeOK
  <1>3. (ActiveInv /\ PhaseInv)'
    BY DEF ActiveInv, PhaseInv
  <1>4. (SolverInv /\ ProduceInv)'
    BY DEF TypeOK, SolverInv, ProduceInv
  <1>5. TaskInv'
    BY DEF TaskInv
  <1>6. (ChildrenInv /\ ConstraintInv)'
    BY DEF TypeOK, ChildrenInv, ConstraintInv
  <1>7. QED
    BY <1>1, <1>2, <1>3, <1>4, <1>5, <1>6

(* A task is taken, and stays in the queue.                                *)
LEMMA PickTaskPreserves ==
  ASSUME IInv, NEW v \in Markers, PickTask(v) PROVE IInv'
  <1> USE DEF IInv, PickTask, MorePending
  <1>a. Head(tasks) \in Blocks
    BY DEF TypeOK
  <1>1. TypeOK'
    BY DEF TypeOK
  <1>2. CountInv'
    BY CountUnchanged DEF TypeOK
  <1>3. (ActiveInv /\ PhaseInv)'
    BY DEF ActiveInv, PhaseInv
  <1>4. (SolverInv /\ ProduceInv)'
    BY <1>a, BlocksAreNotConstraints DEF TypeOK, PhaseInv, SolverInv,
      ProduceInv
  <1>5. TaskInv'
    BY DEF TypeOK, TaskInv
  <1>6. (ChildrenInv /\ ConstraintInv)'
    BY DEF TypeOK, ChildrenInv, ConstraintInv
  <1>7. QED
    BY <1>1, <1>2, <1>3, <1>4, <1>5, <1>6

(* A thread waits for what a constraint may produce.                       *)
LEMMA SolverWaitsPreserves ==
  ASSUME IInv, NEW v \in Markers, SolverWaits(v) PROVE IInv'
  <1> USE DEF IInv, SolverWaits
  <1>1. TypeOK'
    BY DEF TypeOK
  <1>2. CountInv'
    BY CountUnchanged DEF TypeOK
  <1>3. (ActiveInv /\ PhaseInv)'
    BY DEF ActiveInv, PhaseInv
  <1>4. (SolverInv /\ ProduceInv)'
    BY DEF SolverInv, ProduceInv, MorePending
  <1>5. TaskInv'
    BY DEF TaskInv
  <1>6. (ChildrenInv /\ ConstraintInv)'
    BY DEF ChildrenInv, ConstraintInv
  <1>7. QED
    BY <1>1, <1>2, <1>3, <1>4, <1>5, <1>6

(* A thread has been woken by the end of a constraint or of a task.        *)
LEMMA SolverWakesPreserves ==
  ASSUME IInv, NEW v \in Markers, SolverWakes(v) PROVE IInv'
  <1> USE DEF IInv, SolverWakes
  <1>1. TypeOK'
    BY DEF TypeOK
  <1>2. CountInv'
    BY CountUnchanged DEF TypeOK
  <1>3. (ActiveInv /\ PhaseInv)'
    BY DEF ActiveInv, PhaseInv
  <1>4. (SolverInv /\ ProduceInv)'
    BY DEF SolverInv, ProduceInv, MorePending
  <1>5. TaskInv'
    BY DEF TaskInv
  <1>6. (ChildrenInv /\ ConstraintInv)'
    BY DEF ChildrenInv, ConstraintInv
  <1>7. QED
    BY <1>1, <1>2, <1>3, <1>4, <1>5, <1>6

(* A constraint is executed. It marks the roots, or makes a task for each  *)
(* block; what it marks it also pushes, and says that it produced          *)
(* something.                                                              *)
LEMMA ExecutePreserves ==
  ASSUME IInv, NEW v \in Markers, Execute(v) PROVE IInv'
  <1> USE DEF IInv, Execute, Demand, AppendTo
  <1> DEFINE cells == IF doing[v] = "roots" THEN Roots ELSE {}
  <1>a. /\ marked' = marked \cup cells
        /\ stack' = [stack EXCEPT ![v] = @ \cup (cells \ marked)]
        /\ pc' = [pc EXCEPT ![v] = "executed"]
    BY DEF Demand, AppendTo
  <1>b. UNCHANGED <<shared, active, waiting, isActive, bonus, iteration, pending,
                    doing, mayProduce, cycleVars>>
    BY DEF Demand
  <1>c. ~produced' => ~produced /\ cells \subseteq marked
    BY Zenon DEF Demand
  <1>d. \/ doing[v] = "roots" /\ cells = Roots /\ UNCHANGED <<tasks, unclaimed>>
        \/ /\ doing[v] = "output" /\ cells = {}
           /\ tasks' = SetToSeq(Blocks) /\ unclaimed' = Blocks
    BY DEF SolverInv
  <1>e. pc[v] = "execute" /\ cells \subseteq Cells
    OBVIOUS
  <1> HIDE DEF Execute, cells
  <1>1. TypeOK'
    BY <1>a, <1>b, <1>c, <1>d, <1>e, OneTaskPerBlock DEF TypeOK
  <1>2. CountInv'
    BY <1>a, <1>b, <1>c, <1>d, <1>e, CountUnchanged DEF TypeOK
  <1>3. (ActiveInv /\ PhaseInv)'
    BY <1>a, <1>b, <1>c, <1>d, <1>e DEF TypeOK, ActiveInv, PhaseInv,
      SolverInv
  <1>4. (SolverInv /\ ProduceInv)'
    BY <1>a, <1>b, <1>c, <1>d, <1>e DEF TypeOK, SolverInv, ProduceInv,
      MorePending
  <1>5. TaskInv'
    <2>1. CASE doing[v] = "roots"
      BY <1>a, <1>b, <1>d, <2>1 DEF TypeOK, TaskInv
    <2>2. CASE doing[v] = "output"
      <3>1. \A w \in Visitors : pc'[w] \notin {"work", "worked"}
        BY <1>a, <1>e, <2>2 DEF TypeOK, ProduceInv
      <3>2. tasks' = SetToSeq(Blocks) /\ unclaimed' = Blocks
        BY <1>d, <2>2
      <3>3. QED
        BY <3>1, <3>2, OneTaskPerBlock DEF TaskInv
    <2>3. QED
      BY <1>d, <2>1, <2>2
  <1>6. (ChildrenInv /\ ConstraintInv)'
    <2>1. ChildrenInv'
      BY <1>a, <1>b, <1>c, <1>d, <1>e DEF TypeOK, ChildrenInv
    <2>2. ConstraintInv'
      BY <1>a, <1>b, <1>c, <1>d, <1>e DEF TypeOK, PhaseInv, SolverInv,
        ProduceInv, ConstraintInv
    <2>3. QED
      BY <2>1, <2>2
  <1>7. QED
    BY <1>1, <1>2, <1>3, <1>4, <1>5, <1>6

(* A task is executed.                                                     *)
LEMMA DoParallelWorkPreserves ==
  ASSUME IInv, NEW v \in Markers, DoParallelWork(v) PROVE IInv'
  <1> USE DEF IInv, DoParallelWork, Demand, AppendTo
  <1> DEFINE cells == IF doing[v] \in marked THEN Outgrowth[doing[v]] ELSE {}
  <1>a. /\ marked' = marked \cup cells
        /\ stack' = [stack EXCEPT ![v] = @ \cup (cells \ marked)]
        /\ pc' = [pc EXCEPT ![v] = "worked"]
    BY DEF Demand, AppendTo
  <1>b. UNCHANGED <<shared, active, waiting, isActive, bonus, iteration, pending,
                    doing, mayProduce, cycleVars>>
    BY DEF Demand
  <1>c. ~produced' => ~produced /\ cells \subseteq marked
    BY Zenon DEF Demand
  <1>d. pc[v] = "work" /\ doing[v] \in Blocks /\ UNCHANGED <<tasks, unclaimed>>
    BY DEF SolverInv
  <1>e. /\ cells \subseteq Cells
        /\ doing[v] \in marked => cells = Outgrowth[doing[v]]
    BY DEF TypeOK
  <1> HIDE DEF DoParallelWork, cells
  <1>1. TypeOK'
    BY <1>a, <1>b, <1>c, <1>d, <1>e DEF TypeOK
  <1>2. CountInv'
    BY <1>a, <1>b, <1>c, <1>d, <1>e, CountUnchanged DEF TypeOK
  <1>3. (ActiveInv /\ PhaseInv)'
    BY <1>a, <1>b, <1>c, <1>d, <1>e DEF TypeOK, ActiveInv, PhaseInv,
      SolverInv
  <1>4. (SolverInv /\ ProduceInv)'
    BY <1>a, <1>b, <1>c, <1>d, <1>e DEF TypeOK, SolverInv, ProduceInv,
      MorePending
  <1>5. TaskInv'
    BY <1>a, <1>b, <1>c, <1>d, <1>e DEF TypeOK, SolverInv, TaskInv
  <1>6. (ChildrenInv /\ ConstraintInv)'
    <2>1. ChildrenInv'
      BY <1>a, <1>b, <1>c, <1>d, <1>e DEF TypeOK, ChildrenInv
    <2>2. ConstraintInv'
      BY <1>a, <1>b, <1>c, <1>d, <1>e DEF TypeOK, PhaseInv, SolverInv,
        ProduceInv, ConstraintInv
    <2>3. QED
      BY <2>1, <2>2
  <1>7. QED
    BY <1>1, <1>2, <1>3, <1>4, <1>5, <1>6

(* A thread puts away what it has done. A task leaves the queue by its     *)
(* head, with nothing of it unclaimed.                                     *)
LEMMA ExecutedPreserves ==
  ASSUME IInv, NEW v \in Markers, Executed(v) PROVE IInv'
  <1> USE DEF IInv, Executed
  <1>a. /\ tasks' \in Seq(Blocks)
        /\ \/ tasks' = tasks
           \/ /\ pc[v] = "worked" /\ tasks # <<>> /\ Head(tasks) = doing[v]
              /\ Len(tasks') = Len(tasks) - 1
              /\ \A i \in 1..Len(tasks') : tasks'[i] = tasks[i + 1]
    BY DEF TypeOK
  <1>b. mayProduce' \in Nat
    BY DEF TypeOK, ProduceInv
  <1>1. TypeOK'
    BY <1>a, <1>b DEF TypeOK
  <1>2. CountInv'
    BY CountUnchanged DEF TypeOK
  <1>3. (ActiveInv /\ PhaseInv)'
    BY DEF ActiveInv, PhaseInv
  <1>4. (SolverInv /\ ProduceInv)'
    BY DEF TypeOK, SolverInv, ProduceInv, MorePending
  <1>5. TaskInv'
    <2>1. CASE tasks' = tasks
      BY <2>1 DEF TypeOK, SolverInv, TaskInv
    <2>2. CASE tasks' # tasks
      <3>1. \A i, j \in 1..Len(tasks') : tasks'[i] = tasks'[j] => i = j
        BY <1>a, <2>2 DEF TypeOK, TaskInv
      <3>2. \A c \in unclaimed : \E i \in 1..Len(tasks') : tasks'[i] = c
        <4> TAKE c \in unclaimed
        <4>1. PICK i \in 1..Len(tasks) : tasks[i] = c
          BY DEF TaskInv
        <4>2. i # 1
          BY <1>a, <2>2, <4>1 DEF TypeOK, TaskInv
        <4>3. i - 1 \in 1..Len(tasks') /\ tasks'[i - 1] = c
          BY <1>a, <2>2, <4>1, <4>2 DEF TypeOK
        <4>4. QED
          BY <4>3
      <3>3. \A w \in Visitors : pc'[w] \in {"work", "worked"} =>
              /\ doing'[w] \notin unclaimed
              /\ \A i \in 2..Len(tasks') : tasks'[i] # doing'[w]
        BY <1>a, <2>2 DEF TypeOK, TaskInv
      <3>4. unclaimed' = unclaimed
        OBVIOUS
      <3>5. QED
        <4> HIDE DEF Executed, IInv
        <4> QED BY <3>1, <3>2, <3>3, <3>4 DEF TaskInv
    <2>3. QED
      BY <2>1, <2>2
  <1>6. (ChildrenInv /\ ConstraintInv)'
    BY DEF ChildrenInv, ConstraintInv
  <1>7. QED
    BY <1>1, <1>2, <1>3, <1>4, <1>5, <1>6

(* A thread has nothing left to run. The conductor goes on to wait for the *)
(* helpers, so nobody may produce tasks any more.                          *)
LEMMA SolverReturnsPreserves ==
  ASSUME IInv, NEW v \in Markers, SolverReturns(v) PROVE IInv'
  <1> USE DEF IInv, SolverReturns, SolverIsDone
  <1>1. TypeOK'
    BY DEF TypeOK
  <1>2. CountInv'
    BY CountUnchanged DEF TypeOK
  <1>3. (ActiveInv /\ PhaseInv)'
    BY DEF ActiveInv, PhaseInv
  <1>4. (SolverInv /\ ProduceInv)'
    BY DEF SolverInv, ProduceInv, MorePending
  <1>5. TaskInv'
    BY DEF TaskInv
  <1>6. (ChildrenInv /\ ConstraintInv)'
    BY DEF ChildrenInv, ConstraintInv
  <1>7. QED
    BY <1>1, <1>2, <1>3, <1>4, <1>5, <1>6

-----------------------------------------------------------------------------
(*               The phases, the helper pool and the mutator               *)

(* A helper claims the task, which is there only during a collection.      *)
LEMMA ClaimTaskPreserves ==
  ASSUME IInv, NEW h \in Helpers, ClaimTask(h) PROVE IInv'
  <1> USE DEF IInv, ClaimTask
  <1>1. TypeOK'
    BY DEF TypeOK
  <1>2. CountInv'
    BY CountUnchanged DEF TypeOK
  <1>3. (ActiveInv /\ PhaseInv)'
    BY DEF ActiveInv, PhaseInv
  <1>4. (SolverInv /\ ProduceInv)'
    BY DEF SolverInv, ProduceInv, MorePending
  <1>5. TaskInv'
    BY DEF TaskInv
  <1>6. (ChildrenInv /\ ConstraintInv)'
    BY DEF ChildrenInv, ConstraintInv
  <1>7. QED
    BY <1>1, <1>2, <1>3, <1>4, <1>5, <1>6

(* A helper returns to the pool.                                           *)
LEMMA TaskDonePreserves ==
  ASSUME IInv, NEW h \in Helpers, TaskDone(h) PROVE IInv'
  <1> USE DEF IInv, TaskDone
  <1>1. TypeOK'
    BY DEF TypeOK
  <1>2. CountInv'
    BY CountUnchanged DEF TypeOK
  <1>3. (ActiveInv /\ PhaseInv)'
    BY DEF ActiveInv, PhaseInv
  <1>4. (SolverInv /\ ProduceInv)'
    BY DEF SolverInv, ProduceInv, MorePending
  <1>5. TaskInv'
    BY DEF TaskInv
  <1>6. (ChildrenInv /\ ConstraintInv)'
    BY DEF ChildrenInv, ConstraintInv
  <1>7. QED
    BY <1>1, <1>2, <1>3, <1>4, <1>5, <1>6

(* The conductor waits for the helpers that still have its task.           *)
LEMMA AwaitTaskPreserves ==
  ASSUME IInv, AwaitTask PROVE IInv'
  <1> USE DEF IInv, AwaitTask
  <1>1. TypeOK'
    BY DEF TypeOK
  <1>2. CountInv'
    BY CountUnchanged DEF TypeOK
  <1>3. (ActiveInv /\ PhaseInv)'
    BY DEF ActiveInv, PhaseInv
  <1>4. (SolverInv /\ ProduceInv)'
    BY DEF SolverInv, ProduceInv, MorePending
  <1>5. TaskInv'
    BY DEF TaskInv
  <1>6. (ChildrenInv /\ ConstraintInv)'
    BY DEF ChildrenInv, ConstraintInv
  <1>7. QED
    BY <1>1, <1>2, <1>3, <1>4, <1>5, <1>6

(* The constraints are executed. All stacks are empty, since nobody is     *)
(* active, the mutator is stopped and the conductor has looked at its own. *)
LEMMA FixpointSolvesPreserves ==
  ASSUME IInv, FixpointSolves PROVE IInv'
  <1> USE DEF IInv, FixpointSolves, DidReachTermination, HasWork,
      ExecuteConvergence, Constraints
  <1>a. StacksEmpty
    BY NobodyActive DEF TypeOK, ActiveInv, PhaseInv
  <1>1. TypeOK'
    BY DEF TypeOK
  <1>2. CountInv'
    BY CountUnchanged DEF TypeOK
  <1>3. (ActiveInv /\ PhaseInv)'
    BY DEF ActiveInv, PhaseInv
  <1>4. (SolverInv /\ ProduceInv)'
    BY <1>a DEF TypeOK, PhaseInv, SolverInv, ProduceInv, MorePending
  <1>5. TaskInv'
    BY DEF TaskInv
  <1>6. (ChildrenInv /\ ConstraintInv)'
    BY DEF TypeOK, ChildrenInv, ConstraintInv
  <1>7. QED
    BY <1>1, <1>2, <1>3, <1>4, <1>5, <1>6

(* There is more to drain.                                                 *)
LEMMA FixpointDrainsPreserves ==
  ASSUME IInv, FixpointDrains PROVE IInv'
  <1> USE DEF IInv, FixpointDrains, StartDraining, DrainFrom
  <1>1. TypeOK'
    BY DEF TypeOK
  <1>2. CountInv'
    BY CountUnchanged DEF TypeOK
  <1>3. (ActiveInv /\ PhaseInv)'
    BY DEF ActiveInv, PhaseInv
  <1>4. (SolverInv /\ ProduceInv)'
    BY DEF SolverInv, ProduceInv, MorePending
  <1>5. TaskInv'
    BY DEF TaskInv
  <1>6. (ChildrenInv /\ ConstraintInv)'
    BY DEF ChildrenInv, ConstraintInv
  <1>7. QED
    BY <1>1, <1>2, <1>3, <1>4, <1>5, <1>6

(* The execution of the constraints is over. If all of them were executed  *)
(* and demanded nothing, the marked cells have the roots and their own     *)
(* outgrowth.                                                              *)
LEMMA ConvergenceReturnsPreserves ==
  ASSUME IInv, ConvergenceReturns PROVE IInv'
  <1> USE DEF IInv, ConvergenceReturns, TaskIsReferenced, Converged,
      StartDraining, DrainFrom
  <1>1. TypeOK'
    BY DEF TypeOK
  <1>2. CountInv'
    BY CountUnchanged DEF TypeOK
  <1>3. (ActiveInv /\ PhaseInv)'
    BY DEF TypeOK, ActiveInv, PhaseInv, SolverInv
  <1>4. (SolverInv /\ ProduceInv)'
    BY DEF TypeOK, SolverInv, ProduceInv, MorePending
  <1>5. TaskInv'
    BY DEF TypeOK, TaskInv
  <1>6. (ChildrenInv /\ ConstraintInv)'
    <2>1. ChildrenInv'
      BY DEF ChildrenInv
    <2>a. UNCHANGED <<marked, iteration, pending, produced, unclaimed, doing>>
      OBVIOUS
    <2>2. CASE Converged
      <3>1. pending = {} /\ unclaimed = {}
        BY <2>2 DEF TypeOK, SolverInv, TaskInv, MorePending
      <3>2. \A v \in Visitors : pc[v] \notin Solving
        BY DEF TypeOK
      <3>3. Roots \subseteq marked
        BY <2>2, <3>1, <3>2 DEF ConstraintInv
      <3>4. \A c \in Blocks \cap marked : Outgrowth[c] \subseteq marked
        BY <2>2, <3>1, <3>2 DEF ConstraintInv
      <3>5. \A c \in marked : Outgrowth[c] \subseteq marked
        BY <3>4 DEF TypeOK, Blocks
      <3>6. pc'[Collector] = "end"
        BY <2>2 DEF TypeOK
      <3>7. QED
        BY <2>1, <2>a, <3>3, <3>5, <3>6 DEF ConstraintInv
    <2>3. CASE ~Converged
      <3>1. pc'[Collector] \in {"drain", "donate"}
        BY <2>3 DEF TypeOK
      <3>2. QED
        BY <2>1, <3>1 DEF ConstraintInv
    <2>4. QED
      BY <2>1, <2>2, <2>3
  <1>7. QED
    BY <1>1, <1>2, <1>3, <1>4, <1>5, <1>6

(* Around the fixpoint again.                                              *)
LEMMA FixpointAgainPreserves ==
  ASSUME IInv, FixpointAgain PROVE IInv'
  <1> USE DEF IInv, FixpointAgain
  <1>1. TypeOK'
    BY DEF TypeOK
  <1>2. CountInv'
    BY CountUnchanged DEF TypeOK
  <1>3. (ActiveInv /\ PhaseInv)'
    BY DEF ActiveInv, PhaseInv
  <1>4. (SolverInv /\ ProduceInv)'
    BY DEF SolverInv, ProduceInv, MorePending
  <1>5. TaskInv'
    BY DEF TaskInv
  <1>6. (ChildrenInv /\ ConstraintInv)'
    BY DEF ChildrenInv, ConstraintInv
  <1>7. QED
    BY <1>1, <1>2, <1>3, <1>4, <1>5, <1>6

(* The mutator is resumed.                                                 *)
LEMMA ResumePreserves ==
  ASSUME IInv, Resume PROVE IInv'
  <1> USE DEF IInv, Resume
  <1>1. TypeOK'
    BY DEF TypeOK
  <1>2. CountInv'
    BY CountUnchanged DEF TypeOK
  <1>3. (ActiveInv /\ PhaseInv)'
    BY DEF TypeOK, ActiveInv, PhaseInv
  <1>4. (SolverInv /\ ProduceInv)'
    BY DEF SolverInv, ProduceInv, MorePending
  <1>5. TaskInv'
    BY DEF TaskInv
  <1>6. (ChildrenInv /\ ConstraintInv)'
    BY DEF ChildrenInv, ConstraintInv
  <1>7. QED
    BY <1>1, <1>2, <1>3, <1>4, <1>5, <1>6

(* A mutator that has the conn goes on with the concurrent phase.          *)
LEMMA MutatorPollsPreserves ==
  ASSUME IInv, MutatorPolls PROVE IInv'
  <1> USE DEF IInv, MutatorPolls, DonateAll
  <1>1. TypeOK'
    BY DEF TypeOK
  <1>2. CountInv'
    BY CountUnchanged DEF TypeOK
  <1>3. (ActiveInv /\ PhaseInv)'
    BY DEF TypeOK, ActiveInv, PhaseInv
  <1>4. (SolverInv /\ ProduceInv)'
    BY DEF TypeOK, SolverInv, ProduceInv, MorePending
  <1>5. TaskInv'
    BY DEF TypeOK, TaskInv
  <1>6. (ChildrenInv /\ ConstraintInv)'
    BY DEF TypeOK, ChildrenInv, ConstraintInv
  <1>7. QED
    BY <1>1, <1>2, <1>3, <1>4, <1>5, <1>6

(* The collector drains while the mutator runs.                            *)
LEMMA DrainConcurrentlyPreserves ==
  ASSUME IInv, DrainConcurrently PROVE IInv'
  <1> USE DEF IInv, DrainConcurrently, StartDraining, DrainFrom
  <1>1. TypeOK'
    BY DEF TypeOK
  <1>2. CountInv'
    BY CountUnchanged DEF TypeOK
  <1>3. (ActiveInv /\ PhaseInv)'
    BY DEF ActiveInv, PhaseInv
  <1>4. (SolverInv /\ ProduceInv)'
    BY DEF SolverInv, ProduceInv, MorePending
  <1>5. TaskInv'
    BY DEF TaskInv
  <1>6. (ChildrenInv /\ ConstraintInv)'
    BY DEF ChildrenInv, ConstraintInv
  <1>7. QED
    BY <1>1, <1>2, <1>3, <1>4, <1>5, <1>6

(* The collector leaves the work to the helpers.                           *)
LEMMA DonateAndWaitPreserves ==
  ASSUME IInv, DonateAndWait PROVE IInv'
  <1> USE DEF IInv, DonateAndWait, DonateAll
  <1>1. TypeOK'
    BY DEF TypeOK
  <1>2. CountInv'
    BY CountUnchanged DEF TypeOK
  <1>3. (ActiveInv /\ PhaseInv)'
    BY DEF ActiveInv, PhaseInv
  <1>4. (SolverInv /\ ProduceInv)'
    BY DEF SolverInv, ProduceInv, MorePending
  <1>5. TaskInv'
    BY DEF TaskInv
  <1>6. (ChildrenInv /\ ConstraintInv)'
    BY DEF ChildrenInv, ConstraintInv
  <1>7. QED
    BY <1>1, <1>2, <1>3, <1>4, <1>5, <1>6

(* The collector waits until the helpers have done it.                     *)
LEMMA WaitForTerminationPreserves ==
  ASSUME IInv, WaitForTermination PROVE IInv'
  <1> USE DEF IInv, WaitForTermination
  <1>1. TypeOK'
    BY DEF TypeOK
  <1>2. CountInv'
    BY CountUnchanged DEF TypeOK
  <1>3. (ActiveInv /\ PhaseInv)'
    BY DEF TypeOK, ActiveInv, PhaseInv
  <1>4. (SolverInv /\ ProduceInv)'
    BY DEF TypeOK, SolverInv, ProduceInv, MorePending
  <1>5. TaskInv'
    BY DEF TypeOK, TaskInv
  <1>6. (ChildrenInv /\ ConstraintInv)'
    BY DEF TypeOK, ChildrenInv, ConstraintInv
  <1>7. QED
    BY <1>1, <1>2, <1>3, <1>4, <1>5, <1>6

(* The mutator is stopped again, outside of increments.                    *)
LEMMA ReloopPhasePreserves ==
  ASSUME IInv, ReloopPhase PROVE IInv'
  <1> USE DEF IInv, ReloopPhase
  <1>1. TypeOK'
    BY DEF TypeOK
  <1>2. CountInv'
    BY CountUnchanged DEF TypeOK
  <1>3. (ActiveInv /\ PhaseInv)'
    BY DEF TypeOK, ActiveInv, PhaseInv
  <1>4. (SolverInv /\ ProduceInv)'
    BY DEF SolverInv, ProduceInv, MorePending
  <1>5. TaskInv'
    BY DEF TaskInv
  <1>6. (ChildrenInv /\ ConstraintInv)'
    BY DEF ChildrenInv, ConstraintInv
  <1>7. QED
    BY <1>1, <1>2, <1>3, <1>4, <1>5, <1>6

(* The markers are told to leave. There is nothing left for them.          *)
LEMMA EndPhasePreserves ==
  ASSUME IInv, EndPhase PROVE IInv'
  <1> USE DEF IInv, EndPhase
  <1>1. TypeOK'
    BY DEF TypeOK
  <1>2. CountInv'
    BY CountUnchanged DEF TypeOK
  <1>3. (ActiveInv /\ PhaseInv)'
    BY DEF TypeOK, ActiveInv, PhaseInv
  <1>4. (SolverInv /\ ProduceInv)'
    BY DEF SolverInv, ProduceInv, MorePending
  <1>5. TaskInv'
    BY DEF TaskInv
  <1>6. (ChildrenInv /\ ConstraintInv)'
    BY DEF ChildrenInv, ConstraintInv
  <1>7. QED
    BY <1>1, <1>2, <1>3, <1>4, <1>5, <1>6

(* finish() cancels the task.                                              *)
LEMMA CancelTaskPreserves ==
  ASSUME IInv, CancelTask PROVE IInv'
  <1> USE DEF IInv, CancelTask
  <1>1. TypeOK'
    BY DEF TypeOK
  <1>2. CountInv'
    BY CountUnchanged DEF TypeOK
  <1>3. (ActiveInv /\ PhaseInv)'
    BY DEF ActiveInv, PhaseInv
  <1>4. (SolverInv /\ ProduceInv)'
    BY DEF SolverInv, ProduceInv, MorePending
  <1>5. TaskInv'
    BY DEF TaskInv
  <1>6. (ChildrenInv /\ ConstraintInv)'
    BY DEF ChildrenInv, ConstraintInv
  <1>7. QED
    BY <1>1, <1>2, <1>3, <1>4, <1>5, <1>6

(* finish() has waited for the helpers.                                    *)
LEMMA FinishPreserves ==
  ASSUME IInv, Finish PROVE IInv'
  <1> USE DEF IInv, Finish
  <1>1. TypeOK'
    BY DEF TypeOK
  <1>2. CountInv'
    BY CountUnchanged DEF TypeOK
  <1>3. (ActiveInv /\ PhaseInv)'
    BY DEF ActiveInv, PhaseInv
  <1>4. (SolverInv /\ ProduceInv)'
    BY DEF SolverInv, ProduceInv, MorePending
  <1>5. TaskInv'
    BY DEF TaskInv
  <1>6. (ChildrenInv /\ ConstraintInv)'
    BY DEF ChildrenInv, ConstraintInv
  <1>7. QED
    BY <1>1, <1>2, <1>3, <1>4, <1>5, <1>6

(* An increment of the mutator ends, and leaves its visitor no cells.      *)
LEMMA IncrementEndsPreserves ==
  ASSUME IInv, IncrementEnds PROVE IInv'
  <1> USE DEF IInv, IncrementEnds, DonateAll
  <1>1. TypeOK'
    BY DEF TypeOK
  <1>2. CountInv'
    BY CountUnchanged DEF TypeOK
  <1>3. (ActiveInv /\ PhaseInv)'
    BY DEF TypeOK, ActiveInv, PhaseInv
  <1>4. (SolverInv /\ ProduceInv)'
    BY DEF SolverInv, ProduceInv, MorePending
  <1>5. TaskInv'
    BY DEF TaskInv
  <1>6. (ChildrenInv /\ ConstraintInv)'
    BY DEF TypeOK, ChildrenInv, ConstraintInv
  <1>7. QED
    BY <1>1, <1>2, <1>3, <1>4, <1>5, <1>6

(* A collection begins with nothing marked and nothing to drain.           *)
LEMMA BeginPhasePreserves ==
  ASSUME IInv, BeginPhase PROVE IInv'
  <1> USE DEF IInv, BeginPhase
  <1>1. TypeOK'
    BY DEF TypeOK
  <1>2. CountInv'
    BY CountUnchanged DEF TypeOK
  <1>3. (ActiveInv /\ PhaseInv)'
    BY DEF TypeOK, ActiveInv, PhaseInv
  <1>4. (SolverInv /\ ProduceInv)'
    BY DEF SolverInv, ProduceInv, MorePending
  <1>5. TaskInv'
    BY DEF TaskInv
  <1>6. (ChildrenInv /\ ConstraintInv)'
    BY DEF ChildrenInv, ConstraintInv
  <1>7. QED
    BY <1>1, <1>2, <1>3, <1>4, <1>5, <1>6

(* The mutator takes shared cells for an increment.                        *)
LEMMA PerformIncrementPreserves ==
  ASSUME IInv, PerformIncrement PROVE IInv'
  <1> USE DEF IInv, PerformIncrement
  <1>a. PICK S \in (SUBSET shared) \ {{}} :
          shared' = shared \ S /\ stack' = [stack EXCEPT ![Mutator] = S]
    OBVIOUS
  <1>b. S # {} /\ S \subseteq shared
    BY <1>a, Zenon
  <1>c. ~(InSolver /\ ~produced) /\ pc[Collector] \in Draining \cup Concurrent
    BY DEF PhaseInv
  <1>1. TypeOK'
    BY DEF TypeOK
  <1>2. CountInv'
    BY CountUnchanged DEF TypeOK
  <1>3. (ActiveInv /\ PhaseInv)'
    BY <1>a, <1>b, <1>c DEF TypeOK, ActiveInv, PhaseInv
  <1>4. (SolverInv /\ ProduceInv)'
    BY DEF SolverInv, ProduceInv, MorePending
  <1>5. TaskInv'
    BY DEF TaskInv
  <1>6. (ChildrenInv /\ ConstraintInv)'
    BY DEF TypeOK, PhaseInv, SolverInv, ChildrenInv, ConstraintInv
  <1>7. QED
    BY <1>1, <1>2, <1>3, <1>4, <1>5, <1>6

(* The conductor's time is over.                                           *)
LEMMA TimeToResumePreserves ==
  ASSUME IInv, TimeToResume PROVE IInv'
  <1> USE DEF IInv, TimeToResume
  <1>1. TypeOK'
    BY DEF TypeOK
  <1>2. CountInv'
    BY CountUnchanged DEF TypeOK
  <1>3. (ActiveInv /\ PhaseInv)'
    BY DEF ActiveInv, PhaseInv
  <1>4. (SolverInv /\ ProduceInv)'
    BY DEF SolverInv, ProduceInv, MorePending
  <1>5. TaskInv'
    BY DEF TaskInv
  <1>6. (ChildrenInv /\ ConstraintInv)'
    BY DEF ChildrenInv, ConstraintInv
  <1>7. QED
    BY <1>1, <1>2, <1>3, <1>4, <1>5, <1>6

(* The mutator's time is over.                                             *)
LEMMA TimeToStopPreserves ==
  ASSUME IInv, TimeToStop PROVE IInv'
  <1> USE DEF IInv, TimeToStop
  <1>1. TypeOK'
    BY DEF TypeOK
  <1>2. CountInv'
    BY CountUnchanged DEF TypeOK
  <1>3. (ActiveInv /\ PhaseInv)'
    BY DEF ActiveInv, PhaseInv
  <1>4. (SolverInv /\ ProduceInv)'
    BY DEF SolverInv, ProduceInv, MorePending
  <1>5. TaskInv'
    BY DEF TaskInv
  <1>6. (ChildrenInv /\ ConstraintInv)'
    BY DEF ChildrenInv, ConstraintInv
  <1>7. QED
    BY <1>1, <1>2, <1>3, <1>4, <1>5, <1>6

-----------------------------------------------------------------------------
(*                  The invariant and what follows from it                 *)

(* The invariant holds before the first collection. *)
LEMMA InitIInv == Init => IInv
  <1> SUFFICES ASSUME Init PROVE IInv
    OBVIOUS
  <1> USE DEF Init
  <1>1. TypeOK
    BY DEF TypeOK
  <1>2. CountInv
    <2>1. Actives = {} /\ Waiters = {}
      BY DEF Actives, Waiters
    <2>2. QED
      BY <2>1, FS_EmptySet DEF CountInv
  <1>3. ActiveInv /\ PhaseInv
    BY DEF ActiveInv, PhaseInv
  <1>4. SolverInv /\ ProduceInv /\ TaskInv
    BY DEF SolverInv, ProduceInv, TaskInv
  <1>5. ChildrenInv /\ ConstraintInv
    BY DEF ChildrenInv, ConstraintInv
  <1>6. QED
    BY <1>1, <1>2, <1>3, <1>4, <1>5 DEF IInv

(* Every step, of any thread, preserves the invariant. *)
LEMMA NextPreserves == ASSUME IInv, [Next]_vars PROVE IInv'
  <1>1. ASSUME NEW v \in Visitors, Drain(v) PROVE IInv'
    BY <1>1, VisitPreserves, DonatePreserves, DoNotDonatePreserves DEF Drain
  <1>2. ASSUME NEW v \in Markers, Share(v) PROVE IInv'
    <2>1. v \in Visitors
      OBVIOUS
    <2>2. QED
      BY <1>1, <1>2, <2>1, DrainEndsPreserves, DrainFromSharedPreserves,
        WakeUpPreserves, PickNextPreserves, PickTaskPreserves,
        SolverWaitsPreserves, SolverWakesPreserves, ExecutePreserves,
        DoParallelWorkPreserves, ExecutedPreserves, SolverReturnsPreserves
        DEF Share
  <1>3. ASSUME NEW h \in Helpers, HelperStep(h) PROVE IInv'
    <2>1. h \in Markers
      OBVIOUS
    <2>2. QED
      BY <1>2, <1>3, <2>1, ClaimTaskPreserves, TaskDonePreserves DEF HelperStep
  <1>4. CASE CollectorStep
    <2>1. Collector \in Markers
      OBVIOUS
    <2>2. QED
      BY <1>2, <1>4, <2>1, AwaitTaskPreserves, FixpointSolvesPreserves,
        FixpointDrainsPreserves, ConvergenceReturnsPreserves,
        FixpointAgainPreserves, ResumePreserves, MutatorPollsPreserves,
        DrainConcurrentlyPreserves, DonateAndWaitPreserves,
        WaitForTerminationPreserves, ReloopPhasePreserves, EndPhasePreserves,
        CancelTaskPreserves, FinishPreserves DEF CollectorStep
  <1>5. CASE MutatorStep
    <2>1. Mutator \in Visitors
      OBVIOUS
    <2>2. QED
      BY <1>1, <1>5, <2>1, IncrementEndsPreserves DEF MutatorStep
  <1>6. CASE BeginPhase \/ PerformIncrement \/ TimeToResume \/ TimeToStop
    BY <1>6, BeginPhasePreserves, PerformIncrementPreserves,
      TimeToResumePreserves, TimeToStopPreserves
  <1>7. CASE UNCHANGED vars
    <2>1. (TypeOK /\ ActiveInv /\ PhaseInv)'
      BY <1>7 DEF vars, IInv, TypeOK, ActiveInv, PhaseInv
    <2>2. CountInv'
      BY <1>7, CountUnchanged DEF vars, IInv
    <2>3. (SolverInv /\ ProduceInv /\ TaskInv)'
      BY <1>7 DEF vars, IInv, SolverInv, ProduceInv, TaskInv, MorePending
    <2>4. (ChildrenInv /\ ConstraintInv)'
      BY <1>7 DEF vars, IInv, ChildrenInv, ConstraintInv
    <2>5. QED
      BY <2>1, <2>2, <2>3, <2>4 DEF IInv
  <1>8. QED
    BY <1>3, <1>4, <1>5, <1>6, <1>7 DEF Next

(* The invariant holds in every reachable state. *)
THEOREM Invariance == Spec => []IInv
  BY InitIInv, NextPreserves, PTL DEF Spec

(* The variables have their types; in particular none of the counters      *)
(* shared by the markers ever goes below zero.                             *)
THEOREM TypeCorrect == Spec => []TypeOK
  <1>1. IInv => TypeOK
    BY DEF IInv
  <1>2. QED
    BY <1>1, Invariance, PTL

(* When the conductor leaves the fixpoint, every cell that can be reached  *)
(* from the roots by children and outgrowth is marked.  The marked cells   *)
(* are closed under both, because no stack has a cell that is still to be  *)
(* visited and the last execution of the constraints demanded nothing.     *)
THEOREM NothingLiveIsFreed == Spec => []MarkingComplete
  <1>1. IInv => MarkingComplete
    <2> SUFFICES ASSUME IInv, pc[Collector] \in {"end", "finish"},
                        NEW c \in Live
                 PROVE  c \in marked
      BY DEF MarkingComplete
    <2>1. marked \in SUBSET Cells
      BY DEF IInv, TypeOK
    <2>2. \A d \in marked : Children[d] \subseteq marked
      BY DEF IInv, PhaseInv, ChildrenInv
    <2>3. Roots \subseteq marked /\ \A d \in marked : Outgrowth[d] \subseteq marked
      BY DEF IInv, ConstraintInv
    <2>4. QED
      BY <2>1, <2>2, <2>3 DEF Live
  <1>2. QED
    BY <1>1, Invariance, PTL

(* The assertions of the phases, of drainFromShared and of the solver.  A  *)
(* conductor that finds no active marker and empty stacks of its own has   *)
(* found that all stacks are empty.                                        *)
THEOREM Assertions == Spec => []AssertionsHold
  <1>1. ASSUME IInv PROVE AssertionsHold
    <2> USE <1>1 DEF IInv
    <2>1. pc[Collector] = "idle" => DidReachTermination(Collector, active) /\ ~task
      <3> SUFFICES ASSUME pc[Collector] = "idle"
                   PROVE  DidReachTermination(Collector, active) /\ ~task
        OBVIOUS
      <3>1. Actives = {}
        BY DEF Actives, ActiveInv, PhaseInv
      <3>2. active = 0
        BY <3>1, FS_EmptySet DEF CountInv
      <3>3. QED
        BY <3>2 DEF DidReachTermination, HasWork, PhaseInv
    <2>2. pc[Collector] = "fixpoint" /\ DidReachTermination(Collector, active) =>
            \A v \in Visitors : stack[v] = {}
      BY NobodyActive DEF DidReachTermination, HasWork, ActiveInv, PhaseInv
    <2>3. pc[Collector] = "end" => shared = {} /\ \A v \in Visitors : stack[v] = {}
      BY DEF PhaseInv
    <2>4. \A v \in Visitors : pc[v] = "start" => stack[v] # {}
      BY DEF ActiveInv
    <2>5. pc[Collector] = "await" => tasks = <<>> /\ mayProduce = 0 /\ ~MorePending
      BY DEF SolverInv
    <2>6. \A v \in Visitors :
            pc[v] = "worked" => \A i \in 2..Len(tasks) : tasks[i] # doing[v]
      BY DEF TaskInv
    <2>7. QED
      BY <2>1, <2>2, <2>3, <2>4, <2>5, <2>6 DEF AssertionsHold
  <1>2. IInv => AssertionsHold
    BY <1>1
  <1>3. QED
    BY <1>2, Invariance, PTL

(* No helper runs the solver's closure once runTaskInParallel, on whose    *)
(* stack it is, has returned.                                              *)
THEOREM ClosureOutlivesHelpers == Spec => []TaskEndsBeforeReturn
  <1>1. IInv => TaskEndsBeforeReturn
    BY DEF IInv, SolverInv, TaskEndsBeforeReturn
  <1>2. QED
    BY <1>1, Invariance, PTL

=============================================================================
