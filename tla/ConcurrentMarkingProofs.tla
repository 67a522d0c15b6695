---------------------- MODULE ConcurrentMarkingProofs ----------------------
(***************************************************************************)
(* Proofs about ConcurrentMarking. The argument is a tricolour invariant   *)
(* for JSC's retreating wavefront: a marked cell whose field leads to an   *)
(* unmarked one is owed a scan (NothingMissed), by a stack, a visitor or   *)
(* the write barrier. That the barrier may trust a CellState other than    *)
(* black is NotBlackIsToBeVisited, and that it may trust black outside a   *)
(* Full collection is BlackIsMarked. When no work is left, the marked      *)
(* cells are closed under the fields and can be all that is kept.          *)
(***************************************************************************)
EXTENDS ConcurrentMarking, TLAPS

(* The type invariant. *)

TypeOK ==
  /\ field \in [Cells -> Cells \cup {None}]
  /\ allocated \subseteq Cells
  /\ marked \subseteq Cells
  /\ state \in [Cells -> {"white", "grey", "black"}]
  /\ markStack \subseteq Cells
  /\ mutatorMarkStack \subseteq Cells
  /\ raceMarkStack \subseteq Cells
  /\ phase \in {"notRunning", "stopped", "running"}
  /\ scope \in {"Eden", "Full"}
  /\ vpc \in [Visitors -> {"idle", "scan", "mark", "append"}]
  /\ vcell \in [Visitors -> Cells \cup {None}]
  /\ mpc \in {"idle", "barrier", "remember", "grey", "rewhite", "recheck", "reblacken"}
  /\ from \in Cells \cup {None}
  /\ register \in Cells \cup {None}

(* Where the threads may be: the mutator is at no barrier when it is       *)
(* stopped, and nothing is left of the marking when there is none.         *)
Phases ==
  /\ phase = "stopped" => mpc = "idle"
  /\ phase = "notRunning" => NoWorkLeft /\ raceMarkStack = {}
  /\ mpc # "idle" => from \in allocated

(* What the stacks and the threads hold is marked, where they rely on it.  *)
OnlyMarked ==
  /\ markStack \subseteq marked
  /\ mutatorMarkStack \subseteq marked
  /\ raceMarkStack \subseteq marked
  /\ \A v \in Visitors : vpc[v] \in {"scan", "append"} => vcell[v] \in marked
  /\ mpc \in {"grey", "reblacken"} => from \in marked
  /\ mpc = "remember" => from \in marked \/ (IsMarking /\ scope = "Full")
  /\ mpc \in {"rewhite", "recheck"} => IsMarking /\ scope = "Full"

(* A black cell is marked, unless a Full collection has not come to it. *)
BlackIsMarked ==
  \A c \in allocated : state[c] = "black" => c \in marked \/ (IsMarking /\ scope = "Full")

(* A marked cell that is not black will be visited, or is the one whose    *)
(* state the barrier is about to correct.                                  *)
ToBeVisited(c) ==
  \/ c \in markStack
  \/ c \in mutatorMarkStack
  \/ c \in raceMarkStack
  \/ \E v \in Visitors : vpc[v] = "append" /\ vcell[v] = c

NotBlackIsToBeVisited ==
  \A c \in marked :
    state[c] # "black" => ToBeVisited(c) \/ (mpc \in {"recheck", "reblacken"} /\ from = c)

(* A marked cell points to one that is, or somebody will see to it: a      *)
(* visitor that has loaded the field, one that will, or the barrier.       *)
BeingScanned(c) ==
  \/ \E v \in Visitors : vpc[v] = "mark" /\ vcell[v] = field[c]
  \/ \E v \in Visitors : vpc[v] = "scan" /\ vcell[v] = c

NothingMissed ==
  \A c \in marked :
    \/ field[c] \in marked \cup {None}
    \/ ToBeVisited(c)
    \/ BeingScanned(c)
    \/ mpc \in {"barrier", "remember", "grey"} /\ from = c

(* No pointer anywhere is to a free cell, those in garbage included. *)
NoDangling ==
  /\ Root \in allocated
  /\ register \in allocated \cup {None}
  /\ marked \subseteq allocated
  /\ \A c \in Cells : field[c] \in allocated \cup {None}
  /\ \A c \in Cells \ allocated : field[c] = None
  /\ \A v \in Visitors : vpc[v] # "idle" => vcell[v] \in allocated

IInv ==
  /\ TypeOK
  /\ Phases
  /\ OnlyMarked
  /\ BlackIsMarked
  /\ NotBlackIsToBeVisited
  /\ NothingMissed
  /\ NoDangling

-----------------------------------------------------------------------------
(* What is allocated is a closed set, so all that is reachable is in it. *)
LEMMA ReachableIsAllocated ==
  ASSUME TypeOK, NoDangling
  PROVE  Reachable \subseteq allocated
<1> DEFINE S == allocated \cup {None}
<1>1. S \in SUBSET (Cells \cup {None}) /\ None \in S
  BY DEF TypeOK
<1>2. {Root, register} \subseteq S /\ \A c \in S \ {None} : field[c] \in S
  BY DEF TypeOK, NoDangling
<1>3. ASSUME NEW c \in Reachable PROVE c \in allocated
  <2>1. c \in Cells /\ c \in S
    BY <1>1, <1>2 DEF Reachable
  <2> QED BY <2>1, NoneAssumption
<1> QED BY <1>3

(* In a new heap nothing is marked and no field is set. *)
LEMMA InitInv == Init => IInv
BY RootAssumption
   DEF Init, IInv, TypeOK, Phases, OnlyMarked, BlackIsMarked, NotBlackIsToBeVisited, NothingMissed,
       NoDangling, NoWorkLeft, IsMarking

(* A load only lets go of cells.                                           *)
LEMMA LoadInv ==
  ASSUME IInv, NEW c \in Cells, Load(c)
  PROVE  IInv'
<1> USE DEF IInv, TypeOK, Load, heapVars, markVars, visitorVars, mutatorVars, cycleVars
<1>1. TypeOK'
  BY DEF IInv
<1>2. Phases'
  BY DEF Phases, NoWorkLeft
<1>3. OnlyMarked'
  BY DEF OnlyMarked, IsMarking
<1>4. BlackIsMarked'
  BY DEF BlackIsMarked, IsMarking
<1>5. NotBlackIsToBeVisited'
  BY DEF NotBlackIsToBeVisited, ToBeVisited
<1>6. NothingMissed'
  BY DEF NothingMissed, ToBeVisited, BeingScanned
<1>7. NoDangling'
  BY DEF NoDangling
<1> QED BY <1>1, <1>2, <1>3, <1>4, <1>5, <1>6, <1>7 DEF IInv

(* A new cell is unmarked, as no free cell is marked, and empty.           *)
LEMMA AllocateInv ==
  ASSUME IInv, NEW c \in Cells, Allocate(c)
  PROVE  IInv'
<1> USE DEF IInv, TypeOK, Allocate, heapVars, markVars, visitorVars, mutatorVars, cycleVars,
      NewCellState
<1> USE NoneAssumption
<1>1. TypeOK'
  BY DEF IInv
<1>2. Phases'
  BY DEF Phases, NoWorkLeft
<1>3. OnlyMarked'
  BY DEF OnlyMarked, IsMarking
<1>4. BlackIsMarked'
  BY DEF BlackIsMarked, IsMarking
<1>5. NotBlackIsToBeVisited'
  BY DEF NotBlackIsToBeVisited, ToBeVisited, NoDangling
<1>6. NothingMissed'
  BY DEF NothingMissed, ToBeVisited, BeingScanned
<1>7. NoDangling'
  BY DEF NoDangling
<1> QED BY <1>1, <1>2, <1>3, <1>4, <1>5, <1>6, <1>7 DEF IInv

(* A store may break the tricolour invariant; the barrier now owes it.     *)
LEMMA StoreInv ==
  ASSUME IInv, NEW c \in Reachable, Store(c)
  PROVE  IInv'
<1> USE DEF IInv, TypeOK, Store, heapVars, markVars, visitorVars, mutatorVars, cycleVars
<1> USE ReachableIsAllocated
<1>1. TypeOK'
  BY DEF IInv
<1>2. Phases'
  BY DEF Phases, NoWorkLeft, MutatorRuns, NoDangling
<1>3. OnlyMarked'
  BY DEF OnlyMarked, IsMarking
<1>4. BlackIsMarked'
  BY DEF BlackIsMarked, IsMarking
<1>5. NotBlackIsToBeVisited'
  BY DEF NotBlackIsToBeVisited, ToBeVisited
<1>6. NothingMissed'
  BY DEF NothingMissed, ToBeVisited, BeingScanned
<1>7. NoDangling'
  BY DEF NoDangling
<1> QED BY <1>1, <1>2, <1>3, <1>4, <1>5, <1>6, <1>7 DEF IInv

(* A cell that is not black will be visited after the store anyway.        *)
LEMMA WriteBarrierInv ==
  ASSUME IInv, WriteBarrier
  PROVE  IInv'
<1> USE DEF IInv, TypeOK, WriteBarrier, heapVars, markVars, visitorVars, mutatorVars, cycleVars,
      BarrierReturns
<1>1. TypeOK'
  BY DEF IInv
<1>2. Phases'
  BY DEF Phases, NoWorkLeft
<1>3. OnlyMarked'
  BY DEF OnlyMarked, IsMarking, BlackIsMarked, Phases
<1>4. BlackIsMarked'
  BY DEF BlackIsMarked, IsMarking
<1>5. NotBlackIsToBeVisited'
  BY DEF NotBlackIsToBeVisited, ToBeVisited
<1>6. NothingMissed'
  BY DEF NothingMissed, ToBeVisited, BeingScanned, NotBlackIsToBeVisited
<1>7. NoDangling'
  BY DEF NoDangling
<1> QED BY <1>1, <1>2, <1>3, <1>4, <1>5, <1>6, <1>7 DEF IInv

(* A cell that is not marked owes nothing: its scan is yet to come.        *)
LEMMA CheckIsMarkedInv ==
  ASSUME IInv, CheckIsMarked
  PROVE  IInv'
<1> USE DEF IInv, TypeOK, CheckIsMarked, heapVars, markVars, visitorVars, mutatorVars, cycleVars
<1>1. TypeOK'
  BY DEF IInv
<1>2. Phases'
  BY DEF Phases, NoWorkLeft
<1>3. OnlyMarked'
  BY DEF OnlyMarked, IsMarking
<1>4. BlackIsMarked'
  BY DEF BlackIsMarked, IsMarking
<1>5. NotBlackIsToBeVisited'
  BY DEF NotBlackIsToBeVisited, ToBeVisited
<1>6. NothingMissed'
  BY DEF NothingMissed, ToBeVisited, BeingScanned
<1>7. NoDangling'
  BY DEF NoDangling
<1> QED BY <1>1, <1>2, <1>3, <1>4, <1>5, <1>6, <1>7 DEF IInv

(* A remembered cell will be scanned after the store.                      *)
LEMMA AddToRememberedSetInv ==
  ASSUME IInv, AddToRememberedSet
  PROVE  IInv'
<1> USE DEF IInv, TypeOK, AddToRememberedSet, heapVars, markVars, visitorVars, mutatorVars,
      cycleVars, BarrierReturns
<1>1. TypeOK'
  BY DEF Phases
<1>2. Phases'
  BY DEF Phases, NoWorkLeft
<1>3. OnlyMarked'
  BY DEF OnlyMarked, IsMarking
<1>4. BlackIsMarked'
  BY DEF BlackIsMarked, IsMarking
<1>5. NotBlackIsToBeVisited'
  BY DEF NotBlackIsToBeVisited, ToBeVisited
<1>6. NothingMissed'
  BY DEF NothingMissed, ToBeVisited, BeingScanned
<1>7. NoDangling'
  BY DEF NoDangling
<1> QED BY <1>1, <1>2, <1>3, <1>4, <1>5, <1>6, <1>7 DEF IInv

(* A cell marked since the check may be white now: a mistake to correct.   *)
LEMMA RewhiteInv ==
  ASSUME IInv, Rewhite
  PROVE  IInv'
<1> USE DEF IInv, TypeOK, Rewhite, heapVars, markVars, visitorVars, mutatorVars, cycleVars,
      BarrierReturns
<1>1. TypeOK'
  BY DEF IInv
<1>2. Phases'
  BY DEF Phases, NoWorkLeft
<1>3. OnlyMarked'
  BY DEF OnlyMarked, IsMarking
<1>4. BlackIsMarked'
  BY DEF BlackIsMarked, IsMarking
<1>5. NotBlackIsToBeVisited'
  BY DEF NotBlackIsToBeVisited, ToBeVisited
<1>6. NothingMissed'
  BY DEF NothingMissed, ToBeVisited, BeingScanned
<1>7. NoDangling'
  BY DEF NoDangling
<1> QED BY <1>1, <1>2, <1>3, <1>4, <1>5, <1>6, <1>7 DEF IInv

(* A cell that is still unmarked may stay white.                           *)
LEMMA RecheckInv ==
  ASSUME IInv, Recheck
  PROVE  IInv'
<1> USE DEF IInv, TypeOK, Recheck, heapVars, markVars, visitorVars, mutatorVars, cycleVars,
      BarrierReturns, WasMarkedMeanwhile
<1>1. TypeOK'
  BY DEF IInv
<1>2. Phases'
  BY DEF Phases, NoWorkLeft
<1>3. OnlyMarked'
  BY DEF OnlyMarked, IsMarking
<1>4. BlackIsMarked'
  BY DEF BlackIsMarked, IsMarking
<1>5. NotBlackIsToBeVisited'
  BY DEF NotBlackIsToBeVisited, ToBeVisited
<1>6. NothingMissed'
  BY DEF NothingMissed, ToBeVisited, BeingScanned
<1>7. NoDangling'
  BY DEF NoDangling
<1> QED BY <1>1, <1>2, <1>3, <1>4, <1>5, <1>6, <1>7 DEF IInv

(* A cell that was marked meanwhile is marked still, and may be black.     *)
LEMMA ReblackenInv ==
  ASSUME IInv, Reblacken
  PROVE  IInv'
<1> USE DEF IInv, TypeOK, Reblacken, heapVars, markVars, visitorVars, mutatorVars, cycleVars,
      BarrierReturns
<1>1. TypeOK'
  BY DEF IInv
<1>2. Phases'
  BY DEF Phases, NoWorkLeft
<1>3. OnlyMarked'
  BY DEF OnlyMarked, IsMarking
<1>4. BlackIsMarked'
  BY DEF BlackIsMarked, IsMarking, OnlyMarked, Phases
<1>5. NotBlackIsToBeVisited'
  BY DEF NotBlackIsToBeVisited, ToBeVisited
<1>6. NothingMissed'
  BY DEF NothingMissed, ToBeVisited, BeingScanned
<1>7. NoDangling'
  BY DEF NoDangling
<1> QED BY <1>1, <1>2, <1>3, <1>4, <1>5, <1>6, <1>7 DEF IInv

(* A cell is black before its field is read: a later store is barriered.   *)
LEMMA VisitChildrenInv ==
  ASSUME IInv, NEW v \in Visitors, VisitChildren(v)
  PROVE  IInv'
<1> USE DEF IInv, TypeOK, VisitChildren, heapVars, markVars, visitorVars, mutatorVars, cycleVars,
      StateWhenScanned
<1>1. TypeOK'
  BY DEF IInv
<1>2. Phases'
  BY DEF Phases, NoWorkLeft
<1>3. OnlyMarked'
  BY DEF OnlyMarked, IsMarking
<1>4. BlackIsMarked'
  BY DEF BlackIsMarked, IsMarking, OnlyMarked
<1>5. NotBlackIsToBeVisited'
  BY DEF NotBlackIsToBeVisited, ToBeVisited
<1>6. NothingMissed'
  BY DEF NothingMissed, ToBeVisited, BeingScanned
<1>7. NoDangling'
  BY DEF NoDangling, OnlyMarked
<1> QED BY <1>1, <1>2, <1>3, <1>4, <1>5, <1>6, <1>7 DEF IInv

(* What was read will be marked, or the cell's barrier is due.             *)
LEMMA ScanInv ==
  ASSUME IInv, NEW v \in Visitors, Scan(v)
  PROVE  IInv'
<1> USE DEF IInv, TypeOK, Scan, heapVars, markVars, visitorVars, mutatorVars, cycleVars,
      VisitorReturns
<1>1. TypeOK'
  BY DEF NoDangling
<1>2. Phases'
  BY DEF Phases, NoWorkLeft
<1>3. OnlyMarked'
  BY DEF OnlyMarked, IsMarking
<1>4. BlackIsMarked'
  BY DEF BlackIsMarked, IsMarking
<1>5. NotBlackIsToBeVisited'
  BY DEF NotBlackIsToBeVisited, ToBeVisited
<1>6. NothingMissed'
  BY DEF NothingMissed, ToBeVisited, BeingScanned
<1>7. NoDangling'
  BY DEF NoDangling
<1> QED BY <1>1, <1>2, <1>3, <1>4, <1>5, <1>6, <1>7 DEF IInv

(* The cell that is marked is the one that will be appended.               *)
LEMMA SetMarkedInv ==
  ASSUME IInv, NEW v \in Visitors, SetMarked(v)
  PROVE  IInv'
<1> USE DEF IInv, TypeOK, SetMarked, heapVars, markVars, visitorVars, mutatorVars, cycleVars,
      VisitorReturns
<1>1. TypeOK'
  BY DEF NoDangling
<1>2. Phases'
  BY DEF Phases, NoWorkLeft
<1>3. OnlyMarked'
  BY DEF OnlyMarked, IsMarking
<1>4. BlackIsMarked'
  BY DEF BlackIsMarked, IsMarking
<1>5. NotBlackIsToBeVisited'
  BY DEF NotBlackIsToBeVisited, ToBeVisited
<1>6. NothingMissed'
  BY DEF NothingMissed, ToBeVisited, BeingScanned
<1>7. NoDangling'
  BY DEF NoDangling
<1> QED BY <1>1, <1>2, <1>3, <1>4, <1>5, <1>6, <1>7 DEF IInv

(* A cell on the stack is one to be visited.                               *)
LEMMA AppendToMarkStackInv ==
  ASSUME IInv, NEW v \in Visitors, AppendToMarkStack(v)
  PROVE  IInv'
<1> USE DEF IInv, TypeOK, AppendToMarkStack, heapVars, markVars, visitorVars, mutatorVars,
      cycleVars, VisitorReturns
<1>1. TypeOK'
  BY DEF NoDangling
<1>2. Phases'
  BY DEF Phases, NoWorkLeft
<1>3. OnlyMarked'
  BY DEF OnlyMarked, IsMarking
<1>4. BlackIsMarked'
  BY DEF BlackIsMarked, IsMarking
<1>5. NotBlackIsToBeVisited'
  BY DEF NotBlackIsToBeVisited, ToBeVisited
<1>6. NothingMissed'
  BY DEF NothingMissed, ToBeVisited, BeingScanned
<1>7. NoDangling'
  BY DEF NoDangling
<1> QED BY <1>1, <1>2, <1>3, <1>4, <1>5, <1>6, <1>7 DEF IInv

(* A scan that is given up leaves its cell on the race stack.              *)
LEMMA DidRaceInv ==
  ASSUME IInv, NEW v \in Visitors, DidRace(v)
  PROVE  IInv'
<1> USE DEF IInv, TypeOK, DidRace, heapVars, markVars, visitorVars, mutatorVars, cycleVars,
      VisitorReturns
<1>1. TypeOK'
  BY DEF NoDangling
<1>2. Phases'
  BY DEF Phases, NoWorkLeft
<1>3. OnlyMarked'
  BY DEF OnlyMarked, IsMarking
<1>4. BlackIsMarked'
  BY DEF BlackIsMarked, IsMarking
<1>5. NotBlackIsToBeVisited'
  BY DEF NotBlackIsToBeVisited, ToBeVisited
<1>6. NothingMissed'
  BY DEF NothingMissed, ToBeVisited, BeingScanned
<1>7. NoDangling'
  BY DEF NoDangling
<1> QED BY <1>1, <1>2, <1>3, <1>4, <1>5, <1>6, <1>7 DEF IInv

(* A Full collection may leave black cells unmarked; no stack outlives it. *)
LEMMA BeginPhaseInv ==
  ASSUME IInv, NEW s \in {"Eden", "Full"}, BeginPhase(s)
  PROVE  IInv'
<1> USE DEF IInv, TypeOK, BeginPhase, heapVars, markVars, visitorVars, mutatorVars, cycleVars
<1>1. TypeOK'
  BY DEF IInv
<1>2. Phases'
  BY DEF Phases, NoWorkLeft
<1>3. OnlyMarked'
  BY DEF OnlyMarked, IsMarking, Phases, NoWorkLeft
<1>4. BlackIsMarked'
  BY DEF BlackIsMarked, IsMarking
<1>5. NotBlackIsToBeVisited'
  BY DEF NotBlackIsToBeVisited, ToBeVisited
<1>6. NothingMissed'
  BY DEF NothingMissed, ToBeVisited, BeingScanned
<1>7. NoDangling'
  BY DEF NoDangling
<1> QED BY <1>1, <1>2, <1>3, <1>4, <1>5, <1>6, <1>7 DEF IInv

(* The roots are marked and grey, and nothing remembered is lost.          *)
LEMMA ExecuteConstraintsInv ==
  ASSUME IInv, ExecuteConstraints
  PROVE  IInv'
<1> USE DEF IInv, TypeOK, ExecuteConstraints, heapVars, markVars, visitorVars, mutatorVars,
      cycleVars, RootsToMark, Remembered, NoWorkLeft
<1> USE RootAssumption, NoneAssumption
<1>1. TypeOK'
  BY DEF IInv
<1>2. Phases'
  BY DEF Phases, NoWorkLeft
<1>3. OnlyMarked'
  BY DEF OnlyMarked, IsMarking
<1>4. BlackIsMarked'
  BY DEF BlackIsMarked, IsMarking
<1>5. NotBlackIsToBeVisited'
  BY DEF NotBlackIsToBeVisited, ToBeVisited
<1>6. NothingMissed'
  BY DEF NothingMissed, ToBeVisited, BeingScanned
<1>7. NoDangling'
  BY DEF NoDangling
<1> QED BY <1>1, <1>2, <1>3, <1>4, <1>5, <1>6, <1>7 DEF IInv

(* The mutator goes on as it was stopped, at no barrier.                   *)
LEMMA ResumeInv ==
  ASSUME IInv, Resume
  PROVE  IInv'
<1> USE DEF IInv, TypeOK, Resume, heapVars, markVars, visitorVars, mutatorVars, cycleVars
<1>1. TypeOK'
  BY DEF IInv
<1>2. Phases'
  BY DEF Phases, NoWorkLeft
<1>3. OnlyMarked'
  BY DEF OnlyMarked, IsMarking
<1>4. BlackIsMarked'
  BY DEF BlackIsMarked, IsMarking
<1>5. NotBlackIsToBeVisited'
  BY DEF NotBlackIsToBeVisited, ToBeVisited
<1>6. NothingMissed'
  BY DEF NothingMissed, ToBeVisited, BeingScanned
<1>7. NoDangling'
  BY DEF NoDangling
<1> QED BY <1>1, <1>2, <1>3, <1>4, <1>5, <1>6, <1>7 DEF IInv

(* The mutator stops at no barrier.                                        *)
LEMMA StopInv ==
  ASSUME IInv, Stop
  PROVE  IInv'
<1> USE DEF IInv, TypeOK, Stop, heapVars, markVars, visitorVars, mutatorVars, cycleVars
<1>1. TypeOK'
  BY DEF IInv
<1>2. Phases'
  BY DEF Phases, NoWorkLeft
<1>3. OnlyMarked'
  BY DEF OnlyMarked, IsMarking
<1>4. BlackIsMarked'
  BY DEF BlackIsMarked, IsMarking
<1>5. NotBlackIsToBeVisited'
  BY DEF NotBlackIsToBeVisited, ToBeVisited
<1>6. NothingMissed'
  BY DEF NothingMissed, ToBeVisited, BeingScanned
<1>7. NoDangling'
  BY DEF NoDangling
<1> QED BY <1>1, <1>2, <1>3, <1>4, <1>5, <1>6, <1>7 DEF IInv

(* With no work left, what is marked is closed under the fields.           *)
LEMMA EndPhaseInv ==
  ASSUME IInv, EndPhase
  PROVE  IInv'
<1> USE DEF IInv, TypeOK, EndPhase, heapVars, markVars, visitorVars, mutatorVars, cycleVars,
      RootsToMark, Remembered, NoWorkLeft
<1> USE RootAssumption
<1>1. TypeOK'
  BY DEF IInv
<1>2. Phases'
  BY DEF Phases, NoWorkLeft
<1>3. OnlyMarked'
  BY DEF OnlyMarked, IsMarking, Phases
<1>4. BlackIsMarked'
  BY DEF BlackIsMarked, IsMarking
<1>5. NotBlackIsToBeVisited'
  BY DEF NotBlackIsToBeVisited, ToBeVisited
<1>6. NothingMissed'
  BY DEF NothingMissed, ToBeVisited, BeingScanned
<1>7. NoDangling'
  BY DEF NoDangling, NothingMissed, ToBeVisited, BeingScanned, Phases
<1> QED BY <1>1, <1>2, <1>3, <1>4, <1>5, <1>6, <1>7 DEF IInv


-----------------------------------------------------------------------------
(* Every step keeps the invariant. *)
LEMMA NextInv == ASSUME IInv, [Next]_vars PROVE IInv'
<1>1. CASE UNCHANGED vars
  BY <1>1 DEF vars, heapVars, markVars, visitorVars, mutatorVars, cycleVars, IInv, TypeOK, Phases,
       OnlyMarked, BlackIsMarked, NotBlackIsToBeVisited, NothingMissed, NoDangling, ToBeVisited,
       BeingScanned, NoWorkLeft, IsMarking
<1>2. ASSUME NEW c \in Cells, Load(c) \/ Allocate(c) PROVE IInv'
  BY <1>2, LoadInv, AllocateInv
<1>3. ASSUME NEW c \in Reachable, Store(c) PROVE IInv'
  BY <1>3, StoreInv
<1>4. CASE WriteBarrier \/ CheckIsMarked \/ AddToRememberedSet \/ Rewhite \/ Recheck \/ Reblacken
  BY <1>4, WriteBarrierInv, CheckIsMarkedInv, AddToRememberedSetInv, RewhiteInv, RecheckInv,
     ReblackenInv
<1>5. ASSUME NEW v \in Visitors,
             VisitChildren(v) \/ Scan(v) \/ SetMarked(v) \/ AppendToMarkStack(v) \/ DidRace(v)
      PROVE  IInv'
  BY <1>5, VisitChildrenInv, ScanInv, SetMarkedInv, AppendToMarkStackInv, DidRaceInv
<1>6. ASSUME NEW s \in {"Eden", "Full"}, BeginPhase(s) PROVE IInv'
  BY <1>6, BeginPhaseInv
<1>7. CASE ExecuteConstraints \/ Resume \/ Stop \/ EndPhase
  BY <1>7, ExecuteConstraintsInv, ResumeInv, StopInv, EndPhaseInv
<1> QED BY <1>1, <1>2, <1>3, <1>4, <1>5, <1>6, <1>7 DEF Next

(* The inductive invariant holds in every state of the specification, for  *)
(* any number of cells, marking threads, stores and collections.           *)
THEOREM IInvHolds == Spec => []IInv
BY InitInv, NextInv, PTL DEF Spec

(* The variables hold what they should: the sets of cells, the CellStates  *)
(* and the places in the barrier and in visitChildren.                     *)
THEOREM TypeCorrect == Spec => []TypeOK
<1>1. IInv => TypeOK
  BY DEF IInv
<1> QED BY <1>1, IInvHolds, PTL

(* Marking beside a running mutator never frees a live cell. *)
THEOREM LiveCellsKept == Spec => []NoLiveCellFreed
<1>1. IInv => NoLiveCellFreed
  BY ReachableIsAllocated DEF IInv, NoLiveCellFreed
<1> QED BY <1>1, IInvHolds, PTL

(* The remembered set that addToRememberedSet keeps is complete whenever   *)
(* an Eden collection could begin.                                         *)
THEOREM RememberedSetComplete == Spec => []OldToNewIsRemembered
<1>1. IInv => OldToNewIsRemembered
  BY DEF IInv, Phases, NoWorkLeft, NothingMissed, ToBeVisited, BeingScanned, OldToNewIsRemembered
<1> QED BY <1>1, IInvHolds, PTL

(* The assertions of addToRememberedSet hold (Heap.cpp:1110 and 1140), and *)
(* that of runBeginPhase (1420): no race is left over.                     *)
THEOREM BarrierAssertions == Spec => []AssertionsHold
<1>1. IInv => AssertionsHold
  BY DEF IInv, TypeOK, Phases, OnlyMarked, AssertionsHold, IsMarking
<1> QED BY <1>1, IInvHolds, PTL

(* No pointer, not even one in garbage that is not collected yet, leads to *)
(* a cell that a collection freed: a stale field can do no harm when a     *)
(* conservative root brings its cell back.                                 *)
THEOREM NothingDangles == Spec => []NoDangling
<1>1. IInv => NoDangling
  BY DEF IInv
<1> QED BY <1>1, IInvHolds, PTL
=============================================================================
