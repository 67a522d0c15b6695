------------------------- MODULE ConcurrentMarking -------------------------
(***************************************************************************)
(* JavaScriptCore marks while the mutator changes the heap. This module is *)
(* about what makes that safe over several Eden and Full collections: the  *)
(* mark bits, the CellState hints, the write barrier and the remembered    *)
(* set it keeps (heap/Heap.cpp, heap/HeapInlines.h), the SlotVisitors      *)
(* (heap/SlotVisitor.cpp) and the constraints that bring the roots and the *)
(* remembered cells back to them. One step per access to a mark bit or a   *)
(* CellState; the fences in the code order them as here.                   *)
(*                                                                         *)
(* A cell has one field. The visitors' mark stacks are taken together, as  *)
(* ParallelMarking is about how they share them, and the constraints run   *)
(* in one step, as they do with all visitors idle and the mutator stopped. *)
(***************************************************************************)
EXTENDS Naturals

CONSTANTS
  Cells,
  Root,       \* a cell that never dies, as the global object
  Visitors,   \* the marking threads
  None,       \* no cell
  MaxStores,  \* bound: stores of the mutator
  MaxCycles   \* bound: collections

ASSUME RootAssumption == Root \in Cells
ASSUME NoneAssumption == None \notin Cells
ASSUME BoundAssumption == MaxStores \in Nat /\ MaxCycles \in Nat

VARIABLES
  field,         \* field[c]: the cell c points to, or None
  allocated,     \* the cells that are not free
  marked,        \* the cells whose mark bit is set
  state,         \* state[c]: the CellState of c
  markStack,     \* the visitors' mark stacks
  mutatorMarkStack, \* m_mutatorMarkStack: the remembered set
  raceMarkStack, \* m_raceMarkStack
  phase,         \* "notRunning", or marking with the mutator "stopped" or "running"
  scope,         \* m_collectionScope of the last collection
  vpc,           \* vpc[v]: where visitor v is
  vcell,         \* vcell[v]: the cell it is at
  mpc,           \* where the mutator is
  from,          \* the cell its write barrier is for
  register,      \* a cell that the mutator's stack holds on to, or None
  stores, cycles

heapVars == <<field, allocated>>
markVars == <<marked, state, markStack>>
visitorVars == <<vpc, vcell>>
mutatorVars == <<mpc, from, register, stores>>
cycleVars == <<phase, scope, cycles>>
vars == <<heapVars, markVars, mutatorMarkStack, raceMarkStack, visitorVars, mutatorVars, cycleVars>>

(* A new heap: the root is white, as all cells are when they are made. *)
Init ==
  /\ field = [c \in Cells |-> None]
  /\ allocated = {Root}
  /\ marked = {}
  /\ state = [c \in Cells |-> "white"]
  /\ markStack = {}
  /\ mutatorMarkStack = {}
  /\ raceMarkStack = {}
  /\ phase = "notRunning"
  /\ scope = "Eden"
  /\ vpc = [v \in Visitors |-> "idle"]
  /\ vcell = [v \in Visitors |-> None]
  /\ mpc = "idle"
  /\ from = None
  /\ register = None
  /\ stores = 0
  /\ cycles = 0

(* What the mutator can get at: all that is in every closed set with the   *)
(* root and the register.                                                  *)
Reachable ==
  LET Closed(S) == {Root, register} \subseteq S /\ \A c \in S \ {None} : field[c] \in S
  IN {c \in Cells : \A S \in SUBSET (Cells \cup {None}) : None \in S /\ Closed(S) => c \in S}

MutatorRuns == phase # "stopped"

IsMarking == phase # "notRunning"

-----------------------------------------------------------------------------
(*                               The mutator                               *)

Load(c) ==
  /\ mpc = "idle" /\ MutatorRuns
  /\ c \in {Root, register} \cap Cells
  /\ register' = field[c]
  /\ UNCHANGED <<heapVars, markVars, mutatorMarkStack, raceMarkStack, visitorVars, mpc, from, stores, cycleVars>>

(* NewCellState if a cell were reused as it is. *)
OldCellState(c) == state[c]

(* The JSCell constructor. *)
NewCellState(c) == "white"

Allocate(c) ==
  /\ mpc = "idle" /\ MutatorRuns
  /\ c \notin allocated
  /\ allocated' = allocated \cup {c}
  /\ state' = [state EXCEPT ![c] = NewCellState(c)]
  /\ register' = c
  /\ UNCHANGED <<field, marked, markStack, mutatorMarkStack, raceMarkStack, visitorVars, mpc, from, stores, cycleVars>>

(* A store into any cell at hand, after which the barrier comes. There is  *)
(* none for a value that is not a cell.                                    *)
Store(c) ==
  /\ mpc = "idle" /\ MutatorRuns
  /\ stores < MaxStores
  /\ \E to \in {register, None} :
       /\ field' = [field EXCEPT ![c] = to]
       /\ IF to = None THEN UNCHANGED <<mpc, from>> ELSE mpc' = "barrier" /\ from' = c
  /\ stores' = stores + 1
  /\ UNCHANGED <<allocated, markVars, mutatorMarkStack, raceMarkStack, visitorVars, register, cycleVars>>

BarrierReturns == mpc' = "idle" /\ from' = None

(* The look at the CellState: writeBarrier's when no marking is under way  *)
(* (blackThreshold), and else writeBarrierSlowPath's after the fence.      *)
WriteBarrier ==
  /\ mpc = "barrier"
  /\ IF state[from] = "black" THEN mpc' = "remember" /\ UNCHANGED from ELSE BarrierReturns
  /\ UNCHANGED <<heapVars, markVars, mutatorMarkStack, raceMarkStack, visitorVars, register, stores, cycleVars>>

(* addToRememberedSet: a cell that is marked will be visited again; one    *)
(* that is not will be when it is marked: "attempt to re-white".           *)
CheckIsMarked ==
  /\ mpc = "remember"
  /\ mpc' = IF IsMarking /\ from \notin marked THEN "rewhite" ELSE "grey"
  /\ UNCHANGED <<heapVars, markVars, mutatorMarkStack, raceMarkStack, visitorVars, from, register, stores, cycleVars>>

AddToRememberedSet ==
  /\ mpc = "grey"
  /\ state' = [state EXCEPT ![from] = "grey"]
  /\ mutatorMarkStack' = mutatorMarkStack \cup {from}
  /\ BarrierReturns
  /\ UNCHANGED <<heapVars, marked, markStack, raceMarkStack, visitorVars, register, stores, cycleVars>>

(* atomicCompareExchangeCellStateStrong(PossiblyBlack, DefinitelyWhite) *)
Rewhite ==
  /\ mpc = "rewhite"
  /\ IF state[from] = "black"
     THEN /\ state' = [state EXCEPT ![from] = "white"]
          /\ mpc' = "recheck"
          /\ UNCHANGED from
     ELSE BarrierReturns /\ UNCHANGED state
  /\ UNCHANGED <<heapVars, marked, markStack, mutatorMarkStack, raceMarkStack, visitorVars, register, stores, cycleVars>>

(* WasMarkedMeanwhile if the second look at the mark bit were left out. *)
AssumedUnmarked == FALSE

WasMarkedMeanwhile == from \in marked

(* "This check lets us correct our mistake." *)
Recheck ==
  /\ mpc = "recheck"
  /\ IF WasMarkedMeanwhile THEN mpc' = "reblacken" /\ UNCHANGED from ELSE BarrierReturns
  /\ UNCHANGED <<heapVars, markVars, mutatorMarkStack, raceMarkStack, visitorVars, register, stores, cycleVars>>

Reblacken ==
  /\ mpc = "reblacken"
  /\ state' = [state EXCEPT ![from] = "black"]
  /\ BarrierReturns
  /\ UNCHANGED <<heapVars, marked, markStack, mutatorMarkStack, raceMarkStack, visitorVars, register, stores, cycleVars>>

-----------------------------------------------------------------------------
(*                               The visitors                              *)

(* StateWhenScanned if the cell became black after it was scanned. *)
StateNotChanged(c) == state[c]

StateWhenScanned(c) == "black"

(* visitChildren: first the CellState, *)
VisitChildren(v) ==
  /\ vpc[v] = "idle"
  /\ \E c \in markStack :
       /\ markStack' = markStack \ {c}
       /\ state' = [state EXCEPT ![c] = StateWhenScanned(c)]
       /\ vcell' = [vcell EXCEPT ![v] = c]
  /\ vpc' = [vpc EXCEPT ![v] = "scan"]
  /\ UNCHANGED <<heapVars, marked, mutatorMarkStack, raceMarkStack, mutatorVars, cycleVars>>

VisitorReturns(v) ==
  /\ vpc' = [vpc EXCEPT ![v] = "idle"]
  /\ vcell' = [vcell EXCEPT ![v] = None]

(* then the load of the field, which the mutator may overwrite at once, *)
Scan(v) ==
  /\ vpc[v] = "scan"
  /\ IF field[vcell[v]] = None
     THEN VisitorReturns(v)
     ELSE /\ vcell' = [vcell EXCEPT ![v] = field[vcell[v]]]
          /\ vpc' = [vpc EXCEPT ![v] = "mark"]
  /\ UNCHANGED <<heapVars, markVars, mutatorMarkStack, raceMarkStack, mutatorVars, cycleVars>>

(* then the loaded cell's mark bit (testAndSetMarked), *)
SetMarked(v) ==
  /\ vpc[v] = "mark"
  /\ marked' = marked \cup {vcell[v]}
  /\ IF vcell[v] \in marked
     THEN VisitorReturns(v)
     ELSE vpc' = [vpc EXCEPT ![v] = "append"] /\ UNCHANGED vcell
  /\ UNCHANGED <<heapVars, state, markStack, mutatorMarkStack, raceMarkStack, mutatorVars, cycleVars>>

(* and, if it was clear, the cell's own state and a place on the stack     *)
(* (setMarkedAndAppendToMarkStack).                                        *)
AppendToMarkStack(v) ==
  /\ vpc[v] = "append"
  /\ state' = [state EXCEPT ![vcell[v]] = "grey"]
  /\ markStack' = markStack \cup {vcell[v]}
  /\ VisitorReturns(v)
  /\ UNCHANGED <<heapVars, marked, mutatorMarkStack, raceMarkStack, mutatorVars, cycleVars>>

(* The scan finds the mutator changing the cell's shape, and gives up. *)
DidRace(v) ==
  /\ vpc[v] = "scan" /\ phase = "running"
  /\ state' = [state EXCEPT ![vcell[v]] = "grey"]
  /\ raceMarkStack' = raceMarkStack \cup {vcell[v]}
  /\ VisitorReturns(v)
  /\ UNCHANGED <<heapVars, marked, markStack, mutatorMarkStack, mutatorVars, cycleVars>>

-----------------------------------------------------------------------------
(*                              The collection                             *)

(* runBeginPhase. A Full collection forgets the marks and the remembered   *)
(* set, and leaves the CellStates as they are.                             *)
BeginPhase(s) ==
  /\ phase = "notRunning" /\ mpc = "idle"
  /\ cycles < MaxCycles
  /\ cycles' = cycles + 1
  /\ phase' = "stopped"
  /\ scope' = s
  /\ IF s = "Full" THEN marked' = {} /\ mutatorMarkStack' = {}
     ELSE UNCHANGED <<marked, mutatorMarkStack>>
  /\ UNCHANGED <<field, allocated, state, markStack, raceMarkStack, visitorVars, mutatorVars>>

NoWorkLeft == markStack = {} /\ \A v \in Visitors : vpc[v] = "idle"

(* What the root constraints find unmarked, and what Mark Stack Merging    *)
(* has to bring back.                                                      *)
RootsToMark == ({Root, register} \cap Cells) \ marked

Remembered == mutatorMarkStack \cup raceMarkStack

(* Executing constraints, until some of them find something: any of the    *)
(* roots, and the two stacks if Mark Stack Merging is among them.          *)
ExecuteConstraints ==
  /\ phase = "stopped" /\ NoWorkLeft
  /\ \E found \in SUBSET RootsToMark, merges \in BOOLEAN :
       /\ markStack' = found \cup IF merges THEN Remembered ELSE {}
       /\ markStack' # {}
       /\ marked' = marked \cup found
       /\ state' = [c \in Cells |-> IF c \in found THEN "grey" ELSE state[c]]
       /\ mutatorMarkStack' = IF merges THEN {} ELSE mutatorMarkStack
       /\ raceMarkStack' = IF merges THEN {} ELSE raceMarkStack
  /\ UNCHANGED <<heapVars, visitorVars, mutatorVars, cycleVars>>

(* Resuming, and stopping at a safepoint, as the scheduler likes. *)
Resume ==
  /\ phase = "stopped" /\ ~NoWorkLeft
  /\ phase' = "running"
  /\ UNCHANGED <<heapVars, markVars, mutatorMarkStack, raceMarkStack, visitorVars, mutatorVars, scope, cycles>>

Stop ==
  /\ phase = "running" /\ mpc = "idle"
  /\ phase' = "stopped"
  /\ UNCHANGED <<heapVars, markVars, mutatorMarkStack, raceMarkStack, visitorVars, mutatorVars, scope, cycles>>

(* The constraints find nothing: runEndPhase. What is not marked is free:  *)
(* endMarking makes the newlyAllocated bits stale, so that a cell made     *)
(* while marking is kept only if marking came by it.                       *)
EndPhase ==
  /\ phase = "stopped" /\ NoWorkLeft
  /\ RootsToMark \cup Remembered = {}
  /\ phase' = "notRunning"
  /\ allocated' = allocated \cap marked
  /\ field' = [c \in Cells |-> IF c \in allocated' THEN field[c] ELSE None]
  /\ UNCHANGED <<markVars, mutatorMarkStack, raceMarkStack, visitorVars, mutatorVars, scope, cycles>>

-----------------------------------------------------------------------------
Next ==
  \/ \E c \in Cells : Load(c) \/ Allocate(c)
  \/ \E c \in Reachable : Store(c)
  \/ WriteBarrier \/ CheckIsMarked \/ AddToRememberedSet
  \/ Rewhite \/ Recheck \/ Reblacken
  \/ \E v \in Visitors : VisitChildren(v) \/ Scan(v) \/ SetMarked(v) \/ AppendToMarkStack(v) \/ DidRace(v)
  \/ \E s \in {"Eden", "Full"} : BeginPhase(s)
  \/ ExecuteConstraints \/ Resume \/ Stop \/ EndPhase

Spec == Init /\ [][Next]_vars

-----------------------------------------------------------------------------
(*                               Properties                                *)

(* No collection frees a cell that the mutator can still get at, whatever  *)
(* it stored, and whenever, into cells that were scanned already.          *)
NoLiveCellFreed == Reachable \subseteq allocated

(* Between collections the remembered set is complete: an old cell that    *)
(* points to one that is not is in it, or the next Eden collection, which  *)
(* does not scan old cells, would miss it.                                 *)
OldToNewIsRemembered ==
  phase = "notRunning" /\ mpc = "idle" =>
    \A c \in marked : field[c] \notin marked \cup {None} => c \in mutatorMarkStack

(* addToRememberedSet's assertions on a black cell: it is marked, but for  *)
(* a Full collection, where it may be black since an earlier one. And      *)
(* runBeginPhase's and endMarking's: the race mark stack is empty.         *)
AssertionsHold ==
  /\ mpc = "remember" /\ ~IsMarking => from \in marked
  /\ mpc = "rewhite" => scope = "Full"
  /\ ~IsMarking => raceMarkStack = {}
=============================================================================
