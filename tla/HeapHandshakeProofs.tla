----------------------- MODULE HeapHandshakeProofs -----------------------
(***************************************************************************)
(* The safety of the collector/mutator handshake, for every bound on the   *)
(* number of collections, whatever scopes are asked for and with or        *)
(* without the continuous GC thread.                                       *)
(*                                                                         *)
(* Heap access, the conn and the stopped bit are the three things that     *)
(* keep the two threads apart.  Only a thread that has access can be given *)
(* the conn, the collector conducts only while the mutator does not have   *)
(* it, and a suspended phase is always being conducted by somebody: by the *)
(* mutator, or by the collector behind the stopped bit.  The rest of the   *)
(* invariant says how far a change of phase, a collection, a finalization  *)
(* and a wait have come at each program point.                             *)
(***************************************************************************)
EXTENDS HeapHandshake, TLAPS

(* The mutator's program points without heap access. *)
NoAccess == {"outside", "acquire", "released"}

(* The points of EndPhase after the request has been served. *)
EndTail == {"endUnpark", "setNeedFinalize", "needFinalizeUnpark"}

(* The mutator finalizes as it resumes itself: it has left the points of   *)
(* Conducting, but not runCurrentPhase.                                    *)
FinalizesAsItResumes == pc[Mutator] = "finalize" /\ after = "resumeTheMutator"

MutatorConducts == pc[Mutator] \in Conducting \/ FinalizesAsItResumes

(* A thread is between resumeThePeriphery and the assignment of            *)
(* m_currentPhase.                                                         *)
Resuming ==
  \/ pc[Collector] \in {"resumeTheMutator", "resumeUnpark"}
  \/ pc[Mutator] = "resumeTheMutator" \/ FinalizesAsItResumes

(* The operations whose stopIfNecessary, or acquireAccess, is under way. *)
StopOps == Asks \cup {"acquire", "timer", "timerWork", "stop"}

(* The operation that the mutator can be in at each of its points. *)
OpInv ==
  /\ pc[Mutator] \in {"outside", "running", "release", "released"} =>
       op = "none"
  /\ pc[Mutator] \in {"acquire", "acquireFinalize"} =>
       op \in {"acquire", "timer"}
  /\ pc[Mutator] = "timerWork" => op = "timer"
  /\ pc[Mutator] \in {"stopCheck", "stopLoop", "stopTail"} => op \in StopOps
  /\ pc[Mutator] = "request" => op \in Asks
  /\ pc[Mutator] \in {"waitTop", "waitStop", "relinquishConn", "relinquished",
                      "park"} => op \in Waits
  /\ pc[Mutator] \in Conducting => op \in Waits \cup StopOps
  /\ pc[Mutator] = "finalize" =>
       \/ after = "acquireFinalize" /\ op \in {"acquire", "timer"}
       \/ after = "resumeTheMutator" /\ op \in Waits \cup StopOps
  /\ pc[Mutator] = "prevented" => op = "prevent"
  /\ pc[Mutator] \in {"bringDown", "join", "finished"} => op = "shutdown"
  /\ pc[Mutator] \notin {"stopTheMutator", "resumeUnpark"}

(* Heap access, and who may have the conn. *)
AccessInv ==
  /\ hasAccess \in world <=> pc[Mutator] \notin NoAccess
  /\ hasAccess \in world => stopped \notin world
  /\ mutatorHasConn \in world => hasAccess \in world

ConnInv ==
  /\ pc[Collector] \in Conducting => mutatorHasConn \notin world
  /\ pc[Collector] \in Conducting \cup {"handedOff"} => collectorThreadIsRunning
  /\ MutatorConducts => mutatorHasConn \in world

(* The changes of phase that the phases ask for. *)
PhaseChanges ==
  {<<"NotRunning", "Begin">>, <<"Begin", "Fixpoint">>, <<"Fixpoint", "End">>,
   <<"Fixpoint", "Concurrent">>, <<"Concurrent", "Reloop">>,
   <<"Reloop", "Fixpoint">>, <<"End", "NotRunning">>}

(* How far the change of phase is at each point of the conductors. *)
PhaseInv ==
  /\ phase = nextPhase \/ <<phase, nextPhase>> \in PhaseChanges
  /\ \A c \in Conductors :
       /\ pc[c] \in {"stopTheMutator", "stopThePeriphery"} => Enters
       /\ pc[c] \in {"resumeTheMutator", "resumeUnpark"} => Leaves
       /\ pc[c] \in EndTail => phase = "End" /\ nextPhase = "End"
  /\ FinalizesAsItResumes => Leaves

(* A suspended phase is being conducted; m_worldIsStopped is set from the  *)
(* end of stopThePeriphery to resumeThePeriphery; and while the collector  *)
(* conducts the stopped bit keeps the mutator out.                         *)
StopInv ==
  /\ worldShouldBeSuspended(phase) =>
       pc[Collector] \in Conducting \/ MutatorConducts
  /\ worldIsStopped <=> worldShouldBeSuspended(phase) /\ ~Resuming
  /\ /\ worldShouldBeSuspended(phase)
     /\ pc[Collector] \in Conducting \ {"resumeUnpark"}
     => stopped \in world
  /\ pc[Collector] = "stopThePeriphery" => stopped \in world

(* How far a collection is. *)
CycleInv ==
  /\ served + Len(requests) = granted
  /\ \/ nextPhase = "NotRunning" \/ requests # <<>>
     \/ \E c \in Conductors : pc[c] \in EndTail
  /\ collectionScope <=>
       /\ nextPhase \notin {"NotRunning", "Begin"}
       /\ \A c \in Conductors : pc[c] \notin EndTail

(* Where a finalization can be pending or under way. *)
FinalizeInv ==
  /\ needFinalize \in world \/ pc[Mutator] = "finalize" =>
       phase \in {"NotRunning", "End"} /\ ~collectionScope
  /\ \A c \in Conductors :
       pc[c] \in {"stopTheMutator", "stopThePeriphery"} =>
         needFinalize \notin world
  /\ needFinalize \in world /\ pc[Mutator] \in Conducting => phase = "End"
  /\ needFinalize \in world /\ phase = "End" =>
       nextPhase = "NotRunning" \/ \E c \in Conductors : pc[c] = "needFinalizeUnpark"
  /\ PendingFinalization

(* What a wait for the collector has established. *)
WaitInv ==
  /\ mutatorWaiting \in world => op \in Waits
  /\ /\ op \in Waits /\ done
     /\ \/ MutatorConducts
        \/ pc[Mutator] \in {"waitStop", "relinquishConn", "relinquished"}
     => CollectorDone
  /\ pc[Mutator] = "park" => ~done
  /\ pc[Mutator] \in {"prevented", "bringDown"} => served = granted
  /\ pc[Mutator] = "prevented" =>
       mutatorHasConn \notin world /\ mutatorWaiting \notin world

(* Shutting down, and the bound on the tickets. *)
ShutdownInv ==
  /\ op = "shutdown" => ~collectingContinuously
  /\ threadShouldStop => pc[Mutator] \in {"join", "finished"}
  /\ pc[Collector] = "stopped" => threadShouldStop
  /\ op \in Asks => granted < MaxTickets

IInv ==
  /\ TypeOK /\ OpInv /\ AccessInv /\ ConnInv /\ PhaseInv /\ StopInv /\ CycleInv
  /\ FinalizeInv /\ WaitInv /\ ShutdownInv

(* The names of the threads, points, bits and operations are expanded in   *)
(* every proof below, and so are the frames of the actions.                *)
USE ScopesAssumption, MaxTicketsAssumption, ContinuousAssumption
    DEF Mutator, Collector, Conductors, Conducting, Waits, Asks, StopOps,
        mutatorHasConn, stopped, hasAccess, needFinalize, mutatorWaiting,
        NoAccess, EndTail, FinalizesAsItResumes, MutatorConducts, Resuming,
        At, Goto, UnparkAll, worldVars, phaseVars, requestVars, threadVars,
        heapVars, waitVars, PhaseChanges, Enters, Leaves,
        worldShouldBeSuspended, PendingFinalization, CollectorDone

(* The invariant holds of a heap whose constructor has run. *)
LEMMA InitIInv == Init => IInv
  <1> SUFFICES ASSUME Init PROVE IInv
    OBVIOUS
  <1>1. /\ pc[Mutator] = "outside" /\ pc[Collector] = "noThread"
        /\ pc \in [Conductors -> MutatorPC \cup CollectorPC]
    BY DEF Init, MutatorPC, CollectorPC
  <1>2. requests \in Seq(Scopes \cup {AnyScope}) /\ Len(requests) = 0
    BY DEF Init
  <1>3. TypeOK
    <2>1. /\ worldIsStopped \in BOOLEAN /\ collectionScope \in BOOLEAN
          /\ collectorThreadIsRunning \in BOOLEAN
          /\ threadShouldStop \in BOOLEAN
          /\ isSafeToCollect \in BOOLEAN /\ collectingContinuously \in BOOLEAN
          /\ timer \in BOOLEAN /\ mutatorDidRun \in BOOLEAN /\ done \in BOOLEAN
      BY Zenon DEF Init
    <2>2. QED
      BY <1>1, <1>2, <2>1 DEF Init, TypeOK, MutatorPC, CollectorPC, Phases,
        Ops, Bits
  <1>4. OpInv /\ AccessInv /\ ConnInv /\ ShutdownInv /\ WaitInv
    BY <1>1 DEF Init, OpInv, AccessInv, ConnInv, ShutdownInv, WaitInv
  <1>5. PhaseInv /\ StopInv
    BY <1>1 DEF Init, PhaseInv, StopInv
  <1>6. CycleInv /\ FinalizeInv
    BY <1>1, <1>2 DEF Init, CycleInv, FinalizeInv
  <1>7. QED
    BY <1>3, <1>4, <1>5, <1>6 DEF IInv

-----------------------------------------------------------------------------
(*                                The phases                               *)

(* A conductor that finds no request returns from the loop.                *)
LEMMA NotRunningPhaseIdlePreserves ==
  ASSUME IInv, NEW c \in Conductors, NotRunningPhaseIdle(c) PROVE IInv'
  <1> USE DEF IInv, NotRunningPhaseIdle, Runs, Finished
  <1>1. TypeOK'
    <2>1. /\ pc' \in [Conductors -> MutatorPC \cup CollectorPC]
          /\ pc'[Mutator] \in MutatorPC /\ pc'[Collector] \in CollectorPC
      BY DEF TypeOK, OpInv, Bits, MutatorPC, CollectorPC, Ops, Phases,
        AnyScope
    <2>2. QED
      BY <2>1 DEF TypeOK
  <1>2. (OpInv /\ AccessInv /\ ConnInv /\ ShutdownInv)'
    BY DEF OpInv, AccessInv, ConnInv, ShutdownInv
  <1>3. (PhaseInv /\ StopInv /\ CycleInv /\ FinalizeInv)'
    BY DEF TypeOK, OpInv, AccessInv, ConnInv, PhaseInv, StopInv, CycleInv,
      FinalizeInv
  <1>4. WaitInv'
    BY DEF WaitInv
  <1>5. QED
    BY <1>1, <1>2, <1>3, <1>4

(* A request starts a collection.                                          *)
LEMMA NotRunningPhasePreserves ==
  ASSUME IInv, NEW c \in Conductors, NotRunningPhase(c) PROVE IInv'
  <1> USE DEF IInv, NotRunningPhase, Runs, ChangePhase
  <1>1. TypeOK'
    BY DEF TypeOK, MutatorPC, CollectorPC, Phases
  <1>2. (OpInv /\ AccessInv /\ ConnInv /\ ShutdownInv)'
    BY DEF OpInv, AccessInv, ConnInv, ShutdownInv
  <1>3. (PhaseInv /\ StopInv /\ CycleInv /\ FinalizeInv)'
    BY DEF PhaseInv, StopInv, CycleInv, FinalizeInv
  <1>4. WaitInv'
    BY DEF WaitInv
  <1>5. QED
    BY <1>1, <1>2, <1>3, <1>4

(* The Begin phase engages m_collectionScope.                              *)
LEMMA BeginPhasePreserves ==
  ASSUME IInv, NEW c \in Conductors, BeginPhase(c) PROVE IInv'
  <1> USE DEF IInv, BeginPhase, Runs, ChangePhase
  <1>1. TypeOK'
    BY DEF TypeOK, MutatorPC, CollectorPC, Phases
  <1>2. (OpInv /\ AccessInv /\ ConnInv /\ ShutdownInv)'
    BY DEF OpInv, AccessInv, ConnInv, ShutdownInv
  <1>3. (PhaseInv /\ StopInv /\ CycleInv /\ FinalizeInv)'
    BY DEF PhaseInv, StopInv, CycleInv, FinalizeInv
  <1>4. WaitInv'
    BY DEF WaitInv
  <1>5. QED
    BY <1>1, <1>2, <1>3, <1>4

(* The fixpoint converges and the End phase is next.                       *)
LEMMA FixpointConvergesPreserves ==
  ASSUME IInv, NEW c \in Conductors, FixpointConverges(c) PROVE IInv'
  <1> USE DEF IInv, FixpointConverges, Runs, ChangePhase
  <1>1. TypeOK'
    BY DEF TypeOK, MutatorPC, CollectorPC, Phases
  <1>2. (OpInv /\ AccessInv /\ ConnInv /\ ShutdownInv)'
    BY DEF OpInv, AccessInv, ConnInv, ShutdownInv
  <1>3. (PhaseInv /\ StopInv /\ CycleInv /\ FinalizeInv)'
    BY DEF PhaseInv, StopInv, CycleInv, FinalizeInv
  <1>4. WaitInv'
    BY DEF WaitInv
  <1>5. QED
    BY <1>1, <1>2, <1>3, <1>4

(* The world is to be resumed before the fixpoint converges.               *)
LEMMA FixpointResumesPreserves ==
  ASSUME IInv, NEW c \in Conductors, FixpointResumes(c) PROVE IInv'
  <1> USE DEF IInv, FixpointResumes, Runs, ChangePhase
  <1>1. TypeOK'
    BY DEF TypeOK, MutatorPC, CollectorPC, Phases
  <1>2. (OpInv /\ AccessInv /\ ConnInv /\ ShutdownInv)'
    BY DEF OpInv, AccessInv, ConnInv, ShutdownInv
  <1>3. (PhaseInv /\ StopInv /\ CycleInv /\ FinalizeInv)'
    BY DEF PhaseInv, StopInv, CycleInv, FinalizeInv
  <1>4. WaitInv'
    BY DEF WaitInv
  <1>5. QED
    BY <1>1, <1>2, <1>3, <1>4

(* It is time to stop the world again.                                     *)
LEMMA ConcurrentStopsPreserves ==
  ASSUME IInv, NEW c \in Conductors, ConcurrentStops(c) PROVE IInv'
  <1> USE DEF IInv, ConcurrentStops, Runs, ChangePhase
  <1>1. TypeOK'
    BY DEF TypeOK, MutatorPC, CollectorPC, Phases
  <1>2. (OpInv /\ AccessInv /\ ConnInv /\ ShutdownInv)'
    BY DEF OpInv, AccessInv, ConnInv, ShutdownInv
  <1>3. (PhaseInv /\ StopInv /\ CycleInv /\ FinalizeInv)'
    BY DEF PhaseInv, StopInv, CycleInv, FinalizeInv
  <1>4. WaitInv'
    BY DEF WaitInv
  <1>5. QED
    BY <1>1, <1>2, <1>3, <1>4

(* The world is stopped again: back to the fixpoint.                       *)
LEMMA ReloopPhasePreserves ==
  ASSUME IInv, NEW c \in Conductors, ReloopPhase(c) PROVE IInv'
  <1> USE DEF IInv, ReloopPhase, Runs, ChangePhase
  <1>1. TypeOK'
    BY DEF TypeOK, MutatorPC, CollectorPC, Phases
  <1>2. (OpInv /\ AccessInv /\ ConnInv /\ ShutdownInv)'
    BY DEF OpInv, AccessInv, ConnInv, ShutdownInv
  <1>3. (PhaseInv /\ StopInv /\ CycleInv /\ FinalizeInv)'
    BY DEF PhaseInv, StopInv, CycleInv, FinalizeInv
  <1>4. WaitInv'
    BY DEF WaitInv
  <1>5. QED
    BY <1>1, <1>2, <1>3, <1>4

(* The End phase serves the first request. There is one: nobody but the    *)
(* conductor takes requests away.                                          *)
LEMMA EndPhasePreserves ==
  ASSUME IInv, NEW c \in Conductors, EndPhase(c) PROVE IInv'
  <1> USE DEF IInv, EndPhase, Runs, ServedFirst
  <1>a. requests # <<>>
    BY DEF CycleInv, PhaseInv, ConnInv
  <1>b. /\ requests' \in Seq(Scopes \cup {AnyScope})
        /\ Len(requests') = Len(requests) - 1
    BY <1>a DEF TypeOK
  <1>1. TypeOK'
    <2>1. /\ pc' \in [Conductors -> MutatorPC \cup CollectorPC]
          /\ pc'[Mutator] \in MutatorPC /\ pc'[Collector] \in CollectorPC
      BY DEF TypeOK, OpInv, Bits, MutatorPC, CollectorPC, Ops, Phases,
        AnyScope
    <2>2. collectionScope' \in BOOLEAN
      BY Zenon
    <2>3. served' \in Nat /\ world' \subseteq Bits
      BY DEF TypeOK
    <2>4. QED
      BY <1>b, <2>1, <2>2, <2>3 DEF TypeOK
  <1>2. (OpInv /\ AccessInv /\ ConnInv /\ ShutdownInv)'
    BY DEF OpInv, AccessInv, ConnInv, ShutdownInv
  <1>3. (PhaseInv /\ StopInv /\ CycleInv /\ FinalizeInv)'
    <2>1. (PhaseInv /\ StopInv /\ FinalizeInv)'
      BY DEF TypeOK, OpInv, AccessInv, ConnInv, PhaseInv, StopInv, CycleInv,
        FinalizeInv
    <2>2. CycleInv'
      BY <1>b DEF TypeOK, OpInv, AccessInv, ConnInv, PhaseInv, CycleInv
    <2>3. QED
      BY <2>1, <2>2
  <1>4. WaitInv'
    BY DEF TypeOK, OpInv, AccessInv, ConnInv, ShutdownInv, WaitInv, PhaseInv,
      StopInv, CycleInv, FinalizeInv
  <1>5. QED
    BY <1>1, <1>2, <1>3, <1>4

(* The unparkAll after a request is served.                                *)
LEMMA EndUnparkPreserves ==
  ASSUME IInv, NEW c \in Conductors, EndUnpark(c) PROVE IInv'
  <1> USE DEF IInv, EndUnpark
  <1>1. TypeOK'
    BY DEF TypeOK, MutatorPC, CollectorPC
  <1>2. (OpInv /\ AccessInv /\ ConnInv /\ ShutdownInv)'
    BY DEF OpInv, AccessInv, ConnInv, ShutdownInv
  <1>3. (PhaseInv /\ StopInv /\ CycleInv /\ FinalizeInv)'
    BY DEF PhaseInv, StopInv, CycleInv, FinalizeInv
  <1>4. WaitInv'
    BY DEF WaitInv
  <1>5. QED
    BY <1>1, <1>2, <1>3, <1>4

(* The conductor leaves a finalization to the mutator. The collector does  *)
(* so behind the stopped bit, so the mutator can only be where             *)
(* PendingFinalization says.                                               *)
LEMMA SetNeedFinalizePreserves ==
  ASSUME IInv, NEW c \in Conductors, SetNeedFinalize(c) PROVE IInv'
  <1> USE DEF IInv, SetNeedFinalize
  <1>1. TypeOK'
    BY DEF TypeOK, MutatorPC, CollectorPC, Bits
  <1>2. (OpInv /\ AccessInv /\ ConnInv /\ ShutdownInv)'
    BY DEF OpInv, AccessInv, ConnInv, ShutdownInv
  <1>3. (PhaseInv /\ StopInv /\ CycleInv /\ FinalizeInv)'
    BY DEF TypeOK, OpInv, AccessInv, ConnInv, PhaseInv, StopInv, CycleInv,
      FinalizeInv
  <1>4. WaitInv'
    BY DEF WaitInv
  <1>5. QED
    BY <1>1, <1>2, <1>3, <1>4

(* setNeedFinalize is over and the cycle ends.                             *)
LEMMA NeedFinalizeUnparkPreserves ==
  ASSUME IInv, NEW c \in Conductors, NeedFinalizeUnpark(c) PROVE IInv'
  <1> USE DEF IInv, NeedFinalizeUnpark
  <1>1. TypeOK'
    BY DEF TypeOK, MutatorPC, CollectorPC, Phases
  <1>2. (OpInv /\ AccessInv /\ ConnInv /\ ShutdownInv)'
    BY DEF OpInv, AccessInv, ConnInv, ShutdownInv
  <1>3. (PhaseInv /\ StopInv /\ CycleInv /\ FinalizeInv)'
    BY DEF TypeOK, OpInv, AccessInv, ConnInv, PhaseInv, StopInv, CycleInv,
      FinalizeInv
  <1>4. WaitInv'
    BY DEF WaitInv
  <1>5. QED
    BY <1>1, <1>2, <1>3, <1>4

(* A change of phase within a stopped, or within a running, world.         *)
LEMMA ChangeWithinWorldPreserves ==
  ASSUME IInv, NEW c \in Conductors, ChangeWithinWorld(c) PROVE IInv'
  <1> USE DEF IInv, ChangeWithinWorld, Changes
  <1>1. TypeOK'
    BY DEF TypeOK, MutatorPC, CollectorPC
  <1>2. (OpInv /\ AccessInv /\ ConnInv /\ ShutdownInv)'
    BY DEF OpInv, AccessInv, ConnInv, ShutdownInv
  <1>3. (PhaseInv /\ StopInv /\ CycleInv /\ FinalizeInv)'
    BY DEF PhaseInv, StopInv, CycleInv, FinalizeInv
  <1>4. WaitInv'
    BY DEF WaitInv
  <1>5. QED
    BY <1>1, <1>2, <1>3, <1>4

(* A change of phase that leaves the suspended phases begins.              *)
LEMMA ResumeThePeripheryPreserves ==
  ASSUME IInv, NEW c \in Conductors, ResumeThePeriphery(c) PROVE IInv'
  <1> USE DEF IInv, ResumeThePeriphery, Changes
  <1>1. TypeOK'
    <2>1. /\ pc' \in [Conductors -> MutatorPC \cup CollectorPC]
          /\ pc'[Mutator] \in MutatorPC /\ pc'[Collector] \in CollectorPC
      BY DEF TypeOK, OpInv, Bits, MutatorPC, CollectorPC, Ops, Phases,
        AnyScope
    <2>2. worldIsStopped' \in BOOLEAN
      BY Zenon
    <2>3. QED
      BY <2>1, <2>2 DEF TypeOK, OpInv, Bits, MutatorPC, CollectorPC, Ops,
        Phases, AnyScope
  <1>2. (OpInv /\ AccessInv /\ ConnInv /\ ShutdownInv)'
    BY DEF OpInv, AccessInv, ConnInv, ShutdownInv
  <1>3. (PhaseInv /\ StopInv /\ CycleInv /\ FinalizeInv)'
    BY DEF TypeOK, OpInv, AccessInv, ConnInv, PhaseInv, StopInv, CycleInv,
      FinalizeInv
  <1>4. WaitInv'
    BY DEF WaitInv
  <1>5. QED
    BY <1>1, <1>2, <1>3, <1>4

(* A change of phase that enters the suspended phases ends: the collector  *)
(* has set the stopped bit, or the mutator conducts.                       *)
LEMMA StopThePeripheryPreserves ==
  ASSUME IInv, NEW c \in Conductors, StopThePeriphery(c) PROVE IInv'
  <1> USE DEF IInv, StopThePeriphery
  <1>1. TypeOK'
    <2>1. /\ pc' \in [Conductors -> MutatorPC \cup CollectorPC]
          /\ pc'[Mutator] \in MutatorPC /\ pc'[Collector] \in CollectorPC
      BY DEF TypeOK, OpInv, Bits, MutatorPC, CollectorPC, Ops, Phases,
        AnyScope
    <2>2. worldIsStopped' \in BOOLEAN /\ mutatorDidRun' \in BOOLEAN
      BY Zenon
    <2>3. QED
      BY <2>1, <2>2 DEF TypeOK, OpInv, Bits, MutatorPC, CollectorPC, Ops,
        Phases, AnyScope
  <1>2. (OpInv /\ AccessInv /\ ConnInv /\ ShutdownInv)'
    BY DEF OpInv, AccessInv, ConnInv, ShutdownInv
  <1>3. (PhaseInv /\ StopInv /\ CycleInv /\ FinalizeInv)'
    BY DEF TypeOK, OpInv, AccessInv, ConnInv, PhaseInv, StopInv, CycleInv,
      FinalizeInv
  <1>4. WaitInv'
    BY DEF WaitInv
  <1>5. QED
    BY <1>1, <1>2, <1>3, <1>4

-----------------------------------------------------------------------------
(*                           The collector thread                          *)

(* The collector clears the stopped bit.                                   *)
LEMMA ResumeTheMutatorPreserves ==
  ASSUME IInv, ResumeTheMutator PROVE IInv'
  <1> USE DEF IInv, ResumeTheMutator
  <1>1. TypeOK'
    BY DEF TypeOK, MutatorPC, CollectorPC
  <1>2. (OpInv /\ AccessInv /\ ConnInv /\ ShutdownInv)'
    BY DEF OpInv, AccessInv, ConnInv, ShutdownInv
  <1>3. (PhaseInv /\ StopInv /\ CycleInv /\ FinalizeInv)'
    BY DEF TypeOK, OpInv, AccessInv, ConnInv, PhaseInv, StopInv, CycleInv,
      FinalizeInv
  <1>4. WaitInv'
    BY DEF WaitInv
  <1>5. QED
    BY <1>1, <1>2, <1>3, <1>4

(* The collector ends the change of phase it resumed the mutator for.      *)
LEMMA ResumeUnparkPreserves ==
  ASSUME IInv, ResumeUnpark PROVE IInv'
  <1> USE DEF IInv, ResumeUnpark, FinishPhaseChange
  <1>1. TypeOK'
    BY DEF TypeOK, MutatorPC, CollectorPC
  <1>2. (OpInv /\ AccessInv /\ ConnInv /\ ShutdownInv)'
    BY DEF OpInv, AccessInv, ConnInv, ShutdownInv
  <1>3. (PhaseInv /\ StopInv /\ CycleInv /\ FinalizeInv)'
    BY DEF TypeOK, OpInv, AccessInv, ConnInv, PhaseInv, StopInv, CycleInv,
      FinalizeInv
  <1>4. WaitInv'
    BY DEF WaitInv
  <1>5. QED
    BY <1>1, <1>2, <1>3, <1>4

(* The collector parks until the finalization is over.                     *)
LEMMA WaitWhileNeedFinalizePreserves ==
  ASSUME IInv, WaitWhileNeedFinalize PROVE IInv'
  <1> USE DEF IInv, WaitWhileNeedFinalize, Changes, FinalizedBeforeStop,
      ParkIf
  <1>1. TypeOK'
    BY DEF TypeOK, MutatorPC, CollectorPC
  <1>2. (OpInv /\ AccessInv /\ ConnInv /\ ShutdownInv)'
    BY DEF OpInv, AccessInv, ConnInv, ShutdownInv
  <1>3. (PhaseInv /\ StopInv /\ CycleInv /\ FinalizeInv)'
    BY DEF PhaseInv, StopInv, CycleInv, FinalizeInv
  <1>4. WaitInv'
    BY DEF WaitInv
  <1>5. QED
    BY <1>1, <1>2, <1>3, <1>4

(* The collector goes on to stop a mutator that has no finalization        *)
(* pending.                                                                *)
LEMMA NoNeedToWaitPreserves ==
  ASSUME IInv, NoNeedToWait PROVE IInv'
  <1> USE DEF IInv, NoNeedToWait, Changes, FinalizedBeforeStop
  <1>1. TypeOK'
    BY DEF TypeOK, MutatorPC, CollectorPC
  <1>2. (OpInv /\ AccessInv /\ ConnInv /\ ShutdownInv)'
    BY DEF OpInv, AccessInv, ConnInv, ShutdownInv
  <1>3. (PhaseInv /\ StopInv /\ CycleInv /\ FinalizeInv)'
    BY DEF PhaseInv, StopInv, CycleInv, FinalizeInv
  <1>4. WaitInv'
    BY DEF WaitInv
  <1>5. QED
    BY <1>1, <1>2, <1>3, <1>4

(* The collector stops a mutator that has no access.                       *)
LEMMA StopTheMutatorPreserves ==
  ASSUME IInv, StopTheMutator PROVE IInv'
  <1> USE DEF IInv, StopTheMutator, StoppedBits
  <1>1. TypeOK'
    BY DEF TypeOK, MutatorPC, CollectorPC, Bits
  <1>2. (OpInv /\ AccessInv /\ ConnInv /\ ShutdownInv)'
    BY DEF OpInv, AccessInv, ConnInv, ShutdownInv
  <1>3. (PhaseInv /\ StopInv /\ CycleInv /\ FinalizeInv)'
    BY DEF PhaseInv, StopInv, CycleInv, FinalizeInv
  <1>4. WaitInv'
    BY DEF WaitInv
  <1>5. QED
    BY <1>1, <1>2, <1>3, <1>4

(* The collector gives the conn to a mutator that has access, and ceases   *)
(* to conduct.                                                             *)
LEMMA HandOffConnPreserves ==
  ASSUME IInv, HandOffConn PROVE IInv'
  <1> USE DEF IInv, HandOffConn
  <1>1. TypeOK'
    BY DEF TypeOK, MutatorPC, CollectorPC, Bits
  <1>2. (OpInv /\ AccessInv /\ ConnInv /\ ShutdownInv)'
    BY DEF TypeOK, OpInv, AccessInv, ConnInv, ShutdownInv
  <1>3. (PhaseInv /\ StopInv /\ CycleInv /\ FinalizeInv)'
    BY DEF PhaseInv, StopInv, CycleInv, FinalizeInv
  <1>4. WaitInv'
    BY DEF TypeOK, OpInv, AccessInv, ConnInv, ShutdownInv, WaitInv, PhaseInv,
      StopInv, CycleInv, FinalizeInv
  <1>5. QED
    BY <1>1, <1>2, <1>3, <1>4

(* The collector leaves its loop after the hand-off.                       *)
LEMMA HandOffUnparkPreserves ==
  ASSUME IInv, HandOffUnpark PROVE IInv'
  <1> USE DEF IInv, HandOffUnpark, Finished
  <1>1. TypeOK'
    BY DEF TypeOK, MutatorPC, CollectorPC
  <1>2. (OpInv /\ AccessInv /\ ConnInv /\ ShutdownInv)'
    BY DEF OpInv, AccessInv, ConnInv, ShutdownInv
  <1>3. (PhaseInv /\ StopInv /\ CycleInv /\ FinalizeInv)'
    BY DEF PhaseInv, StopInv, CycleInv, FinalizeInv
  <1>4. WaitInv'
    BY DEF WaitInv
  <1>5. QED
    BY <1>1, <1>2, <1>3, <1>4

(* The collector thread stops for good.                                    *)
LEMMA PollStopPreserves ==
  ASSUME IInv, PollStop PROVE IInv'
  <1> USE DEF IInv, PollStop
  <1>1. TypeOK'
    <2>1. /\ pc' \in [Conductors -> MutatorPC \cup CollectorPC]
          /\ pc'[Mutator] \in MutatorPC /\ pc'[Collector] \in CollectorPC
      BY DEF TypeOK, OpInv, Bits, MutatorPC, CollectorPC, Ops, Phases,
        AnyScope
    <2>2. collectorThreadIsRunning' \in BOOLEAN
      BY Zenon
    <2>3. QED
      BY <2>1, <2>2 DEF TypeOK, OpInv, Bits, MutatorPC, CollectorPC, Ops,
        Phases, AnyScope
  <1>2. (OpInv /\ AccessInv /\ ConnInv /\ ShutdownInv)'
    BY DEF OpInv, AccessInv, ConnInv, ShutdownInv
  <1>3. (PhaseInv /\ StopInv /\ CycleInv /\ FinalizeInv)'
    BY DEF PhaseInv, StopInv, CycleInv, FinalizeInv
  <1>4. WaitInv'
    BY DEF WaitInv
  <1>5. QED
    BY <1>1, <1>2, <1>3, <1>4

(* The collector thread starts to conduct: the conn is not the mutator's.  *)
LEMMA PollWorkPreserves ==
  ASSUME IInv, PollWork PROVE IInv'
  <1> USE DEF IInv, PollWork, shouldCollectInCollectorThread
  <1>1. TypeOK'
    BY DEF TypeOK, MutatorPC, CollectorPC
  <1>2. (OpInv /\ AccessInv /\ ConnInv /\ ShutdownInv)'
    BY DEF OpInv, AccessInv, ConnInv, ShutdownInv
  <1>3. (PhaseInv /\ StopInv /\ CycleInv /\ FinalizeInv)'
    BY DEF ConnInv, PhaseInv, StopInv, CycleInv, FinalizeInv
  <1>4. WaitInv'
    BY DEF WaitInv
  <1>5. QED
    BY <1>1, <1>2, <1>3, <1>4

(* The collector thread has nothing to do.                                 *)
LEMMA PollWaitPreserves ==
  ASSUME IInv, PollWait PROVE IInv'
  <1> USE DEF IInv, PollWait, shouldCollectInCollectorThread
  <1>1. TypeOK'
    <2>1. /\ pc' \in [Conductors -> MutatorPC \cup CollectorPC]
          /\ pc'[Mutator] \in MutatorPC /\ pc'[Collector] \in CollectorPC
      BY DEF TypeOK, OpInv, Bits, MutatorPC, CollectorPC, Ops, Phases,
        AnyScope
    <2>2. collectorThreadIsRunning' \in BOOLEAN
      BY Zenon
    <2>3. QED
      BY <2>1, <2>2 DEF TypeOK, OpInv, Bits, MutatorPC, CollectorPC, Ops,
        Phases, AnyScope
  <1>2. (OpInv /\ AccessInv /\ ConnInv /\ ShutdownInv)'
    BY DEF OpInv, AccessInv, ConnInv, ShutdownInv
  <1>3. (PhaseInv /\ StopInv /\ CycleInv /\ FinalizeInv)'
    BY DEF PhaseInv, StopInv, CycleInv, FinalizeInv
  <1>4. WaitInv'
    BY DEF WaitInv
  <1>5. QED
    BY <1>1, <1>2, <1>3, <1>4

(* The collector thread goes away after a timeout.                         *)
LEMMA StopForTimeoutPreserves ==
  ASSUME IInv, StopForTimeout PROVE IInv'
  <1> USE DEF IInv, StopForTimeout
  <1>1. TypeOK'
    <2>1. /\ pc' \in [Conductors -> MutatorPC \cup CollectorPC]
          /\ pc'[Mutator] \in MutatorPC /\ pc'[Collector] \in CollectorPC
      BY DEF TypeOK, OpInv, Bits, MutatorPC, CollectorPC, Ops, Phases,
        AnyScope
    <2>2. collectorThreadIsRunning' \in BOOLEAN
      BY Zenon
    <2>3. QED
      BY <2>1, <2>2 DEF TypeOK, OpInv, Bits, MutatorPC, CollectorPC, Ops,
        Phases, AnyScope
  <1>2. (OpInv /\ AccessInv /\ ConnInv /\ ShutdownInv)'
    BY DEF OpInv, AccessInv, ConnInv, ShutdownInv
  <1>3. (PhaseInv /\ StopInv /\ CycleInv /\ FinalizeInv)'
    BY DEF PhaseInv, StopInv, CycleInv, FinalizeInv
  <1>4. WaitInv'
    BY DEF WaitInv
  <1>5. QED
    BY <1>1, <1>2, <1>3, <1>4

-----------------------------------------------------------------------------
(*                           The mutator's calls                           *)

(* The embedder, or the timer, calls acquireAccess.                        *)
LEMMA AcquireAccessPreserves ==
  ASSUME IInv, AcquireAccess PROVE IInv'
  <1> USE DEF IInv, AcquireAccess
  <1>1. TypeOK'
    BY DEF TypeOK, OpInv, Bits, MutatorPC, CollectorPC, Ops, Phases, AnyScope
  <1>2. (OpInv /\ AccessInv /\ ConnInv /\ ShutdownInv)'
    BY DEF TypeOK, OpInv, AccessInv, ConnInv, ShutdownInv
  <1>3. (PhaseInv /\ StopInv /\ CycleInv /\ FinalizeInv)'
    BY DEF PhaseInv, StopInv, CycleInv, FinalizeInv
  <1>4. WaitInv'
    BY DEF OpInv, WaitInv
  <1>5. QED
    BY <1>1, <1>2, <1>3, <1>4

(* An allocation slow path calls stopIfNecessary.                          *)
LEMMA StopIfNecessaryPreserves ==
  ASSUME IInv, StopIfNecessary PROVE IInv'
  <1> USE DEF IInv, StopIfNecessary
  <1>1. TypeOK'
    BY DEF TypeOK, OpInv, Bits, MutatorPC, CollectorPC, Ops, Phases, AnyScope
  <1>2. (OpInv /\ AccessInv /\ ConnInv /\ ShutdownInv)'
    BY DEF TypeOK, OpInv, AccessInv, ConnInv, ShutdownInv
  <1>3. (PhaseInv /\ StopInv /\ CycleInv /\ FinalizeInv)'
    BY DEF PhaseInv, StopInv, CycleInv, FinalizeInv
  <1>4. WaitInv'
    BY DEF OpInv, WaitInv
  <1>5. QED
    BY <1>1, <1>2, <1>3, <1>4

(* The timer calls stopIfNecessary.                                        *)
LEMMA TimerFiresPreserves ==
  ASSUME IInv, TimerFires PROVE IInv'
  <1> USE DEF IInv, TimerFires
  <1>1. TypeOK'
    <2>1. /\ pc' \in [Conductors -> MutatorPC \cup CollectorPC]
          /\ pc'[Mutator] \in MutatorPC /\ pc'[Collector] \in CollectorPC
      BY DEF TypeOK, OpInv, Bits, MutatorPC, CollectorPC, Ops, Phases,
        AnyScope
    <2>2. timer' \in BOOLEAN
      BY Zenon
    <2>3. QED
      BY <2>1, <2>2 DEF TypeOK, OpInv, Bits, MutatorPC, CollectorPC, Ops,
        Phases, AnyScope
  <1>2. (OpInv /\ AccessInv /\ ConnInv /\ ShutdownInv)'
    BY DEF TypeOK, OpInv, AccessInv, ConnInv, ShutdownInv
  <1>3. (PhaseInv /\ StopInv /\ CycleInv /\ FinalizeInv)'
    BY DEF PhaseInv, StopInv, CycleInv, FinalizeInv
  <1>4. WaitInv'
    BY DEF OpInv, WaitInv
  <1>5. QED
    BY <1>1, <1>2, <1>3, <1>4

(* releaseAccess is called.                                                *)
LEMMA ReleaseAccessPreserves ==
  ASSUME IInv, ReleaseAccess PROVE IInv'
  <1> USE DEF IInv, ReleaseAccess
  <1>1. TypeOK'
    BY DEF TypeOK, MutatorPC, CollectorPC
  <1>2. (OpInv /\ AccessInv /\ ConnInv /\ ShutdownInv)'
    BY DEF OpInv, AccessInv, ConnInv, ShutdownInv
  <1>3. (PhaseInv /\ StopInv /\ CycleInv /\ FinalizeInv)'
    BY DEF PhaseInv, StopInv, CycleInv, FinalizeInv
  <1>4. WaitInv'
    BY DEF WaitInv
  <1>5. QED
    BY <1>1, <1>2, <1>3, <1>4

(* The VM is ready for collections.                                        *)
LEMMA NotifyIsSafeToCollectPreserves ==
  ASSUME IInv, NotifyIsSafeToCollect PROVE IInv'
  <1> USE DEF IInv, NotifyIsSafeToCollect
  <1>1. TypeOK'
    BY DEF TypeOK, MutatorPC, CollectorPC
  <1>2. (OpInv /\ AccessInv /\ ConnInv /\ ShutdownInv)'
    BY DEF OpInv, AccessInv, ConnInv, ShutdownInv
  <1>3. (PhaseInv /\ StopInv /\ CycleInv /\ FinalizeInv)'
    BY DEF PhaseInv, StopInv, CycleInv, FinalizeInv
  <1>4. WaitInv'
    BY DEF WaitInv
  <1>5. QED
    BY <1>1, <1>2, <1>3, <1>4

(* collectAsync, up to its stopIfNecessary.                                *)
LEMMA CollectAsyncPreserves ==
  ASSUME IInv, CollectAsync PROVE IInv'
  <1> USE DEF IInv, CollectAsync, SubsumedBy
  <1>1. TypeOK'
    BY DEF TypeOK, OpInv, Bits, MutatorPC, CollectorPC, Ops, Phases, AnyScope
  <1>2. (OpInv /\ AccessInv /\ ConnInv /\ ShutdownInv)'
    BY DEF TypeOK, OpInv, AccessInv, ConnInv, ShutdownInv
  <1>3. (PhaseInv /\ StopInv /\ CycleInv /\ FinalizeInv)'
    BY DEF PhaseInv, StopInv, CycleInv, FinalizeInv
  <1>4. WaitInv'
    BY DEF OpInv, WaitInv
  <1>5. QED
    BY <1>1, <1>2, <1>3, <1>4

(* collectSync, up to its stopIfNecessary.                                 *)
LEMMA CollectSyncPreserves ==
  ASSUME IInv, CollectSync PROVE IInv'
  <1> USE DEF IInv, CollectSync
  <1>1. TypeOK'
    BY DEF TypeOK, OpInv, Bits, MutatorPC, CollectorPC, Ops, Phases, AnyScope
  <1>2. (OpInv /\ AccessInv /\ ConnInv /\ ShutdownInv)'
    BY DEF TypeOK, OpInv, AccessInv, ConnInv, ShutdownInv
  <1>3. (PhaseInv /\ StopInv /\ CycleInv /\ FinalizeInv)'
    BY DEF PhaseInv, StopInv, CycleInv, FinalizeInv
  <1>4. WaitInv'
    BY DEF OpInv, WaitInv
  <1>5. QED
    BY <1>1, <1>2, <1>3, <1>4

(* preventCollection starts to wait.                                       *)
LEMMA PreventCollectionPreserves ==
  ASSUME IInv, PreventCollection PROVE IInv'
  <1> USE DEF IInv, PreventCollection
  <1>1. TypeOK'
    BY DEF TypeOK, OpInv, Bits, MutatorPC, CollectorPC, Ops, Phases, AnyScope
  <1>2. (OpInv /\ AccessInv /\ ConnInv /\ ShutdownInv)'
    BY DEF TypeOK, OpInv, AccessInv, ConnInv, ShutdownInv
  <1>3. (PhaseInv /\ StopInv /\ CycleInv /\ FinalizeInv)'
    BY DEF PhaseInv, StopInv, CycleInv, FinalizeInv
  <1>4. WaitInv'
    BY DEF WaitInv
  <1>5. QED
    BY <1>1, <1>2, <1>3, <1>4

(* allowCollection.                                                        *)
LEMMA AllowCollectionPreserves ==
  ASSUME IInv, AllowCollection PROVE IInv'
  <1> USE DEF IInv, AllowCollection
  <1>1. TypeOK'
    BY DEF TypeOK, OpInv, Bits, MutatorPC, CollectorPC, Ops, Phases, AnyScope
  <1>2. (OpInv /\ AccessInv /\ ConnInv /\ ShutdownInv)'
    BY DEF TypeOK, OpInv, AccessInv, ConnInv, ShutdownInv
  <1>3. (PhaseInv /\ StopInv /\ CycleInv /\ FinalizeInv)'
    BY DEF PhaseInv, StopInv, CycleInv, FinalizeInv
  <1>4. WaitInv'
    BY DEF WaitInv
  <1>5. QED
    BY <1>1, <1>2, <1>3, <1>4

(* lastChanceToFinalize keeps new requests out and waits if one is         *)
(* pending.                                                                *)
LEMMA LastChanceToFinalizePreserves ==
  ASSUME IInv, LastChanceToFinalize PROVE IInv'
  <1> USE DEF IInv, LastChanceToFinalize
  <1>1. TypeOK'
    <2>1. /\ pc' \in [Conductors -> MutatorPC \cup CollectorPC]
          /\ pc'[Mutator] \in MutatorPC /\ pc'[Collector] \in CollectorPC
      BY DEF TypeOK, OpInv, Bits, MutatorPC, CollectorPC, Ops, Phases,
        AnyScope
    <2>2. isSafeToCollect' \in BOOLEAN /\ collectingContinuously' \in BOOLEAN
      BY Zenon
    <2>3. QED
      BY <2>1, <2>2 DEF TypeOK, OpInv, Bits, MutatorPC, CollectorPC, Ops,
        Phases, AnyScope
  <1>2. (OpInv /\ AccessInv /\ ConnInv /\ ShutdownInv)'
    BY DEF TypeOK, OpInv, AccessInv, ConnInv, ShutdownInv
  <1>3. (PhaseInv /\ StopInv /\ CycleInv /\ FinalizeInv)'
    BY DEF PhaseInv, StopInv, CycleInv, FinalizeInv
  <1>4. WaitInv'
    BY DEF TypeOK, OpInv, AccessInv, ConnInv, ShutdownInv, WaitInv, PhaseInv,
      StopInv, CycleInv, FinalizeInv
  <1>5. QED
    BY <1>1, <1>2, <1>3, <1>4

-----------------------------------------------------------------------------
(*                  The steps of the mutator's operations                  *)

(* The mutator leaves the loop in the Concurrent phase, which is not       *)
(* suspended.                                                              *)
LEMMA ConcurrentPollsPreserves ==
  ASSUME IInv, ConcurrentPolls PROVE IInv'
  <1> USE DEF IInv, ConcurrentPolls, Runs, Finished
  <1>1. TypeOK'
    <2>1. /\ pc' \in [Conductors -> MutatorPC \cup CollectorPC]
          /\ pc'[Mutator] \in MutatorPC /\ pc'[Collector] \in CollectorPC
      BY DEF TypeOK, OpInv, Bits, MutatorPC, CollectorPC, Ops, Phases,
        AnyScope
    <2>2. QED
      BY <2>1 DEF TypeOK
  <1>2. (OpInv /\ AccessInv /\ ConnInv /\ ShutdownInv)'
    BY DEF OpInv, AccessInv, ConnInv, ShutdownInv
  <1>3. (PhaseInv /\ StopInv /\ CycleInv /\ FinalizeInv)'
    BY DEF TypeOK, OpInv, AccessInv, ConnInv, PhaseInv, StopInv, CycleInv,
      FinalizeInv
  <1>4. WaitInv'
    BY DEF WaitInv
  <1>5. QED
    BY <1>1, <1>2, <1>3, <1>4

(* The mutator's finalization is over.                                     *)
LEMMA FinalizedPreserves ==
  ASSUME IInv, Finalized PROVE IInv'
  <1> USE DEF IInv, Finalized
  <1>1. TypeOK'
    BY DEF TypeOK, MutatorPC, CollectorPC
  <1>2. (OpInv /\ AccessInv /\ ConnInv /\ ShutdownInv)'
    BY DEF OpInv, AccessInv, ConnInv, ShutdownInv
  <1>3. (PhaseInv /\ StopInv /\ CycleInv /\ FinalizeInv)'
    BY DEF OpInv, ConnInv, PhaseInv, StopInv, CycleInv, FinalizeInv
  <1>4. WaitInv'
    BY DEF OpInv, WaitInv
  <1>5. QED
    BY <1>1, <1>2, <1>3, <1>4

(* The mutator takes the finalization as it resumes itself.                *)
LEMMA MutatorResumesFinalizePreserves ==
  ASSUME IInv, MutatorResumesFinalize PROVE IInv'
  <1> USE DEF IInv, MutatorResumesFinalize, TakeFinalize
  <1>1. TypeOK'
    BY DEF TypeOK, MutatorPC, CollectorPC
  <1>2. (OpInv /\ AccessInv /\ ConnInv /\ ShutdownInv)'
    BY DEF OpInv, AccessInv, ConnInv, ShutdownInv
  <1>3. (PhaseInv /\ StopInv /\ CycleInv /\ FinalizeInv)'
    BY DEF PhaseInv, StopInv, CycleInv, FinalizeInv
  <1>4. WaitInv'
    BY DEF WaitInv
  <1>5. QED
    BY <1>1, <1>2, <1>3, <1>4

(* The mutator, with nothing to finalize, resumes itself.                  *)
LEMMA MutatorResumesPreserves ==
  ASSUME IInv, MutatorResumes PROVE IInv'
  <1> USE DEF IInv, MutatorResumes, FinishPhaseChange, FinalizedBeforeResume
  <1>1. TypeOK'
    BY DEF TypeOK, MutatorPC, CollectorPC
  <1>2. (OpInv /\ AccessInv /\ ConnInv /\ ShutdownInv)'
    BY DEF OpInv, AccessInv, ConnInv, ShutdownInv
  <1>3. (PhaseInv /\ StopInv /\ CycleInv /\ FinalizeInv)'
    BY DEF TypeOK, OpInv, AccessInv, ConnInv, PhaseInv, StopInv, CycleInv,
      FinalizeInv
  <1>4. WaitInv'
    BY DEF WaitInv
  <1>5. QED
    BY <1>1, <1>2, <1>3, <1>4

(* The mutator, with nothing to finalize, stops itself.                    *)
LEMMA MutatorStopsPreserves ==
  ASSUME IInv, MutatorStops PROVE IInv'
  <1> USE DEF IInv, MutatorStops, Changes
  <1>1. TypeOK'
    BY DEF TypeOK, MutatorPC, CollectorPC
  <1>2. (OpInv /\ AccessInv /\ ConnInv /\ ShutdownInv)'
    BY DEF OpInv, AccessInv, ConnInv, ShutdownInv
  <1>3. (PhaseInv /\ StopInv /\ CycleInv /\ FinalizeInv)'
    BY DEF PhaseInv, StopInv, CycleInv, FinalizeInv
  <1>4. WaitInv'
    BY DEF WaitInv
  <1>5. QED
    BY <1>1, <1>2, <1>3, <1>4

(* acquireAccess on a clear state word.                                    *)
LEMMA AcquireFastPreserves ==
  ASSUME IInv, AcquireFast PROVE IInv'
  <1> USE DEF IInv, AcquireFast, AfterStop, OpAfterStop
  <1>1. TypeOK'
    BY DEF TypeOK, OpInv, Bits, MutatorPC, CollectorPC, Ops, Phases, AnyScope
  <1>2. (OpInv /\ AccessInv /\ ConnInv /\ ShutdownInv)'
    BY DEF TypeOK, OpInv, AccessInv, ConnInv, ShutdownInv
  <1>3. (PhaseInv /\ StopInv /\ CycleInv /\ FinalizeInv)'
    BY DEF OpInv, ConnInv, PhaseInv, StopInv, CycleInv, FinalizeInv
  <1>4. WaitInv'
    BY DEF OpInv, WaitInv
  <1>5. QED
    BY <1>1, <1>2, <1>3, <1>4

(* acquireAccess parks behind the stopped bit.                             *)
LEMMA AcquireParksPreserves ==
  ASSUME IInv, AcquireParks PROVE IInv'
  <1> USE DEF IInv, AcquireParks, ParkIf
  <1>1. TypeOK'
    BY DEF TypeOK, MutatorPC, CollectorPC
  <1>2. (OpInv /\ AccessInv /\ ConnInv /\ ShutdownInv)'
    BY DEF OpInv, AccessInv, ConnInv, ShutdownInv
  <1>3. (PhaseInv /\ StopInv /\ CycleInv /\ FinalizeInv)'
    BY DEF PhaseInv, StopInv, CycleInv, FinalizeInv
  <1>4. WaitInv'
    BY DEF WaitInv
  <1>5. QED
    BY <1>1, <1>2, <1>3, <1>4

(* acquireAccess finds the stopped bit clear.                              *)
LEMMA AcquireSlowPreserves ==
  ASSUME IInv, AcquireSlow PROVE IInv'
  <1> USE DEF IInv, AcquireSlow, MayAcquire
  <1>1. TypeOK'
    BY DEF TypeOK, MutatorPC, CollectorPC, Bits
  <1>2. (OpInv /\ AccessInv /\ ConnInv /\ ShutdownInv)'
    BY DEF TypeOK, OpInv, AccessInv, ConnInv, ShutdownInv
  <1>3. (PhaseInv /\ StopInv /\ CycleInv /\ FinalizeInv)'
    BY DEF PhaseInv, StopInv, CycleInv, FinalizeInv
  <1>4. WaitInv'
    BY DEF WaitInv
  <1>5. QED
    BY <1>1, <1>2, <1>3, <1>4

(* acquireAccess takes the finalization.                                   *)
LEMMA AcquireFinalizesPreserves ==
  ASSUME IInv, AcquireFinalizes PROVE IInv'
  <1> USE DEF IInv, AcquireFinalizes, TakeFinalize
  <1>1. TypeOK'
    BY DEF TypeOK, MutatorPC, CollectorPC
  <1>2. (OpInv /\ AccessInv /\ ConnInv /\ ShutdownInv)'
    BY DEF OpInv, AccessInv, ConnInv, ShutdownInv
  <1>3. (PhaseInv /\ StopInv /\ CycleInv /\ FinalizeInv)'
    BY DEF PhaseInv, StopInv, CycleInv, FinalizeInv
  <1>4. WaitInv'
    BY DEF WaitInv
  <1>5. QED
    BY <1>1, <1>2, <1>3, <1>4

(* acquireAccess goes on to stopIfNecessary.                               *)
LEMMA AcquireFinalizedPreserves ==
  ASSUME IInv, AcquireFinalized PROVE IInv'
  <1> USE DEF IInv, AcquireFinalized
  <1>1. TypeOK'
    BY DEF TypeOK, MutatorPC, CollectorPC
  <1>2. (OpInv /\ AccessInv /\ ConnInv /\ ShutdownInv)'
    BY DEF OpInv, AccessInv, ConnInv, ShutdownInv
  <1>3. (PhaseInv /\ StopInv /\ CycleInv /\ FinalizeInv)'
    BY DEF PhaseInv, StopInv, CycleInv, FinalizeInv
  <1>4. WaitInv'
    BY DEF WaitInv
  <1>5. QED
    BY <1>1, <1>2, <1>3, <1>4

(* stopIfNecessary with nothing to do.                                     *)
LEMMA NoNeedToStopPreserves ==
  ASSUME IInv, NoNeedToStop PROVE IInv'
  <1> USE DEF IInv, NoNeedToStop, AfterStop, OpAfterStop
  <1>1. TypeOK'
    BY DEF TypeOK, OpInv, Bits, MutatorPC, CollectorPC, Ops, Phases, AnyScope
  <1>2. (OpInv /\ AccessInv /\ ConnInv /\ ShutdownInv)'
    BY DEF TypeOK, OpInv, AccessInv, ConnInv, ShutdownInv
  <1>3. (PhaseInv /\ StopInv /\ CycleInv /\ FinalizeInv)'
    BY DEF OpInv, ConnInv, PhaseInv, StopInv, CycleInv, FinalizeInv
  <1>4. WaitInv'
    BY DEF OpInv, WaitInv
  <1>5. QED
    BY <1>1, <1>2, <1>3, <1>4

(* stopIfNecessary enters its slow path.                                   *)
LEMMA MayNeedToStopPreserves ==
  ASSUME IInv, MayNeedToStop PROVE IInv'
  <1> USE DEF IInv, MayNeedToStop
  <1>1. TypeOK'
    BY DEF TypeOK, MutatorPC, CollectorPC
  <1>2. (OpInv /\ AccessInv /\ ConnInv /\ ShutdownInv)'
    BY DEF OpInv, AccessInv, ConnInv, ShutdownInv
  <1>3. (PhaseInv /\ StopInv /\ CycleInv /\ FinalizeInv)'
    BY DEF PhaseInv, StopInv, CycleInv, FinalizeInv
  <1>4. WaitInv'
    BY DEF WaitInv
  <1>5. QED
    BY <1>1, <1>2, <1>3, <1>4

(* stopIfNecessarySlow conducts if the mutator has the conn.               *)
LEMMA StopLoadsPreserves ==
  ASSUME IInv, StopLoads PROVE IInv'
  <1> USE DEF IInv, StopLoads
  <1>1. TypeOK'
    BY DEF TypeOK, MutatorPC, CollectorPC
  <1>2. (OpInv /\ AccessInv /\ ConnInv /\ ShutdownInv)'
    BY DEF OpInv, AccessInv, ConnInv, ShutdownInv
  <1>3. (PhaseInv /\ StopInv /\ CycleInv /\ FinalizeInv)'
    BY DEF PhaseInv, StopInv, CycleInv, FinalizeInv
  <1>4. WaitInv'
    BY DEF OpInv, WaitInv
  <1>5. QED
    BY <1>1, <1>2, <1>3, <1>4

(* stopIfNecessarySlow returns.                                            *)
LEMMA StopReturnsPreserves ==
  ASSUME IInv, StopReturns PROVE IInv'
  <1> USE DEF IInv, StopReturns, AfterStop, OpAfterStop
  <1>1. TypeOK'
    BY DEF TypeOK, OpInv, Bits, MutatorPC, CollectorPC, Ops, Phases, AnyScope
  <1>2. (OpInv /\ AccessInv /\ ConnInv /\ ShutdownInv)'
    BY DEF TypeOK, OpInv, AccessInv, ConnInv, ShutdownInv
  <1>3. (PhaseInv /\ StopInv /\ CycleInv /\ FinalizeInv)'
    BY DEF OpInv, ConnInv, PhaseInv, StopInv, CycleInv, FinalizeInv
  <1>4. WaitInv'
    BY DEF OpInv, WaitInv
  <1>5. QED
    BY <1>1, <1>2, <1>3, <1>4

(* releaseAccess gives up access and the conn with it. The phase is not    *)
(* suspended, for a mutator at this point does not conduct.                *)
LEMMA ReleasedPreserves ==
  ASSUME IInv, Released PROVE IInv'
  <1> USE DEF IInv, Released, StopOnRelease
  <1>1. TypeOK'
    BY DEF TypeOK, MutatorPC, CollectorPC, Bits
  <1>2. (OpInv /\ AccessInv /\ ConnInv /\ ShutdownInv)'
    BY DEF TypeOK, OpInv, AccessInv, ConnInv, ShutdownInv
  <1>3. (PhaseInv /\ StopInv /\ CycleInv /\ FinalizeInv)'
    BY DEF PhaseInv, StopInv, CycleInv, FinalizeInv
  <1>4. WaitInv'
    BY DEF WaitInv
  <1>5. QED
    BY <1>1, <1>2, <1>3, <1>4

(* finishRelinquishingConn awakes or starts the collector thread.          *)
LEMMA FinishRelinquishingConnPreserves ==
  ASSUME IInv, FinishRelinquishingConn PROVE IInv'
  <1> USE DEF IInv, FinishRelinquishingConn, RelinquishNotifies, NotifyOne
  <1>1. TypeOK'
    BY DEF TypeOK, MutatorPC, CollectorPC
  <1>2. (OpInv /\ AccessInv /\ ConnInv /\ ShutdownInv)'
    BY DEF TypeOK, OpInv, AccessInv, ConnInv, ShutdownInv
  <1>3. (PhaseInv /\ StopInv /\ CycleInv /\ FinalizeInv)'
    BY DEF TypeOK, OpInv, AccessInv, ConnInv, PhaseInv, StopInv, CycleInv,
      FinalizeInv
  <1>4. WaitInv'
    BY DEF TypeOK, OpInv, AccessInv, ConnInv, ShutdownInv, WaitInv, PhaseInv,
      StopInv, CycleInv, FinalizeInv
  <1>5. QED
    BY <1>1, <1>2, <1>3, <1>4

(* requestCollection. The conn is stolen only while the collector thread   *)
(* is not running, hence not conducting.                                   *)
LEMMA RequestCollectionPreserves ==
  ASSUME IInv, RequestCollection PROVE IInv'
  <1> USE DEF IInv, RequestCollection, NotifyOne, MayStealConn
  <1>1. TypeOK'
    <2>1. /\ pc' \in [Conductors -> MutatorPC \cup CollectorPC]
          /\ pc'[Mutator] \in MutatorPC /\ pc'[Collector] \in CollectorPC
      BY DEF TypeOK, OpInv, Bits, MutatorPC, CollectorPC, Ops, Phases,
        AnyScope
    <2>2. requests' \in Seq(Scopes \cup {AnyScope})
      BY DEF TypeOK
    <2>3. granted' \in 0..MaxTickets /\ ticket' \in Nat
      BY DEF TypeOK, ShutdownInv, OpInv
    <2>4. world' \subseteq Bits /\ op' \in Ops
      BY DEF TypeOK, Bits, Ops
    <2>5. QED
      BY <2>1, <2>2, <2>3, <2>4 DEF TypeOK
  <1>2. (OpInv /\ AccessInv /\ ConnInv /\ ShutdownInv)'
    BY DEF TypeOK, OpInv, AccessInv, ConnInv, ShutdownInv
  <1>3. (PhaseInv /\ StopInv /\ CycleInv /\ FinalizeInv)'
    BY DEF TypeOK, OpInv, AccessInv, ConnInv, PhaseInv, StopInv, CycleInv,
      FinalizeInv
  <1>4. WaitInv'
    BY DEF TypeOK, OpInv, AccessInv, ConnInv, ShutdownInv, WaitInv, PhaseInv,
      StopInv, CycleInv, FinalizeInv
  <1>5. QED
    BY <1>1, <1>2, <1>3, <1>4

(* An iteration of waitForCollector asks whether the wait is over.         *)
LEMMA WaitTopPreserves ==
  ASSUME IInv, WaitTop PROVE IInv'
  <1> USE DEF IInv, WaitTop
  <1>1. TypeOK'
    <2>1. /\ pc' \in [Conductors -> MutatorPC \cup CollectorPC]
          /\ pc'[Mutator] \in MutatorPC /\ pc'[Collector] \in CollectorPC
      BY DEF TypeOK, OpInv, Bits, MutatorPC, CollectorPC, Ops, Phases,
        AnyScope
    <2>2. CollectorDone \in BOOLEAN
      <3>1. (served >= ticket) \in BOOLEAN /\ (served = granted) \in BOOLEAN
        BY DEF TypeOK
      <3>2. QED
        BY <3>1, Zenon
    <2>3. done' \in BOOLEAN
      BY <2>2
    <2>4. world' \subseteq Bits
      BY DEF TypeOK, Bits
    <2>5. QED
      BY <2>1, <2>3, <2>4 DEF TypeOK
  <1>2. (OpInv /\ AccessInv /\ ConnInv /\ ShutdownInv)'
    BY DEF OpInv, AccessInv, ConnInv, ShutdownInv
  <1>3. (PhaseInv /\ StopInv /\ CycleInv /\ FinalizeInv)'
    BY DEF PhaseInv, StopInv, CycleInv, FinalizeInv
  <1>4. WaitInv'
    BY DEF TypeOK, OpInv, AccessInv, ConnInv, ShutdownInv, WaitInv, PhaseInv,
      StopInv, CycleInv, FinalizeInv
  <1>5. QED
    BY <1>1, <1>2, <1>3, <1>4

(* waitForCollector conducts if the mutator has the conn.                  *)
LEMMA WaitStopPreserves ==
  ASSUME IInv, WaitStop PROVE IInv'
  <1> USE DEF IInv, WaitStop
  <1>1. TypeOK'
    BY DEF TypeOK, MutatorPC, CollectorPC
  <1>2. (OpInv /\ AccessInv /\ ConnInv /\ ShutdownInv)'
    BY DEF OpInv, AccessInv, ConnInv, ShutdownInv
  <1>3. (PhaseInv /\ StopInv /\ CycleInv /\ FinalizeInv)'
    BY DEF PhaseInv, StopInv, CycleInv, FinalizeInv
  <1>4. WaitInv'
    BY DEF WaitInv
  <1>5. QED
    BY <1>1, <1>2, <1>3, <1>4

(* The waiting mutator gives the conn back.                                *)
LEMMA RelinquishConnPreserves ==
  ASSUME IInv, RelinquishConn PROVE IInv'
  <1> USE DEF IInv, RelinquishConn, NothingToRelinquish
  <1>1. TypeOK'
    BY DEF TypeOK, MutatorPC, CollectorPC
  <1>2. (OpInv /\ AccessInv /\ ConnInv /\ ShutdownInv)'
    BY DEF OpInv, AccessInv, ConnInv, ShutdownInv
  <1>3. (PhaseInv /\ StopInv /\ CycleInv /\ FinalizeInv)'
    BY DEF PhaseInv, StopInv, CycleInv, FinalizeInv
  <1>4. WaitInv'
    BY DEF WaitInv
  <1>5. QED
    BY <1>1, <1>2, <1>3, <1>4

(* waitForCollector returns: what it waited for still holds.               *)
LEMMA WaitReturnsPreserves ==
  ASSUME IInv, WaitReturns PROVE IInv'
  <1> USE DEF IInv, WaitReturns, NothingToRelinquish
  <1>1. TypeOK'
    BY DEF TypeOK, OpInv, Bits, MutatorPC, CollectorPC, Ops, Phases, AnyScope
  <1>2. (OpInv /\ AccessInv /\ ConnInv /\ ShutdownInv)'
    BY DEF TypeOK, OpInv, AccessInv, ConnInv, ShutdownInv
  <1>3. (PhaseInv /\ StopInv /\ CycleInv /\ FinalizeInv)'
    BY DEF OpInv, ConnInv, PhaseInv, StopInv, CycleInv, FinalizeInv
  <1>4. WaitInv'
    BY DEF TypeOK, OpInv, AccessInv, ConnInv, ShutdownInv, WaitInv, PhaseInv,
      StopInv, CycleInv, FinalizeInv
  <1>5. QED
    BY <1>1, <1>2, <1>3, <1>4

(* waitForCollector is about to park.                                      *)
LEMMA GoParkPreserves ==
  ASSUME IInv, GoPark PROVE IInv'
  <1> USE DEF IInv, GoPark, NothingToRelinquish
  <1>1. TypeOK'
    BY DEF TypeOK, MutatorPC, CollectorPC
  <1>2. (OpInv /\ AccessInv /\ ConnInv /\ ShutdownInv)'
    BY DEF OpInv, AccessInv, ConnInv, ShutdownInv
  <1>3. (PhaseInv /\ StopInv /\ CycleInv /\ FinalizeInv)'
    BY DEF PhaseInv, StopInv, CycleInv, FinalizeInv
  <1>4. WaitInv'
    BY DEF WaitInv
  <1>5. QED
    BY <1>1, <1>2, <1>3, <1>4

(* waitForCollector parks, unless the state word has changed.              *)
LEMMA ParkPreserves ==
  ASSUME IInv, Park PROVE IInv'
  <1> USE DEF IInv, Park, ParkIf, ParkValue
  <1>1. TypeOK'
    BY DEF TypeOK, MutatorPC, CollectorPC
  <1>2. (OpInv /\ AccessInv /\ ConnInv /\ ShutdownInv)'
    BY DEF OpInv, AccessInv, ConnInv, ShutdownInv
  <1>3. (PhaseInv /\ StopInv /\ CycleInv /\ FinalizeInv)'
    BY DEF PhaseInv, StopInv, CycleInv, FinalizeInv
  <1>4. WaitInv'
    BY DEF WaitInv
  <1>5. QED
    BY <1>1, <1>2, <1>3, <1>4

(* The collector thread is told to stop.                                   *)
LEMMA BringDownPreserves ==
  ASSUME IInv, BringDown PROVE IInv'
  <1> USE DEF IInv, BringDown, NotifyOne, TryStop
  <1>1. TypeOK'
    BY DEF TypeOK, MutatorPC, CollectorPC
  <1>2. (OpInv /\ AccessInv /\ ConnInv /\ ShutdownInv)'
    BY DEF TypeOK, OpInv, AccessInv, ConnInv, ShutdownInv
  <1>3. (PhaseInv /\ StopInv /\ CycleInv /\ FinalizeInv)'
    BY DEF TypeOK, OpInv, AccessInv, ConnInv, PhaseInv, StopInv, CycleInv,
      FinalizeInv
  <1>4. WaitInv'
    BY DEF TypeOK, OpInv, AccessInv, ConnInv, ShutdownInv, WaitInv, PhaseInv,
      StopInv, CycleInv, FinalizeInv
  <1>5. QED
    BY <1>1, <1>2, <1>3, <1>4

(* The collector thread has been joined.                                   *)
LEMMA JoinPreserves ==
  ASSUME IInv, Join PROVE IInv'
  <1> USE DEF IInv, Join
  <1>1. TypeOK'
    BY DEF TypeOK, MutatorPC, CollectorPC
  <1>2. (OpInv /\ AccessInv /\ ConnInv /\ ShutdownInv)'
    BY DEF OpInv, AccessInv, ConnInv, ShutdownInv
  <1>3. (PhaseInv /\ StopInv /\ CycleInv /\ FinalizeInv)'
    BY DEF PhaseInv, StopInv, CycleInv, FinalizeInv
  <1>4. WaitInv'
    BY DEF WaitInv
  <1>5. QED
    BY <1>1, <1>2, <1>3, <1>4

-----------------------------------------------------------------------------
(*                         The continuous GC thread                        *)

(* The continuous GC thread asks for a collection. It is kept out while    *)
(* collections are prevented, and gone in a shutdown.                      *)
LEMMA ContinuousRequestPreserves ==
  ASSUME IInv, ContinuousRequest PROVE IInv'
  <1> USE DEF IInv, ContinuousRequest, NotifyOne
  <1>1. TypeOK'
    BY DEF TypeOK, MutatorPC, CollectorPC
  <1>2. (OpInv /\ AccessInv /\ ConnInv /\ ShutdownInv)'
    BY DEF OpInv, AccessInv, ConnInv, ShutdownInv
  <1>3. (PhaseInv /\ StopInv /\ CycleInv /\ FinalizeInv)'
    BY DEF TypeOK, OpInv, AccessInv, ConnInv, PhaseInv, StopInv, CycleInv,
      FinalizeInv
  <1>4. WaitInv'
    BY DEF TypeOK, OpInv, AccessInv, ConnInv, ShutdownInv, WaitInv, PhaseInv,
      StopInv, CycleInv, FinalizeInv
  <1>5. QED
    BY <1>1, <1>2, <1>3, <1>4

-----------------------------------------------------------------------------
(*                  The invariant and what follows from it                 *)

(* Every step, of either thread, preserves the invariant. *)
LEMMA NextPreserves == ASSUME IInv, [Next]_vars PROVE IInv'
  <1>1. ASSUME NEW c \in Conductors, PhaseNext(c) PROVE IInv'
    BY <1>1, NotRunningPhaseIdlePreserves, NotRunningPhasePreserves,
      BeginPhasePreserves, FixpointConvergesPreserves,
      FixpointResumesPreserves, ConcurrentStopsPreserves,
      ReloopPhasePreserves, EndPhasePreserves, EndUnparkPreserves,
      SetNeedFinalizePreserves, NeedFinalizeUnparkPreserves,
      ChangeWithinWorldPreserves, ResumeThePeripheryPreserves,
      StopThePeripheryPreserves DEF PhaseNext
  <1>2. CASE CollectorNext
    BY <1>1, <1>2, ResumeTheMutatorPreserves, ResumeUnparkPreserves,
      WaitWhileNeedFinalizePreserves, NoNeedToWaitPreserves,
      StopTheMutatorPreserves, HandOffConnPreserves, HandOffUnparkPreserves,
      PollStopPreserves, PollWorkPreserves, PollWaitPreserves,
      StopForTimeoutPreserves DEF CollectorNext
  <1>3. CASE MutatorCalls
    BY <1>3, AcquireAccessPreserves, StopIfNecessaryPreserves,
      TimerFiresPreserves, ReleaseAccessPreserves,
      NotifyIsSafeToCollectPreserves, CollectAsyncPreserves,
      CollectSyncPreserves, PreventCollectionPreserves,
      AllowCollectionPreserves, LastChanceToFinalizePreserves DEF
      MutatorCalls
  <1>4. CASE MutatorSteps
    BY <1>1, <1>4, ConcurrentPollsPreserves, FinalizedPreserves,
      MutatorResumesFinalizePreserves, MutatorResumesPreserves,
      MutatorStopsPreserves, AcquireFastPreserves, AcquireParksPreserves,
      AcquireSlowPreserves, AcquireFinalizesPreserves,
      AcquireFinalizedPreserves, NoNeedToStopPreserves,
      MayNeedToStopPreserves, StopLoadsPreserves, StopReturnsPreserves,
      ReleasedPreserves, FinishRelinquishingConnPreserves,
      RequestCollectionPreserves, WaitTopPreserves, WaitStopPreserves,
      RelinquishConnPreserves, WaitReturnsPreserves, GoParkPreserves,
      ParkPreserves, BringDownPreserves, JoinPreserves DEF MutatorSteps
  <1>5. CASE ContinuousRequest
    BY <1>5, ContinuousRequestPreserves
  <1>6. CASE UNCHANGED vars
    <2>1. TypeOK'
      BY <1>6 DEF vars, IInv, TypeOK
    <2>2. (OpInv /\ AccessInv /\ ConnInv /\ ShutdownInv)'
      BY <1>6 DEF vars, IInv, OpInv, AccessInv, ConnInv, ShutdownInv
    <2>3. (PhaseInv /\ StopInv /\ CycleInv /\ FinalizeInv)'
      BY <1>6 DEF vars, IInv, PhaseInv, StopInv, CycleInv, FinalizeInv
    <2>4. WaitInv'
      BY <1>6 DEF vars, IInv, WaitInv
    <2>5. QED
      BY <2>1, <2>2, <2>3, <2>4 DEF IInv
  <1>7. QED
    BY <1>2, <1>3, <1>4, <1>5, <1>6 DEF Next, Terminated

(* The invariant holds in every reachable state. *)
THEOREM Invariance == Spec => []IInv
  BY InitIInv, NextPreserves, PTL DEF Spec

(* The variables have their types: no bit other than the five is ever set  *)
(* in m_worldState, a ticket is never granted beyond the bound, and the    *)
(* continuation of stopIfNecessary and of waitForCollector is always       *)
(* defined.                                                                *)
THEOREM TypeCorrect == Spec => []TypeOK
  <1>1. IInv => TypeOK
    BY DEF IInv
  <1>2. QED
    BY <1>1, Invariance, PTL

(* checkConn never fails: a thread conducts only with the conn, so the two *)
(* threads never conduct at once.                                          *)
THEOREM ConductorHasConn == Spec => []ConnDiscipline
  <1>1. IInv => ConnDiscipline
    BY DEF IInv, OpInv, AccessInv, ConnInv, ConnDiscipline
  <1>2. QED
    BY <1>1, Invariance, PTL

(* While m_worldIsStopped, the mutator is conducting or the stopped bit    *)
(* keeps it out of the heap.                                               *)
THEOREM StoppedWorld == Spec => []StoppedWorldHasNoMutator
  <1>1. IInv => StoppedWorldHasNoMutator
    BY DEF IInv, OpInv, AccessInv, ConnInv, PhaseInv, StopInv,
      StoppedWorldHasNoMutator
  <1>2. QED
    BY <1>1, Invariance, PTL

(* A collection begins only once the previous one is finalized, and        *)
(* finalize never runs in a stopped world.                                 *)
THEOREM FinalizedFirst == Spec => []FinalizedBeforeNextCycle
  <1>1. IInv => FinalizedBeforeNextCycle
    BY DEF IInv, OpInv, AccessInv, ConnInv, PhaseInv, StopInv, FinalizeInv,
      FinalizedBeforeNextCycle
  <1>2. QED
    BY <1>1, Invariance, PTL

(* A pending finalization is only ever found by acquireAccess and by a     *)
(* mutator that resumes itself.                                            *)
THEOREM FinalizationFound == Spec => []PendingFinalization
  <1>1. IInv => PendingFinalization
    BY DEF IInv, FinalizeInv
  <1>2. QED
    BY <1>1, Invariance, PTL

(* No RELEASE_ASSERT of the protocol fails. *)
THEOREM Assertions == Spec => []AssertionsHold
  <1>1. IInv => AssertionsHold
    BY DEF IInv, TypeOK, OpInv, AccessInv, ConnInv, PhaseInv, StopInv,
      CycleInv, WaitInv, ShutdownInv, AssertionsHold, NeedsAccess
  <1>2. QED
    BY <1>1, Invariance, PTL

(* From the return of preventCollection to allowCollection no collection   *)
(* is under way or asked for.                                              *)
THEOREM Prevented == Spec => []NoCollectionWhilePrevented
  <1>1. IInv => NoCollectionWhilePrevented
    BY DEF IInv, TypeOK, OpInv, AccessInv, ConnInv, PhaseInv, StopInv,
      CycleInv, WaitInv, NoCollectionWhilePrevented
  <1>2. QED
    BY <1>1, Invariance, PTL

(* collectSync returns only once the collection it asked for is served.    *)
(* The only step that ends a "sync" operation is the return of             *)
(* waitForCollector, where what the wait found out still holds.            *)
THEOREM SyncCollected == Spec => SyncMeansCollected
  <1>1. ASSUME IInv, Next, op = "sync", op' # "sync" PROVE served >= ticket
    <2>1. ASSUME NEW c \in Conductors PROVE ~PhaseNext(c)
      BY <1>1 DEF PhaseNext, NotRunningPhaseIdle, NotRunningPhase,
        BeginPhase, FixpointConverges, FixpointResumes, ConcurrentStops,
        ReloopPhase, EndPhase, EndUnpark, SetNeedFinalize,
        NeedFinalizeUnpark, ChangeWithinWorld, ResumeThePeriphery,
        StopThePeriphery, ChangePhase
    <2>2. ~CollectorNext
      BY <1>1, <2>1 DEF CollectorNext, ResumeTheMutator, ResumeUnpark,
        WaitWhileNeedFinalize, NoNeedToWait, StopTheMutator, HandOffConn,
        HandOffUnpark, PollStop, PollWork, PollWait, StopForTimeout,
        FinishPhaseChange
    <2>3. ~MutatorCalls
      BY <1>1 DEF MutatorCalls, AcquireAccess, StopIfNecessary, TimerFires,
        ReleaseAccess, NotifyIsSafeToCollect, CollectAsync, CollectSync,
        PreventCollection, AllowCollection, LastChanceToFinalize, IInv, OpInv
    <2>4. ~ContinuousRequest /\ ~Terminated
      BY <1>1 DEF ContinuousRequest, Terminated, vars
    <2>5. MutatorSteps
      BY <1>1, <2>2, <2>3, <2>4 DEF Next
    <2>6. WaitReturns
      BY <1>1, <2>1, <2>5 DEF MutatorSteps, ConcurrentPolls, Finalized,
        MutatorResumesFinalize, MutatorResumes, MutatorStops, AcquireFast,
        AcquireParks, AcquireSlow, AcquireFinalizes, AcquireFinalized,
        NoNeedToStop, MayNeedToStop, StopLoads, StopReturns, Released,
        FinishRelinquishingConn, RequestCollection, WaitTop, WaitStop,
        RelinquishConn, GoPark, Park, BringDown, Join, TakeFinalize,
        FinishPhaseChange, IInv, OpInv
    <2>7. QED
      BY <1>1, <2>6 DEF WaitReturns, IInv, TypeOK, WaitInv
  <1>2. IInv /\ [Next]_vars => (op = "sync" /\ op' # "sync" => served >= ticket)
    BY <1>1 DEF vars
  <1>3. QED
    BY <1>2, Invariance, PTL DEF Spec, SyncMeansCollected

=============================================================================
