--------------------------- MODULE HeapExecution ---------------------------
(***************************************************************************)
(* HeapHandshake with a history of whether the mutator has run: it checks  *)
(* that stopThePeriphery, which counts m_mutatorExecutionVersion, learns   *)
(* of it. DOMGCOutputConstraint skips its cells while the count stands     *)
(* still.                                                                  *)
(***************************************************************************)
EXTENDS HeapHandshake

VARIABLE ran   \* the mutator has run code since the periphery last stopped

executionVars == <<vars, ran>>

ExecutionInit == Init /\ ran = FALSE

ExecutionNext ==
  /\ Next
  /\ ran' = (pc'[Mutator] = "running" \/ (ran /\ ~(~worldIsStopped /\ worldIsStopped')))

ExecutionSpec == ExecutionInit /\ [][ExecutionNext]_executionVars

(* runFixpointPhase reads m_mutatorDidRun as "the mutator did run": when   *)
(* the world is about to stop after the mutator has run, the flag says so. *)
(* It does not: acquireAccess sets it on its slow path only, so a mutator  *)
(* that comes and goes by the fast paths during a concurrent phase is not  *)
(* noticed.                                                                *)
ExecutionIsNoticed ==
  \A c \in Conductors : pc[c] = "stopThePeriphery" /\ ran => mutatorDidRun

=============================================================================
