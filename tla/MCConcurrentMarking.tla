------------------------ MODULE MCConcurrentMarking ------------------------
(* ConcurrentMarking for TLC: the cells but the root are alike, and so are *)
(* the visitors.                                                           *)
EXTENDS ConcurrentMarking, TLC

Symmetry == Permutations(Cells \ {Root}) \cup Permutations(Visitors)
=============================================================================
