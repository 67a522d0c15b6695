------------------------- MODULE MCParallelMarking -------------------------
(* Parallel marking for TLC: a root with two children, with the same       *)
(* outgrowth.                                                              *)
EXTENDS ParallelMarking, TLC

CONSTANTS r, a, b, o

ChildrenOf == (r :> {a, b}) @@ (a :> {}) @@ (b :> {}) @@ (o :> {})

OutgrowthOf == (r :> {}) @@ (a :> {o}) @@ (b :> {o}) @@ (o :> {})
=============================================================================
