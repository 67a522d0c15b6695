----------------------------- MODULE Selection -----------------------------
(***************************************************************************)
(* What a loop that goes through a list once and keeps some of its         *)
(* elements leaves of it, as Bucket::genericDequeue and                    *)
(* Vector::removeAllMatching do.  A set says which elements stay, so that, *)
(* unlike SelectSeq and its test operator, the definition can be reasoned  *)
(* about by the provers.                                                   *)
(***************************************************************************)
EXTENDS Naturals, Sequences

(* The elements of s that are in S, in their order. *)
Selected(s, S) ==
    LET upTo[i \in 0..Len(s)] ==
            IF i = 0 THEN <<>>
            ELSE IF s[i] \in S THEN Append(upTo[i - 1], s[i]) ELSE upTo[i - 1]
    IN upTo[Len(s)]
=============================================================================
