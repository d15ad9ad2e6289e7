----------------------------- MODULE Selections -----------------------------
(***************************************************************************)
(* Filtering a sequence by a set.  SelectSeq(s, LAMBDA e : e \in S) is the *)
(* same, but its test is an operator, about which no lemma can be stated   *)
(* that a proof could use; SelectionsProofs has the lemmas about Those.    *)
(***************************************************************************)
EXTENDS Integers, Sequences

\* The elements of s that are in S, in their order.
Those(s, S) ==
    LET those[n \in 0 .. Len(s)] ==
            IF n = 0 THEN <<>>
            ELSE IF s[n] \in S THEN Append(those[n - 1], s[n]) ELSE those[n - 1]
    IN those[Len(s)]
=============================================================================
