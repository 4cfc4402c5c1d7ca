------------------------------ MODULE Prefixes ------------------------------
(***************************************************************************)
(* What a loop over a sequence has gathered after its first i elements: a  *)
(* sum, or the elements that pass a filter.  These are functions of i, and *)
(* not folds or SelectSeq, for the proofs to follow the loop step by step. *)
(***************************************************************************)
EXTENDS Integers, Sequences

Sums(s) ==
    LET sum[i \in 0..Len(s)] == IF i = 0 THEN 0 ELSE sum[i - 1] + s[i]
    IN  sum

Filters(s, T) ==
    LET kept[i \in 0..Len(s)] ==
          IF i = 0 THEN <<>>
          ELSE IF s[i] \in T THEN Append(kept[i - 1], s[i]) ELSE kept[i - 1]
    IN  kept

Filter(s, T) == Filters(s, T)[Len(s)]
=============================================================================
