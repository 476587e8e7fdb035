---------------------------- MODULE Arrangement -----------------------------
(***************************************************************************)
(* What the services do to lists, as a choice of positions: filtering,     *)
(* deduplication, sorting and slicing.                                     *)
(***************************************************************************)
EXTENDS Naturals, Sequences, FiniteSets

(* The elements of a finite set, first to last, in a strict total order    *)
(* given as a set of pairs.                                                *)
Ordered(S, before) ==
    [i \in 1..Cardinality(S) |->
        CHOOSE x \in S : Cardinality({y \in S : <<y, x>> \in before}) = i - 1]

(* What a sequence has at some of its positions: in a given order of them, *)
(* or as they come.                                                        *)
Arranged(seq, positions, before) ==
    LET order == Ordered(positions, before)
    IN  [i \in 1..Cardinality(positions) |-> seq[order[i]]]
Picked(seq, positions) ==
    Arranged(seq, positions, {p \in positions \X positions : p[1] < p[2]})

(* list[:n]                                                                *)
Truncated(seq, n) == IF Len(seq) > n THEN SubSeq(seq, 1, n) ELSE seq
=============================================================================
