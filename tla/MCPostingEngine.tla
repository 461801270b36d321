--------------------------- MODULE MCPostingEngine ---------------------------
(* Instances of PostingEngine for TLC: two versions of one pack that take     *)
(* effect on the same day.                                                    *)
EXTENDS PostingEngine, TLC

SameDay == [v \in Versions |-> 1]

Symmetry ==
  Permutations(Requests) \cup Permutations(Versions)
=============================================================================
