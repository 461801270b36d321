---------------------------- MODULE MCJournalDesk ----------------------------
(* A template that reverses itself, generated for the second of three periods,    *)
(* and drafts typed in for it; drafts for both sides of a race and a reversal,    *)
(* and two requests at once.                                                     *)
EXTENDS JournalDesk, TLC

CONSTANT t1

InPeriodTwo == {[period |-> 2, amount |-> 1, reverses |-> 0]}

ForPeriodTwo == {<<t1, 2>>}

Symmetry == Permutations(Drafts) \cup Permutations(Desks)
=============================================================================
