-------------------------- MODULE MCPostingLedger --------------------------
(* Instances of PostingLedger for TLC: two keys whose journals touch the     *)
(* same two accounts in opposite order.                                      *)
EXTENDS PostingLedger, TLC

CONSTANTS k1, k2, cash, sales

TwoLines ==
  (k1 :> <<[account |-> cash, net |-> 1], [account |-> sales, net |-> -1]>>) @@
  (k2 :> <<[account |-> sales, net |-> 2], [account |-> cash, net |-> -2]>>)

EveryKey == [po \in Posters |-> Keys]

CONSTANTS po1, po2

SharedAndOwn == (po1 :> {k1}) @@ (po2 :> {k1, k2})

PosterSymmetry == Permutations(Posters)
=============================================================================
