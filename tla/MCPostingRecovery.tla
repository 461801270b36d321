------------------------- MODULE MCPostingRecovery -------------------------
(* Instances of PostingRecovery for TLC.                                    *)
EXTENDS PostingRecovery
=============================================================================
