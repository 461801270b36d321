--------------------------- MODULE MCGeneralLedger ---------------------------
(* Two entries, typed with one reference, two people and the poller.          *)
EXTENDS GeneralLedger

CONSTANTS e1, e2, job, p1, p2
=============================================================================
