----------------------------- MODULE MCOpenItems -----------------------------
(* Two invoices or one and a receipt, which names the invoice or is on account,  *)
(* and a line for the entry of a write-off.                                      *)
EXTENDS OpenItems, TLC

CONSTANTS l1, l2, w1, w2, c1, c2, n1, k1, k2, r1, r2

Entered(kind, amount, number) ==
  [kind |-> kind, amount |-> amount, control |-> c1, number |-> number,
   date |-> IF amount > 1 THEN 2 ELSE 1, writes_off |-> 0, booked |-> FALSE]

NoLine == Entered("none", 0, None)

FirstLinesOf ==
  [l \in Lines |->
     CASE l = l1 -> {Entered("open", 2, n1), Entered("open", -2, n1)}
       [] l = l2 -> {Entered("open", 1, n1), Entered("apply_to", -1, n1),
                     Entered("apply_to", 1, n1),
                     Entered("on_account", -3, None)}
       [] OTHER  -> {NoLine}]

Symmetry == Permutations({k1, k2}) \cup Permutations({r1, r2}) \cup Permutations({w1, w2})
=============================================================================
