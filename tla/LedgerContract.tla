--------------------------- MODULE LedgerContract ---------------------------
(***************************************************************************)
(* What the general ledger of services/coa-service promises, free of        *)
(* requests, row locks, retries and sequence numbers: a journal is posted   *)
(* whole or not at all, once for an idempotency key, into a period that     *)
(* takes postings at that moment, and moves the balances by its lines and   *)
(* by nothing else; a period moves only along the edges of its lifecycle.   *)
(***************************************************************************)
EXTENDS Integers

CONSTANTS Keys, Periods, Accounts,
  Delta,          \* the change of each account's balance by the journal of a key
  AdjustingKeys   \* the keys of attested adjusting entries

VARIABLES
  posted,   \* the <<key, period>> pairs of the posted journals
  status,   \* the status of each period
  balance   \* the balance of each account

vars == <<posted, status, balance>>

PeriodStatus == {"FUTURE", "OPEN", "SOFT_CLOSED", "HARD_CLOSED", "LOCKED"}

LegalTransitions ==
  {<<"FUTURE", "OPEN">>, <<"OPEN", "SOFT_CLOSED">>, <<"SOFT_CLOSED", "OPEN">>,
   <<"SOFT_CLOSED", "HARD_CLOSED">>, <<"HARD_CLOSED", "OPEN">>,
   <<"HARD_CLOSED", "LOCKED">>}

Init ==
  /\ posted = {}
  /\ status = [p \in Periods |-> "FUTURE"]
  /\ balance = [a \in Accounts |-> 0]

Takes(s, k) == s = "OPEN" \/ (s = "SOFT_CLOSED" /\ k \in AdjustingKeys)

Post(k, p) ==
  /\ \A q \in Periods : <<k, q>> \notin posted
  /\ Takes(status[p], k)
  /\ posted' = posted \cup {<<k, p>>}
  /\ balance' = [a \in Accounts |-> balance[a] + Delta[k][a]]
  /\ UNCHANGED status

Move(p, s) ==
  /\ <<status[p], s>> \in LegalTransitions
  /\ status' = [status EXCEPT ![p] = s]
  /\ UNCHANGED <<posted, balance>>

Next ==
  \/ \E k \in Keys, p \in Periods : Post(k, p)
  \/ \E p \in Periods, s \in PeriodStatus : Move(p, s)

Spec == Init /\ [][Next]_vars
=============================================================================
