---------------------------- MODULE GeneralLedger ----------------------------
(***************************************************************************)
(* services/gl-service: the life of a journal entry of the operational       *)
(* ledger, from draft to review to the books, its reversal, and the          *)
(* intercompany counterpart of one.                                          *)
(*                                                                         *)
(* Every operation reads the entry's status before its transaction and then  *)
(* writes the status whatever it is by then.  What keeps an entry from being *)
(* booked twice is the unique key of its history rows, which name the        *)
(* source, the reference, the date and the line.                             *)
(***************************************************************************)
EXTENDS Integers, FiniteSets, FiniteSetsExt

CONSTANTS
  Entries,    \* ids of journal entries
  Dates,      \* entry dates, each in a period of its own
  Refs,       \* source and reference of an entry, as typed by its author
  Desks,      \* concurrent requests of people and agents
  Job,        \* the desk of AgentReviewTimeoutJob, the one poller
  Nothing,    \* no entry
  MaxDeaths   \* bound: requests that die half-way

ASSUME LedgerAssumption ==
  /\ Nothing \notin Entries
  /\ Dates # {} /\ Refs # {}
  /\ Job \in Desks
  /\ MaxDeaths \in Nat

VARIABLES
  entry,      \* journal_entries
  history,    \* the entries that have history_transactions
  balance,    \* gl_account_period_balances: one account's balance by period
  desk,       \* local variables of each request
  deaths      \* requests that have died

vars == <<entry, history, balance, desk, deaths>>
-----------------------------------------------------------------------------
EntryStatus == {"NONE", "DRAFT", "PENDING_REVIEW", "POSTED", "REVERSED", "VOIDED"}

\* What an entry is: as typed in, the reversal of another, or the intercompany
\* counterpart of another.
Role == {"original", "reversal", "counterpart"}

Entry == [status : EntryStatus, role : Role, of : Entries \cup {Nothing},
          ref : Refs, reversals : Nat, date : Dates, amount : {1, -1},
          ic : BOOLEAN, linked : BOOLEAN]

NoEntry == [status |-> "NONE", role |-> "original", of |-> Nothing,
            ref |-> CHOOSE f \in Refs : TRUE, reversals |-> 0,
            date |-> CHOOSE d \in Dates : TRUE, amount |-> 1,
            ic |-> FALSE, linked |-> FALSE]

Op == {"submit", "discard", "approve", "reverse"}

IdleDesk == [pc |-> "idle", entry |-> Nothing]

TypeOK ==
  /\ entry \in [Entries -> Entry]
  /\ history \in SUBSET Entries
  /\ balance \in [Dates -> Int]
  /\ desk \in [Desks -> [pc : Op \cup {"idle", "counterpart"},
                         entry : Entries \cup {Nothing}]]
  /\ \A k \in Desks : desk[k].pc # "idle" => desk[k].entry \in Entries
  /\ desk[Job].pc \in {"idle", "approve", "counterpart"}
  /\ deaths \in 0..MaxDeaths

Init ==
  /\ entry = [e \in Entries |-> NoEntry]
  /\ history = {}
  /\ balance = [d \in Dates |-> 0]
  /\ desk = [k \in Desks |-> IdleDesk]
  /\ deaths = 0
-----------------------------------------------------------------------------
\* createJournalEntry: a draft.  A second create with the same idempotency key
\* returns the first one's entry and changes nothing.
Create(e) ==
  /\ entry[e].status = "NONE"
  /\ \E f \in Refs, d \in Dates, ic \in BOOLEAN :
       entry' = [entry EXCEPT ![e] =
          [NoEntry EXCEPT !.status = "DRAFT", !.ref = f, !.date = d, !.ic = ic]]
  /\ UNCHANGED <<history, balance, desk, deaths>>

\* The status an operation needs, which it looks for before its transaction.
Needs == [submit |-> "DRAFT", discard |-> "DRAFT",
          approve |-> "PENDING_REVIEW", reverse |-> "POSTED"]

\* Mutated form: reversing looks only for an entry that is no draft.
Admits_AnyOpen(op, e) ==
  IF op = "reverse" THEN entry[e].status \notin {"NONE", "DRAFT", "VOIDED"}
  ELSE entry[e].status = Needs[op]

Admits(op, e) == entry[e].status = Needs[op]

\* Mutated form: the timeout leaves what it finds to the people.
Begin_TimeoutRefused(k, op, e) ==
  /\ desk[k] = IdleDesk /\ k # Job
  /\ Admits(op, e)
  /\ desk' = [desk EXCEPT ![k] = [pc |-> op, entry |-> e]]
  /\ UNCHANGED <<entry, history, balance, deaths>>

\* The author may not approve or void: a refusal starts nothing.  The poller
\* only approves.
Begin(k, op, e) ==
  /\ desk[k] = IdleDesk
  /\ k = Job => op = "approve"
  /\ Admits(op, e)
  /\ desk' = [desk EXCEPT ![k] = [pc |-> op, entry |-> e]]
  /\ UNCHANGED <<entry, history, balance, deaths>>

At(k, op, e) == desk[k] = [pc |-> op, entry |-> e]

Ends(k) == desk' = [desk EXCEPT ![k] = IdleDesk]

\* postJournalEntry
Submit(k, e) ==
  /\ At(k, "submit", e)
  /\ entry' = [entry EXCEPT ![e].status = "PENDING_REVIEW"]
  /\ Ends(k)
  /\ UNCHANGED <<history, balance, deaths>>

\* discardDraftJournalEntry
Discard(k, e) ==
  /\ At(k, "discard", e)
  /\ entry' = [entry EXCEPT ![e].status = "VOIDED"]
  /\ Ends(k)
  /\ UNCHANGED <<history, balance, deaths>>
-----------------------------------------------------------------------------
(* approveJournalEntry                                                       *)

\* The unique key of the rows: a reversal's reference is its original's with a
\* prefix, and dupeSequence is always 0.
HistoryKey(e) == <<entry[e].ref, entry[e].reversals, entry[e].date>>

\* Mutated form: dupeSequence counts up, so the rows always find a free key.
KeyIsFree_Always(e) == e \in Entries

KeyIsFree(e) == \A f \in history : HistoryKey(f) # HistoryKey(e)

\* updateJournalBalance
AddToBalance(e) == balance' = [balance EXCEPT ![entry[e].date] = @ + entry[e].amount]

\* Mutated form: the timeout sets the status and writes no ledger rows.
Book_StatusOnlyOnTimeout(k, e) ==
  /\ KeyIsFree(e)
  /\ entry' = [entry EXCEPT ![e].status = "POSTED"]
  /\ IF k = Job THEN UNCHANGED <<history, balance>>
     ELSE history' = history \cup {e} /\ AddToBalance(e)
  /\ desk' = [desk EXCEPT ![k].pc = "counterpart"]

\* Status, balances, history and outbox in one serializable transaction.
Book(k, e) ==
  /\ KeyIsFree(e)
  /\ entry' = [entry EXCEPT ![e].status = "POSTED"]
  /\ history' = history \cup {e}
  /\ AddToBalance(e)
  /\ desk' = [desk EXCEPT ![k].pc = "counterpart"]

\* The key of the rows is taken: the transaction rolls back.
RollBack(k, e) ==
  /\ ~KeyIsFree(e)
  /\ Ends(k)
  /\ UNCHANGED <<entry, history, balance>>

Approve(k, e) ==
  /\ At(k, "approve", e)
  /\ Book(k, e) \/ RollBack(k, e)
  /\ UNCHANGED deaths

\* After the transaction: an entry with intercompany lines that is not linked gets
\* a counterpart, created POSTED, and a link to it.
CreateCounterpart(k, e, n) ==
  /\ At(k, "counterpart", e)
  /\ entry[e].ic /\ ~entry[e].linked
  /\ entry[n].status = "NONE"
  /\ entry' = [entry EXCEPT
        ![e].linked = TRUE,
        ![n] = [entry[e] EXCEPT !.status = "POSTED", !.role = "counterpart",
                                !.of = e, !.amount = -@, !.linked = TRUE]]
  /\ Ends(k)
  /\ UNCHANGED <<history, balance, deaths>>

\* There are no such lines, the entry is linked, or the attempt fails, which is
\* swallowed.
SkipCounterpart(k, e) ==
  /\ At(k, "counterpart", e)
  /\ Ends(k)
  /\ UNCHANGED <<entry, history, balance, deaths>>
-----------------------------------------------------------------------------
\* reverseJournalEntry: a draft with the amounts negated, and the original marked
\* REVERSED, in one transaction.
Reverse(k, e, n, d) ==
  /\ At(k, "reverse", e)
  /\ entry[n].status = "NONE"
  /\ entry' = [entry EXCEPT
        ![e].status = "REVERSED",
        ![n] = [entry[e] EXCEPT !.status = "DRAFT", !.role = "reversal", !.of = e,
                                !.reversals = @ + 1, !.date = d, !.amount = -@,
                                !.linked = FALSE]]
  /\ Ends(k)
  /\ UNCHANGED <<history, balance, deaths>>

\* A request dies, or is refused, between its read and its transaction.
Die(k) ==
  /\ deaths < MaxDeaths
  /\ desk[k] # IdleDesk
  /\ Ends(k)
  /\ deaths' = deaths + 1
  /\ UNCHANGED <<entry, history, balance>>
-----------------------------------------------------------------------------
DeskStep(k, e) ==
  \/ \E op \in Op : Begin(k, op, e)
  \/ Submit(k, e) \/ Discard(k, e) \/ Approve(k, e)
  \/ \E n \in Entries : CreateCounterpart(k, e, n)
  \/ SkipCounterpart(k, e)
  \/ \E n \in Entries, d \in Dates : Reverse(k, e, n, d)

Next ==
  \/ \E e \in Entries : Create(e)
  \/ \E k \in Desks, e \in Entries : DeskStep(k, e)
  \/ \E k \in Desks : Die(k)

Spec == Init /\ [][Next]_vars

\* setInterval polls for entries under review, and each one found is approved in
\* turn, whatever became of the one before.
FairSpec ==
  /\ Spec
  /\ \A e \in Entries :
       /\ SF_vars(Begin(Job, "approve", e))
       /\ WF_vars(Approve(Job, e))
       /\ WF_vars(SkipCounterpart(Job, e)
                    \/ \E n \in Entries : CreateCounterpart(Job, e, n))
-----------------------------------------------------------------------------
(* Properties                                                                *)

\* Of the amounts of the entries in S.
Sum(S) == SumFunctionOnSet([e \in Entries |-> entry[e].amount], S)

(* "ATOMIC: ALL ledger writes": the period's balance is the sum of the entries    *)
(* that have history in it, each once, however approvals, late submits and the    *)
(* timeout race over an entry.                                                    *)
BalanceIsHistory ==
  \A d \in Dates : balance[d] = Sum({e \in history : entry[e].date = d})

(* An entry that is POSTED or REVERSED is in the books, the automatic approval    *)
(* of the timeout included ("not just the status flag"); only an intercompany     *)
(* counterpart, which is created POSTED, never is.                                *)
PostedIsBooked ==
  \A e \in Entries :
    entry[e].status \in {"POSTED", "REVERSED"} /\ entry[e].role # "counterpart"
      => e \in history

(* What a reversal takes out of the books is there: a booked reversal reverses a   *)
(* booked entry, or a counterpart, whatever happened between the two approvals.   *)
ReversalFollowsOriginal ==
  \A e \in history :
    entry[e].role = "reversal" =>
      entry[e].of \in history \/ entry[entry[e].of].role = "counterpart"

(* "The timeout ensures the system degrades gracefully rather than halting": an    *)
(* entry under review that can be booked does not stay under review.              *)
ReviewEnds ==
  \A e \in Entries :
    (entry[e].status = "PENDING_REVIEW" /\ KeyIsFree(e))
      ~> (entry[e].status # "PENDING_REVIEW" \/ ~KeyIsFree(e))
=============================================================================
