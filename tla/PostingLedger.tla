--------------------------- MODULE PostingLedger ---------------------------
(***************************************************************************)
(* services/coa-service: PostingService.post, the one door through which a  *)
(* journal enters the ledger; SequenceService, which numbers journals; and  *)
(* PeriodService with the two database triggers that close periods to them. *)
(*                                                                         *)
(* A post reads, then claims a number in a transaction of its own, then     *)
(* writes everything in one SERIALIZABLE transaction that is retried when   *)
(* it conflicts.  PostgreSQL's rules for such a transaction are modelled:   *)
(* it sees the rows as they were when it began, a row it wrote stays locked *)
(* until it ends, and it must abort when it wants a row that another        *)
(* transaction has changed since it began.  Its writes become visible       *)
(* together, when it commits.  The journal lines, audit and outbox rows are *)
(* written and rolled back with the journal and are left out.               *)
(***************************************************************************)
EXTENDS Integers, Sequences, FiniteSets

CONSTANTS
  Posters,        \* concurrent calls of PostingService.post
  Controllers,    \* concurrent calls of PeriodService.open
  Periods,        \* the fiscal periods of one entity
  Keys,           \* idempotency keys
  KeysOf,         \* the keys that each poster posts
  Accounts,
  CreditNormal,   \* the accounts whose normal balance is CR
  Lines,          \* per key, the accounts of its journal and the net debit of each
  AdjustingKeys,  \* keys posted with isAdjusting
  AttestedKeys,   \* keys whose draft has an adjusting_entry_attestation
  NoKey, NoPeriod,
  MaxOpen,        \* fiscal.max_open_periods
  MaxTries,       \* MAX_RETRIES of withSerializableRetry
  MaxNumber,      \* bound on the numbers claimed in a period
  MaxCrashes,     \* bound on crashes
  MaxLostAcks     \* bound on commits whose acknowledgement is lost

VARIABLES
  period,    \* fiscal_period: status and hasPostings
  seq,       \* journal_sequence: the last number claimed in each period
  journals,  \* journal_entry with its balance_snapshot rows, in commit order
  balance,   \* gl_account.balance
  gaps,      \* sequence_gap_log
  poster,    \* local variables and open transaction of each post
  opening,   \* the period that each open() has checked and not yet written
  faults     \* crashes and lost acknowledgements so far

vars == <<period, seq, journals, balance, gaps, poster, opening, faults>>

-----------------------------------------------------------------------------
PeriodStatus == {"FUTURE", "OPEN", "SOFT_CLOSED", "HARD_CLOSED", "LOCKED"}

LegalTransitions ==
  {<<"FUTURE", "OPEN">>, <<"OPEN", "SOFT_CLOSED">>, <<"SOFT_CLOSED", "OPEN">>,
   <<"SOFT_CLOSED", "HARD_CLOSED">>, <<"HARD_CLOSED", "OPEN">>,
   <<"HARD_CLOSED", "LOCKED">>}

canTransition(from, to) == <<from, to>> \in LegalTransitions

\* A balance moves in the direction of the account's normal balance.
balanceDelta(a, net) == IF a \in CreditNormal THEN -net ELSE net

\* What the journal of key k adds to the balance of account a.
Effect(k, a) ==
  IF \E i \in DOMAIN Lines[k] : Lines[k][i].account = a
    THEN balanceDelta(a, Lines[k][CHOOSE i \in DOMAIN Lines[k] :
                                     Lines[k][i].account = a].net)
    ELSE 0

ASSUME LedgerAssumption ==
  /\ NoKey \notin Keys /\ NoPeriod \notin Periods
  /\ KeysOf \in [Posters -> SUBSET Keys]
  /\ AttestedKeys \subseteq AdjustingKeys /\ AdjustingKeys \subseteq Keys
  /\ \A k \in Keys :
       /\ Lines[k] \in Seq([account : Accounts, net : Int])
       /\ \A i, j \in DOMAIN Lines[k] :
            Lines[k][i].account = Lines[k][j].account => i = j
  /\ MaxTries \in Nat \ {0}
  /\ MaxNumber \in Nat /\ MaxCrashes \in Nat /\ MaxLostAcks \in Nat

-----------------------------------------------------------------------------
(* applied: how many accounts of the journal the transaction has updated;    *)
(* after: the balances it left them; stale: the rows that other transactions *)
(* changed since it began.                                                   *)

\* A post outside its transaction.
PosterAt(pc, k, p, n) ==
  [pc |-> pc, key |-> k, period |-> p, number |-> n, tries |-> 0,
   applied |-> 0, after |-> [a \in Accounts |-> 0], stale |-> {}]

IdlePoster == PosterAt("idle", NoKey, NoPeriod, 0)

PosterState ==
  [pc : {"idle", "checked", "resolved", "allocated", "begun", "inserted", "refused",
         "duplicate", "answered"},
   key : Keys \cup {NoKey}, period : Periods \cup {NoPeriod}, number : Nat,
   tries : 0 .. MaxTries, applied : Nat, after : [Accounts -> Int],
   stale : SUBSET (Periods \cup Accounts)]

PeriodRow == [status : PeriodStatus, hasPostings : {"no", "yes"}]

Journal == [key : Keys, period : Periods, number : Nat,
            balanceAfter : [Accounts -> Int]]

TypeOK ==
  /\ period \in [Periods -> PeriodRow]
  /\ seq \in [Periods -> Nat]
  /\ journals \in Seq(Journal)
  /\ balance \in [Accounts -> Int]
  /\ gaps \in SUBSET [period : Periods, number : Nat]
  /\ poster \in [Posters -> PosterState]
  /\ opening \in [Controllers -> Periods \cup {NoPeriod}]
  /\ faults \in [crashes : Nat, lostAcks : Nat]

Init ==
  /\ period = [p \in Periods |-> [status |-> "FUTURE", hasPostings |-> "no"]]
  /\ seq = [p \in Periods |-> 0]
  /\ journals = <<>>
  /\ balance = [a \in Accounts |-> 0]
  /\ gaps = {}
  /\ poster = [po \in Posters |-> IdlePoster]
  /\ opening = [c \in Controllers |-> NoPeriod]
  /\ faults = [crashes |-> 0, lostAcks |-> 0]

-----------------------------------------------------------------------------
(* Row locks                                                                 *)

InTransaction(po) == poster[po].pc \in {"begun", "inserted"}

HoldsPeriod(po, p) == poster[po].pc = "inserted" /\ poster[po].period = p

HoldsKey(po, k) == poster[po].pc = "inserted" /\ poster[po].key = k

\* Mutated form: the last account of the journal is never updated.
HoldsAccount_AllButLast(po, a) ==
  /\ poster[po].pc = "inserted"
  /\ \E i \in 1 .. poster[po].applied - 1 : Lines[poster[po].key][i].account = a

HoldsAccount(po, a) ==
  /\ poster[po].pc = "inserted"
  /\ \E i \in 1 .. poster[po].applied : Lines[poster[po].key][i].account = a

Unfinished(po) == poster[po].applied < Len(Lines[poster[po].key])

NextLine(po) == Lines[poster[po].key][poster[po].applied + 1]

\* The insert of the journal waits for the period row and, at the unique index,
\* for the end of an insert of the same key; the updates wait for account rows.
Waits(po, q) ==
  /\ po # q
  /\ \/ /\ poster[po].pc = "begun"
        /\ HoldsPeriod(q, poster[po].period) \/ HoldsKey(q, poster[po].key)
     \/ /\ poster[po].pc = "inserted" /\ Unfinished(po)
        /\ HoldsAccount(q, NextLine(po).account)

Runs(po) == \A q \in Posters : ~Waits(po, q)

\* Mutated form: the trigger reads the period without FOR UPDATE.
PeriodFree_NoRowLock(p) == p \in Periods

PeriodFree(p) == \A po \in Posters : ~HoldsPeriod(po, p)

\* The posts after a commit that changed the given rows.
Outdated(rows) ==
  [po \in Posters |->
     IF InTransaction(po) THEN [poster[po] EXCEPT !.stale = @ \cup rows]
                          ELSE poster[po]]

-----------------------------------------------------------------------------
(* PostingService.post                                                       *)

\* Mutated form: no unique index on the idempotency key.
KeyTaken_NoIndex(k) == k \notin Keys

KeyTaken(k) == \E i \in DOMAIN journals : journals[i].key = k

Answer(k, p, n) == PosterAt("answered", k, p, n)

\* Mutated form: the loser answers with the number it claimed itself.
WinnerAnswer_OwnNumber(po, k) == Answer(k, poster[po].period, poster[po].number)

\* The journal that already carries the key is returned, whatever was sent.
WinnerAnswer(po, k) ==
  LET j == journals[CHOOSE i \in DOMAIN journals : journals[i].key = k]
  IN  Answer(k, j.period, j.number)

\* The idempotency short-circuit.
Check(po, k, p) ==
  /\ poster[po].pc = "idle"
  /\ k \in KeysOf[po]
  /\ poster' = [poster EXCEPT ![po] =
        IF KeyTaken(k) THEN WinnerAnswer(po, k)
        ELSE PosterAt("checked", k, p, 0)]
  /\ UNCHANGED <<period, seq, journals, balance, gaps, opening, faults>>

\* evaluate's BR013-2: the status the request happens to read.
Eligible(s, k) == s = "OPEN" \/ (s = "SOFT_CLOSED" /\ k \in AdjustingKeys)

\* resolveContext and evaluate; a violation is a 422 with nothing written.
Resolve(po) ==
  /\ poster[po].pc = "checked"
  /\ poster' = [poster EXCEPT ![po] =
        IF Eligible(period[@.period].status, @.key)
          THEN [@ EXCEPT !.pc = "resolved"] ELSE IdlePoster]
  /\ UNCHANGED <<period, seq, journals, balance, gaps, opening, faults>>

\* Mutated form: the next number is computed from the posted journals.
ClaimedNumber_FromJournals(p) ==
  Cardinality({i \in DOMAIN journals : journals[i].period = p}) + 1

\* The one statement of SequenceService.allocate.
ClaimedNumber(p) == seq[p] + 1

Allocate(po) ==
  LET p == poster[po].period IN
  /\ poster[po].pc = "resolved"
  /\ seq[p] < MaxNumber
  /\ seq' = [seq EXCEPT ![p] = @ + 1]
  /\ poster' = [poster EXCEPT ![po] =
        [@ EXCEPT !.pc = "allocated", !.number = ClaimedNumber(p), !.tries = 1]]
  /\ UNCHANGED <<period, journals, balance, gaps, opening, faults>>

\* The transaction takes its snapshot with its first statement.
Begin(po) ==
  /\ poster[po].pc = "allocated"
  /\ poster' = [poster EXCEPT ![po] =
        [@ EXCEPT !.pc = "begun", !.applied = 0, !.stale = {},
                  !.after = [a \in Accounts |-> 0]]]
  /\ UNCHANGED <<period, seq, journals, balance, gaps, opening, faults>>

\* Mutated form: the trigger lets every journal into a SOFT_CLOSED period.
Postable_SoftClosed(s, k) == s \in {"OPEN", "SOFT_CLOSED"} /\ k \in Keys

\* The trigger enforce_period_postable.
Postable(s, k) == s = "OPEN" \/ (s = "SOFT_CLOSED" /\ k \in AttestedKeys)

\* journalEntry.create: the trigger locks the period row and judges its status,
\* then the unique index on the idempotency key decides.
CreateJournal(po) ==
  LET k == poster[po].key
      p == poster[po].period
  IN
  /\ poster[po].pc = "begun"
  /\ Runs(po)
  /\ p \notin poster[po].stale
  /\ poster' = [poster EXCEPT ![po].pc =
        IF ~Postable(period[p].status, k) THEN "refused"
        ELSE IF KeyTaken(k) THEN "duplicate" ELSE "inserted"]
  /\ UNCHANGED <<period, seq, journals, balance, gaps, opening, faults>>

\* glAccount.update { balance: { increment } } and the snapshot of its result.
UpdateAccount(po) ==
  LET line == NextLine(po) IN
  /\ poster[po].pc = "inserted" /\ Unfinished(po)
  /\ Runs(po)
  /\ line.account \notin poster[po].stale
  /\ poster' = [poster EXCEPT ![po] =
        [@ EXCEPT !.applied = poster[po].applied + 1,
                  !.after[line.account] =
                     balance[line.account] + balanceDelta(line.account, line.net)]]
  /\ UNCHANGED <<period, seq, journals, balance, gaps, opening, faults>>

\* The balances when the transaction of po has committed.
BalanceAfter(po) ==
  [a \in Accounts |-> IF HoldsAccount(po, a) THEN poster[po].after[a]
                                             ELSE balance[a]]

Persist(po) ==
  LET j == poster[po] IN
  /\ j.pc = "inserted" /\ ~Unfinished(po)
  /\ journals' = Append(journals,
        [key |-> j.key, period |-> j.period, number |-> j.number,
         balanceAfter |-> BalanceAfter(po)])
  /\ balance' = BalanceAfter(po)
  /\ period' = [period EXCEPT ![j.period].hasPostings = "yes"]

WrittenRows(po) ==
  {poster[po].period} \cup {a \in Accounts : HoldsAccount(po, a)}

Commit(po) ==
  /\ Persist(po)
  /\ poster' = [Outdated(WrittenRows(po)) EXCEPT ![po] =
                  Answer(@.key, @.period, @.number)]
  /\ UNCHANGED <<seq, gaps, opening, faults>>

\* The commit is durable, but the connection fails before the answer arrives:
\* post() sees an error like any other.
LoseAcknowledgement(po) ==
  /\ faults.lostAcks < MaxLostAcks
  /\ Persist(po)
  /\ poster' = [Outdated(WrittenRows(po)) EXCEPT ![po] =
                  [poster[po] EXCEPT !.pc = "refused"]]
  /\ faults' = [faults EXCEPT !.lostAcks = @ + 1]
  /\ UNCHANGED <<seq, gaps, opening>>

\* A row it wants was changed since it began, or the deadlock detector picks it.
MustAbort(po) ==
  \/ poster[po].pc = "begun" /\ Runs(po) /\ poster[po].period \in poster[po].stale
  \/ /\ poster[po].pc = "inserted" /\ Unfinished(po) /\ Runs(po)
     /\ NextLine(po).account \in poster[po].stale
  \/ \E S \in SUBSET Posters :
       /\ po \in S
       /\ \A q \in S : (\E r \in S : Waits(q, r)) /\ (\E r \in S : Waits(r, q))

CanRetry(po) == poster[po].tries < MaxTries

\* A serialization failure, which PostgreSQL may also report without need.
Abort(po) ==
  /\ InTransaction(po)
  /\ poster' = [poster EXCEPT ![po] =
        IF CanRetry(po) THEN [@ EXCEPT !.pc = "allocated", !.tries = poster[po].tries + 1]
                        ELSE [@ EXCEPT !.pc = "refused"]]
  /\ UNCHANGED <<period, seq, journals, balance, gaps, opening, faults>>

\* Any other error of the transaction, its timeout among them.
TransactionFails(po) ==
  /\ InTransaction(po)
  /\ poster' = [poster EXCEPT ![po].pc = "refused"]
  /\ UNCHANGED <<period, seq, journals, balance, gaps, opening, faults>>

\* P2002 on the idempotency key: the loser returns the winner's journal.
ReturnWinner(po) ==
  /\ poster[po].pc = "duplicate"
  /\ poster' = [poster EXCEPT ![po] = WinnerAnswer(po, @.key)]
  /\ UNCHANGED <<period, seq, journals, balance, gaps, opening, faults>>

\* Mutated form: an exhausted retry is thrown past the gap log.
GapRow_NotWhenExhausted(po) ==
  IF poster[po].tries < MaxTries
    THEN {[period |-> poster[po].period, number |-> poster[po].number]} ELSE {}

GapRow(po) == {[period |-> poster[po].period, number |-> poster[po].number]}

LogGap(po) ==
  /\ poster[po].pc = "refused"
  /\ gaps' = gaps \cup GapRow(po)
  /\ poster' = [poster EXCEPT ![po] = IdlePoster]
  /\ UNCHANGED <<period, seq, journals, balance, opening, faults>>

\* The caller has its answer.
Return(po) ==
  /\ poster[po].pc = "answered"
  /\ poster' = [poster EXCEPT ![po] = IdlePoster]
  /\ UNCHANGED <<period, seq, journals, balance, gaps, opening, faults>>

\* The process dies, or the best-effort insert of the gap row fails.
Crash(po) ==
  /\ poster[po].pc \notin {"idle", "answered"}
  /\ faults.crashes < MaxCrashes
  /\ faults' = [faults EXCEPT !.crashes = @ + 1]
  /\ poster' = [poster EXCEPT ![po] = IdlePoster]
  /\ UNCHANGED <<period, seq, journals, balance, gaps, opening>>

-----------------------------------------------------------------------------
(* PeriodService.  Each transition is one update of the period row, which    *)
(* waits for the posts that hold it.                                         *)

SetStatus(p, s) ==
  /\ PeriodFree(p)
  /\ period' = [period EXCEPT ![p].status = s]
  /\ poster' = Outdated({p})
  /\ UNCHANGED <<seq, journals, balance, gaps, faults>>

OpenPeriods == {p \in Periods : period[p].status = "OPEN"}

\* The reads of open(): the status, then the count of the open periods.
CheckOpen(c, p) ==
  /\ opening[c] = NoPeriod
  /\ period[p].status # "OPEN" /\ canTransition(period[p].status, "OPEN")
  /\ Cardinality(OpenPeriods) < MaxOpen
  /\ opening' = [opening EXCEPT ![c] = p]
  /\ UNCHANGED <<period, seq, journals, balance, gaps, poster, faults>>

\* The trigger enforce_period_transition lets an update pass that keeps the status.
UpdateLegal(from, to) == from = to \/ canTransition(from, to)

\* The update of open() names the row by id only.
WriteOpen(c, p) ==
  /\ opening[c] = p
  /\ UpdateLegal(period[p].status, "OPEN")
  /\ SetStatus(p, "OPEN")
  /\ opening' = [opening EXCEPT ![c] = NoPeriod]

WriteOpenRefused(c, p) ==
  /\ opening[c] = p
  /\ PeriodFree(p)
  /\ ~UpdateLegal(period[p].status, "OPEN")
  /\ opening' = [opening EXCEPT ![c] = NoPeriod]
  /\ UNCHANGED <<period, seq, journals, balance, gaps, poster, faults>>

\* softClose, hardClose, reopen, reopenHardClosed and lock update the row only if
\* it still has the status they read.  None of them counts the open periods.
Transition(p, to) ==
  /\ period[p].status # "FUTURE"
  /\ canTransition(period[p].status, to)
  /\ SetStatus(p, to)
  /\ UNCHANGED opening

-----------------------------------------------------------------------------
TransactionStep(po) ==
  Begin(po) \/ CreateJournal(po) \/ UpdateAccount(po) \/ Commit(po)

PosterStep(po) ==
  \/ \E k \in Keys, p \in Periods : Check(po, k, p)
  \/ Resolve(po) \/ Allocate(po) \/ TransactionStep(po) \/ Abort(po)
  \/ TransactionFails(po) \/ LoseAcknowledgement(po) \/ ReturnWinner(po)
  \/ LogGap(po) \/ Return(po) \/ Crash(po)

Next ==
  \/ \E po \in Posters : PosterStep(po)
  \/ \E c \in Controllers, p \in Periods :
       CheckOpen(c, p) \/ WriteOpen(c, p) \/ WriteOpenRefused(c, p)
  \/ \E p \in Periods, s \in PeriodStatus : Transition(p, s)

Spec == Init /\ [][Next]_vars

\* A post that has claimed its number goes on, and PostgreSQL breaks deadlocks.
Fairness ==
  \A po \in Posters :
    /\ WF_vars(TransactionStep(po) \/ LogGap(po))
    /\ WF_vars(MustAbort(po) /\ Abort(po))

FairSpec == Spec /\ Fairness
-----------------------------------------------------------------------------
(* Properties                                                                *)

(* BR013-6: an idempotency key has one journal, though the check before the     *)
(* posting transaction and the insert inside it are far apart.                  *)
OneJournalPerKey ==
  \A i, j \in DOMAIN journals : journals[i].key = journals[j].key => i = j

Used(p, n) == \E i \in DOMAIN journals : journals[i].period = p /\ journals[i].number = n

(* BR213-1: a claimed number is never given to a second journal, whatever the   *)
(* retries, refusals and crashes between claim and commit.                      *)
NumbersNeverReused ==
  \A i \in DOMAIN journals :
    /\ journals[i].number \in 1 .. seq[journals[i].period]
    /\ \A j \in DOMAIN journals :
         /\ journals[i].period = journals[j].period
         /\ journals[i].number = journals[j].number
         => i = j

(* Whatever post() answers, fresh, idempotent or after a lost race, is the      *)
(* journal the ledger holds for the key of the request.                         *)
AnswersNameTheLedger ==
  \A po \in Posters : poster[po].pc = "answered" =>
    \E i \in DOMAIN journals :
      /\ journals[i].key = poster[po].key
      /\ journals[i].period = poster[po].period
      /\ journals[i].number = poster[po].number

\* The balance of account a before the i-th journal.
BalanceBefore(i, a) == IF i = 1 THEN 0 ELSE journals[i - 1].balanceAfter[a]

(* No update of a balance is lost or applied twice by interleaved, aborted and   *)
(* retried transactions: the snapshots of an account form a chain in commit      *)
(* order, each the one before it plus the journal's own delta, and the account   *)
(* holds the last of them.                                                       *)
BalancesFollowJournals ==
  /\ \A i \in DOMAIN journals : \A a \in Accounts :
       journals[i].balanceAfter[a] = BalanceBefore(i, a) + Effect(journals[i].key, a)
  /\ \A a \in Accounts : balance[a] = BalanceBefore(Len(journals) + 1, a)

(* A journal enters a period only while it is OPEN, or SOFT_CLOSED for an        *)
(* attested adjusting entry (BR013-2), though the request read the status long   *)
(* before: no commit lands after a close.                                        *)
JournalsEnterPostablePeriods ==
  [][\A i \in DOMAIN journals' \ DOMAIN journals :
       Postable(period[journals'[i].period].status, journals'[i].key)]_vars

(* LOCKED is terminal: neither a stale open() nor a post that began earlier       *)
(* changes the period or its journals again.                                     *)
LockedIsSealed ==
  [][\A p \in Periods : period[p].status = "LOCKED" =>
       /\ period'[p].status = "LOCKED"
       /\ \A i \in DOMAIN journals' \ DOMAIN journals : journals'[i].period # p]_vars

Logged(p, n) == [period |-> p, number |-> n] \in gaps

\* A post that has claimed the number and has neither answered nor logged a gap.
Carries(po, p, n) ==
  /\ poster[po].pc \in {"allocated", "begun", "inserted", "refused", "duplicate"}
  /\ poster[po].period = p /\ poster[po].number = n

(* A number that a post carries is settled in the end: it is in a journal or in   *)
(* the gap log, through conflicts, deadlocks, lost acknowledgements and exhausted *)
(* retries.  There are two ways out, which settle nothing: the post has lost the  *)
(* race for its key, when it answers with the winner's journal and forgets its    *)
(* own number, or a process dies from now on (or a gap row cannot be written).    *)
NumberSettles ==
  \A p \in Periods, n \in 1 .. MaxNumber, k \in 0 .. MaxCrashes :
    (\E po \in Posters : Carries(po, p, n)) /\ faults.crashes = k
      ~> \/ Used(p, n) \/ Logged(p, n)
         \/ \E po \in Posters : poster[po].pc = "duplicate" /\ Carries(po, p, n)
         \/ faults.crashes > k

(* BR213-3 as sequence-service.ts has it: "a failed/aborted post leaves an          *)
(* already-claimed number unused. Record the gap with a reason".  Every number      *)
(* claimed is in a journal, in the gap log, or still carried by a post.             *)
NumbersAccountedFor ==
  \A p \in Periods : \A n \in 1 .. seq[p] :
    Used(p, n) \/ Logged(p, n) \/ \E po \in Posters : Carries(po, p, n)

-----------------------------------------------------------------------------
(* The ledger that post and the period transitions implement together.           *)

Contract == INSTANCE LedgerContract WITH
  AdjustingKeys <- AttestedKeys,
  Delta <- [k \in Keys |-> [a \in Accounts |-> Effect(k, a)]],
  posted <- {<<journals[i].key, journals[i].period>> : i \in DOMAIN journals},
  status <- [p \in Periods |-> period[p].status]

(* The steps of the concurrent posts and of the period transitions amount to       *)
(* whole posts and legal moves, one at a time.                                     *)
ImplementsContract == Contract!Spec
=============================================================================
