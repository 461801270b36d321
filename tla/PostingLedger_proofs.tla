------------------------ MODULE PostingLedger_proofs ------------------------
(* TLAPS proofs about PostingLedger: any number of posts, period requests,   *)
(* keys, accounts and journal lines, any crash and any lost acknowledgement. *)
EXTENDS PostingLedger, TLAPS

Inserted(po) == poster[po].pc = "inserted"

\* A post that is at work knows its key and its period, and one that lost the
\* race for its key will find the winner.
Fits(x) ==
  /\ x.pc # "idle" => x.key \in Keys /\ x.period \in Periods
  /\ x.pc = "duplicate" => KeyTaken(x.key)
  /\ x.pc = "begun" => x.applied = 0
  /\ x.pc = "inserted" => x.applied <= Len(Lines[x.key])

PosterShape == \A po \in Posters : Fits(poster[po])

TypeInv == TypeOK /\ PosterShape

\* All that other posts see of one another's steps is the stale rows.
Undisturbed(q) ==
  /\ poster'[q].pc = poster[q].pc /\ poster'[q].key = poster[q].key
  /\ poster'[q].period = poster[q].period /\ poster'[q].number = poster[q].number
  /\ poster'[q].tries = poster[q].tries /\ poster'[q].applied = poster[q].applied
  /\ poster'[q].after = poster[q].after

(* The lines of a journal and what they add to the balances.                 *)
LEMMA LineType ==
  ASSUME NEW k \in Keys
  PROVE  /\ Lines[k] \in Seq([account : Accounts, net : Int])
         /\ Len(Lines[k]) \in Nat /\ DOMAIN Lines[k] = 1 .. Len(Lines[k])
         /\ \A i \in DOMAIN Lines[k] : Lines[k][i].account \in Accounts
                                       /\ Lines[k][i].net \in Int
         /\ \A i, j \in DOMAIN Lines[k] :
              Lines[k][i].account = Lines[k][j].account => i = j
<1>1. Lines[k] \in Seq([account : Accounts, net : Int])
  BY LedgerAssumption
<1>2. \A i \in DOMAIN Lines[k] : Lines[k][i] \in [account : Accounts, net : Int]
  <2> DEFINE Line == [account : Accounts, net : Int]
  <2>1. Lines[k] \in Seq(Line)
    BY <1>1
  <2> HIDE DEF Line
  <2>2. \A i \in DOMAIN Lines[k] : Lines[k][i] \in Line
    BY <2>1
  <2> QED BY <2>2 DEF Line
<1> QED BY <1>1, <1>2, LedgerAssumption

LEMMA DeltaType ==
  ASSUME NEW a \in Accounts, NEW net \in Int PROVE balanceDelta(a, net) \in Int
BY DEF balanceDelta

LEMMA EffectOfLine ==
  ASSUME NEW k \in Keys, NEW i \in DOMAIN Lines[k]
  PROVE  Effect(k, Lines[k][i].account) = balanceDelta(Lines[k][i].account, Lines[k][i].net)
<1> DEFINE a == Lines[k][i].account
           c == CHOOSE j \in DOMAIN Lines[k] : Lines[k][j].account = a
<1>1. c \in DOMAIN Lines[k] /\ Lines[k][c].account = a
  OBVIOUS
<1>2. c = i
  BY <1>1, LineType
<1> QED BY <1>1, <1>2 DEF Effect

LEMMA EffectType ==
  ASSUME NEW k \in Keys, NEW a \in Accounts
  PROVE  /\ Effect(k, a) \in Int
         /\ (\A i \in DOMAIN Lines[k] : Lines[k][i].account # a) => Effect(k, a) = 0
<1>1. CASE \A i \in DOMAIN Lines[k] : Lines[k][i].account # a
  BY <1>1 DEF Effect
<1>2. CASE \E i \in DOMAIN Lines[k] : Lines[k][i].account = a
  <2>1. PICK i \in DOMAIN Lines[k] : Lines[k][i].account = a
    BY <1>2
  <2>2. Effect(k, a) = balanceDelta(a, Lines[k][i].net)
    BY <2>1, EffectOfLine
  <2>3. balanceDelta(a, Lines[k][i].net) \in Int
    BY <2>1, LineType, DeltaType
  <2> QED BY <1>2, <2>2, <2>3
<1> QED BY <1>1, <1>2

-----------------------------------------------------------------------------
(* Type correctness.                                                         *)

LEMMA IdleType == IdlePoster \in PosterState /\ IdlePoster.pc = "idle"
BY LedgerAssumption DEF IdlePoster, PosterAt, PosterState

LEMMA AnswerType ==
  ASSUME NEW k \in Keys, NEW p \in Periods, NEW n \in Nat
  PROVE  /\ Answer(k, p, n) \in PosterState /\ Answer(k, p, n).pc = "answered"
         /\ Answer(k, p, n).key = k /\ Answer(k, p, n).period = p
         /\ Answer(k, p, n).number = n
BY LedgerAssumption DEF Answer, PosterAt, PosterState

LEMMA WinnerType ==
  ASSUME TypeOK, NEW po, NEW k \in Keys, KeyTaken(k)
  PROVE  \E i \in DOMAIN journals :
           /\ journals[i].key = k
           /\ WinnerAnswer(po, k) = Answer(k, journals[i].period, journals[i].number)
           /\ journals[i].period \in Periods /\ journals[i].number \in Nat
<1> DEFINE i == CHOOSE j \in DOMAIN journals : journals[j].key = k
<1>1. i \in DOMAIN journals /\ journals[i].key = k
  BY DEF KeyTaken
<1>2. journals[i] \in Journal
  BY <1>1 DEF TypeOK
<1> QED BY <1>1, <1>2 DEF WinnerAnswer, Journal

\* The rows that a commit or a transition makes stale.
LEMMA OutdatedType ==
  ASSUME TypeOK, NEW rows \in SUBSET (Periods \cup Accounts)
  PROVE  /\ Outdated(rows) \in [Posters -> PosterState]
         /\ \A q \in Posters :
              /\ Outdated(rows)[q].pc = poster[q].pc /\ Outdated(rows)[q].key = poster[q].key
              /\ Outdated(rows)[q].period = poster[q].period
              /\ Outdated(rows)[q].number = poster[q].number
              /\ Outdated(rows)[q].tries = poster[q].tries
              /\ Outdated(rows)[q].applied = poster[q].applied
              /\ Outdated(rows)[q].after = poster[q].after
<1>1. ASSUME NEW q \in Posters
      PROVE  [poster[q] EXCEPT !.stale = @ \cup rows] \in PosterState
  <2>1. poster[q] \in PosterState
    BY <1>1 DEF TypeOK
  <2>2. poster[q].stale \cup rows \in SUBSET (Periods \cup Accounts)
    BY <2>1 DEF PosterState
  <2> QED BY <2>1, <2>2 DEF PosterState
<1>2. Outdated(rows) \in [Posters -> PosterState]
  BY <1>1 DEF Outdated, TypeOK
<1>3. ASSUME NEW q \in Posters
      PROVE  /\ Outdated(rows)[q].pc = poster[q].pc /\ Outdated(rows)[q].key = poster[q].key
             /\ Outdated(rows)[q].period = poster[q].period
             /\ Outdated(rows)[q].number = poster[q].number
             /\ Outdated(rows)[q].tries = poster[q].tries
             /\ Outdated(rows)[q].applied = poster[q].applied
             /\ Outdated(rows)[q].after = poster[q].after
  BY DEF Outdated, TypeOK, PosterState
<1> QED BY <1>2, <1>3

\* What a durable commit writes.
LEMMA PersistType ==
  ASSUME TypeInv, NEW po \in Posters, Persist(po)
  PROVE  /\ journals' \in Seq(Journal) /\ Len(journals') = Len(journals) + 1
         /\ \A i \in DOMAIN journals : journals'[i] = journals[i]
         /\ journals'[Len(journals')] =
              [key |-> poster[po].key, period |-> poster[po].period,
               number |-> poster[po].number, balanceAfter |-> BalanceAfter(po)]
         /\ balance' = BalanceAfter(po) /\ BalanceAfter(po) \in [Accounts -> Int]
         /\ period' \in [Periods -> PeriodRow]
         /\ \A p \in Periods : period'[p].status = period[p].status
         /\ WrittenRows(po) \in SUBSET (Periods \cup Accounts)
<1> USE DEF TypeInv, TypeOK
<1>1. /\ poster[po] \in PosterState /\ poster[po].key \in Keys
      /\ poster[po].period \in Periods /\ poster[po].number \in Nat
      /\ poster[po].after \in [Accounts -> Int]
  BY DEF Persist, PosterShape, Fits, PosterState
<1>2. BalanceAfter(po) \in [Accounts -> Int]
  BY <1>1 DEF BalanceAfter
<1> DEFINE j == [key |-> poster[po].key, period |-> poster[po].period,
                 number |-> poster[po].number, balanceAfter |-> BalanceAfter(po)]
<1>3. j \in Journal
  BY <1>1, <1>2 DEF Journal
<1>4. journals' = Append(journals, j) /\ balance' = BalanceAfter(po)
      /\ period' = [period EXCEPT ![poster[po].period].hasPostings = "yes"]
  BY DEF Persist
<1>5. period' \in [Periods -> PeriodRow]
      /\ \A p \in Periods : period'[p].status = period[p].status
  <2> DEFINE row == period[poster[po].period]
             marked == [row EXCEPT !.hasPostings = "yes"]
  <2>1. marked \in PeriodRow /\ marked.status = row.status
    BY <1>1 DEF PeriodRow
  <2>2. period' = [period EXCEPT ![poster[po].period] = marked]
    BY <1>4
  <2> HIDE DEF marked, PeriodRow
  <2> QED BY <1>1, <2>1, <2>2
<1>6. journals \in Seq(Journal)
  OBVIOUS
<1> HIDE DEF j, Journal, TypeOK
<1>7. /\ journals' \in Seq(Journal) /\ Len(journals') = Len(journals) + 1
      /\ \A i \in DOMAIN journals : journals'[i] = journals[i]
      /\ journals'[Len(journals')] = j
  BY <1>3, <1>4, <1>6
<1> QED BY <1>1, <1>2, <1>4, <1>5, <1>7 DEF WrittenRows, j

LEMMA Updated ==
  ASSUME TypeOK, NEW po \in Posters, NEW x \in PosterState,
         poster' = [poster EXCEPT ![po] = x]
  PROVE  /\ poster' \in [Posters -> PosterState] /\ poster'[po] = x
         /\ \A q \in Posters : q # po => poster'[q] = poster[q] /\ Undisturbed(q)
<1>1. poster \in [Posters -> PosterState]
  BY DEF TypeOK
<1> HIDE DEF PosterState
<1>2. /\ poster' \in [Posters -> PosterState] /\ poster'[po] = x
      /\ \A q \in Posters : q # po => poster'[q] = poster[q]
  BY <1>1
<1> QED BY <1>2 DEF Undisturbed

\* Each step of a post, by what becomes of the post.
LEMMA PosterStepType ==
  ASSUME TypeInv, NEW po \in Posters, PosterStep(po)
  PROVE  /\ poster' \in [Posters -> PosterState]
         /\ Fits(poster'[po])
         /\ \A q \in Posters : q # po => Undisturbed(q)
<1> DEFINE Typed == /\ poster' \in [Posters -> PosterState]
                    /\ Fits(poster'[po])
                    /\ \A q \in Posters : q # po => Undisturbed(q)
<1>0. TypeOK /\ poster[po] \in PosterState /\ Fits(poster[po])
      /\ poster \in [Posters -> PosterState]
  BY DEF TypeInv, TypeOK, PosterShape
<1>1. ASSUME NEW x \in PosterState, Fits(x), poster' = [poster EXCEPT ![po] = x]
      PROVE  Typed
  BY <1>0, <1>1, Updated
<1>2. ASSUME poster' = [poster EXCEPT ![po] = IdlePoster] PROVE Typed
  <2>1. Fits(IdlePoster)
    BY IdleType DEF Fits
  <2> QED BY <1>1, <1>2, <2>1, IdleType
<1>3. ASSUME NEW k \in Keys, KeyTaken(k),
             poster' = [poster EXCEPT ![po] = WinnerAnswer(po, k)]
      PROVE  Typed
  <2>1. PICK i \in DOMAIN journals :
          /\ WinnerAnswer(po, k) = Answer(k, journals[i].period, journals[i].number)
          /\ journals[i].period \in Periods /\ journals[i].number \in Nat
    BY <1>0, <1>3, WinnerType
  <2>2. WinnerAnswer(po, k) \in PosterState /\ Fits(WinnerAnswer(po, k))
    BY <2>1, AnswerType DEF Fits
  <2> QED BY <1>1, <1>3, <2>2
<1>4. ASSUME NEW v \in {"resolved", "refused"}, poster[po].pc # "idle",
             poster' = [poster EXCEPT ![po] = [@ EXCEPT !.pc = v]]
      PROVE  Typed
  <2>1. [poster[po] EXCEPT !.pc = v] \in PosterState
        /\ Fits([poster[po] EXCEPT !.pc = v])
    BY <1>0, <1>4 DEF PosterState, Fits
  <2>2. poster' = [poster EXCEPT ![po] = [poster[po] EXCEPT !.pc = v]]
    BY <1>4
  <2> QED BY <1>1, <2>1, <2>2
<1>5. ASSUME NEW k \in Keys, NEW p \in Periods, Check(po, k, p) PROVE Typed
  <2>1. CASE KeyTaken(k)
    BY <1>3, <1>5, <2>1 DEF Check
  <2>2. CASE ~KeyTaken(k)
    <3>1. PosterAt("checked", k, p, 0) \in PosterState /\ Fits(PosterAt("checked", k, p, 0))
      BY LedgerAssumption DEF PosterAt, PosterState, Fits
    <3> QED BY <1>1, <1>5, <2>2, <3>1 DEF Check
  <2> QED BY <2>1, <2>2
<1>6. CASE Resolve(po)
  <2>1. poster' = [poster EXCEPT ![po] = [@ EXCEPT !.pc = "resolved"]]
        \/ poster' = [poster EXCEPT ![po] = IdlePoster]
    BY <1>6 DEF Resolve
  <2> QED BY <1>2, <1>4, <1>6, <2>1 DEF Resolve
<1>7. CASE Allocate(po)
  <2> DEFINE x == [poster[po] EXCEPT !.pc = "allocated",
                     !.number = ClaimedNumber(poster[po].period), !.tries = 1]
  <2>1. ClaimedNumber(poster[po].period) \in Nat
    BY <1>0, <1>7 DEF Allocate, Fits, ClaimedNumber, TypeOK
  <2>2. x \in PosterState /\ Fits(x)
    <3>1. 1 \in 0 .. MaxTries
      BY LedgerAssumption
    <3>2. x \in PosterState
      BY <1>0, <2>1, <3>1 DEF PosterState
    <3>3. x.pc = "allocated" /\ x.key = poster[po].key /\ x.period = poster[po].period
      BY <1>0 DEF PosterState
    <3> HIDE DEF x
    <3> QED BY <1>0, <1>7, <3>2, <3>3 DEF Allocate, Fits
  <2>3. poster' = [poster EXCEPT ![po] = x]
    BY <1>7 DEF Allocate
  <2> QED BY <1>1, <2>2, <2>3
<1>8. CASE Begin(po)
  <2> DEFINE x == [poster[po] EXCEPT !.pc = "begun", !.applied = 0, !.stale = {},
                     !.after = [a \in Accounts |-> 0]]
  <2>1. x \in PosterState /\ Fits(x)
    <3>1. [a \in Accounts |-> 0] \in [Accounts -> Int]
      OBVIOUS
    <3>2. x \in PosterState
      BY <1>0, <3>1 DEF PosterState
    <3>3. x.pc = "begun" /\ x.applied = 0 /\ x.key = poster[po].key /\ x.period = poster[po].period
      BY <1>0 DEF PosterState
    <3> HIDE DEF x
    <3> QED BY <1>0, <1>8, <3>2, <3>3 DEF Begin, Fits
  <2>2. poster' = [poster EXCEPT ![po] = x]
    BY <1>8 DEF Begin
  <2> QED BY <1>1, <2>1, <2>2
<1>9. CASE CreateJournal(po)
  <2> DEFINE x(v) == [poster[po] EXCEPT !.pc = v]
  <2>1. PICK v \in {"refused", "duplicate", "inserted"} :
          /\ poster' = [poster EXCEPT ![po] = x(v)]
          /\ v = "duplicate" => KeyTaken(poster[po].key)
    <3>1. CASE ~Postable(period[poster[po].period].status, poster[po].key)
      BY <1>9, <3>1 DEF CreateJournal
    <3>2. CASE Postable(period[poster[po].period].status, poster[po].key)
      BY <1>9, <3>2 DEF CreateJournal
    <3> QED BY <3>1, <3>2
  <2>2. /\ poster[po].pc = "begun" /\ poster[po].key \in Keys /\ poster[po].period \in Periods
        /\ poster[po].applied = 0
    BY <1>0, <1>9 DEF CreateJournal, Fits
  <2>3. Len(Lines[poster[po].key]) \in Nat
    BY <2>2, LineType
  <2>4. x(v) \in PosterState
    BY <1>0 DEF PosterState
  <2>5. /\ x(v).pc = v /\ x(v).key = poster[po].key /\ x(v).period = poster[po].period
        /\ x(v).applied = 0
    BY <1>0, <2>2 DEF PosterState
  <2>6. Fits(x(v))
    <3> HIDE DEF x
    <3> QED BY <2>1, <2>2, <2>3, <2>5 DEF Fits
  <2> QED BY <1>1, <2>1, <2>4, <2>6
<1>10. CASE UpdateAccount(po)
  <2> DEFINE line == NextLine(po)
             b == balance[line.account] + balanceDelta(line.account, line.net)
             x == [poster[po] EXCEPT !.applied = @ + 1, !.after[line.account] = b]
  <2>1. /\ poster[po].pc = "inserted" /\ poster[po].key \in Keys
        /\ poster[po].applied \in Nat /\ poster[po].applied < Len(Lines[poster[po].key])
        /\ poster[po].after \in [Accounts -> Int]
    BY <1>0, <1>10 DEF UpdateAccount, Unfinished, Fits, PosterState
  <2>2. /\ line.account \in Accounts /\ line.net \in Int
        /\ Len(Lines[poster[po].key]) \in Nat
    <3>1. Len(Lines[poster[po].key]) \in Nat
          /\ poster[po].applied + 1 \in DOMAIN Lines[poster[po].key]
      BY <2>1, LineType
    <3> QED BY <2>1, <3>1, LineType DEF NextLine
  <2>3. b \in Int
    <3>1. balance[line.account] \in Int
      BY <1>0, <2>2 DEF TypeOK
    <3>2. balanceDelta(line.account, line.net) \in Int
      BY <2>2, DeltaType
    <3> QED BY <3>1, <3>2
  <2>4. poster[po].applied + 1 \in Nat /\ poster[po].applied + 1 <= Len(Lines[poster[po].key])
    BY <2>1, <2>2
  <2>5. /\ x.pc = "inserted" /\ x.key = poster[po].key /\ x.period = poster[po].period
        /\ x.applied = poster[po].applied + 1
        /\ x.after = [poster[po].after EXCEPT ![line.account] = b]
    <3> HIDE DEF line, b
    <3> QED BY <1>0, <2>1 DEF PosterState
  <2>6. x \in PosterState
    <3>1. [poster[po].after EXCEPT ![line.account] = b] \in [Accounts -> Int]
      BY <2>1, <2>3
    <3> HIDE DEF line, b
    <3> QED BY <1>0, <2>4, <3>1 DEF PosterState
  <2>7. Fits(x)
    <3> HIDE DEF x
    <3> QED BY <1>0, <2>1, <2>4, <2>5 DEF Fits
  <2>8. poster' = [poster EXCEPT ![po] = x]
    BY <1>10 DEF UpdateAccount
  <2> QED BY <1>1, <2>6, <2>7, <2>8
<1>11. ASSUME Persist(po), NEW x \in PosterState, Fits(x),
              poster' = [Outdated(WrittenRows(po)) EXCEPT ![po] = x]
       PROVE  Typed
  <2>1. WrittenRows(po) \in SUBSET (Periods \cup Accounts)
    BY <1>11, PersistType
  <2> DEFINE O == Outdated(WrittenRows(po))
  <2>2. O \in [Posters -> PosterState]
    BY <1>0, <2>1, OutdatedType
  <2>3. poster' \in [Posters -> PosterState] /\ poster'[po] = x
        /\ \A q \in Posters : q # po => poster'[q] = O[q]
    <3> HIDE DEF O, PosterState
    <3> QED BY <1>11, <2>2 DEF O
  <2>4. \A q \in Posters : q # po => Undisturbed(q)
    BY <1>0, <2>1, <2>3, OutdatedType DEF Undisturbed
  <2> QED BY <1>11, <2>3, <2>4
<1>12. CASE Commit(po)
  <2> DEFINE x == Answer(poster[po].key, poster[po].period, poster[po].number)
  <2>1. /\ Persist(po) /\ poster[po].key \in Keys /\ poster[po].period \in Periods
        /\ poster[po].number \in Nat
    BY <1>0, <1>12 DEF Commit, Persist, Fits, PosterState
  <2>2. x \in PosterState /\ Fits(x)
    BY <2>1, AnswerType DEF Fits
  <2>3. WrittenRows(po) \in SUBSET (Periods \cup Accounts)
    BY <2>1, PersistType
  <2>4. poster' = [Outdated(WrittenRows(po)) EXCEPT ![po] = x]
    BY <1>0, <1>12, <2>3, OutdatedType DEF Commit
  <2> QED BY <1>11, <2>1, <2>2, <2>4
<1>13. CASE LoseAcknowledgement(po)
  <2> DEFINE x == [poster[po] EXCEPT !.pc = "refused"]
  <2>1. Persist(po) /\ poster' = [Outdated(WrittenRows(po)) EXCEPT ![po] = x]
        /\ poster[po].pc = "inserted"
    BY <1>13 DEF LoseAcknowledgement, Persist
  <2>2. x \in PosterState /\ Fits(x)
    BY <1>0, <2>1 DEF PosterState, Fits
  <2> QED BY <1>11, <2>1, <2>2
<1>14. CASE Abort(po)
  <2>1. InTransaction(po) /\ poster[po].pc # "idle"
    BY <1>14 DEF Abort, InTransaction
  <2>2. CASE CanRetry(po)
    <3> DEFINE x == [poster[po] EXCEPT !.pc = "allocated", !.tries = @ + 1]
    <3>1. poster[po].tries + 1 \in 0 .. MaxTries
      BY <1>0, <2>2, LedgerAssumption DEF CanRetry, PosterState
    <3>2. x \in PosterState
      BY <1>0, <3>1 DEF PosterState
    <3>3. x.pc = "allocated" /\ x.key = poster[po].key /\ x.period = poster[po].period
      BY <1>0 DEF PosterState
    <3>4. Fits(x)
      <4> HIDE DEF x
      <4> QED BY <1>0, <2>1, <3>3 DEF Fits
    <3>5. poster' = [poster EXCEPT ![po] = x]
      BY <1>14, <2>2 DEF Abort
    <3> QED BY <1>1, <3>2, <3>4, <3>5
  <2>3. CASE ~CanRetry(po)
    <3>1. poster' = [poster EXCEPT ![po] = [@ EXCEPT !.pc = "refused"]]
      BY <1>14, <2>3 DEF Abort
    <3> QED BY <1>4, <2>1, <3>1
  <2> QED BY <2>2, <2>3
<1>15. CASE TransactionFails(po)
  <2>1. poster' = [poster EXCEPT ![po] = [@ EXCEPT !.pc = "refused"]]
        /\ poster[po].pc # "idle"
    BY <1>15 DEF TransactionFails, InTransaction
  <2> QED BY <1>4, <2>1
<1>16. CASE ReturnWinner(po)
  <2>1. poster[po].key \in Keys /\ KeyTaken(poster[po].key)
    BY <1>0, <1>16 DEF ReturnWinner, Fits
  <2>2. poster' = [poster EXCEPT ![po] = WinnerAnswer(po, poster[po].key)]
    BY <1>16 DEF ReturnWinner
  <2> QED BY <1>3, <2>1, <2>2
<1>17. CASE LogGap(po) \/ Return(po) \/ Crash(po)
  BY <1>2, <1>17 DEF LogGap, Return, Crash
<1>18. CASE TransactionStep(po)
  BY <1>8, <1>9, <1>10, <1>12, <1>18 DEF TransactionStep
<1> QED BY <1>5, <1>6, <1>7, <1>13, <1>14, <1>15, <1>16, <1>17, <1>18 DEF PosterStep

LEMMA Frame ==
  ASSUME NEW po \in Posters, PosterStep(po)
  PROVE  /\ UNCHANGED opening
         /\ Commit(po) \/ LoseAcknowledgement(po) \/ UNCHANGED <<period, journals, balance>>
         /\ Allocate(po) \/ UNCHANGED seq
         /\ LogGap(po) \/ UNCHANGED gaps
         /\ Crash(po) \/ LoseAcknowledgement(po) \/ UNCHANGED faults
BY DEF PosterStep, TransactionStep, Check, Resolve, Allocate, Begin, CreateJournal,
   UpdateAccount, Commit, LoseAcknowledgement, Abort, TransactionFails, ReturnWinner,
   LogGap, Return, Crash

\* The requests of PeriodService touch a period row and the posts' stale rows.
PeriodStep ==
  \/ \E c \in Controllers, p \in Periods :
       CheckOpen(c, p) \/ WriteOpen(c, p) \/ WriteOpenRefused(c, p)
  \/ \E p \in Periods, s \in PeriodStatus : Transition(p, s)

LEMMA PeriodStepType ==
  ASSUME TypeInv, PeriodStep
  PROVE  /\ period' \in [Periods -> PeriodRow]
         /\ poster' \in [Posters -> PosterState] /\ \A q \in Posters : Undisturbed(q)
         /\ opening' \in [Controllers -> Periods \cup {NoPeriod}]
         /\ UNCHANGED <<seq, journals, balance, gaps, faults>>
         /\ \/ \A p \in Periods : period'[p].status = period[p].status
            \/ \E p \in Periods, s \in PeriodStatus :
                 /\ PeriodFree(p) /\ canTransition(period[p].status, s)
                 /\ period'[p].status = s
                 /\ \A q \in Periods : q # p => period'[q].status = period[q].status
<1>0. TypeOK /\ period \in [Periods -> PeriodRow] /\ poster \in [Posters -> PosterState]
      /\ opening \in [Controllers -> Periods \cup {NoPeriod}]
  BY DEF TypeInv, TypeOK
<1>1. (\A q \in Posters : poster'[q] = poster[q]) => \A q \in Posters : Undisturbed(q)
  BY DEF Undisturbed
<1>2. ASSUME NEW p \in Periods, NEW s \in PeriodStatus, SetStatus(p, s),
             s = period[p].status \/ canTransition(period[p].status, s)
      PROVE  /\ period' \in [Periods -> PeriodRow]
             /\ poster' \in [Posters -> PosterState] /\ \A q \in Posters : Undisturbed(q)
             /\ UNCHANGED <<seq, journals, balance, gaps, faults>>
             /\ \/ \A q \in Periods : period'[q].status = period[q].status
                \/ /\ PeriodFree(p) /\ canTransition(period[p].status, s)
                   /\ period'[p].status = s
                   /\ \A q \in Periods : q # p => period'[q].status = period[q].status
  <2>1. /\ PeriodFree(p) /\ period' = [period EXCEPT ![p].status = s]
        /\ poster' = Outdated({p}) /\ UNCHANGED <<seq, journals, balance, gaps, faults>>
    BY <1>2 DEF SetStatus
  <2>2. /\ poster' \in [Posters -> PosterState] /\ \A q \in Posters : Undisturbed(q)
    BY <1>0, <2>1, OutdatedType DEF Undisturbed
  <2>3. period' \in [Periods -> PeriodRow] /\ period'[p].status = s
        /\ \A q \in Periods : q # p => period'[q].status = period[q].status
    BY <1>0, <2>1 DEF PeriodRow
  <2> QED BY <1>2, <2>1, <2>2, <2>3
<1>3. ASSUME NEW c \in Controllers, NEW p \in Periods, CheckOpen(c, p)
      PROVE  /\ UNCHANGED <<period, poster, seq, journals, balance, gaps, faults>>
             /\ opening' \in [Controllers -> Periods \cup {NoPeriod}]
  BY <1>0, <1>3 DEF CheckOpen
<1>4. ASSUME NEW c \in Controllers, NEW p \in Periods, WriteOpenRefused(c, p)
      PROVE  /\ UNCHANGED <<period, poster, seq, journals, balance, gaps, faults>>
             /\ opening' \in [Controllers -> Periods \cup {NoPeriod}]
  BY <1>0, <1>4 DEF WriteOpenRefused
<1>5. ASSUME NEW c \in Controllers, NEW p \in Periods, WriteOpen(c, p)
      PROVE  /\ SetStatus(p, "OPEN") /\ "OPEN" \in PeriodStatus
             /\ "OPEN" = period[p].status \/ canTransition(period[p].status, "OPEN")
             /\ opening' \in [Controllers -> Periods \cup {NoPeriod}]
  BY <1>0, <1>5 DEF WriteOpen, UpdateLegal, PeriodStatus
<1>6. ASSUME NEW p \in Periods, NEW s \in PeriodStatus, Transition(p, s)
      PROVE  SetStatus(p, s) /\ canTransition(period[p].status, s) /\ UNCHANGED opening
  BY <1>6 DEF Transition
<1>7. CASE \E c \in Controllers, p \in Periods : CheckOpen(c, p) \/ WriteOpenRefused(c, p)
  BY <1>0, <1>1, <1>3, <1>4, <1>7
<1>8. CASE \E c \in Controllers, p \in Periods : WriteOpen(c, p)
  <2>1. PICK c \in Controllers, p \in Periods : WriteOpen(c, p)
    BY <1>8
  <2> QED BY <1>2, <1>5, <2>1
<1>9. CASE \E p \in Periods, s \in PeriodStatus : Transition(p, s)
  <2>1. PICK p \in Periods, s \in PeriodStatus : Transition(p, s)
    BY <1>9
  <2> QED BY <1>0, <1>2, <1>6, <2>1
<1> QED BY <1>7, <1>8, <1>9 DEF PeriodStep

(* A step leaves the journals alone or appends one, whole.                   *)
LEMMA JournalsGrow ==
  ASSUME TypeInv, [Next]_vars
  PROVE  /\ UNCHANGED <<journals, balance>> \/ \E po \in Posters : Persist(po)
         /\ \A i \in DOMAIN journals : i \in DOMAIN journals' /\ journals'[i] = journals[i]
         /\ \A k : KeyTaken(k) => KeyTaken(k)'
         /\ \A p, n : Used(p, n) => Used(p, n)'
<1>1. UNCHANGED <<journals, balance>> \/ \E po \in Posters : Persist(po)
  <2>1. CASE \E po \in Posters : PosterStep(po)
    BY <2>1, Frame DEF Commit, LoseAcknowledgement
  <2>2. CASE PeriodStep
    BY <2>2, PeriodStepType
  <2>3. CASE UNCHANGED vars
    BY <2>3 DEF vars
  <2> QED BY <2>1, <2>2, <2>3 DEF Next, PeriodStep
<1>2. \A i \in DOMAIN journals : i \in DOMAIN journals' /\ journals'[i] = journals[i]
  <2>1. CASE UNCHANGED journals
    BY <2>1
  <2>2. ASSUME NEW po \in Posters, Persist(po)
        PROVE  \A i \in DOMAIN journals : i \in DOMAIN journals' /\ journals'[i] = journals[i]
    <3>1. /\ journals' \in Seq(Journal) /\ Len(journals') = Len(journals) + 1
          /\ \A i \in DOMAIN journals : journals'[i] = journals[i]
      BY <2>2, PersistType
    <3>2. journals \in Seq(Journal)
      BY DEF TypeInv, TypeOK
    <3> HIDE DEF Journal
    <3> QED BY <3>1, <3>2
  <2> QED BY <1>1, <2>1, <2>2
<1> QED BY <1>1, <1>2 DEF KeyTaken, Used

LEMMA TypeStep == TypeInv /\ [Next]_vars => TypeInv'
<1> SUFFICES ASSUME TypeInv, [Next]_vars PROVE TypeInv'
  OBVIOUS
<1>0. TypeOK /\ PosterShape
  BY DEF TypeInv
<1>1. ASSUME NEW q \in Posters, Undisturbed(q) PROVE Fits(poster[q])'
  <2>1. Fits(poster[q])
    BY <1>0 DEF PosterShape
  <2> QED BY <1>1, <2>1, JournalsGrow DEF Undisturbed, Fits
<1>2. ASSUME NEW po \in Posters, PosterStep(po) PROVE TypeInv'
  <2>1. PosterShape'
    <3>1. Fits(poster[po])'
      BY <1>2, PosterStepType, JournalsGrow DEF Fits
    <3> QED BY <1>1, <1>2, <3>1, PosterStepType DEF PosterShape
  <2>2. /\ period' \in [Periods -> PeriodRow] /\ journals' \in Seq(Journal)
        /\ balance' \in [Accounts -> Int]
    <3>1. CASE UNCHANGED <<period, journals, balance>>
      BY <1>0, <3>1 DEF TypeOK
    <3>2. CASE Persist(po)
      BY <3>2, PersistType
    <3> QED BY <1>2, <3>1, <3>2, Frame DEF Commit, LoseAcknowledgement
  <2>3. seq' \in [Periods -> Nat]
    <3>1. CASE Allocate(po)
      <4>1. seq \in [Periods -> Nat] /\ poster[po].period \in Periods
        BY <1>0, <3>1 DEF TypeOK, Allocate, PosterShape, Fits
      <4>2. seq' = [seq EXCEPT ![poster[po].period] = seq[poster[po].period] + 1]
        BY <3>1 DEF Allocate
      <4> QED BY <4>1, <4>2
    <3> QED BY <1>0, <1>2, <3>1, Frame DEF TypeOK
  <2>4. gaps' \in SUBSET [period : Periods, number : Nat]
    <3>1. CASE LogGap(po)
      <4>1. poster[po].period \in Periods /\ poster[po].number \in Nat
        BY <1>0, <3>1 DEF LogGap, PosterShape, Fits, TypeOK, PosterState
      <4> QED BY <1>0, <3>1, <4>1 DEF TypeOK, LogGap, GapRow
    <3> QED BY <1>0, <1>2, <3>1, Frame DEF TypeOK
  <2>5. faults' \in [crashes : Nat, lostAcks : Nat]
    <3>1. faults \in [crashes : Nat, lostAcks : Nat]
      BY <1>0 DEF TypeOK
    <3>2. CASE Crash(po)
      BY <3>1, <3>2 DEF Crash
    <3>3. CASE LoseAcknowledgement(po)
      BY <3>1, <3>3 DEF LoseAcknowledgement
    <3> QED BY <1>2, <3>1, <3>2, <3>3, Frame
  <2>6. poster' \in [Posters -> PosterState]
        /\ opening' \in [Controllers -> Periods \cup {NoPeriod}]
    BY <1>0, <1>2, PosterStepType, Frame DEF TypeOK
  <2> QED BY <2>1, <2>2, <2>3, <2>4, <2>5, <2>6 DEF TypeInv, TypeOK
<1>3. CASE PeriodStep
  <2>1. TypeOK'
    BY <1>0, <1>3, PeriodStepType DEF TypeOK
  <2>2. PosterShape'
    BY <1>1, <1>3, PeriodStepType DEF PosterShape
  <2> QED BY <2>1, <2>2 DEF TypeInv
<1>4. CASE UNCHANGED vars
  BY <1>0, <1>4 DEF vars, TypeInv, TypeOK, PosterShape, Fits, KeyTaken
<1> QED BY <1>2, <1>3, <1>4 DEF Next, PeriodStep

LEMMA TypeInit == Init => TypeInv
<1> SUFFICES ASSUME Init PROVE TypeInv
  OBVIOUS
<1>1. \A po \in Posters : poster[po] = IdlePoster
  BY DEF Init
<1>2. PosterShape
  BY <1>1, IdleType DEF PosterShape, Fits
<1>3. poster \in [Posters -> PosterState]
  BY IdleType DEF Init
<1>4. journals \in Seq(Journal) /\ period \in [Periods -> PeriodRow]
  BY DEF Init, PeriodRow, PeriodStatus
<1>5. /\ seq \in [Periods -> Nat] /\ balance \in [Accounts -> Int]
      /\ gaps \in SUBSET [period : Periods, number : Nat]
      /\ opening \in [Controllers -> Periods \cup {NoPeriod}]
      /\ faults \in [crashes : Nat, lostAcks : Nat]
  BY DEF Init
<1> QED BY <1>2, <1>3, <1>4, <1>5 DEF TypeInv, TypeOK

(* Every row, every journal and every local variable stays in its domain; no     *)
(* post is retried beyond MaxTries.                                              *)
THEOREM TypeCorrect == Spec => []TypeOK
<1>1. TypeInv => TypeOK
  BY DEF TypeInv
<1> QED BY <1>1, TypeInit, TypeStep, PTL DEF Spec

-----------------------------------------------------------------------------
(* What a post does with the rows it has locked.                             *)

Commits(po) == Commit(po) \/ LoseAcknowledgement(po)

LEMMA CommitStep ==
  ASSUME TypeInv, NEW po \in Posters, Commits(po)
  PROVE  /\ Persist(po) /\ Inserted(po) /\ ~Unfinished(po)
         /\ poster'[po].pc \in {"answered", "refused"}
         /\ \A q \in Posters : q # po => Undisturbed(q)
         /\ UNCHANGED seq
<1>1. Persist(po) /\ Inserted(po) /\ ~Unfinished(po) /\ UNCHANGED seq
  BY DEF Commits, Commit, LoseAcknowledgement, Persist, Inserted
<1>2. PosterStep(po)
  BY DEF Commits, PosterStep, TransactionStep
<1>3. Outdated(WrittenRows(po)) \in [Posters -> PosterState]
  BY <1>1, PersistType, OutdatedType DEF TypeInv
<1>4. CASE Commit(po)
  <2>1. /\ Outdated(WrittenRows(po))[po].key \in Keys
        /\ Outdated(WrittenRows(po))[po].period \in Periods
        /\ Outdated(WrittenRows(po))[po].number \in Nat
    <3>1. poster[po].key \in Keys /\ poster[po].period \in Periods /\ poster[po].number \in Nat
      BY <1>1 DEF TypeInv, TypeOK, PosterShape, Fits, PosterState, Inserted
    <3>2. WrittenRows(po) \in SUBSET (Periods \cup Accounts) /\ TypeOK
      BY <1>1, PersistType DEF TypeInv
    <3> QED BY <3>1, <3>2, OutdatedType
  <2> DEFINE x == Answer(Outdated(WrittenRows(po))[po].key,
                         Outdated(WrittenRows(po))[po].period,
                         Outdated(WrittenRows(po))[po].number)
  <2>2. poster' = [Outdated(WrittenRows(po)) EXCEPT ![po] = x]
    BY <1>4 DEF Commit
  <2>3. poster'[po] = x
    <3> HIDE DEF x, PosterState
    <3> QED BY <1>3, <2>2
  <2> QED BY <1>1, <1>2, <2>1, <2>3, AnswerType, PosterStepType
<1>5. CASE LoseAcknowledgement(po)
  <2> DEFINE x == [poster[po] EXCEPT !.pc = "refused"]
  <2>1. poster' = [Outdated(WrittenRows(po)) EXCEPT ![po] = x]
    BY <1>5 DEF LoseAcknowledgement
  <2>2. poster'[po] = x
    <3> HIDE DEF x, PosterState
    <3> QED BY <1>3, <2>1
  <2>3. x.pc = "refused"
    BY DEF TypeInv, TypeOK, PosterState
  <2> QED BY <1>1, <1>2, <2>2, <2>3, PosterStepType
<1> QED BY <1>4, <1>5 DEF Commits

\* The kinds of a step, for the invariants below.
LEMMA Kinds ==
  ASSUME TypeInv, [Next]_vars
  PROVE  \/ \E po \in Posters : Commits(po)
         \/ /\ UNCHANGED <<period, journals, balance>>
            /\ \E po \in Posters : PosterStep(po) /\ ~Commits(po)
         \/ PeriodStep /\ UNCHANGED <<journals, balance, seq>>
         \/ UNCHANGED vars
BY Frame, PeriodStepType DEF Next, PeriodStep, Commits

\* Where the steps lead that take a post neither to a journal nor to an answer.
LEMMA PlainMoves ==
  ASSUME TypeOK, NEW po \in Posters,
         Resolve(po) \/ Allocate(po) \/ Begin(po) \/ Abort(po) \/ TransactionFails(po)
  PROVE  poster'[po].pc \in {"idle", "resolved", "allocated", "begun", "refused"}
<1>0. poster \in [Posters -> PosterState] /\ poster[po] \in PosterState
  BY DEF TypeOK
<1>1. CASE Resolve(po)
  <2>1. poster'[po] = [poster[po] EXCEPT !.pc = "resolved"] \/ poster'[po] = IdlePoster
    BY <1>0, <1>1 DEF Resolve
  <2> QED BY <1>0, <2>1, IdleType DEF PosterState
<1>2. CASE Allocate(po)
  <2> DEFINE n == ClaimedNumber(poster[po].period)
  <2>1. poster'[po] = [poster[po] EXCEPT !.pc = "allocated", !.number = n, !.tries = 1]
    BY <1>0, <1>2 DEF Allocate
  <2> HIDE DEF n
  <2> QED BY <1>0, <2>1 DEF PosterState
<1>3. CASE Begin(po)
  <2> DEFINE z == [a \in Accounts |-> 0]
  <2>1. poster'[po] = [poster[po] EXCEPT !.pc = "begun", !.applied = 0, !.stale = {},
                                         !.after = z]
    BY <1>0, <1>3 DEF Begin
  <2> HIDE DEF z
  <2> QED BY <1>0, <2>1 DEF PosterState
<1>4. CASE Abort(po)
  <2>1. \/ poster'[po] = [poster[po] EXCEPT !.pc = "allocated", !.tries = poster[po].tries + 1]
        \/ poster'[po] = [poster[po] EXCEPT !.pc = "refused"]
    BY <1>0, <1>4 DEF Abort
  <2> QED BY <1>0, <2>1 DEF PosterState
<1>5. CASE TransactionFails(po)
  <2>1. poster'[po] = [poster[po] EXCEPT !.pc = "refused"]
    BY <1>0, <1>5 DEF TransactionFails
  <2> QED BY <1>0, <2>1 DEF PosterState
<1> QED BY <1>1, <1>2, <1>3, <1>4, <1>5

\* How a post comes to hold what it holds after a step.
LEMMA InsertedStep ==
  ASSUME TypeInv, [Next]_vars, NEW po \in Posters, Inserted(po)'
  PROVE  \/ /\ Inserted(po) /\ Undisturbed(po)
            /\ ~Commits(po)
         \/ /\ CreateJournal(po)
            /\ poster'[po].key = poster[po].key /\ poster'[po].period = poster[po].period
            /\ poster'[po].applied = 0
            /\ Postable(period[poster[po].period].status, poster[po].key)
            /\ ~KeyTaken(poster[po].key)
            /\ \A q \in Posters : q # po => Undisturbed(q)
         \/ /\ UpdateAccount(po) /\ Inserted(po)
            /\ poster'[po].key = poster[po].key /\ poster'[po].period = poster[po].period
            /\ poster'[po].applied = poster[po].applied + 1
            /\ poster'[po].after =
                 [poster[po].after EXCEPT ![NextLine(po).account] =
                    balance[NextLine(po).account]
                      + balanceDelta(NextLine(po).account, NextLine(po).net)]
            /\ \A q \in Posters : q # po => Undisturbed(q)
<1>0. poster \in [Posters -> PosterState] /\ poster[po] \in PosterState
  BY DEF TypeInv, TypeOK
<1>1. ~Commits(po)
  BY CommitStep DEF Inserted
<1>2. CASE Undisturbed(po)
  BY <1>1, <1>2 DEF Undisturbed, Inserted
<1>3. ASSUME NEW q \in Posters, q # po, PosterStep(q) PROVE Undisturbed(po)
  BY <1>3, PosterStepType
<1>4. PeriodStep => Undisturbed(po)
  BY PeriodStepType
<1>5. UNCHANGED vars => Undisturbed(po)
  BY DEF vars, Undisturbed
<1>6. CASE CreateJournal(po)
  <2>1. PosterStep(po)
    BY <1>6 DEF PosterStep, TransactionStep
  <2>2. poster[po].applied = 0
    BY <1>6 DEF CreateJournal, TypeInv, PosterShape, Fits
  <2> DEFINE v == IF ~Postable(period[poster[po].period].status, poster[po].key)
                    THEN "refused"
                    ELSE IF KeyTaken(poster[po].key) THEN "duplicate" ELSE "inserted"
  <2>3. poster'[po] = [poster[po] EXCEPT !.pc = v]
    BY <1>0, <1>6 DEF CreateJournal
  <2>4. /\ poster'[po].pc = v /\ poster'[po].key = poster[po].key
        /\ poster'[po].period = poster[po].period
        /\ poster'[po].applied = poster[po].applied
    <3> HIDE DEF v
    <3> QED BY <1>0, <2>3 DEF PosterState
  <2>5. v = "inserted"
    BY <2>4 DEF Inserted
  <2> QED BY <1>6, <2>1, <2>2, <2>4, <2>5, PosterStepType
<1>7. CASE UpdateAccount(po)
  <2>1. PosterStep(po)
    BY <1>7 DEF PosterStep, TransactionStep
  <2> DEFINE b == balance[NextLine(po).account]
                    + balanceDelta(NextLine(po).account, NextLine(po).net)
  <2>2. poster'[po] = [poster[po] EXCEPT !.applied = poster[po].applied + 1,
                                         !.after[NextLine(po).account] = b]
    BY <1>0, <1>7 DEF UpdateAccount
  <2>3. /\ poster'[po].key = poster[po].key /\ poster'[po].period = poster[po].period
        /\ poster'[po].applied = poster[po].applied + 1
        /\ poster'[po].after = [poster[po].after EXCEPT ![NextLine(po).account] = b]
    <3> HIDE DEF b
    <3> QED BY <1>0, <2>2 DEF PosterState
  <2>4. Inserted(po)
    BY <1>7 DEF UpdateAccount, Inserted
  <2> QED BY <1>7, <2>1, <2>3, <2>4, PosterStepType
<1>8. CASE PosterStep(po) /\ ~CreateJournal(po) /\ ~UpdateAccount(po)
  <2>1. poster'[po].pc = "inserted"
    BY DEF Inserted
  <2>2. IdlePoster.pc # "inserted"
    BY IdleType
  <2>3. ASSUME NEW k \in Keys, KeyTaken(k) PROVE WinnerAnswer(po, k).pc # "inserted"
    BY <2>3, WinnerType, AnswerType DEF TypeInv
  <2>4. \A k, p : ~(k \in Keys /\ Check(po, k, p))
    <3> SUFFICES ASSUME NEW k \in Keys, NEW p, Check(po, k, p) PROVE FALSE
      OBVIOUS
    <3>1. poster'[po] = IF KeyTaken(k) THEN WinnerAnswer(po, k)
                        ELSE PosterAt("checked", k, p, 0)
      BY <1>0 DEF Check
    <3>2. PosterAt("checked", k, p, 0).pc = "checked"
      BY DEF PosterAt
    <3> QED BY <2>1, <2>3, <3>1, <3>2
  <2>5. ~(Resolve(po) \/ Allocate(po) \/ Begin(po) \/ Abort(po) \/ TransactionFails(po))
    BY <1>0, <2>1, PlainMoves DEF TypeInv
  <2>6. ~ReturnWinner(po)
    <3> SUFFICES ASSUME ReturnWinner(po) PROVE FALSE
      OBVIOUS
    <3>1. poster[po].key \in Keys /\ KeyTaken(poster[po].key)
      BY DEF ReturnWinner, TypeInv, PosterShape, Fits
    <3>2. poster'[po] = WinnerAnswer(po, poster[po].key)
      BY <1>0 DEF ReturnWinner
    <3> QED BY <2>1, <2>3, <3>1, <3>2
  <2>7. ~(LogGap(po) \/ Return(po) \/ Crash(po))
    BY <1>0, <2>1, <2>2 DEF LogGap, Return, Crash
  <2> QED BY <1>1, <1>8, <2>4, <2>5, <2>6, <2>7
          DEF PosterStep, TransactionStep, Commits
<1> QED BY <1>2, <1>3, <1>4, <1>5, <1>6, <1>7, <1>8 DEF Next, PeriodStep

(* The row locks: no two posts hold the same period, the same key or the same    *)
(* account, and what the trigger and the unique index found stays so while a     *)
(* post holds its rows.                                                          *)
LocksExclude ==
  \A po, q \in Posters : po # q /\ Inserted(po) /\ Inserted(q) =>
    /\ poster[po].period # poster[q].period
    /\ poster[po].key # poster[q].key
    /\ \A a \in Accounts : ~(HoldsAccount(po, a) /\ HoldsAccount(q, a))

InsertedIsLegal ==
  \A po \in Posters : Inserted(po) =>
    /\ Postable(period[poster[po].period].status, poster[po].key)
    /\ ~KeyTaken(poster[po].key)

LockInv == TypeInv /\ LocksExclude /\ InsertedIsLegal

\* An account that a post holds after a step.
LEMMA HeldStep ==
  ASSUME TypeInv, [Next]_vars, NEW po \in Posters, NEW a \in Accounts,
         HoldsAccount(po, a)'
  PROVE  HoldsAccount(po, a) \/ (UpdateAccount(po) /\ a = NextLine(po).account)
<1>0. Inserted(po)' /\ poster[po].applied \in Nat
  BY DEF HoldsAccount, Inserted, TypeInv, TypeOK, PosterState
<1>1. PICK i \in 1 .. poster'[po].applied : Lines[poster'[po].key][i].account = a
  BY DEF HoldsAccount
<1>2. CASE Inserted(po) /\ Undisturbed(po)
  BY <1>1, <1>2 DEF Undisturbed, HoldsAccount, Inserted
<1>3. CASE poster'[po].applied = 0
  BY <1>1, <1>3
<1>4. CASE /\ UpdateAccount(po) /\ Inserted(po) /\ poster'[po].key = poster[po].key
           /\ poster'[po].applied = poster[po].applied + 1
  <2>1. i \in 1 .. poster[po].applied \/ i = poster[po].applied + 1
    BY <1>0, <1>1, <1>4
  <2> QED BY <1>1, <1>4, <2>1 DEF HoldsAccount, Inserted, NextLine
<1> QED BY <1>0, <1>2, <1>3, <1>4, InsertedStep

LEMMA UpdateMoves ==
  ASSUME TypeInv, NEW po \in Posters, UpdateAccount(po)
  PROVE  poster'[po].applied = poster[po].applied + 1 /\ ~Undisturbed(po)
<1> DEFINE b == balance[NextLine(po).account]
                  + balanceDelta(NextLine(po).account, NextLine(po).net)
<1>1. poster'[po] = [poster[po] EXCEPT !.applied = poster[po].applied + 1,
                                       !.after[NextLine(po).account] = b]
  BY DEF UpdateAccount, TypeInv, TypeOK
<1>2. poster'[po].applied = poster[po].applied + 1
  <2> HIDE DEF b
  <2> QED BY <1>1 DEF TypeInv, TypeOK, PosterState
<1>3. poster[po].applied \in Nat
  BY DEF TypeInv, TypeOK, PosterState
<1> QED BY <1>2, <1>3 DEF Undisturbed

LEMMA LocksStep ==
  ASSUME TypeInv, LocksExclude, [Next]_vars PROVE LocksExclude'
<1> DEFINE Apart(x, y) ==
             /\ poster'[x].period # poster'[y].period
             /\ poster'[x].key # poster'[y].key
             /\ \A a \in Accounts : ~(HoldsAccount(x, a)' /\ HoldsAccount(y, a)')
<1>1. ASSUME NEW po \in Posters, NEW q \in Posters, po # q,
             CreateJournal(po), Inserted(po)', Inserted(q)',
             poster'[po].key = poster[po].key, poster'[po].period = poster[po].period,
             poster'[po].applied = 0, Undisturbed(q)
      PROVE  Apart(po, q)
  <2>1. Inserted(q) /\ ~Waits(po, q) /\ poster[po].pc = "begun"
    BY <1>1 DEF CreateJournal, Runs, Inserted, Undisturbed
  <2>2. poster[po].period # poster[q].period /\ poster[po].key # poster[q].key
    BY <1>1, <2>1 DEF Waits, HoldsPeriod, HoldsKey, Inserted
  <2>3. \A a \in Accounts : ~HoldsAccount(po, a)'
    BY <1>1 DEF HoldsAccount
  <2> QED BY <1>1, <2>2, <2>3 DEF Undisturbed
<1>2. ASSUME NEW po \in Posters, NEW q \in Posters, po # q,
             UpdateAccount(po), Inserted(po), Inserted(q)',
             poster'[po].key = poster[po].key, poster'[po].period = poster[po].period,
             Undisturbed(q)
      PROVE  Apart(po, q)
  <2>1. Inserted(q) /\ ~Waits(po, q)
    BY <1>2 DEF UpdateAccount, Runs, Inserted, Undisturbed
  <2>2. ~HoldsAccount(q, NextLine(po).account)
    BY <1>2, <2>1 DEF Waits, UpdateAccount
  <2>3. ASSUME NEW a \in Accounts, HoldsAccount(po, a)', HoldsAccount(q, a)' PROVE FALSE
    <3>1. HoldsAccount(q, a)
      BY <1>2, <2>3 DEF HoldsAccount, Undisturbed
    <3>2. ~HoldsAccount(po, a)
      BY <1>2, <2>1, <3>1 DEF LocksExclude
    <3> QED BY <2>2, <2>3, <3>1, <3>2, HeldStep
  <2> QED BY <1>2, <2>1, <2>3 DEF Undisturbed, LocksExclude
<1>3. ASSUME NEW po \in Posters, NEW q \in Posters, po # q, Inserted(po), Inserted(q),
             Undisturbed(po), Undisturbed(q)
      PROVE  Apart(po, q)
  BY <1>3 DEF LocksExclude, HoldsAccount, Undisturbed
<1>4. ASSUME NEW po \in Posters, NEW q \in Posters, po # q, Inserted(po)', Inserted(q)'
      PROVE  Apart(po, q)
  <2>1. CASE CreateJournal(po) \/ UpdateAccount(po)
    <3>1. Undisturbed(q)
      BY <1>4, <2>1, PosterStepType DEF PosterStep, TransactionStep
    <3>2. ~Undisturbed(po)
      <4>1. poster[po].applied \in Nat
        BY DEF TypeInv, TypeOK, PosterState
      <4>2. CreateJournal(po) => poster[po].pc = "begun"
        BY DEF CreateJournal
      <4>3. UpdateAccount(po) => poster'[po].applied = poster[po].applied + 1
        BY UpdateMoves
      <4> QED BY <1>4, <2>1, <4>1, <4>2, <4>3 DEF Undisturbed, Inserted
    <3> QED BY <1>1, <1>2, <1>4, <3>1, <3>2, InsertedStep
  <2>2. CASE CreateJournal(q) \/ UpdateAccount(q)
    <3>1. Undisturbed(po)
      BY <1>4, <2>2, PosterStepType DEF PosterStep, TransactionStep
    <3>2. CASE Undisturbed(q)
      BY <1>3, <1>4, <3>1, <3>2 DEF Undisturbed, Inserted
    <3>3. CASE ~Undisturbed(q)
      <4>1. Apart(q, po)
        BY <1>1, <1>2, <1>4, <3>1, <3>3, InsertedStep
      <4> QED BY <4>1
    <3> QED BY <3>2, <3>3
  <2>3. CASE /\ ~CreateJournal(po) /\ ~UpdateAccount(po)
             /\ ~CreateJournal(q) /\ ~UpdateAccount(q)
    BY <1>3, <1>4, <2>3, InsertedStep
  <2> QED BY <2>1, <2>2, <2>3
<1> QED BY <1>4 DEF LocksExclude

LEMMA LegalStep ==
  ASSUME LockInv, [Next]_vars PROVE InsertedIsLegal'
<1> SUFFICES ASSUME NEW po \in Posters, Inserted(po)'
             PROVE  /\ Postable(period'[poster'[po].period].status, poster'[po].key)
                    /\ \A i \in DOMAIN journals' : journals'[i].key # poster'[po].key
  BY DEF InsertedIsLegal, KeyTaken
<1> USE DEF LockInv
<1>1. CASE CreateJournal(po)
  <2>1. /\ poster'[po].key = poster[po].key /\ poster'[po].period = poster[po].period
        /\ Postable(period[poster[po].period].status, poster[po].key)
        /\ ~KeyTaken(poster[po].key)
    BY <1>1, InsertedStep DEF CreateJournal, UpdateAccount, Inserted
  <2>2. UNCHANGED <<period, journals>>
    BY <1>1 DEF CreateJournal
  <2> QED BY <2>1, <2>2 DEF KeyTaken
<1>2. CASE Inserted(po)
  <2>1. /\ poster'[po].key = poster[po].key /\ poster'[po].period = poster[po].period
        /\ ~Commits(po)
    BY <1>2, InsertedStep, CommitStep DEF Undisturbed, Inserted
  <2>2. /\ Postable(period[poster[po].period].status, poster[po].key)
        /\ ~KeyTaken(poster[po].key) /\ poster[po].period \in Periods
    BY <1>2 DEF InsertedIsLegal, TypeInv, PosterShape, Fits, Inserted
  <2>3. ASSUME NEW q \in Posters, Commits(q)
        PROVE  /\ Postable(period'[poster[po].period].status, poster[po].key)
               /\ \A i \in DOMAIN journals' : journals'[i].key # poster[po].key
    <3>1. q # po /\ Persist(q) /\ Inserted(q)
      BY <2>1, <2>3, CommitStep
    <3>2. poster[q].key # poster[po].key
      BY <1>2, <3>1 DEF LocksExclude
    <3>3. /\ journals' \in Seq(Journal) /\ Len(journals') = Len(journals) + 1
          /\ \A i \in DOMAIN journals : journals'[i] = journals[i]
          /\ journals'[Len(journals')].key = poster[q].key
          /\ period'[poster[po].period].status = period[poster[po].period].status
      <4>1. journals'[Len(journals')] =
              [key |-> poster[q].key, period |-> poster[q].period,
               number |-> poster[q].number, balanceAfter |-> BalanceAfter(q)]
        BY <3>1, PersistType
      <4>2. journals'[Len(journals')].key = poster[q].key
        BY <4>1
      <4> QED BY <2>2, <3>1, <4>2, PersistType
    <3>4. DOMAIN journals = 1 .. Len(journals) /\ DOMAIN journals' = 1 .. Len(journals) + 1
          /\ Len(journals) \in Nat
      BY <3>3 DEF TypeInv, TypeOK
    <3>5. ASSUME NEW i \in DOMAIN journals' PROVE journals'[i].key # poster[po].key
      BY <2>2, <3>2, <3>3, <3>4 DEF KeyTaken
    <3> QED BY <2>2, <3>3, <3>5
  <2>4. CASE UNCHANGED <<period, journals>>
    BY <2>1, <2>2, <2>4 DEF KeyTaken
  <2>5. CASE PeriodStep /\ UNCHANGED journals
    <3>1. ~PeriodFree(poster[po].period)
      BY <1>2 DEF PeriodFree, HoldsPeriod, Inserted
    <3>2. period'[poster[po].period].status = period[poster[po].period].status
      BY <2>2, <2>5, <3>1, PeriodStepType
    <3> QED BY <2>1, <2>2, <2>5, <3>2 DEF KeyTaken
  <2> QED BY <2>1, <2>3, <2>4, <2>5, Kinds DEF vars
<1> QED BY <1>1, <1>2, InsertedStep

LEMMA LockStep == LockInv /\ [Next]_vars => LockInv'
BY TypeStep, LocksStep, LegalStep DEF LockInv

LEMMA LockInit == Init => LockInv
<1> SUFFICES ASSUME Init PROVE LockInv
  OBVIOUS
<1>1. \A po \in Posters : ~Inserted(po)
  BY IdleType DEF Init, Inserted
<1> QED BY <1>1, TypeInit DEF LockInv, LocksExclude, InsertedIsLegal

\* The journal that a step appends, and the only one it may.
LEMMA Appended ==
  ASSUME TypeInv, [Next]_vars
  PROVE  \/ UNCHANGED journals
         \/ \E po \in Posters :
              /\ Commits(po) /\ Inserted(po) /\ ~Unfinished(po)
              /\ Len(journals) \in Nat /\ DOMAIN journals = 1 .. Len(journals)
              /\ Len(journals') = Len(journals) + 1
              /\ DOMAIN journals' = DOMAIN journals \cup {Len(journals')}
              /\ Len(journals') \notin DOMAIN journals
              /\ \A i \in DOMAIN journals : journals'[i] = journals[i]
              /\ journals'[Len(journals')].key = poster[po].key
              /\ journals'[Len(journals')].period = poster[po].period
              /\ journals'[Len(journals')].number = poster[po].number
              /\ journals'[Len(journals')].balanceAfter = BalanceAfter(po)
              /\ balance' = BalanceAfter(po)
              /\ \A p \in Periods : period'[p].status = period[p].status
<1>1. ASSUME NEW po \in Posters, Commits(po)
      PROVE  /\ Commits(po) /\ Inserted(po) /\ ~Unfinished(po)
             /\ Len(journals) \in Nat /\ DOMAIN journals = 1 .. Len(journals)
             /\ Len(journals') = Len(journals) + 1
             /\ DOMAIN journals' = DOMAIN journals \cup {Len(journals')}
             /\ Len(journals') \notin DOMAIN journals
             /\ \A i \in DOMAIN journals : journals'[i] = journals[i]
             /\ journals'[Len(journals')].key = poster[po].key
             /\ journals'[Len(journals')].period = poster[po].period
             /\ journals'[Len(journals')].number = poster[po].number
             /\ journals'[Len(journals')].balanceAfter = BalanceAfter(po)
             /\ balance' = BalanceAfter(po)
             /\ \A p \in Periods : period'[p].status = period[p].status
  <2>1. Persist(po) /\ Inserted(po) /\ ~Unfinished(po)
    BY <1>1, CommitStep
  <2>2. /\ journals' \in Seq(Journal) /\ Len(journals') = Len(journals) + 1
        /\ \A i \in DOMAIN journals : journals'[i] = journals[i]
        /\ journals'[Len(journals')] =
              [key |-> poster[po].key, period |-> poster[po].period,
               number |-> poster[po].number, balanceAfter |-> BalanceAfter(po)]
        /\ balance' = BalanceAfter(po)
        /\ \A p \in Periods : period'[p].status = period[p].status
    BY <2>1, PersistType
  <2>3. /\ Len(journals) \in Nat /\ DOMAIN journals = 1 .. Len(journals)
        /\ DOMAIN journals' = 1 .. Len(journals')
    BY <2>2 DEF TypeInv, TypeOK
  <2>4. /\ DOMAIN journals' = DOMAIN journals \cup {Len(journals')}
        /\ Len(journals') \notin DOMAIN journals
    BY <2>2, <2>3
  <2> QED BY <1>1, <2>1, <2>2, <2>3, <2>4
<1> QED BY <1>1, Kinds DEF vars

(* BR013-6 for any number of racing posts: one idempotency key, one journal.      *)
THEOREM KeysAreUnique == Spec => []OneJournalPerKey
<1>1. Init => LockInv /\ OneJournalPerKey
  BY LockInit DEF Init, OneJournalPerKey
<1>2. LockInv /\ OneJournalPerKey /\ [Next]_vars => OneJournalPerKey'
  <2> SUFFICES ASSUME LockInv, OneJournalPerKey, [Next]_vars PROVE OneJournalPerKey'
    OBVIOUS
  <2>1. CASE UNCHANGED journals
    BY <2>1 DEF OneJournalPerKey
  <2>2. CASE ~UNCHANGED journals
    <3>1. PICK po \in Posters :
            /\ Inserted(po)
            /\ DOMAIN journals' = DOMAIN journals \cup {Len(journals')}
            /\ \A i \in DOMAIN journals : journals'[i] = journals[i]
            /\ journals'[Len(journals')].key = poster[po].key
      BY <2>2, Appended DEF LockInv
    <3>2. \A i \in DOMAIN journals : journals[i].key # poster[po].key
      BY <3>1 DEF LockInv, InsertedIsLegal, KeyTaken
    <3> QED BY <3>1, <3>2 DEF OneJournalPerKey
  <2> QED BY <2>1, <2>2
<1> QED BY <1>1, <1>2, LockStep, PTL DEF Spec

LEMMA EntersPostable ==
  ASSUME LockInv, [Next]_vars, NEW i \in DOMAIN journals' \ DOMAIN journals
  PROVE  Postable(period[journals'[i].period].status, journals'[i].key)
<1>1. PICK po \in Posters :
        /\ Inserted(po)
        /\ DOMAIN journals' = DOMAIN journals \cup {Len(journals')}
        /\ journals'[Len(journals')].key = poster[po].key
        /\ journals'[Len(journals')].period = poster[po].period
  BY Appended DEF LockInv
<1>2. i = Len(journals')
  BY <1>1
<1> QED BY <1>1, <1>2 DEF LockInv, InsertedIsLegal

(* BR013-2 at the moment of the commit, not of the check: no journal lands in a    *)
(* period that has closed to it in between.                                        *)
THEOREM PeriodsAreRespected == Spec => JournalsEnterPostablePeriods
<1>1. LockInv /\ [Next]_vars
        => [\A i \in DOMAIN journals' \ DOMAIN journals :
              Postable(period[journals'[i].period].status, journals'[i].key)]_vars
  BY EntersPostable
<1> QED BY <1>1, LockInit, LockStep, PTL DEF Spec, JournalsEnterPostablePeriods

(* LOCKED is for ever, whatever open() read before.                               *)
THEOREM LockedStaysSealed == Spec => LockedIsSealed
<1> DEFINE Sealed ==
      \A p \in Periods : period[p].status = "LOCKED" =>
        /\ period'[p].status = "LOCKED"
        /\ \A i \in DOMAIN journals' \ DOMAIN journals : journals'[i].period # p
<1>1. LockInv /\ [Next]_vars => Sealed
  <2> SUFFICES ASSUME LockInv, [Next]_vars, NEW p \in Periods, period[p].status = "LOCKED"
               PROVE  /\ period'[p].status = "LOCKED"
                      /\ \A i \in DOMAIN journals' \ DOMAIN journals :
                           journals'[i].period # p
    OBVIOUS
  <2>1. \A i \in DOMAIN journals' \ DOMAIN journals : journals'[i].period # p
    BY EntersPostable DEF Postable
  <2>2. period'[p].status = "LOCKED"
    <3>1. \A s \in PeriodStatus : ~canTransition("LOCKED", s)
      BY DEF canTransition, LegalTransitions, PeriodStatus
    <3>2. CASE PeriodStep
      BY <3>1, <3>2, PeriodStepType DEF LockInv
    <3>3. ASSUME NEW po \in Posters, Commits(po) PROVE period'[p].status = "LOCKED"
      BY <3>3, CommitStep, PersistType DEF LockInv
    <3> QED BY <3>2, <3>3, Kinds DEF LockInv, vars
  <2> QED BY <2>1, <2>2
<1>2. LockInv /\ [Next]_vars => [Sealed]_vars
  BY <1>1
<1> QED BY <1>2, LockInit, LockStep, PTL DEF Spec, LockedIsSealed

-----------------------------------------------------------------------------
(* Balances.                                                                  *)

AfterFollows ==
  \A po \in Posters : \A a \in Accounts :
    HoldsAccount(po, a) => poster[po].after[a] = balance[a] + Effect(poster[po].key, a)

BalanceInv == LockInv /\ AfterFollows /\ BalancesFollowJournals

LEMMA AfterStep ==
  ASSUME LockInv, AfterFollows, [Next]_vars PROVE AfterFollows'
<1> SUFFICES ASSUME NEW po \in Posters, NEW a \in Accounts, HoldsAccount(po, a)'
             PROVE  poster'[po].after[a] = balance'[a] + Effect(poster'[po].key, a)
  BY DEF AfterFollows
<1> USE DEF LockInv
<1>1. Inserted(po)'
  BY DEF HoldsAccount, Inserted
<1>2. CASE UpdateAccount(po)
  <2> DEFINE line == NextLine(po)
             b == balance[line.account] + balanceDelta(line.account, line.net)
  <2>1. /\ Inserted(po) /\ poster'[po].key = poster[po].key
        /\ poster'[po].after = [poster[po].after EXCEPT ![line.account] = b]
    BY <1>1, <1>2, InsertedStep, UpdateMoves DEF CreateJournal, UpdateAccount
  <2>2. poster[po].key \in Keys /\ poster[po].applied + 1 \in DOMAIN Lines[poster[po].key]
    <3>1. poster[po].key \in Keys /\ poster[po].applied \in Nat
      BY <2>1 DEF TypeInv, TypeOK, PosterState, PosterShape, Fits, Inserted
    <3> QED BY <1>2, <3>1, LineType DEF UpdateAccount, Unfinished
  <2>3. balanceDelta(line.account, line.net) = Effect(poster[po].key, line.account)
    BY <2>2, EffectOfLine DEF NextLine
  <2>4. poster[po].after \in [Accounts -> Int]
    BY DEF TypeInv, TypeOK, PosterState
  <2>5. UNCHANGED balance
    BY <1>2 DEF UpdateAccount
  <2>6. CASE a = line.account
    BY <2>1, <2>3, <2>4, <2>5, <2>6
  <2>7. CASE a # line.account
    <3>1. HoldsAccount(po, a)
      BY <2>7, HeldStep
    <3>2. poster'[po].after[a] = poster[po].after[a]
      <4> HIDE DEF b, line
      <4> QED BY <2>1, <2>4, <2>7
    <3> QED BY <2>1, <2>5, <3>1, <3>2 DEF AfterFollows
  <2> QED BY <2>6, <2>7
<1>3. CASE Inserted(po) /\ Undisturbed(po) /\ ~Commits(po)
  <2>1. HoldsAccount(po, a)
    BY <1>3 DEF HoldsAccount, Undisturbed, Inserted
  <2>2. balance'[a] = balance[a]
    <3>1. ASSUME NEW q \in Posters, Commits(q) PROVE balance'[a] = balance[a]
      <4>1. q # po /\ Persist(q) /\ Inserted(q)
        BY <1>3, <3>1, CommitStep
      <4>2. ~HoldsAccount(q, a)
        BY <1>3, <2>1, <4>1 DEF LocksExclude
      <4> QED BY <4>1, <4>2 DEF Persist, BalanceAfter
    <3> QED BY <3>1, Kinds DEF vars
  <2> QED BY <1>3, <2>1, <2>2 DEF AfterFollows, Undisturbed
<1>4. CASE CreateJournal(po)
  <2>1. Inserted(po)' /\ poster[po].pc = "begun"
    BY <1>1, <1>4 DEF CreateJournal
  <2>2. ~HoldsAccount(po, a) /\ ~UpdateAccount(po)
    BY <2>1 DEF HoldsAccount, UpdateAccount
  <2> QED BY <2>2, HeldStep
<1> QED BY <1>1, <1>2, <1>3, <1>4, InsertedStep

LEMMA CommittedBalance ==
  ASSUME TypeInv, AfterFollows, NEW po \in Posters, Inserted(po), ~Unfinished(po),
         NEW a \in Accounts
  PROVE  BalanceAfter(po)[a] = balance[a] + Effect(poster[po].key, a)
<1>0. poster[po].key \in Keys /\ balance[a] \in Int /\ poster[po].applied \in Nat
  BY DEF TypeInv, TypeOK, PosterState, PosterShape, Fits, Inserted
<1>1. CASE HoldsAccount(po, a)
  BY <1>1 DEF AfterFollows, BalanceAfter
<1>2. CASE ~HoldsAccount(po, a)
  <2>1. DOMAIN Lines[poster[po].key] = 1 .. Len(Lines[poster[po].key])
        /\ Len(Lines[poster[po].key]) \in Nat
    BY <1>0, LineType
  <2>2. Len(Lines[poster[po].key]) <= poster[po].applied
    BY <1>0, <2>1 DEF Unfinished
  <2>3. \A i \in DOMAIN Lines[poster[po].key] : Lines[poster[po].key][i].account # a
    BY <1>0, <1>2, <2>1, <2>2 DEF HoldsAccount, Inserted
  <2>4. Effect(poster[po].key, a) = 0
    BY <1>0, <2>3, EffectType
  <2> QED BY <1>0, <1>2, <2>4 DEF BalanceAfter
<1> QED BY <1>1, <1>2

\* A durable commit is never a stutter of the ledger.
LEMMA CommitMoves ==
  ASSUME TypeInv, NEW po \in Posters, Commits(po) PROVE ~UNCHANGED journals
<1>1. Len(journals') = Len(journals) + 1
  BY CommitStep, PersistType
<1>2. Len(journals) \in Nat
  BY DEF TypeInv, TypeOK
<1> QED BY <1>1, <1>2

LEMMA BalancesStep ==
  ASSUME BalanceInv, [Next]_vars PROVE BalancesFollowJournals'
<1> USE DEF BalanceInv, LockInv
<1>1. CASE UNCHANGED <<journals, balance>>
  BY <1>1 DEF BalancesFollowJournals, BalanceBefore
<1>2. CASE ~UNCHANGED journals
  <2>1. PICK po \in Posters :
          /\ Inserted(po) /\ ~Unfinished(po)
          /\ Len(journals) \in Nat /\ DOMAIN journals = 1 .. Len(journals)
          /\ Len(journals') = Len(journals) + 1
          /\ DOMAIN journals' = DOMAIN journals \cup {Len(journals')}
          /\ \A i \in DOMAIN journals : journals'[i] = journals[i]
          /\ journals'[Len(journals')].key = poster[po].key
          /\ journals'[Len(journals')].balanceAfter = BalanceAfter(po)
          /\ balance' = BalanceAfter(po)
    BY <1>2, Appended
  <2> DEFINE n == Len(journals)
  <2>2. \A a \in Accounts :
          BalanceAfter(po)[a] = balance[a] + Effect(poster[po].key, a)
    BY <2>1, CommittedBalance
  <2>3. ASSUME NEW i \in 1 .. n + 1, NEW a \in Accounts
        PROVE  BalanceBefore(i, a)' = BalanceBefore(i, a)
    <3>1. i = 1 \/ i - 1 \in DOMAIN journals
      BY <2>1
    <3> QED BY <2>1, <3>1 DEF BalanceBefore
  <2>4. \A a \in Accounts : balance[a] = BalanceBefore(n + 1, a)
    BY DEF BalancesFollowJournals
  <2>5. ASSUME NEW i \in DOMAIN journals', NEW a \in Accounts
        PROVE  journals'[i].balanceAfter[a]
                 = BalanceBefore(i, a)' + Effect(journals'[i].key, a)
    <3>1. CASE i \in DOMAIN journals
      <4>1. /\ journals'[i] = journals[i] /\ i \in 1 .. n + 1
            /\ journals[i].balanceAfter[a] = BalanceBefore(i, a) + Effect(journals[i].key, a)
        BY <2>1, <3>1 DEF BalancesFollowJournals
      <4> QED BY <2>3, <4>1
    <3>2. CASE i = n + 1
      <4>1. BalanceBefore(i, a)' = balance[a]
        BY <2>1, <2>3, <2>4, <3>2
      <4> QED BY <2>1, <2>2, <3>2, <4>1
    <3> QED BY <2>1, <3>1, <3>2
  <2>6. ASSUME NEW a \in Accounts
        PROVE  balance'[a] = BalanceBefore(Len(journals) + 1, a)'
    <3>1. BalanceBefore(Len(journals) + 1, a)' = journals'[Len(journals')].balanceAfter[a]
      BY <2>1 DEF BalanceBefore
    <3> QED BY <2>1, <3>1
  <2> QED BY <2>5, <2>6 DEF BalancesFollowJournals
<1>3. UNCHANGED journals => UNCHANGED balance
  BY CommitMoves, Kinds DEF vars
<1> QED BY <1>1, <1>2, <1>3

LEMMA BalanceInit == Init => BalanceInv
<1> SUFFICES ASSUME Init PROVE BalanceInv
  OBVIOUS
<1>1. \A po \in Posters, a \in Accounts : ~HoldsAccount(po, a)
  BY IdleType DEF Init, HoldsAccount
<1> QED BY <1>1, LockInit
        DEF Init, BalanceInv, AfterFollows, BalancesFollowJournals, BalanceBefore

LEMMA BalanceStep == BalanceInv /\ [Next]_vars => BalanceInv'
BY LockStep, AfterStep, BalancesStep DEF BalanceInv

(* No posting is lost from a balance or counted twice, for any number of posts,     *)
(* accounts and lines: row locks and aborts keep the transactions in one order.     *)
THEOREM BalancesAreKept == Spec => []BalancesFollowJournals
<1>1. BalanceInv => BalancesFollowJournals
  BY DEF BalanceInv
<1> QED BY <1>1, BalanceInit, BalanceStep, PTL DEF Spec

-----------------------------------------------------------------------------
(* Journal numbers.                                                           *)

\* The posts whose claimed number may still reach a journal.
MayUse(po) == poster[po].pc \in {"allocated", "begun", "inserted", "duplicate"}

NumbersAreClaimed ==
  \A po \in Posters : MayUse(po) =>
    /\ poster[po].number \in 1 .. seq[poster[po].period]
    /\ ~Used(poster[po].period, poster[po].number)
    /\ \A q \in Posters : q # po /\ MayUse(q) /\ poster[q].period = poster[po].period
         => poster[q].number # poster[po].number

NumberInv == TypeInv /\ NumbersAreClaimed /\ NumbersNeverReused

LEMMA MayUseStep ==
  ASSUME TypeInv, [Next]_vars, NEW po \in Posters, MayUse(po)'
  PROVE  \/ /\ MayUse(po) /\ poster'[po].period = poster[po].period
            /\ poster'[po].number = poster[po].number
            /\ ~Commits(po)
         \/ /\ Allocate(po) /\ poster'[po].period = poster[po].period
            /\ poster'[po].number = seq[poster[po].period] + 1
<1>0. poster \in [Posters -> PosterState] /\ poster[po] \in PosterState
  BY DEF TypeInv, TypeOK
<1>1. ~Commits(po)
  BY CommitStep DEF MayUse
<1>2. CASE Undisturbed(po)
  BY <1>1, <1>2 DEF Undisturbed, MayUse
<1>3. CASE Allocate(po)
  <2> DEFINE n == ClaimedNumber(poster[po].period)
  <2>1. poster'[po] = [poster[po] EXCEPT !.pc = "allocated", !.number = n, !.tries = 1]
    BY <1>0, <1>3 DEF Allocate
  <2>2. poster'[po].period = poster[po].period /\ poster'[po].number = n
    <3> HIDE DEF n
    <3> QED BY <1>0, <2>1 DEF PosterState
  <2> QED BY <1>3, <2>2 DEF ClaimedNumber
<1>4. CASE Begin(po) \/ CreateJournal(po) \/ UpdateAccount(po) \/ Abort(po)
  <2>1. MayUse(po)
    BY <1>4 DEF Begin, CreateJournal, UpdateAccount, Abort, InTransaction, MayUse
  <2>2. /\ poster'[po].period = poster[po].period
        /\ poster'[po].number = poster[po].number
    <3>1. CASE Begin(po)
      BY <1>0, <3>1 DEF Begin, PosterState
    <3>2. CASE CreateJournal(po)
      BY <1>0, <3>2 DEF CreateJournal, PosterState
    <3>3. CASE UpdateAccount(po)
      <4> DEFINE b == balance[NextLine(po).account]
                        + balanceDelta(NextLine(po).account, NextLine(po).net)
      <4>1. poster'[po] = [poster[po] EXCEPT !.applied = poster[po].applied + 1,
                                             !.after[NextLine(po).account] = b]
        BY <1>0, <3>3 DEF UpdateAccount
      <4> HIDE DEF b
      <4> QED BY <1>0, <4>1 DEF PosterState
    <3>4. CASE Abort(po)
      BY <1>0, <3>4 DEF Abort, PosterState
    <3> QED BY <1>4, <3>1, <3>2, <3>3, <3>4
  <2> QED BY <1>1, <2>1, <2>2
<1>5. CASE /\ PosterStep(po) /\ ~Allocate(po) /\ ~Begin(po)
           /\ ~CreateJournal(po) /\ ~UpdateAccount(po) /\ ~Abort(po)
  <2>1. poster'[po].pc \in {"allocated", "begun", "inserted", "duplicate"}
    BY DEF MayUse
  <2>2. IdlePoster.pc = "idle"
    BY IdleType
  <2>3. ASSUME NEW k \in Keys, KeyTaken(k) PROVE WinnerAnswer(po, k).pc = "answered"
    BY <2>3, WinnerType, AnswerType DEF TypeInv
  <2>4. \A k, p : ~(k \in Keys /\ Check(po, k, p))
    <3> SUFFICES ASSUME NEW k \in Keys, NEW p, Check(po, k, p) PROVE FALSE
      OBVIOUS
    <3>1. poster'[po] = IF KeyTaken(k) THEN WinnerAnswer(po, k)
                        ELSE PosterAt("checked", k, p, 0)
      BY <1>0 DEF Check
    <3>2. PosterAt("checked", k, p, 0).pc = "checked"
      BY DEF PosterAt
    <3> QED BY <2>1, <2>3, <3>1, <3>2
  <2>5. ~(Resolve(po) \/ TransactionFails(po))
    BY <1>0, <2>1, <2>2 DEF Resolve, TransactionFails, PosterState
  <2>6. ~ReturnWinner(po)
    <3> SUFFICES ASSUME ReturnWinner(po) PROVE FALSE
      OBVIOUS
    <3>1. poster[po].key \in Keys /\ KeyTaken(poster[po].key)
      BY DEF ReturnWinner, TypeInv, PosterShape, Fits
    <3>2. poster'[po] = WinnerAnswer(po, poster[po].key)
      BY <1>0 DEF ReturnWinner
    <3> QED BY <2>1, <2>3, <3>1, <3>2
  <2>7. ~(LogGap(po) \/ Return(po) \/ Crash(po))
    BY <1>0, <2>1, <2>2 DEF LogGap, Return, Crash
  <2> QED BY <1>1, <1>5, <2>4, <2>5, <2>6, <2>7 DEF PosterStep, TransactionStep, Commits
<1>6. ASSUME NEW q \in Posters, q # po, PosterStep(q) PROVE Undisturbed(po)
  BY <1>6, PosterStepType
<1>7. (PeriodStep => Undisturbed(po)) /\ (UNCHANGED vars => Undisturbed(po))
  BY PeriodStepType DEF vars, Undisturbed
<1> QED BY <1>2, <1>3, <1>4, <1>5, <1>6, <1>7 DEF Next, PeriodStep

\* A counter moves only under the claim that takes its next number.
LEMMA SeqStep ==
  ASSUME TypeInv, [Next]_vars
  PROVE  \/ UNCHANGED seq
         \/ \E po \in Posters :
              /\ Allocate(po) /\ poster[po].period \in Periods
              /\ seq' = [seq EXCEPT ![poster[po].period] = @ + 1]
              /\ UNCHANGED journals
<1>1. ASSUME NEW po \in Posters, Allocate(po)
      PROVE  /\ poster[po].period \in Periods
             /\ seq' = [seq EXCEPT ![poster[po].period] = @ + 1]
             /\ UNCHANGED journals
  BY <1>1 DEF Allocate, TypeInv, PosterShape, Fits
<1> QED BY <1>1, Frame, PeriodStepType DEF Next, PeriodStep, vars

LEMMA ClaimsStep ==
  ASSUME NumberInv, [Next]_vars PROVE NumbersAreClaimed'
<1> USE DEF NumberInv
<1>0. ASSUME NEW po \in Posters, MayUse(po)
      PROVE  poster[po].period \in Periods /\ poster[po].number \in Nat
  BY <1>0 DEF MayUse, TypeInv, TypeOK, PosterState, PosterShape, Fits
<1>1. \A p \in Periods : seq[p] \in Nat /\ seq'[p] \in Nat /\ seq'[p] >= seq[p]
  BY SeqStep DEF TypeInv, TypeOK
<1>2. ASSUME NEW po \in Posters, MayUse(po)', Allocate(po)
      PROVE  /\ poster'[po].period = poster[po].period /\ poster[po].period \in Periods
             /\ poster'[po].number = seq[poster[po].period] + 1
             /\ seq'[poster[po].period] = seq[poster[po].period] + 1
             /\ \A q \in Posters : q # po => Undisturbed(q)
             /\ UNCHANGED journals
  <2>1. PosterStep(po)
    BY <1>2 DEF PosterStep
  <2>2. /\ poster[po].pc = "resolved" /\ UNCHANGED journals
        /\ seq' = [seq EXCEPT ![poster[po].period] = @ + 1]
    BY <1>2 DEF Allocate
  <2>3. poster[po].period \in Periods
    BY <2>2 DEF TypeInv, PosterShape, Fits
  <2>4. seq'[poster[po].period] = seq[poster[po].period] + 1
    BY <2>2, <2>3 DEF TypeInv, TypeOK
  <2>5. ~MayUse(po)
    BY <2>2 DEF MayUse
  <2> QED BY <1>2, <2>1, <2>2, <2>3, <2>4, <2>5, MayUseStep, PosterStepType
<1>3. ASSUME NEW po \in Posters, MayUse(po)'
      PROVE  poster'[po].number \in 1 .. seq'[poster'[po].period]
  <2>1. CASE Allocate(po)
    BY <1>1, <1>2, <1>3, <2>1
  <2>2. CASE ~Allocate(po)
    BY <1>0, <1>1, <1>3, <2>2, MayUseStep DEF NumbersAreClaimed
  <2> QED BY <2>1, <2>2
<1>4. ASSUME NEW po \in Posters, MayUse(po)',
             Used(poster[po].period, poster[po].number)'
      PROVE  FALSE
  <2>0. PICK i \in DOMAIN journals' : /\ journals'[i].period = poster'[po].period
                                       /\ journals'[i].number = poster'[po].number
    BY <1>4 DEF Used
  <2>1. CASE Allocate(po)
    <3>1. i \in DOMAIN journals /\ journals[i].number \in 1 .. seq[poster[po].period]
      BY <1>2, <1>4, <2>0, <2>1 DEF NumbersNeverReused
    <3> QED BY <1>1, <1>2, <1>4, <2>0, <2>1, <3>1
  <2>2. CASE ~Allocate(po)
    <3>1. /\ MayUse(po) /\ poster'[po].period = poster[po].period
          /\ poster'[po].number = poster[po].number /\ ~Commits(po)
      BY <1>4, <2>2, MayUseStep
    <3>2. ~Used(poster[po].period, poster[po].number)
      BY <3>1 DEF NumbersAreClaimed
    <3>3. ~UNCHANGED journals
      BY <2>0, <3>1, <3>2 DEF Used
    <3>4. PICK q \in Posters :
            /\ Commits(q) /\ Inserted(q)
            /\ DOMAIN journals' = DOMAIN journals \cup {Len(journals')}
            /\ \A j \in DOMAIN journals : journals'[j] = journals[j]
            /\ journals'[Len(journals')].period = poster[q].period
            /\ journals'[Len(journals')].number = poster[q].number
      BY <3>3, Appended
    <3>5. q # po /\ MayUse(q)
      BY <3>1, <3>4 DEF MayUse, Inserted
    <3>6. i = Len(journals')
      BY <2>0, <3>1, <3>2, <3>4 DEF Used
    <3> QED BY <2>0, <3>1, <3>4, <3>5, <3>6 DEF NumbersAreClaimed
  <2> QED BY <2>1, <2>2
<1>5. ASSUME NEW po \in Posters, NEW q \in Posters, q # po, MayUse(po)', MayUse(q)',
             poster'[q].period = poster'[po].period
      PROVE  poster'[q].number # poster'[po].number
  <2>1. ASSUME NEW x \in Posters, NEW y \in Posters, x # y, MayUse(x)', MayUse(y)',
               poster'[x].period = poster'[y].period, Allocate(x)
        PROVE  poster'[x].number # poster'[y].number
    <3>1. Undisturbed(y) /\ MayUse(y)
      BY <1>2, <2>1 DEF Undisturbed, MayUse
    <3>2. poster[y].number \in 1 .. seq[poster[y].period]
      BY <3>1 DEF NumbersAreClaimed
    <3>3. poster'[y].number = poster[y].number /\ poster[y].period = poster[x].period
      BY <1>2, <2>1, <3>1 DEF Undisturbed
    <3> QED BY <1>1, <1>2, <2>1, <3>2, <3>3
  <2>2. CASE ~Allocate(po) /\ ~Allocate(q)
    BY <1>5, <2>2, MayUseStep DEF NumbersAreClaimed
  <2> QED BY <1>5, <2>1, <2>2
<1> QED BY <1>3, <1>4, <1>5 DEF NumbersAreClaimed

(* BR213-1 for any number of posts, retries, refusals and crashes: a claimed number *)
(* reaches one journal at most, and no journal has a number nobody claimed.         *)
THEOREM NumbersAreUnique == Spec => []NumbersNeverReused
<1>1. Init => NumberInv
  <2> SUFFICES ASSUME Init PROVE NumberInv
    OBVIOUS
  <2>1. \A po \in Posters : ~MayUse(po)
    BY IdleType DEF Init, MayUse
  <2> QED BY <2>1, TypeInit DEF Init, NumberInv, NumbersAreClaimed, NumbersNeverReused
<1>2. NumberInv /\ [Next]_vars => NumbersNeverReused'
  <2> SUFFICES ASSUME NumberInv, [Next]_vars PROVE NumbersNeverReused'
    OBVIOUS
  <2> USE DEF NumberInv
  <2>0. ASSUME NEW i \in DOMAIN journals
        PROVE  journals[i].period \in Periods
    <3>1. journals[i] \in Journal
      BY DEF TypeInv, TypeOK
    <3> QED BY <3>1 DEF Journal
  <2>1. \A p \in Periods : seq[p] \in Nat /\ seq'[p] \in Nat /\ seq'[p] >= seq[p]
    BY SeqStep DEF TypeInv, TypeOK
  <2>2. CASE UNCHANGED journals
    BY <2>0, <2>1, <2>2 DEF NumbersNeverReused
  <2>3. CASE ~UNCHANGED journals
    <3>1. PICK po \in Posters :
            /\ Commits(po) /\ Inserted(po)
            /\ DOMAIN journals' = DOMAIN journals \cup {Len(journals')}
            /\ \A i \in DOMAIN journals : journals'[i] = journals[i]
            /\ journals'[Len(journals')].period = poster[po].period
            /\ journals'[Len(journals')].number = poster[po].number
      BY <2>3, Appended
    <3>2. /\ poster[po].number \in 1 .. seq[poster[po].period]
          /\ ~Used(poster[po].period, poster[po].number)
          /\ UNCHANGED seq
      BY <3>1, CommitStep DEF NumbersAreClaimed, MayUse, Inserted
    <3>3. ASSUME NEW i \in DOMAIN journals'
          PROVE  journals'[i].number \in 1 .. seq'[journals'[i].period]
      BY <3>1, <3>2 DEF NumbersNeverReused
    <3>4. ASSUME NEW i \in DOMAIN journals', NEW j \in DOMAIN journals',
                 journals'[i].period = journals'[j].period,
                 journals'[i].number = journals'[j].number
          PROVE  i = j
      BY <3>1, <3>2, <3>4 DEF NumbersNeverReused, Used
    <3> QED BY <3>3, <3>4 DEF NumbersNeverReused
  <2> QED BY <2>2, <2>3
<1>3. NumberInv /\ [Next]_vars => NumberInv'
  BY <1>2, TypeStep, ClaimsStep DEF NumberInv
<1>4. NumberInv => NumbersNeverReused
  BY DEF NumberInv
<1> QED BY <1>1, <1>3, <1>4, PTL DEF Spec

-----------------------------------------------------------------------------
(* Answers.                                                                   *)

\* The ledger holds a journal of key k in period p under number n.
InLedger(k, p, n) ==
  \E i \in DOMAIN journals :
    journals[i].key = k /\ journals[i].period = p /\ journals[i].number = n

LEMMA AnswerStep ==
  ASSUME TypeInv, AnswersNameTheLedger, [Next]_vars, NEW po \in Posters,
         poster'[po].pc = "answered"
  PROVE  InLedger(poster[po].key, poster[po].period, poster[po].number)'
<1>0. /\ poster \in [Posters -> PosterState] /\ poster[po] \in PosterState
      /\ TypeOK
  BY DEF TypeInv, TypeOK
<1>1. \A k, p, n : InLedger(k, p, n) => \E i \in DOMAIN journals' :
         journals'[i].key = k /\ journals'[i].period = p /\ journals'[i].number = n
  BY JournalsGrow DEF InLedger
<1>2. CASE Undisturbed(po)
  <2>1. InLedger(poster[po].key, poster[po].period, poster[po].number)
    BY <1>2 DEF Undisturbed, AnswersNameTheLedger, InLedger
  <2> QED BY <1>1, <1>2, <2>1 DEF Undisturbed, InLedger
<1>3. ASSUME NEW k \in Keys, KeyTaken(k), poster'[po] = WinnerAnswer(po, k)
      PROVE  InLedger(poster[po].key, poster[po].period, poster[po].number)'
  <2>1. PICK i \in DOMAIN journals :
          /\ journals[i].key = k
          /\ WinnerAnswer(po, k) = Answer(k, journals[i].period, journals[i].number)
          /\ journals[i].period \in Periods /\ journals[i].number \in Nat
    BY <1>0, <1>3, WinnerType
  <2>2. /\ poster'[po].key = journals[i].key /\ poster'[po].period = journals[i].period
        /\ poster'[po].number = journals[i].number
    BY <1>3, <2>1, AnswerType
  <2> QED BY <2>2, JournalsGrow DEF InLedger
<1>4. CASE Commit(po)
  <2>1. Commits(po) /\ Persist(po) /\ Inserted(po)
    BY <1>4, CommitStep DEF Commits
  <2>2. /\ poster[po].key \in Keys /\ poster[po].period \in Periods
        /\ poster[po].number \in Nat
        /\ WrittenRows(po) \in SUBSET (Periods \cup Accounts)
    BY <1>0, <2>1, PersistType DEF TypeInv, PosterShape, Fits, Inserted, PosterState
  <2> DEFINE O == Outdated(WrittenRows(po))
             x == Answer(O[po].key, O[po].period, O[po].number)
  <2>3. /\ O \in [Posters -> PosterState]
        /\ O[po].key = poster[po].key /\ O[po].period = poster[po].period
        /\ O[po].number = poster[po].number
    BY <1>0, <2>2, OutdatedType
  <2>4. poster' = [O EXCEPT ![po] = x]
    BY <1>4 DEF Commit
  <2>5. poster'[po] = x
    <3> HIDE DEF O, x, PosterState
    <3> QED BY <2>3, <2>4
  <2>6. /\ poster'[po].key = poster[po].key /\ poster'[po].period = poster[po].period
        /\ poster'[po].number = poster[po].number
    BY <2>2, <2>3, <2>5, AnswerType
  <2>7. /\ Len(journals') \in DOMAIN journals'
        /\ journals'[Len(journals')].key = poster[po].key
        /\ journals'[Len(journals')].period = poster[po].period
        /\ journals'[Len(journals')].number = poster[po].number
    <3>1. journals'[Len(journals')] =
              [key |-> poster[po].key, period |-> poster[po].period,
               number |-> poster[po].number, balanceAfter |-> BalanceAfter(po)]
          /\ Len(journals') = Len(journals) + 1 /\ journals' \in Seq(Journal)
      BY <2>1, PersistType
    <3>2. Len(journals) \in Nat
      BY <1>0 DEF TypeOK
    <3> QED BY <3>1, <3>2
  <2> QED BY <2>6, <2>7 DEF InLedger
<1>5. ASSUME NEW k \in Keys, NEW p \in Periods, Check(po, k, p)
      PROVE  KeyTaken(k) /\ poster'[po] = WinnerAnswer(po, k)
  BY <1>0, <1>5 DEF Check, PosterAt
<1>6. CASE ReturnWinner(po)
  <2>1. /\ poster[po].key \in Keys /\ KeyTaken(poster[po].key)
        /\ poster'[po] = WinnerAnswer(po, poster[po].key)
    BY <1>0, <1>6 DEF ReturnWinner, TypeInv, PosterShape, Fits
  <2> QED BY <1>3, <2>1
<1>7. ~LoseAcknowledgement(po)
  <2> SUFFICES ASSUME LoseAcknowledgement(po) PROVE FALSE
    OBVIOUS
  <2>1. Persist(po) /\ poster' = [Outdated(WrittenRows(po)) EXCEPT ![po] =
                                    [poster[po] EXCEPT !.pc = "refused"]]
    BY DEF LoseAcknowledgement
  <2>2. Outdated(WrittenRows(po)) \in [Posters -> PosterState]
    BY <1>0, <2>1, PersistType, OutdatedType
  <2>3. poster'[po] = [poster[po] EXCEPT !.pc = "refused"]
    <3> HIDE DEF PosterState
    <3> QED BY <2>1, <2>2
  <2> QED BY <1>0, <2>3 DEF PosterState
<1>8. ~(Resolve(po) \/ Allocate(po) \/ Begin(po) \/ Abort(po) \/ TransactionFails(po)
        \/ CreateJournal(po) \/ UpdateAccount(po))
  <2>1. ~(Resolve(po) \/ Allocate(po) \/ Begin(po) \/ Abort(po) \/ TransactionFails(po))
    BY <1>0, PlainMoves DEF TypeInv
  <2>2. ~CreateJournal(po)
    BY <1>0 DEF CreateJournal, PosterState
  <2>3. ~UpdateAccount(po)
    <3> SUFFICES ASSUME UpdateAccount(po) PROVE FALSE
      OBVIOUS
    <3> DEFINE b == balance[NextLine(po).account]
                      + balanceDelta(NextLine(po).account, NextLine(po).net)
    <3>1. poster'[po] = [poster[po] EXCEPT !.applied = poster[po].applied + 1,
                                           !.after[NextLine(po).account] = b]
          /\ poster[po].pc = "inserted"
      BY <1>0 DEF UpdateAccount
    <3> HIDE DEF b
    <3> QED BY <1>0, <3>1 DEF PosterState
  <2> QED BY <2>1, <2>2, <2>3
<1>9. ~(LogGap(po) \/ Return(po) \/ Crash(po))
  BY <1>0, IdleType DEF LogGap, Return, Crash
<1>10. CASE PosterStep(po)
  BY <1>3, <1>4, <1>5, <1>6, <1>7, <1>8, <1>9, <1>10 DEF PosterStep, TransactionStep
<1>11. ASSUME NEW q \in Posters, q # po, PosterStep(q) PROVE Undisturbed(po)
  BY <1>11, PosterStepType
<1>12. (PeriodStep => Undisturbed(po)) /\ (UNCHANGED vars => Undisturbed(po))
  BY PeriodStepType DEF vars, Undisturbed
<1> QED BY <1>2, <1>10, <1>11, <1>12 DEF Next, PeriodStep

(* Whoever is answered, the first caller, a retrying one or the loser of a race,     *)
(* is answered with what the ledger holds.                                           *)
THEOREM AnswersAreTrue == Spec => []AnswersNameTheLedger
<1>1. Init => TypeInv /\ AnswersNameTheLedger
  <2> SUFFICES ASSUME Init PROVE TypeInv /\ AnswersNameTheLedger
    OBVIOUS
  <2> QED BY TypeInit, IdleType DEF Init, AnswersNameTheLedger
<1>2. TypeInv /\ AnswersNameTheLedger /\ [Next]_vars => AnswersNameTheLedger'
  BY AnswerStep DEF AnswersNameTheLedger, InLedger
<1> QED BY <1>1, <1>2, TypeStep, PTL DEF Spec

-----------------------------------------------------------------------------
(* Refinement.                                                                *)

LEMMA ContractInit == Init => Contract!Init
<1> SUFFICES ASSUME Init PROVE Contract!Init
  OBVIOUS
<1>1. {<<journals[i].key, journals[i].period>> : i \in DOMAIN journals} = {}
  BY DEF Init
<1>2. [p \in Periods |-> period[p].status] = [p \in Periods |-> "FUTURE"]
  BY DEF Init
<1> QED BY <1>1, <1>2 DEF Init, Contract!Init

LEMMA ContractStep ==
  ASSUME BalanceInv, [Next]_vars PROVE [Contract!Next]_(Contract!vars)
<1> USE DEF BalanceInv, LockInv
<1> DEFINE posted == {<<journals[i].key, journals[i].period>> : i \in DOMAIN journals}
           status == [p \in Periods |-> period[p].status]
<1>1. CASE UNCHANGED <<period, journals, balance>>
  BY <1>1 DEF Contract!vars
<1>2. CASE PeriodStep
  <2>1. UNCHANGED <<posted, balance>>
    BY <1>2, PeriodStepType
  <2>2. CASE \A p \in Periods : period'[p].status = period[p].status
    <3>1. status' = status
      BY <2>2
    <3> QED BY <2>1, <3>1 DEF Contract!vars
  <2>3. ASSUME NEW p \in Periods, NEW s \in PeriodStatus,
               canTransition(period[p].status, s), period'[p].status = s,
               \A q \in Periods : q # p => period'[q].status = period[q].status
        PROVE  Contract!Next
    <3>1. status' = [status EXCEPT ![p] = s]
      BY <2>3
    <3>2. <<status[p], s>> \in Contract!LegalTransitions
      BY <2>3 DEF canTransition, LegalTransitions, Contract!LegalTransitions
    <3>3. Contract!Move(p, s)
      BY <2>1, <3>1, <3>2 DEF Contract!Move
    <3> QED BY <3>3 DEF Contract!Next, Contract!PeriodStatus, PeriodStatus
  <2> QED BY <1>2, <2>2, <2>3, PeriodStepType
<1>3. CASE ~UNCHANGED journals
  <2>1. PICK po \in Posters :
          /\ Commits(po) /\ Inserted(po) /\ ~Unfinished(po)
          /\ DOMAIN journals' = DOMAIN journals \cup {Len(journals')}
          /\ \A i \in DOMAIN journals : journals'[i] = journals[i]
          /\ Len(journals') \notin DOMAIN journals
          /\ journals'[Len(journals')].key = poster[po].key
          /\ journals'[Len(journals')].period = poster[po].period
          /\ balance' = BalanceAfter(po)
          /\ \A p \in Periods : period'[p].status = period[p].status
    BY <1>3, Appended
  <2> DEFINE k == poster[po].key
             p == poster[po].period
  <2>2. k \in Keys /\ p \in Periods
    BY <2>1 DEF TypeInv, PosterShape, Fits, Inserted
  <2>3. /\ \A q \in Periods : <<k, q>> \notin posted
        /\ Contract!Takes(status[p], k)
    BY <2>1, <2>2 DEF InsertedIsLegal, KeyTaken, Postable, Contract!Takes
  <2>4. posted' = posted \cup {<<k, p>>}
    BY <2>1
  <2>5. status' = status
    BY <2>1
  <2>6. balance' = [a \in Accounts |->
                      balance[a] + [x \in Keys |-> [b \in Accounts |-> Effect(x, b)]][k][a]]
    <3>1. \A a \in Accounts : BalanceAfter(po)[a] = balance[a] + Effect(k, a)
      BY <2>1, CommittedBalance
    <3>2. BalanceAfter(po) = [a \in Accounts |-> balance[a] + Effect(k, a)]
      BY <3>1 DEF BalanceAfter
    <3> QED BY <2>1, <2>2, <3>2
  <2>7. ASSUME NEW x \in Keys, NEW q \in Periods, x = k, q = p PROVE Contract!Post(x, q)
    BY <2>3, <2>4, <2>5, <2>6, <2>7 DEF Contract!Post
  <2>8. \E x \in Keys, q \in Periods : Contract!Post(x, q)
    BY <2>2, <2>7
  <2> QED BY <2>8 DEF Contract!Next
<1> QED BY <1>1, <1>2, <1>3, Kinds, CommitMoves DEF vars

(* The ledger of PostingLedger is the one LedgerContract promises: the many steps    *)
(* of concurrent posts, retries and closes amount to whole posts and legal moves.    *)
THEOREM LedgerImplementsContract == Spec => ImplementsContract
<1>1. Init => BalanceInv
  BY BalanceInit
<1>2. BalanceInv /\ [Next]_vars => BalanceInv'
  BY BalanceStep
<1> QED BY <1>1, <1>2, ContractInit, ContractStep, PTL
        DEF Spec, ImplementsContract, Contract!Spec
=============================================================================
