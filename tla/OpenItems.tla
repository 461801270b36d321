------------------------------ MODULE OpenItems ------------------------------
(***************************************************************************)
(* services/schedule-service: the open items of a schedule.  A line that the *)
(* general ledger books on a scheduled account arrives as an event, at least *)
(* once and in any order, and opens an item, is applied to one, or is swept  *)
(* over the oldest ones.  Operators apply, reverse, split, transfer and      *)
(* write off items.                                                          *)
(*                                                                         *)
(* Every operation is one SERIALIZABLE transaction, run again on a conflict, *)
(* and so one step; only the write-off calls the general ledger from inside  *)
(* its transaction, which no roll-back undoes.  The entry it creates there   *)
(* comes back as an event once somebody approves it.                         *)
(***************************************************************************)
EXTENDS Integers, Sequences, FiniteSets, FiniteSetsExt

CONSTANTS
  Lines,      \* ids of ledger lines on accounts of the schedule
  FirstLines, \* what each line is, or may be, before the first event
  Controls,   \* control numbers
  Numbers,    \* item numbers that lines refer to
  Keys,       \* idempotency keys of operators' requests
  WriteOffs,  \* write-offs under way at once
  None,       \* no line, no item number
  MaxItems,   \* bound: items
  MaxApps     \* bound: applications

ASSUME ScheduleAssumption ==
  /\ IsFiniteSet(Lines) /\ IsFiniteSet(WriteOffs)
  /\ None \notin Lines \cup Numbers \cup Keys /\ Lines \cap Keys = {}
  /\ MaxItems \in Nat /\ MaxApps \in Nat

VARIABLES
  line,       \* journal lines of the general ledger
  detail,     \* schedule_details: the lines whose event was processed
  item,       \* schedule_open_items, in the order they were created
  app,        \* schedule_applications, in the order they were made
  receipt,    \* schedule_unapplied_receipts, by line or key
  used,       \* idempotency keys of applications and ceremonies
  writeOff    \* local variables of each write-off

itemVars == <<line, detail, item, app, receipt, used, writeOff>>
-----------------------------------------------------------------------------
Status == {"OPEN", "PARTIALLY_APPLIED", "CLOSED", "WRITTEN_OFF"}

\* A line with applyCd '#' is an application: to one item if it has an
\* applyNumber, and on account if it has none.  amount is debit less credit;
\* writes_off is the item whose write-off made the line, if one did.
Line == [kind : {"none", "open", "apply_to", "on_account"}, amount : Int,
         control : Controls, number : Numbers \cup {None}, date : Nat,
         writes_off : 0..MaxItems, booked : BOOLEAN]

\* What there is before the first event was not made by a write-off.
ASSUME FirstLinesAssumption ==
  \A l \in Lines : \A x \in FirstLines[l] : x \in Line /\ x.writes_off = 0

\* parent is the item that this one was split or transferred from, written_off
\* what its write-offs took (the ceremony's writtenOffAmount).
Item == [original : Nat, remaining : Nat, status : Status, control : Controls,
         number : Numbers \cup {None}, date : Nat, parent : 0..MaxItems,
         written_off : Nat]

\* by is the line or the request that an application comes from; the reversal of
\* an application is a row of its own.
App == [item : 1..MaxItems, amount : Int, by : Lines \cup Keys \cup {None},
        reverses : 0..MaxApps, reversed : BOOLEAN]

NoWriteOff == [pc |-> "idle", key |-> None, item |-> 0, seen |-> 0]

ItemsTypeOK ==
  /\ line \in [Lines -> Line]
  /\ detail \subseteq {l \in Lines : line[l].booked}
  /\ item \in Seq(Item) /\ Len(item) <= MaxItems
  /\ \A i \in DOMAIN item : item[i].remaining <= item[i].original
  /\ app \in Seq(App) /\ Len(app) <= MaxApps
  /\ receipt \in [Lines \cup Keys -> Nat]
  /\ used \subseteq Keys
  /\ writeOff \in [WriteOffs -> [pc : {"idle", "posting"}, key : Keys \cup {None},
                                 item : 0..MaxItems, seen : Nat]]

ItemsInit ==
  /\ line \in [Lines -> UNION {FirstLines[l] : l \in Lines}]
  /\ \A l \in Lines : line[l] \in FirstLines[l]
  /\ detail = {}
  /\ item = <<>> /\ app = <<>>
  /\ receipt = [x \in Lines \cup Keys |-> 0]
  /\ used = {}
  /\ writeOff = [r \in WriteOffs |-> NoWriteOff]
-----------------------------------------------------------------------------
\* deriveStatus
StatusOf(original, remaining) ==
  CASE remaining = 0        -> "CLOSED"
    [] remaining = original -> "OPEN"
    [] OTHER                -> "PARTIALLY_APPLIED"

SetRemaining(i, n) ==
  [item[i] EXCEPT !.remaining = n, !.status = StatusOf(item[i].original, n)]

\* Mutated form: what is applied may exceed what remains.
InBounds_NoCheck(i, n) == i \in DOMAIN item /\ n \in Int

\* applyAmount and the table's balance check: the balance stays between zero and
\* the original amount.
InBounds(i, n) == 0 <= n /\ n <= item[i].original

NewItem(original, control, number, date, parent) ==
  [original |-> original, remaining |-> original, status |-> "OPEN",
   control |-> control, number |-> number, date |-> date, parent |-> parent,
   written_off |-> 0]

NewApp(i, amount, by, reverses) ==
  [item |-> i, amount |-> amount, by |-> by, reverses |-> reverses,
   reversed |-> FALSE]

RoomForApp == Len(app) < MaxApps
RoomForItems(n) == Len(item) + n <= MaxItems

\* One application to one item.
ApplyTo(i, amount, by) ==
  /\ RoomForApp
  /\ item' = [item EXCEPT ![i] = SetRemaining(i, item[i].remaining - amount)]
  /\ app' = Append(app, NewApp(i, amount, by, 0))
-----------------------------------------------------------------------------
(* The sweep over the oldest items of a control number                       *)

NotClosed(control) ==
  {i \in DOMAIN item : item[i].control = control /\ item[i].status # "CLOSED"}

Older(i, j) == \/ item[i].date < item[j].date
               \/ item[i].date = item[j].date /\ i < j

RemainingOf == [i \in DOMAIN item |-> item[i].remaining]

Remaining(S) == SumFunctionOnSet(RemainingOf, S)

\* What is left of the amount when the sweep gets to item i, bounded by what the
\* item can take.
Portion(control, amount, i) ==
  LET left == amount - Remaining({j \in NotClosed(control) : Older(j, i)})
  IN  Max({0, Min({left, item[i].remaining})})

Swept(control, amount) ==
  {i \in NotClosed(control) : Portion(control, amount, i) > 0}

\* Mutated form: what no item takes is dropped.
Unapplied_Dropped(control, amount) == 0

\* What no item takes becomes an unapplied receipt.
Unapplied(control, amount) ==
  Max({0, amount - Remaining(NotClosed(control))})

\* The items S, from the oldest to the newest.
InOrder(S) ==
  {s \in [1 .. Cardinality(S) -> S] :
     /\ \A i \in S : \E n \in DOMAIN s : s[n] = i
     /\ \A m, n \in DOMAIN s : m < n => Older(s[m], s[n])}

Sweep(control, amount, by) ==
  \E swept \in InOrder(Swept(control, amount)) :
    /\ Len(app) + Len(swept) <= MaxApps
    /\ item' = [i \in DOMAIN item |->
          IF i \in Swept(control, amount)
            THEN SetRemaining(i, item[i].remaining - Portion(control, amount, i))
            ELSE item[i]]
    /\ app' = app \o [n \in DOMAIN swept |->
          NewApp(swept[n], Portion(control, amount, swept[n]), by, 0)]
    /\ receipt' = [receipt EXCEPT ![by] = @ + Unapplied(control, amount)]
-----------------------------------------------------------------------------
(* processPostingEvent                                                       *)

\* The general ledger books a line, and its outbox will deliver the event.
Books(l) ==
  /\ line[l].kind # "none" /\ ~line[l].booked
  /\ line' = [line EXCEPT ![l].booked = TRUE]
  /\ UNCHANGED <<detail, item, app, receipt, used, writeOff>>

Magnitude(n) == IF n < 0 THEN -n ELSE n

OpensItem(l) ==
  /\ RoomForItems(1)
  /\ item' = Append(item, NewItem(Magnitude(line[l].amount), line[l].control,
                                  line[l].number, line[l].date, 0))
  /\ UNCHANGED <<app, receipt>>

\* What an application line relieves: a debit relieves what a credit opened.
Relief(l) == -line[l].amount

\* A reference that matches no item that is not closed, or several, or that would
\* take more than remains, is left unresolved.
AppliesToItem(l) ==
  LET targets == {i \in NotClosed(line[l].control) : item[i].number = line[l].number}
      fits(i) == InBounds(i, item[i].remaining - Relief(l))
  IN  /\ IF Cardinality(targets) = 1 /\ \A i \in targets : fits(i)
           THEN \E i \in targets : ApplyTo(i, Relief(l), l)
           ELSE UNCHANGED <<item, app>>
      /\ UNCHANGED receipt

\* The detail's journal source has 10 characters, and the entry of a write-off has
\* SCHEDULE_WRITEOFF: its event fails and is dead-lettered.
SourceFits(l) == line[l].writes_off = 0

\* A line whose detail exists was processed.
IsDuplicate(l) == l \in detail

Process(l) ==
  /\ line[l].booked /\ ~IsDuplicate(l) /\ SourceFits(l)
  /\ detail' = detail \cup {l}
  /\ \/ line[l].kind = "open" /\ OpensItem(l)
     \/ line[l].kind = "apply_to" /\ AppliesToItem(l)
     \/ line[l].kind = "on_account" /\ Sweep(line[l].control, Relief(l), l)
  /\ UNCHANGED <<line, used, writeOff>>
-----------------------------------------------------------------------------
(* Operators.  A request whose key took effect before changes nothing.       *)

Uses(key) == key \notin used /\ used' = used \cup {key}

\* A negative amount gives back what was applied.
ApplyManual(key, i, amount) ==
  /\ Uses(key)
  /\ item[i].status # "CLOSED"
  /\ amount # 0 /\ InBounds(i, item[i].remaining - amount)
  /\ ApplyTo(i, amount, key)
  /\ UNCHANGED <<line, detail, receipt, writeOff>>

ApplyAutoFifo(key, control, amount) ==
  /\ Uses(key)
  /\ amount > 0
  /\ NotClosed(control) # {}
  /\ Sweep(control, amount, key)
  /\ UNCHANGED <<line, detail, writeOff>>

Reversal(a) == -app[a].amount

\* An application is reversed by a row of its own, and only after the later ones
\* on the item.  The item's status is derived anew, whatever it was.
ReverseApplication(a) ==
  LET i == app[a].item
      n == item[i].remaining - Reversal(a)
  IN  /\ RoomForApp
      /\ ~app[a].reversed
      /\ \A b \in a + 1 .. Len(app) :
           app[b].item = i /\ app[b].reverses = 0 => app[b].reversed
      /\ InBounds(i, n)
      /\ item' = [item EXCEPT ![i] = SetRemaining(i, n)]
      /\ app' = Append([app EXCEPT ![a].reversed = TRUE],
                       NewApp(i, Reversal(a), None, a))
      /\ UNCHANGED <<line, detail, receipt, used, writeOff>>

Live(i) == item[i].status \notin {"CLOSED", "WRITTEN_OFF"}

Closed(i) == [item[i] EXCEPT !.remaining = 0, !.status = "CLOSED"]

\* validateSplitParts, for two parts
PartsOf(i) ==
  {p \in (1 .. item[i].remaining) \X (1 .. item[i].remaining) :
     p[1] + p[2] = item[i].remaining}

\* The parts carry numbers of their own.
SplitOpenItem(key, i) ==
  /\ Uses(key)
  /\ Live(i) /\ RoomForItems(2)
  /\ \E p \in PartsOf(i) :
       item' = [item EXCEPT ![i] = Closed(i)]
               \o [n \in 1..2 |->
                     NewItem(p[n], item[i].control, None, item[i].date, i)]
  /\ UNCHANGED <<line, detail, app, receipt, writeOff>>

TransferOpenItem(key, i, control, number) ==
  /\ Uses(key)
  /\ Live(i) /\ RoomForItems(1)
  /\ item' = Append([item EXCEPT ![i] = Closed(i)],
                    NewItem(item[i].remaining, control, number, item[i].date, i))
  /\ UNCHANGED <<line, detail, app, receipt, writeOff>>
-----------------------------------------------------------------------------
(* writeOffOpenItem                                                          *)

\* Mutated form: an item that has an entry already gets no other.
CreatesEntry_OncePerItem(l, i) ==
  /\ line[l].kind = "none"
  /\ line' = IF \E m \in Lines : line[m].writes_off = i THEN line
             ELSE [line EXCEPT ![l] =
        [kind |-> "on_account", amount |-> -item[i].remaining,
         control |-> item[i].control, number |-> None, date |-> item[i].date,
         writes_off |-> i, booked |-> FALSE]]

\* postWriteOff: inside the transaction, an entry is created in the general ledger
\* whose line on the schedule's account is an application without an applyNumber.
CreatesEntry(l, i) ==
  /\ line[l].kind = "none"
  /\ line' = [line EXCEPT ![l] =
        [kind |-> "on_account", amount |-> -item[i].remaining,
         control |-> item[i].control, number |-> None, date |-> item[i].date,
         writes_off |-> i, booked |-> FALSE]]

BeginWriteOff(r, key, i, l) ==
  /\ writeOff[r] = NoWriteOff
  /\ key \notin used
  /\ Live(i)
  /\ CreatesEntry(l, i)
  /\ writeOff' = [writeOff EXCEPT ![r] =
        [pc |-> "posting", key |-> key, item |-> i, seen |-> item[i].remaining]]
  /\ UNCHANGED <<detail, item, app, receipt, used>>

\* Mutated form: at READ COMMITTED the commit goes by what was read before the call.
Unchanged_NotChecked(r) == writeOff[r].seen > 0

\* SERIALIZABLE: the transaction commits only if its reads still hold.
Unchanged(r) ==
  Live(writeOff[r].item) /\ item[writeOff[r].item].remaining = writeOff[r].seen

WrittenOff(i, n) ==
  [item[i] EXCEPT !.remaining = 0, !.status = "WRITTEN_OFF", !.written_off = @ + n]

CommitWriteOff(r) ==
  LET i == writeOff[r].item IN
  /\ writeOff[r].pc = "posting"
  /\ Unchanged(r)
  /\ Uses(writeOff[r].key)
  /\ item' = [item EXCEPT ![i] = WrittenOff(i, writeOff[r].seen)]
  /\ writeOff' = [writeOff EXCEPT ![r] = NoWriteOff]
  /\ UNCHANGED <<line, detail, app, receipt>>

\* A conflict, a time-out or a crash: the transaction leaves nothing but the entry,
\* and running it again creates another.
AbortWriteOff(r) ==
  /\ writeOff[r].pc = "posting"
  /\ writeOff' = [writeOff EXCEPT ![r] = NoWriteOff]
  /\ UNCHANGED <<line, detail, item, app, receipt, used>>
-----------------------------------------------------------------------------
Amounts == {-1, 1, 2}

LineStep(l) == Books(l) \/ Process(l)

OperatorStep(key) ==
  \/ \E i \in DOMAIN item, n \in Amounts : ApplyManual(key, i, n)
  \/ \E c \in Controls, n \in Amounts : ApplyAutoFifo(key, c, n)
  \/ \E i \in DOMAIN item : SplitOpenItem(key, i)
  \/ \E i \in DOMAIN item, c \in Controls, n \in Numbers :
       TransferOpenItem(key, i, c, n)
  \/ \E r \in WriteOffs, i \in DOMAIN item, l \in Lines : BeginWriteOff(r, key, i, l)

ItemsNext ==
  \/ \E l \in Lines : LineStep(l)
  \/ \E key \in Keys : OperatorStep(key)
  \/ \E a \in DOMAIN app : ReverseApplication(a)
  \/ \E r \in WriteOffs : CommitWriteOff(r) \/ AbortWriteOff(r)

ItemsSpec == ItemsInit /\ [][ItemsNext]_itemVars
-----------------------------------------------------------------------------
(* Properties                                                                *)

AppsOf(i) == {a \in DOMAIN app : app[a].item = i}
AmountOf == [a \in DOMAIN app |-> app[a].amount]

PartsFrom(i) == {j \in DOMAIN item : item[j].parent = i}
OriginalOf == [j \in DOMAIN item |-> item[j].original]

(* No cent of an item is lost or made: what remains of it, what its applications  *)
(* net to, what its parts carry on and what was written off sum to what it was,   *)
(* through splits, transfers, write-offs and reversals in any order.               *)
Conserved ==
  \A i \in DOMAIN item :
    item[i].original = item[i].remaining + item[i].written_off
                       + SumFunctionOnSet(AmountOf, AppsOf(i))
                       + SumFunctionOnSet(OriginalOf, PartsFrom(i))

AppsBy(l) == {a \in DOMAIN app : app[a].by = l}

(* "Rather than silently dropping cash": a credit taken on account is, however     *)
(* often its event is delivered, applied to items or an unapplied receipt.         *)
OnAccountIsAccountedFor ==
  \A l \in detail :
    line[l].kind = "on_account" /\ Relief(l) > 0 =>
      Relief(l) = receipt[l] + SumFunctionOnSet(AmountOf, AppsBy(l))

EntriesFor(i) == {l \in Lines : line[l].writes_off = i}
CreditOf == [l \in Lines |-> -line[l].amount]

(* "A real journal entry ... never a subledger-only deletion": what was written    *)
(* off an item is in entries of the general ledger, although the entry is made     *)
(* inside a transaction that may fail after it and run again.                      *)
WrittenOffIsInLedger ==
  \A i \in DOMAIN item :
    item[i].written_off <= SumFunctionOnSet(CreditOf, EntriesFor(i))
=============================================================================
