------------------------- MODULE LedgerTraffic_proofs -------------------------
(***************************************************************************)
(* Theorems about three components that tell nobody when they go wrong: the *)
(* books of GeneralLedger, the events of EventDelivery and the failure       *)
(* window of CircuitBreaker.                                                *)
(*                                                                         *)
(* GeneralLedger: an entry that is POSTED or REVERSED is in the books, and a *)
(* booked reversal takes out what is in them.  Both follow from one          *)
(* invariant about requests that looked at an entry's status before their    *)
(* transaction: what they saw may be stale, but history only grows.          *)
(*                                                                         *)
(* EventDelivery: an event that the outbox is done with was sent             *)
(* (SentIsPresent) and not given up, because the retries of a row and the    *)
(* batches that hold it stay below the limit (RetriesHold).                  *)
(*                                                                         *)
(* CircuitBreaker: failures are kept in the order of their age (OldestFirst), *)
(* so those that leave the window are a prefix of them.                      *)
(***************************************************************************)
EXTENDS GeneralLedger, EventDelivery, CircuitBreaker, Sums, SequenceTheorems

\* An entry that a reversal may take out of the books.
Reversible(e) == e \in history \/ entry[e].role = "counterpart"

\* A request that has seen its entry POSTED still finds it in the books.
DesksHold ==
  \A k \in Desks :
    desk[k].pc # "idle" =>
      /\ entry[desk[k].entry].status # "NONE"
      /\ desk[k].pc = "reverse" => Reversible(desk[k].entry)

\* A reversal, booked or not, is one of an entry that may be reversed.
ReversalsHold ==
  \A e \in Entries :
    entry[e].role = "reversal" =>
      /\ entry[e].of \in Entries
      /\ entry[entry[e].of].status # "NONE"
      /\ Reversible(entry[e].of)

IInv == TypeOK /\ PostedIsBooked /\ DesksHold /\ ReversalsHold

-----------------------------------------------------------------------------
LEMMA NoEntryType == NoEntry \in Entry
  BY LedgerAssumption DEF NoEntry, Entry, EntryStatus, Role

LEMMA MirrorType ==
  ASSUME NEW x \in Entry PROVE x.amount \in {1, -1} /\ -x.amount \in {1, -1}
<1>1. x.amount = 1 \/ x.amount = -1
  BY DEF Entry
<1>2. CASE x.amount = 1
  BY <1>2
<1>3. CASE x.amount = -1
  <2>1. x.amount \in Int /\ x.amount + 1 = 0
    BY <1>3
  <2>2. -x.amount = 1
    BY <2>1
  <2> QED
    BY <1>3, <2>2
<1> QED
  BY <1>1, <1>2, <1>3

LEMMA ReversalType ==
  ASSUME NEW x \in Entry, NEW e \in Entries, NEW d \in Dates
  PROVE  [x EXCEPT !.status = "DRAFT", !.role = "reversal", !.of = e,
                   !.reversals = @ + 1, !.date = d, !.amount = -@,
                   !.linked = FALSE] \in Entry
<1>1. x.reversals + 1 \in Nat
  BY DEF Entry
<1>2. -x.amount \in {1, -1}
  BY MirrorType
<1> DEFINE r == x.reversals + 1
           a == -x.amount
<1>3. [x EXCEPT !.status = "DRAFT", !.role = "reversal", !.of = e,
                !.reversals = r, !.date = d, !.amount = a, !.linked = FALSE] \in Entry
  <2> HIDE DEF r, a
  <2>1. r \in Nat /\ a \in {1, -1}
    BY <1>1, <1>2 DEF r, a
  <2> QED
    BY <2>1 DEF Entry, EntryStatus, Role
<1> QED
  BY <1>3

LEMMA LinkedType ==
  ASSUME NEW x \in Entry PROVE [x EXCEPT !.linked = TRUE] \in Entry
  BY DEF Entry, EntryStatus, Role

LEMMA CounterpartType ==
  ASSUME NEW x \in Entry, NEW e \in Entries
  PROVE  [x EXCEPT !.status = "POSTED", !.role = "counterpart", !.of = e,
                   !.amount = -@, !.linked = TRUE] \in Entry
<1> DEFINE a == -x.amount
<1>1. [x EXCEPT !.status = "POSTED", !.role = "counterpart", !.of = e,
                !.amount = a, !.linked = TRUE] \in Entry
  <2>1. a \in {1, -1}
    BY MirrorType
  <2> HIDE DEF a
  <2> QED
    BY <2>1 DEF Entry, EntryStatus, Role
<1> QED
  BY <1>1

(* The types hold in every state.  An entry's amount stays 1 or -1 under        *)
(* negation, so the balances stay integers.                                     *)
LEMMA TypeStep == TypeOK /\ [Next]_vars => TypeOK'
<1> SUFFICES ASSUME TypeOK, [Next]_vars PROVE TypeOK'
  OBVIOUS
<1> USE DEF TypeOK
<1>1. ASSUME NEW e \in Entries, Create(e) PROVE TypeOK'
  <2>1. PICK f \in Refs, d \in Dates, ic \in BOOLEAN :
          entry' = [entry EXCEPT ![e] =
            [NoEntry EXCEPT !.status = "DRAFT", !.ref = f, !.date = d, !.ic = ic]]
    BY <1>1 DEF Create
  <2>2. [NoEntry EXCEPT !.status = "DRAFT", !.ref = f, !.date = d, !.ic = ic] \in Entry
    BY NoEntryType DEF Entry, EntryStatus
  <2> QED
    BY <1>1, <2>1, <2>2 DEF Create
<1>2. ASSUME NEW k \in Desks, NEW e \in Entries, DeskStep(k, e) PROVE TypeOK'
  <2>1. ASSUME NEW op \in Op, Begin(k, op, e) PROVE TypeOK'
    <3>1. [pc |-> op, entry |-> e] \in [pc : Op \cup {"idle", "counterpart"},
                                        entry : Entries \cup {Nothing}]
      OBVIOUS
    <3> QED
      BY <2>1, <3>1 DEF Begin
  <2>2. ASSUME Submit(k, e) PROVE TypeOK'
    BY <2>2, LedgerAssumption DEF Submit, Ends, IdleDesk, At, Entry, EntryStatus
  <2>3. ASSUME Discard(k, e) PROVE TypeOK'
    BY <2>3, LedgerAssumption DEF Discard, Ends, IdleDesk, At, Entry, EntryStatus
  <2>4. ASSUME Approve(k, e) PROVE TypeOK'
    <3>1. CASE Book(k, e)
      <4>1. entry' \in [Entries -> Entry]
        BY <3>1 DEF Book, Entry, EntryStatus
      <4>2. balance' \in [Dates -> Int]
        BY <3>1 DEF Book, AddToBalance, Entry
      <4>3. desk' = [desk EXCEPT ![k].pc = "counterpart"] /\ desk[k].entry = e
        BY <3>1, <2>4 DEF Book, Approve, At
      <4> QED
        BY <3>1, <2>4, <4>1, <4>2, <4>3 DEF Book, Approve
    <3>2. CASE RollBack(k, e)
      BY <3>2, <2>4 DEF RollBack, Approve, Ends, IdleDesk
    <3> QED
      BY <2>4, <3>1, <3>2 DEF Approve
  <2>5. ASSUME NEW n \in Entries, CreateCounterpart(k, e, n) PROVE TypeOK'
    <3> DEFINE c == [entry[e] EXCEPT !.status = "POSTED", !.role = "counterpart",
                                     !.of = e, !.amount = -@, !.linked = TRUE]
               l == [entry[e] EXCEPT !.linked = TRUE]
    <3>1. c \in Entry
      BY CounterpartType
    <3>2. l \in Entry
      BY LinkedType
    <3>3. entry' = [entry EXCEPT ![e] = l, ![n] = c]
      BY <2>5 DEF CreateCounterpart
    <3> HIDE DEF c, l
    <3>4. entry' \in [Entries -> Entry]
      BY <3>1, <3>2, <3>3
    <3>5. desk' = [desk EXCEPT ![k] = IdleDesk] /\ UNCHANGED <<history, balance, deaths>>
      BY <2>5 DEF CreateCounterpart, Ends
    <3> QED
      BY <3>4, <3>5 DEF IdleDesk
  <2>6. ASSUME SkipCounterpart(k, e) PROVE TypeOK'
    BY <2>6 DEF SkipCounterpart, Ends, IdleDesk
  <2>7. ASSUME NEW n \in Entries, NEW d \in Dates, Reverse(k, e, n, d) PROVE TypeOK'
    <3> DEFINE r == [entry[e] EXCEPT !.status = "DRAFT", !.role = "reversal",
                                     !.of = e, !.reversals = @ + 1, !.date = d,
                                     !.amount = -@, !.linked = FALSE]
               o == [entry[e] EXCEPT !.status = "REVERSED"]
    <3>1. r \in Entry
      BY ReversalType
    <3>2. o \in Entry
      BY DEF Entry, EntryStatus
    <3>3. entry' = [entry EXCEPT ![e] = o, ![n] = r]
      BY <2>7 DEF Reverse
    <3> HIDE DEF r, o
    <3>4. entry' \in [Entries -> Entry]
      BY <3>1, <3>2, <3>3
    <3> QED
      BY <2>7, <3>4 DEF Reverse, Ends, IdleDesk
  <2> QED
    BY <1>2, <2>1, <2>2, <2>3, <2>4, <2>5, <2>6, <2>7 DEF DeskStep
<1>3. ASSUME NEW k \in Desks, Die(k) PROVE TypeOK'
  BY <1>3, LedgerAssumption DEF Die, Ends, IdleDesk
<1>4. CASE UNCHANGED vars
  BY <1>4 DEF vars
<1> QED
  BY <1>1, <1>2, <1>3, <1>4 DEF Next

(* GeneralLedger's type invariant, for all entries, dates and desks.            *)
THEOREM TypeCorrect == Spec => []TypeOK
<1>1. Init => TypeOK
  BY NoEntryType, LedgerAssumption DEF Init, TypeOK, IdleDesk
<1> QED
  BY <1>1, TypeStep, PTL DEF Spec
-----------------------------------------------------------------------------
\* What becomes of an entry in one step: it stays an entry, with its role and what
\* it is of, or it is new.  A new one is no reversal, or one of an entry there is
\* and that may be reversed.
Keeps(x) ==
  /\ entry'[x].status # "NONE"
  /\ entry'[x].role = entry[x].role
  /\ entry'[x].of = entry[x].of
  /\ entry'[x].amount = entry[x].amount
  /\ entry'[x].date = entry[x].date

Appears(x) ==
  /\ entry'[x].status # "POSTED" \/ entry'[x].role = "counterpart"
  /\ entry'[x].status # "REVERSED"
  /\ entry'[x].role = "reversal" =>
       /\ entry'[x].of \in Entries
       /\ entry[entry'[x].of].status # "NONE"
       /\ Reversible(entry'[x].of)

Evolves ==
  /\ history \subseteq history'
  /\ \A x \in Entries :
       IF entry[x].status = "NONE"
       THEN entry'[x] = entry[x] \/ Appears(x)
       ELSE Keeps(x)

(* No step takes an entry away or out of the books: an id is drawn only for an   *)
(* entry that does not exist yet.                                               *)
LEMMA StepEvolves == TypeOK /\ DesksHold /\ [Next]_vars => Evolves
<1> SUFFICES ASSUME TypeOK, DesksHold, [Next]_vars PROVE Evolves
  OBVIOUS
<1>0. entry \in [Entries -> Entry] /\ history \in SUBSET Entries
  BY DEF TypeOK
<1>1. ASSUME NEW e \in Entries, Create(e) PROVE Evolves
  <2>1. entry'[e].status = "DRAFT" /\ entry'[e].role = "original"
    BY <1>0, <1>1 DEF Create, NoEntry
  <2>2. entry[e].status = "NONE" /\ history' = history
    BY <1>1 DEF Create
  <2>3. \A x \in Entries \ {e} : entry'[x] = entry[x]
    BY <1>0, <1>1 DEF Create
  <2> QED
    BY <2>1, <2>2, <2>3 DEF Evolves, Keeps, Appears
<1>2. ASSUME NEW k \in Desks, NEW e \in Entries, DeskStep(k, e) PROVE Evolves
  <2>1. ASSUME NEW op \in Op, Begin(k, op, e) PROVE Evolves
    BY <2>1 DEF Begin, Evolves, Keeps
  <2>2. ASSUME Submit(k, e) PROVE Evolves
    <3>1. entry[e].status # "NONE"
      BY <2>2 DEF Submit, At, DesksHold
    <3> QED
      BY <1>0, <2>2, <3>1 DEF Submit, Evolves, Keeps, Entry
  <2>3. ASSUME Discard(k, e) PROVE Evolves
    <3>1. entry[e].status # "NONE"
      BY <2>3 DEF Discard, At, DesksHold
    <3> QED
      BY <1>0, <2>3, <3>1 DEF Discard, Evolves, Keeps, Entry
  <2>4. ASSUME Approve(k, e) PROVE Evolves
    <3>1. entry[e].status # "NONE"
      BY <2>4 DEF Approve, At, DesksHold
    <3>2. CASE Book(k, e)
      BY <1>0, <3>1, <3>2 DEF Book, Evolves, Keeps, Entry
    <3>3. CASE RollBack(k, e)
      BY <3>3 DEF RollBack, Evolves, Keeps
    <3> QED
      BY <2>4, <3>2, <3>3 DEF Approve
  <2>5. ASSUME NEW n \in Entries, CreateCounterpart(k, e, n) PROVE Evolves
    <3>1. entry[e].status # "NONE" /\ entry[n].status = "NONE" /\ history' = history
      BY <2>5 DEF CreateCounterpart, At, DesksHold
    <3>2. entry' = [entry EXCEPT
            ![e].linked = TRUE,
            ![n] = [entry[e] EXCEPT !.status = "POSTED", !.role = "counterpart",
                                    !.of = e, !.amount = -@, !.linked = TRUE]]
      BY <2>5 DEF CreateCounterpart
    <3>3. entry'[n].role = "counterpart" /\ entry'[n].status = "POSTED"
      BY <1>0, <3>1, <3>2 DEF Entry
    <3>4. /\ entry'[e].role = entry[e].role /\ entry'[e].of = entry[e].of
          /\ entry'[e].status = entry[e].status
          /\ entry'[e].amount = entry[e].amount /\ entry'[e].date = entry[e].date
      BY <1>0, <3>1, <3>2 DEF Entry
    <3>5. \A x \in Entries \ {e, n} : entry'[x] = entry[x]
      BY <1>0, <3>2
    <3> QED
      BY <3>1, <3>3, <3>4, <3>5 DEF Evolves, Keeps, Appears
  <2>6. ASSUME SkipCounterpart(k, e) PROVE Evolves
    BY <2>6 DEF SkipCounterpart, Evolves, Keeps
  <2>7. ASSUME NEW n \in Entries, NEW d \in Dates, Reverse(k, e, n, d) PROVE Evolves
    <3>1. entry[e].status # "NONE" /\ entry[n].status = "NONE" /\ history' = history
      BY <2>7 DEF Reverse, At, DesksHold
    <3>2. Reversible(e)
      BY <2>7 DEF Reverse, At, DesksHold
    <3>3. entry' = [entry EXCEPT
            ![e].status = "REVERSED",
            ![n] = [entry[e] EXCEPT !.status = "DRAFT", !.role = "reversal",
                                    !.of = e, !.reversals = @ + 1, !.date = d,
                                    !.amount = -@, !.linked = FALSE]]
      BY <2>7 DEF Reverse
    <3>4. entry'[n].status = "DRAFT" /\ entry'[n].of = e
      BY <1>0, <3>1, <3>3 DEF Entry
    <3>5. /\ entry'[e].role = entry[e].role /\ entry'[e].of = entry[e].of
          /\ entry'[e].status = "REVERSED"
          /\ entry'[e].amount = entry[e].amount /\ entry'[e].date = entry[e].date
      BY <1>0, <3>1, <3>3 DEF Entry
    <3>6. \A x \in Entries \ {e, n} : entry'[x] = entry[x]
      BY <1>0, <3>3
    <3> QED
      BY <3>1, <3>2, <3>4, <3>5, <3>6 DEF Evolves, Keeps, Appears
  <2> QED
    BY <1>2, <2>1, <2>2, <2>3, <2>4, <2>5, <2>6, <2>7 DEF DeskStep
<1>3. ASSUME NEW k \in Desks, Die(k) PROVE Evolves
  BY <1>3 DEF Die, Evolves, Keeps
<1>4. CASE UNCHANGED vars
  BY <1>4 DEF vars, Evolves, Keeps
<1> QED
  BY <1>1, <1>2, <1>3, <1>4 DEF Next

LEMMA ReversalsStep ==
  ASSUME TypeOK, TypeOK', ReversalsHold, Evolves
  PROVE  ReversalsHold'
<1> SUFFICES ASSUME NEW e \in Entries, entry'[e].role = "reversal"
             PROVE  /\ entry'[e].of \in Entries
                    /\ entry'[entry'[e].of].status # "NONE"
                    /\ Reversible(entry[e].of)'
  BY DEF ReversalsHold
<1> DEFINE o == entry'[e].of
<1>1. o \in Entries /\ entry[o].status # "NONE" /\ Reversible(o)
  BY DEF Evolves, Keeps, Appears, ReversalsHold
<1>2. Keeps(o) /\ history \subseteq history'
  BY <1>1 DEF Evolves
<1>3. o \in history' \/ entry'[o].role = "counterpart"
  BY <1>1, <1>2 DEF Reversible, Keeps
<1> QED
  BY <1>1, <1>2, <1>3 DEF Reversible, Keeps

(* A step leaves POSTED and REVERSED entries in the books: approval books the    *)
(* entry as it sets its status, and only what is in them is reversed.           *)
LEMMA PostedStep ==
  ASSUME TypeOK, DesksHold, PostedIsBooked, [Next]_vars, Evolves
  PROVE  PostedIsBooked'
<1> SUFFICES ASSUME NEW x \in Entries,
                    entry'[x].status \in {"POSTED", "REVERSED"},
                    entry'[x].role # "counterpart"
             PROVE  x \in history'
  BY DEF PostedIsBooked
<1>0. entry \in [Entries -> Entry] /\ history \in SUBSET Entries /\ history \subseteq history'
  BY DEF TypeOK, Evolves
<1>1. CASE entry[x].status \in {"POSTED", "REVERSED"} /\ entry[x].role # "counterpart"
  BY <1>0, <1>1 DEF PostedIsBooked
<1>2. CASE entry[x].status = "NONE"
  BY <1>0, <1>1, <1>2 DEF Evolves, Appears
<1>3. CASE entry[x].status \notin {"NONE", "POSTED", "REVERSED"}
  <2>1. entry'[x].status # entry[x].status
    BY <1>3
  <2>2. ASSUME NEW e \in Entries, Create(e) PROVE FALSE
    BY <1>0, <1>3, <2>1, <2>2 DEF Create
  <2>3. ASSUME NEW k \in Desks, NEW e \in Entries, DeskStep(k, e) PROVE x \in history'
    <3>1. ASSUME NEW op \in Op, Begin(k, op, e) PROVE FALSE
      BY <2>1, <3>1 DEF Begin
    <3>2. ASSUME Submit(k, e) \/ Discard(k, e) PROVE FALSE
      BY <1>0, <2>1, <3>2 DEF Submit, Discard, Entry
    <3>3. ASSUME Approve(k, e) PROVE x \in history'
      BY <1>0, <2>1, <3>3 DEF Approve, Book, RollBack
    <3>4. ASSUME NEW n \in Entries, CreateCounterpart(k, e, n) PROVE FALSE
      <4>1. entry[n].status = "NONE"
        BY <3>4 DEF CreateCounterpart
      <4>2. entry'[x].status = entry[x].status
        BY <1>0, <1>3, <4>1, <3>4 DEF CreateCounterpart, Entry
      <4> QED
        BY <2>1, <4>2
    <3>5. ASSUME SkipCounterpart(k, e) PROVE FALSE
      BY <2>1, <3>5 DEF SkipCounterpart
    <3>6. ASSUME NEW n \in Entries, NEW d \in Dates, Reverse(k, e, n, d)
          PROVE  x \in history'
      <4>1. entry[n].status = "NONE"
        BY <3>6 DEF Reverse
      <4>2. x = e
        BY <1>0, <1>3, <2>1, <4>1, <3>6 DEF Reverse
      <4>3. Reversible(x) /\ Keeps(x)
        BY <1>3, <3>6, <4>2 DEF Reverse, At, DesksHold, Evolves
      <4> QED
        BY <1>0, <4>3 DEF Reversible, Keeps
    <3> QED
      BY <2>3, <3>1, <3>2, <3>3, <3>4, <3>5, <3>6 DEF DeskStep
  <2>4. ASSUME NEW k \in Desks, Die(k) PROVE FALSE
    BY <2>1, <2>4 DEF Die
  <2>5. CASE UNCHANGED vars
    BY <2>1, <2>5 DEF vars
  <2> QED
    BY <2>2, <2>3, <2>4, <2>5 DEF Next
<1> QED
  <2>1. entry[x].status # "NONE" => entry'[x].role = entry[x].role
    BY DEF Evolves, Keeps
  <2> QED
    BY <1>1, <1>2, <1>3, <2>1

(* A step leaves what a request has seen true: it saw the status before it.     *)
LEMMA DesksStep ==
  ASSUME TypeOK, DesksHold, PostedIsBooked, [Next]_vars, Evolves
  PROVE  DesksHold'
<1>0. desk \in [Desks -> [pc : Op \cup {"idle", "counterpart"},
                          entry : Entries \cup {Nothing}]]
  BY DEF TypeOK
<1> SUFFICES ASSUME NEW j \in Desks, desk'[j].pc # "idle"
             PROVE  /\ entry'[desk'[j].entry].status # "NONE"
                    /\ desk'[j].pc = "reverse" => Reversible(desk[j].entry)'
  BY DEF DesksHold
<1> DEFINE x == desk'[j].entry
<1>1. /\ x \in Entries /\ entry[x].status # "NONE"
      /\ desk'[j].pc = "reverse" => Reversible(x)
  <2>1. CASE desk'[j] = desk[j]
    BY <2>1 DEF DesksHold, TypeOK
  <2>2. ASSUME NEW e \in Entries, NEW op \in Op, Begin(j, op, e)
        PROVE  <1>1!1 /\ <1>1!2
    <3>1. desk'[j] = [pc |-> op, entry |-> e]
      BY <1>0, <2>2 DEF Begin
    <3>2. entry[e].status = Needs[op]
      BY <2>2 DEF Begin, Admits
    <3>3. op = "reverse" => Reversible(e)
      BY <3>2 DEF Needs, PostedIsBooked, Reversible
    <3> QED
      BY <3>1, <3>2, <3>3 DEF Needs, Op
  <2>3. ASSUME NEW e \in Entries, Approve(j, e), Book(j, e)
        PROVE  <1>1!1 /\ <1>1!2
    <3>1. desk'[j].pc = "counterpart" /\ x = desk[j].entry /\ desk[j].pc # "idle"
      BY <1>0, <2>3 DEF Approve, Book, At
    <3> QED
      BY <3>1 DEF DesksHold, TypeOK
  <2>4. ASSUME NEW k \in Desks, NEW e \in Entries, DeskStep(k, e)
        PROVE  <1>1!1 /\ <1>1!2
    <3>1. CASE j # k
      <4>1. desk'[j] = desk[j]
        BY <1>0, <2>4, <3>1 DEF DeskStep, Begin, Submit, Discard, Approve, Book, RollBack,
          CreateCounterpart, SkipCounterpart, Reverse, Ends
      <4> QED
        BY <4>1, <2>1
    <3>2. CASE j = k
      <4>1. ASSUME Ends(k) PROVE FALSE
        BY <1>0, <3>2, <4>1 DEF Ends, IdleDesk
      <4>2. \/ \E op \in Op : Begin(k, op, e)
            \/ Approve(k, e) /\ Book(k, e)
        BY <2>4, <4>1 DEF DeskStep, Submit, Discard, Approve, RollBack,
          CreateCounterpart, SkipCounterpart, Reverse
      <4> QED
        BY <3>2, <4>2, <2>2, <2>3
    <3> QED
      BY <3>1, <3>2
  <2>5. ASSUME NEW k \in Desks, Die(k) PROVE <1>1!1 /\ <1>1!2
    <3>1. desk'[j] = desk[j]
      BY <1>0, <2>5 DEF Die, Ends, IdleDesk
    <3> QED
      BY <3>1, <2>1
  <2>6. ASSUME NEW e \in Entries, Create(e) PROVE <1>1!1 /\ <1>1!2
    BY <2>6, <2>1 DEF Create
  <2>7. CASE UNCHANGED vars
    BY <2>7, <2>1 DEF vars
  <2> QED
    BY <2>4, <2>5, <2>6, <2>7 DEF Next
<1>2. entry'[x].status # "NONE"
  BY <1>1 DEF Evolves, Keeps
<1>3. desk'[j].pc = "reverse" => x \in history' \/ entry'[x].role = "counterpart"
  BY <1>1 DEF Evolves, Keeps, Reversible
<1> QED
  BY <1>2, <1>3 DEF Reversible

-----------------------------------------------------------------------------
(* The balances                                                              *)

\* The books have finitely many entries, each of them an entry that exists.
BooksHold == IsFiniteSet(history) /\ \A e \in history : entry[e].status # "NONE"

\* What is booked for a date.
BookedOn(d) == {e \in history : entry[e].date = d}

LEMMA AmountIsInt == ASSUME NEW x \in Entry PROVE x.amount \in Int
  BY DEF Entry

\* The only step that adds to the books adds one entry, which its key shows to be
\* new to them, and its amount to the balance of its date.
Booking(e) ==
  /\ e \in Entries /\ e \notin history /\ entry[e].status # "NONE"
  /\ history' = history \cup {e} /\ AddToBalance(e)

LEMMA OnlyBookingBooks ==
  ASSUME DesksHold, [Next]_vars
  PROVE  UNCHANGED <<history, balance>> \/ \E e \in Entries : Booking(e)
<1>1. ASSUME NEW k \in Desks, NEW e \in Entries, Approve(k, e)
      PROVE  UNCHANGED <<history, balance>> \/ Booking(e)
  <2>1. entry[e].status # "NONE"
    BY <1>1 DEF Approve, At, DesksHold
  <2>2. KeyIsFree(e) => e \notin history
    BY DEF KeyIsFree
  <2> QED
    BY <1>1, <2>1, <2>2 DEF Approve, Book, RollBack, Booking
<1>2. ASSUME NEW k \in Desks, NEW e \in Entries, DeskStep(k, e), ~Approve(k, e)
      PROVE  UNCHANGED <<history, balance>>
  BY <1>2 DEF DeskStep, Begin, Submit, Discard, CreateCounterpart, SkipCounterpart, Reverse
<1>3. ASSUME NEW e \in Entries, Create(e) PROVE UNCHANGED <<history, balance>>
  BY <1>3 DEF Create
<1>4. ASSUME NEW k \in Desks, Die(k) PROVE UNCHANGED <<history, balance>>
  BY <1>4 DEF Die
<1> QED
  BY <1>1, <1>2, <1>3, <1>4 DEF Next, vars

LEMMA BooksStep ==
  ASSUME BooksHold, TypeOK, DesksHold, Evolves, [Next]_vars PROVE BooksHold'
<1>1. \A e \in history : entry'[e].status # "NONE"
  BY DEF BooksHold, Evolves, Keeps, TypeOK
<1>2. CASE UNCHANGED <<history, balance>>
  BY <1>1, <1>2 DEF BooksHold
<1>3. ASSUME NEW e \in Entries, Booking(e) PROVE BooksHold'
  <2>1. IsFiniteSet(history')
    BY <1>3, FS_AddElement DEF Booking, BooksHold
  <2>2. entry'[e].status # "NONE"
    BY <1>3 DEF Booking, Evolves, Keeps
  <2> QED
    BY <1>1, <1>3, <2>1, <2>2 DEF Booking, BooksHold
<1> QED
  BY <1>2, <1>3, OnlyBookingBooks

(* A booking adds its amount to the sum of its date and to the balance of its    *)
(* date; every other step leaves what is booked as it was.                      *)
LEMMA BalanceStep ==
  ASSUME TypeOK, TypeOK', BooksHold, DesksHold, BalanceIsHistory, Evolves, [Next]_vars
  PROVE  BalanceIsHistory'
<1> DEFINE amount == [e \in Entries |-> entry[e].amount]
           after == [e \in Entries |-> entry'[e].amount]
<1> SUFFICES ASSUME NEW d \in Dates
             PROVE  balance'[d] = SumFunctionOnSet(after, BookedOn(d)')
  BY DEF BalanceIsHistory, Sum, BookedOn
<1>1. balance[d] = SumFunctionOnSet(amount, BookedOn(d)) /\ balance[d] \in Int
  BY DEF BalanceIsHistory, Sum, BookedOn, TypeOK
<1>2. IsFiniteSet(BookedOn(d)) /\ BookedOn(d) \subseteq Entries
  <2>1. BookedOn(d) \in SUBSET history
    BY DEF BookedOn
  <2> QED
    BY <2>1, FS_Subset DEF BooksHold, TypeOK
<1>3. \A e \in Entries : amount[e] \in Int /\ after[e] \in Int
  BY AmountIsInt DEF TypeOK
<1>4. /\ \A e \in BookedOn(d) : amount[e] = after[e]
      /\ \A e \in history : entry'[e].date = entry[e].date
  BY DEF BookedOn, BooksHold, Evolves, Keeps, TypeOK
<1>5. SumFunctionOnSet(amount, BookedOn(d)) = SumFunctionOnSet(after, BookedOn(d))
  <2> HIDE DEF amount, after
  <2> QED
    BY <1>2, <1>4, SumSame
<1>6. CASE UNCHANGED <<history, balance>>
  <2>1. BookedOn(d)' = BookedOn(d)
    BY <1>4, <1>6 DEF BookedOn
  <2> QED
    BY <1>1, <1>5, <1>6, <2>1
<1>7. ASSUME NEW e \in Entries, Booking(e)
      PROVE  balance'[d] = SumFunctionOnSet(after, BookedOn(d)')
  <2>1. entry'[e].date = entry[e].date /\ entry'[e].amount = entry[e].amount
    BY <1>7 DEF Booking, Evolves, Keeps
  <2>2. CASE entry[e].date = d
    <3>1. BookedOn(d)' = BookedOn(d) \cup {e} /\ e \notin BookedOn(d)
      BY <1>4, <1>7, <2>1, <2>2 DEF BookedOn, Booking
    <3>2. SumFunctionOnSet(after, BookedOn(d) \cup {e})
            = SumFunctionOnSet(after, BookedOn(d)) + after[e]
      <4> HIDE DEF after
      <4> QED
        BY <1>2, <1>3, <3>1, SumAdd
    <3>3. balance'[d] = balance[d] + entry[e].amount
      BY <1>7, <2>2 DEF Booking, AddToBalance, TypeOK
    <3>4. after[e] = entry[e].amount
      BY <2>1
    <3> QED
      BY <1>1, <1>5, <3>1, <3>2, <3>3, <3>4
  <2>3. CASE entry[e].date # d
    <3>1. BookedOn(d)' = BookedOn(d)
      BY <1>4, <1>7, <2>1, <2>3 DEF BookedOn, Booking
    <3>2. balance'[d] = balance[d]
      BY <1>7, <2>3 DEF Booking, AddToBalance, TypeOK
    <3> QED
      BY <1>1, <1>5, <3>1, <3>2
  <2> QED
    BY <2>2, <2>3
<1> QED
  BY <1>6, <1>7, OnlyBookingBooks
-----------------------------------------------------------------------------
(* The invariant: PostedIsBooked needs the requests' knowledge, and a request    *)
(* takes it from PostedIsBooked.                                                *)
LEMMA Invariance == Spec => []IInv
<1>1. Init => IInv
  <2> SUFFICES ASSUME Init PROVE IInv
    OBVIOUS
  <2>1. TypeOK
    BY NoEntryType, LedgerAssumption DEF Init, TypeOK, IdleDesk
  <2>2. \A e \in Entries : entry[e].status = "NONE" /\ entry[e].role = "original"
    BY DEF Init, NoEntry
  <2>3. \A k \in Desks : desk[k].pc = "idle"
    BY DEF Init, IdleDesk
  <2> QED
    BY <2>1, <2>2, <2>3 DEF IInv, PostedIsBooked, DesksHold, ReversalsHold
<1>2. IInv /\ [Next]_vars => IInv'
  <2> SUFFICES ASSUME IInv, [Next]_vars PROVE IInv'
    OBVIOUS
  <2>1. TypeOK /\ PostedIsBooked /\ DesksHold /\ ReversalsHold
    BY DEF IInv
  <2>2. TypeOK'
    BY <2>1, TypeStep
  <2>3. Evolves
    BY <2>1, StepEvolves
  <2>4. PostedIsBooked'
    BY <2>1, <2>3, PostedStep
  <2>5. DesksHold'
    BY <2>1, <2>3, DesksStep
  <2>6. ReversalsHold'
    BY <2>1, <2>2, <2>3, ReversalsStep
  <2> QED
    BY <2>2, <2>4, <2>5, <2>6 DEF IInv
<1> QED
  BY <1>1, <1>2, PTL DEF Spec

(* An entry that is POSTED or REVERSED is in the books, unless it is an          *)
(* intercompany counterpart (gl-service approveJournalEntry, AutoPostJob and     *)
(* AgentReviewTimeoutJob).                                                      *)
THEOREM PostedBooked == Spec => []PostedIsBooked
<1>1. IInv => PostedIsBooked
  BY DEF IInv
<1> QED
  BY <1>1, Invariance, PTL

(* The balance of a period is the sum of the booked entries dated in it          *)
(* (updateJournalBalance), however approvals, late submits, reversals and the    *)
(* timeout interleave.                                                          *)
THEOREM BalancesFollow == Spec => []BalanceIsHistory
<1>1. Init => BooksHold /\ BalanceIsHistory
  <2> SUFFICES ASSUME Init PROVE BooksHold /\ BalanceIsHistory
    OBVIOUS
  <2>1. \A d \in Dates : {e \in history : entry[e].date = d} = {} /\ balance[d] = 0
    BY DEF Init
  <2> QED
    BY <2>1, SumOfNone, FS_EmptySet DEF Init, BooksHold, BalanceIsHistory, Sum
<1>2. IInv /\ IInv' /\ BooksHold /\ BalanceIsHistory /\ [Next]_vars
        => BooksHold' /\ BalanceIsHistory'
  BY StepEvolves, BooksStep, BalanceStep DEF IInv
<1> QED
  BY <1>1, <1>2, Invariance, PTL DEF Spec

(* What a booked reversal takes out of the books is there (reverseJournalEntry).  *)
THEOREM ReversalsFollow == Spec => []ReversalFollowsOriginal
<1>1. IInv => ReversalFollowsOriginal
  BY DEF IInv, TypeOK, ReversalsHold, Reversible, ReversalFollowsOriginal
<1> QED
  BY <1>1, Invariance, PTL

-----------------------------------------------------------------------------
(* EventDelivery: types.  Overlapping batches may all hold an event that they took  *)
(* below MaxRetries; each of them adds one retry at most, and then lets it go.      *)

Has(x, e) == x.pc # "idle" /\ (x.hand = e \/ e \in x.rest)

HoldersOf(e) == {b \in Batches : Has(batch[b], e)}

HandsApart == \A b \in Batches : batch[b].hand \notin batch[b].rest

MostRetries == MaxRetries + Cardinality(Batches) - 1

RetriesHold ==
  \A e \in Events : outbox[e].retryCount + Cardinality(HoldersOf(e)) <= MostRetries

DeliveryTypeInv == DeliveryTypeOK /\ HandsApart /\ RetriesHold

LEMMA BatchesAreFinite ==
  /\ MostRetries \in Nat /\ MaxRetries \in Nat /\ MaxRetries <= MostRetries
  /\ Cardinality(Batches) \in Nat
  /\ \A S \in SUBSET Batches : /\ IsFiniteSet(S) /\ Cardinality(S) \in Nat
                               /\ Cardinality(S) <= Cardinality(Batches)
                               /\ \A R \in SUBSET S : Cardinality(R) <= Cardinality(S)
<1>1. IsFiniteSet(Batches) /\ Batches # {} /\ MaxRetries \in Nat
  BY DeliveryAssumption
<1>2. Cardinality(Batches) \in Nat /\ Cardinality(Batches) # 0
  BY <1>1, FS_CardinalityType, FS_EmptySet
<1>3. \A S \in SUBSET Batches : IsFiniteSet(S) /\ Cardinality(S) \in Nat
  BY <1>1, FS_Subset, FS_CardinalityType
<1>4. \A S \in SUBSET Batches : Cardinality(S) <= Cardinality(Batches)
  BY <1>1, FS_Subset
<1>5. \A S \in SUBSET Batches : \A R \in SUBSET S : Cardinality(R) <= Cardinality(S)
  BY <1>3, FS_Subset
<1>6. MostRetries \in Nat /\ MaxRetries <= MostRetries
  BY <1>1, <1>2 DEF MostRetries
<1> QED
  BY <1>1, <1>2, <1>3, <1>4, <1>5, <1>6

LEMMA BusyBatch ==
  ASSUME DeliveryTypeOK, NEW b \in Batches, batch[b].pc # "idle"
  PROVE  /\ batch[b] \in BatchState
         /\ batch[b].hand \in Events /\ batch[b].rest \in SUBSET Events
<1>1. batch[b] \in BatchState \cup {IdleBatch} /\ batch[b] # IdleBatch
  BY DEF DeliveryTypeOK, IdleBatch
<1>2. batch[b] \in BatchState
  BY <1>1
<1> QED
  BY <1>2 DEF BatchState

\* What TakeNext leaves: another event in hand, or the end of the batch.
LEMMA TakesNext ==
  ASSUME DeliveryTypeOK, NEW b \in Batches, NEW S \in SUBSET Events, TakeNext(b, S)
  PROVE  /\ batch' \in [Batches -> BatchState \cup {IdleBatch}]
         /\ \A c \in Batches \ {b} : batch'[c] = batch[c]
         /\ batch'[b].pc \in {"idle", "next"} /\ batch'[b].hand \notin batch'[b].rest
         /\ \A e \in Events : Has(batch'[b], e) => e \in S
<1>1. batch \in [Batches -> BatchState \cup {IdleBatch}]
  BY DEF DeliveryTypeOK
<1>2. CASE batch' = [batch EXCEPT ![b] = IdleBatch]
  BY <1>1, <1>2 DEF IdleBatch, Has
<1>3. ASSUME NEW e \in S,
             batch' = [batch EXCEPT ![b] = [pc |-> "next", hand |-> e, rest |-> S \ {e}]]
      PROVE  /\ batch' \in [Batches -> BatchState \cup {IdleBatch}]
             /\ \A c \in Batches \ {b} : batch'[c] = batch[c]
             /\ batch'[b].pc \in {"idle", "next"} /\ batch'[b].hand \notin batch'[b].rest
             /\ \A f \in Events : Has(batch'[b], f) => f \in S
  <2>1. [pc |-> "next", hand |-> e, rest |-> S \ {e}] \in BatchState
    BY <1>3 DEF BatchState
  <2> QED
    BY <1>1, <1>3, <2>1 DEF Has
<1> QED
  BY <1>2, <1>3 DEF TakeNext

\* A batch that goes on with the event in hand.
LEMMA GoesOn ==
  ASSUME DeliveryTypeOK, NEW b \in Batches, batch[b].pc # "idle",
         NEW pc \in {"next", "sent", "failed"}, batch' = [batch EXCEPT ![b].pc = pc]
  PROVE  /\ batch' \in [Batches -> BatchState \cup {IdleBatch}]
         /\ \A c \in Batches \ {b} : batch'[c] = batch[c]
         /\ batch'[b].pc = pc /\ batch'[b].hand = batch[b].hand
         /\ batch'[b].rest = batch[b].rest
<1>1. batch \in [Batches -> BatchState \cup {IdleBatch}] /\ batch[b] \in BatchState
  BY BusyBatch DEF DeliveryTypeOK
<1>2. [batch[b] EXCEPT !.pc = pc] \in BatchState
  BY <1>1 DEF BatchState
<1>3. batch'[b] = [batch[b] EXCEPT !.pc = pc]
  BY <1>1
<1> QED
  BY <1>1, <1>2, <1>3 DEF BatchState

(* The retries and those who may still add one, after a step in which no batch but *)
(* b takes up an event.                                                            *)
LEMMA RetriesKeep ==
  ASSUME DeliveryTypeInv, NEW b \in Batches,
         \A c \in Batches \ {b} : batch'[c] = batch[c],
         \A e \in Events : outbox'[e].retryCount \in Nat,
         \A e \in Events :
           \/ /\ outbox'[e].retryCount = outbox[e].retryCount
              /\ Has(batch'[b], e) => Has(batch[b], e) \/ outbox[e].retryCount < MaxRetries
           \/ /\ outbox'[e].retryCount = outbox[e].retryCount + 1
              /\ Has(batch[b], e) /\ ~Has(batch'[b], e)
  PROVE  RetriesHold'
<1> SUFFICES ASSUME NEW e \in Events
             PROVE  outbox'[e].retryCount + Cardinality(HoldersOf(e)') <= MostRetries
  BY DEF RetriesHold, MostRetries
<1>1. /\ outbox[e].retryCount + Cardinality(HoldersOf(e)) <= MostRetries
      /\ outbox[e].retryCount \in Nat /\ outbox'[e].retryCount \in Nat
  BY DEF DeliveryTypeInv, RetriesHold, DeliveryTypeOK, OutboxRow
<1>2. HoldersOf(e) \in SUBSET Batches /\ HoldersOf(e)' \in SUBSET Batches
  BY DEF HoldersOf
<1>3. /\ Cardinality(HoldersOf(e)) \in Nat /\ Cardinality(HoldersOf(e)') \in Nat
      /\ Cardinality(HoldersOf(e)') <= Cardinality(Batches)
      /\ Cardinality(Batches) \in Nat /\ IsFiniteSet(HoldersOf(e)) /\ MaxRetries \in Nat
  BY <1>2, BatchesAreFinite
<1>4. CASE outbox[e].retryCount < MaxRetries
           /\ outbox'[e].retryCount = outbox[e].retryCount
  BY <1>1, <1>3, <1>4 DEF MostRetries
<1>5. CASE outbox'[e].retryCount = outbox[e].retryCount
           /\ (Has(batch'[b], e) => Has(batch[b], e))
  <2>1. HoldersOf(e)' \subseteq HoldersOf(e)
    BY <1>5 DEF HoldersOf
  <2>2. Cardinality(HoldersOf(e)') <= Cardinality(HoldersOf(e))
    BY <1>2, <2>1, BatchesAreFinite
  <2> QED
    BY <1>1, <1>3, <1>5, <2>2, BatchesAreFinite
<1>6. CASE /\ outbox'[e].retryCount = outbox[e].retryCount + 1
           /\ Has(batch[b], e) /\ ~Has(batch'[b], e)
  <2>1. b \in HoldersOf(e) /\ HoldersOf(e)' = HoldersOf(e) \ {b}
    BY <1>6 DEF HoldersOf
  <2>2. Cardinality(HoldersOf(e) \ {b}) = Cardinality(HoldersOf(e)) - 1
    BY <1>3, <2>1, FS_RemoveElement
  <2>3. Cardinality(HoldersOf(e)') = Cardinality(HoldersOf(e)) - 1
    BY <2>1, <2>2
  <2> QED
    BY <1>1, <1>3, <1>6, <2>3, BatchesAreFinite
<1> QED
  BY <1>4, <1>5, <1>6

\* The rows, from what has become of their states and of their retries.
LEMMA RowsType ==
  ASSUME outbox' \in [Events -> [state : {"absent", "pending", "published"},
                                 retryCount : Nat]],
         RetriesHold'
  PROVE  outbox' \in [Events -> OutboxRow]
<1> SUFFICES ASSUME NEW e \in Events
             PROVE  outbox'[e].retryCount \in 0 .. MostRetries
  BY DEF OutboxRow, MostRetries
<1>1. HoldersOf(e)' \in SUBSET Batches
  BY DEF HoldersOf
<1>2. outbox'[e].retryCount + Cardinality(HoldersOf(e)') <= MostRetries
  BY DEF RetriesHold, MostRetries
<1>3. Cardinality(HoldersOf(e)') \in Nat /\ MostRetries \in Nat
  BY <1>1, BatchesAreFinite
<1> QED
  BY <1>2, <1>3

\* The outbox as a step that moves one batch finds and leaves it.
OutboxMoves(b) ==
  \/ UNCHANGED outbox
  \/ outbox' = [outbox EXCEPT ![batch[b].hand].state = "published"]
  \/ outbox' = [outbox EXCEPT ![batch[b].hand].retryCount = Counted(@)]

LEMMA BatchStepType ==
  ASSUME DeliveryTypeInv, NEW b \in Batches,
         \/ FindUnpublished(b) \/ BatchStep(b) \/ PublishLost(b)
         \/ MarkPublishedFails(b) \/ Abandon(b)
  PROVE  /\ outbox' \in [Events -> OutboxRow] /\ HandsApart' /\ RetriesHold'
         /\ batch' \in [Batches -> BatchState \cup {IdleBatch}]
<1>0. /\ DeliveryTypeOK /\ outbox \in [Events -> OutboxRow] /\ HandsApart
      /\ \A e \in Events : outbox[e].retryCount \in Nat
  <2>1. DeliveryTypeOK /\ outbox \in [Events -> OutboxRow] /\ HandsApart
    BY DEF DeliveryTypeInv, DeliveryTypeOK
  <2> QED
    BY <2>1 DEF OutboxRow
<1>1. CASE FindUnpublished(b)
  <2>1. /\ TakeNext(b, Oldest(Unpublished)) /\ UNCHANGED outbox /\ batch[b].pc = "idle"
        /\ Oldest(Unpublished) \in SUBSET Events
        /\ \A e \in Oldest(Unpublished) : outbox[e].retryCount < MaxRetries
    BY <1>1 DEF FindUnpublished, Oldest, Unpublished
  <2>2. RetriesHold'
    BY <1>0, <2>1, TakesNext, RetriesKeep
  <2> QED
    BY <1>0, <2>1, <2>2, TakesNext DEF HandsApart
<1>2. CASE \/ Publish(b) \/ PublishFails(b) \/ PublishLost(b) \/ MarkPublishedFails(b)
  <2>1. /\ batch[b].pc # "idle" /\ UNCHANGED outbox
        /\ \E pc \in {"next", "sent", "failed"} : batch' = [batch EXCEPT ![b].pc = pc]
    BY <1>2 DEF Publish, PublishFails, PublishLost, MarkPublishedFails
  <2>2. /\ \A c \in Batches \ {b} : batch'[c] = batch[c]
        /\ batch'[b].hand = batch[b].hand /\ batch'[b].rest = batch[b].rest
        /\ batch' \in [Batches -> BatchState \cup {IdleBatch}]
    BY <1>0, <2>1, GoesOn
  <2>3. RetriesHold'
    BY <1>0, <2>1, <2>2, RetriesKeep DEF Has
  <2> QED
    BY <1>0, <2>1, <2>2, <2>3 DEF HandsApart
<1>3. CASE MarkPublished(b) \/ IncrementRetry(b)
  <2>1. batch[b].pc # "idle" /\ TakeNext(b, batch[b].rest)
    BY <1>3 DEF MarkPublished, IncrementRetry
  <2>2. /\ batch[b].hand \in Events /\ batch[b].rest \in SUBSET Events
        /\ batch[b].hand \notin batch[b].rest
    BY <1>0, <2>1, BusyBatch DEF HandsApart
  <2>3. /\ batch' \in [Batches -> BatchState \cup {IdleBatch}]
        /\ \A c \in Batches \ {b} : batch'[c] = batch[c]
        /\ batch'[b].hand \notin batch'[b].rest
        /\ \A e \in Events : Has(batch'[b], e) => e \in batch[b].rest
    BY <1>0, <2>1, <2>2, TakesNext
  <2>4. /\ outbox' \in [Events -> [state : {"absent", "pending", "published"},
                                   retryCount : Nat]]
        /\ \A e \in Events :
             \/ outbox'[e].retryCount = outbox[e].retryCount
             \/ e = batch[b].hand /\ outbox'[e].retryCount = outbox[e].retryCount + 1
    <3>1. outbox \in [Events -> [state : {"absent", "pending", "published"},
                                 retryCount : Nat]]
      BY <1>0 DEF OutboxRow
    <3>2. CASE outbox' = [outbox EXCEPT ![batch[b].hand].state = "published"]
      BY <2>2, <3>1, <3>2
    <3>3. CASE outbox' = [outbox EXCEPT ![batch[b].hand].retryCount = Counted(@)]
      BY <2>2, <3>1, <3>3 DEF Counted
    <3> QED
      BY <1>3, <3>2, <3>3 DEF MarkPublished, IncrementRetry
  <2>5. RetriesHold'
    <3>1. \A e \in Events : outbox'[e].retryCount \in Nat
      BY <2>4
    <3>2. \A e \in Events : Has(batch'[b], e) => Has(batch[b], e) /\ e # batch[b].hand
      BY <2>1, <2>2, <2>3 DEF Has
    <3>3. Has(batch[b], batch[b].hand)
      BY <2>1 DEF Has
    <3> QED
      BY <2>3, <2>4, <3>1, <3>2, <3>3, RetriesKeep
  <2> QED
    BY <1>0, <2>3, <2>4, <2>5, RowsType DEF HandsApart
<1>4. CASE Abandon(b)
  <2>1. batch' = [batch EXCEPT ![b] = IdleBatch] /\ UNCHANGED outbox
    BY <1>4 DEF Abandon
  <2>2. /\ \A c \in Batches \ {b} : batch'[c] = batch[c]
        /\ batch'[b] = IdleBatch
        /\ batch' \in [Batches -> BatchState \cup {IdleBatch}]
    BY <1>0, <2>1 DEF DeliveryTypeOK
  <2>3. RetriesHold'
    BY <1>0, <2>1, <2>2, RetriesKeep DEF Has, IdleBatch
  <2> QED
    BY <1>0, <2>1, <2>2, <2>3 DEF HandsApart, IdleBatch
<1> QED
  BY <1>1, <1>2, <1>3, <1>4 DEF BatchStep

\* Counting one copy more or less of a message.
LEMMA TakenType ==
  ASSUME DeliveryTypeOK, NEW s \in Services, NEW e \in Events, NEW n \in Attempts,
         Waiting(s, e, n)
  PROVE  /\ Taken(s, e, n) \in [Services -> [Events \X Attempts -> Nat]]
         /\ \A t \in Services, f \in Events, m \in Attempts :
              Taken(s, e, n)[t][<<f, m>>] =
                IF t = s /\ <<f, m>> = <<e, n>> THEN queue[s][<<e, n>>] - 1
                                                ELSE queue[t][<<f, m>>]
<1>1. /\ queue \in [Services -> [Events \X Attempts -> Nat]] /\ <<e, n>> \in Events \X Attempts
      /\ queue[s][<<e, n>>] \in Nat /\ queue[s][<<e, n>>] > 0
  BY DEF DeliveryTypeOK, Waiting
<1>2. queue[s][<<e, n>>] - 1 \in Nat
  BY <1>1
<1> QED
  BY <1>1, <1>2 DEF Taken

Queues == [Services -> [Events \X Attempts -> Nat]]

LEMMA RoutedType ==
  \A q \in Queues, e \in Events, n \in Attempts :
    /\ Routed(q, e, n) \in Queues
    /\ \A t \in Services, f \in Events, m \in Attempts :
         Routed(q, e, n)[t][<<f, m>>] =
           IF t \in bound /\ <<f, m>> = <<e, n>> THEN q[t][<<f, m>>] + 1
                                               ELSE q[t][<<f, m>>]
<1> TAKE q \in Queues, e \in Events, n \in Attempts
<1>1. <<e, n>> \in Events \X Attempts
  OBVIOUS
<1>2. ASSUME NEW t \in Services
      PROVE  /\ Routed(q, e, n)[t] \in [Events \X Attempts -> Nat]
             /\ \A f \in Events, m \in Attempts :
                  Routed(q, e, n)[t][<<f, m>>] =
                    IF t \in bound /\ <<f, m>> = <<e, n>> THEN q[t][<<f, m>>] + 1
                                                        ELSE q[t][<<f, m>>]
  <2>1. /\ Routed(q, e, n)[t] = IF t \in bound THEN [q[t] EXCEPT ![<<e, n>>] = @ + 1]
                                              ELSE q[t]
        /\ q[t] \in [Events \X Attempts -> Nat]
    BY DEF Routed, Queues
  <2>2. CASE t \in bound
    BY <1>1, <2>1, <2>2
  <2>3. CASE t \notin bound
    BY <2>1, <2>3
  <2> QED
    BY <2>2, <2>3
<1> QED
  BY <1>2 DEF Routed, Queues

\* A copy taken, and one put into every queue for the next attempt.
LEMMA RequeueType ==
  ASSUME DeliveryTypeOK, NEW s \in Services, NEW e \in Events, NEW n \in Attempts,
         Requeue(s, e, n)
  PROVE  /\ queue' \in [Services -> [Events \X Attempts -> Nat]]
         /\ n + 1 \in Attempts
         /\ \A t \in Services, f \in Events, m \in Attempts :
              queue'[t][<<f, m>>] =
                IF t \in bound /\ <<f, m>> = <<e, n + 1>>
                  THEN Taken(s, e, n)[t][<<f, m>>] + 1
                  ELSE Taken(s, e, n)[t][<<f, m>>]
<1>1. n + 1 \in Attempts
  BY DeliveryAssumption DEF Requeue, TriesAgain, Attempts
<1>2. Taken(s, e, n) \in [Services -> [Events \X Attempts -> Nat]]
  BY TakenType DEF Requeue, Received
<1>3. queue' = Routed(Taken(s, e, n), e, n + 1)
  BY DEF Requeue, NextAttempt
<1> DEFINE T == Taken(s, e, n)
<1> HIDE DEF T
<1>4. /\ Routed(T, e, n + 1) \in Queues
      /\ \A t \in Services, f \in Events, m \in Attempts :
           Routed(T, e, n + 1)[t][<<f, m>>] =
             IF t \in bound /\ <<f, m>> = <<e, n + 1>> THEN T[t][<<f, m>>] + 1
                                                     ELSE T[t][<<f, m>>]
  <2>1. T \in Queues
    BY <1>2 DEF T, Queues
  <2> QED
    BY <1>1, <2>1, RoutedType
<1>5. queue' = Routed(T, e, n + 1)
  BY <1>3 DEF T
<1>6. /\ queue' \in [Services -> [Events \X Attempts -> Nat]]
      /\ \A t \in Services, f \in Events, m \in Attempts :
           queue'[t][<<f, m>>] =
             IF t \in bound /\ <<f, m>> = <<e, n + 1>> THEN T[t][<<f, m>>] + 1
                                                     ELSE T[t][<<f, m>>]
  BY <1>4, <1>5 DEF Queues
<1> QED
  BY <1>1, <1>6 DEF T

LEMMA DeliveryTypeStep == DeliveryTypeInv /\ [DeliveryNext]_deliveryVars => DeliveryTypeInv'
<1> SUFFICES ASSUME DeliveryTypeInv, [DeliveryNext]_deliveryVars PROVE DeliveryTypeInv'
  OBVIOUS
<1> DEFINE Rest == /\ channel' \in [Processes -> {"open", "closed", "none"}]
                   /\ bound' \in SUBSET Services
                   /\ queue' \in [Services -> [Events \X Attempts -> Nat]]
                   /\ handled' \in [Services -> SUBSET Events]
                   /\ dead' \in [Services -> SUBSET Events]
                   /\ brokerless' \in BOOLEAN
                   /\ faults' \in Nat /\ losses' \in Nat
           Outbox == /\ outbox' \in [Events -> OutboxRow] /\ HandsApart' /\ RetriesHold'
                     /\ batch' \in [Batches -> BatchState \cup {IdleBatch}]
<1>0. DeliveryTypeOK
  BY DEF DeliveryTypeInv
<1>q. SUFFICES Rest /\ Outbox
  BY DEF DeliveryTypeInv, DeliveryTypeOK
<1>1. ASSUME UNCHANGED <<outbox, batch>> PROVE Outbox
  BY <1>0, <1>1 DEF DeliveryTypeInv, DeliveryTypeOK, HandsApart, RetriesHold, HoldersOf
<1>r. ASSUME UNCHANGED <<link, broker, handled>>, faults' \in Nat, losses' \in Nat
      PROVE  Rest
  BY <1>0, <1>r DEF link, broker, DeliveryTypeOK
<1> HIDE DEF Rest, Outbox
<1>2. ASSUME NEW e \in Events, CreateEvent(e) PROVE Rest /\ Outbox
  <2>1. /\ outbox' = [outbox EXCEPT ![e].state = "pending"] /\ UNCHANGED batch
    BY <1>2 DEF CreateEvent
  <2>2. outbox' \in [Events -> OutboxRow]
        /\ \A f \in Events : outbox'[f].retryCount = outbox[f].retryCount
    BY <1>0, <2>1 DEF DeliveryTypeOK, OutboxRow
  <2>3. Outbox
    BY <1>0, <2>1, <2>2 DEF DeliveryTypeInv, DeliveryTypeOK, HandsApart, RetriesHold, HoldersOf, Outbox
  <2>4. Rest
    BY <1>0, <1>2, <1>r DEF CreateEvent, DeliveryTypeOK
  <2> QED
    BY <2>3, <2>4
<1>3. ASSUME NEW b \in Batches,
             \/ FindUnpublished(b) \/ BatchStep(b) \/ PublishLost(b)
             \/ MarkPublishedFails(b) \/ Abandon(b)
      PROVE  Rest /\ Outbox
  <2>1. Outbox
    BY <1>3, BatchStepType DEF Outbox
  <2>2. CASE \/ FindUnpublished(b) \/ PublishFails(b) \/ MarkPublished(b)
             \/ IncrementRetry(b) \/ MarkPublishedFails(b) \/ Abandon(b)
    <3>1. UNCHANGED <<link, broker, handled>> /\ faults' \in Nat /\ losses' \in Nat
      BY <1>0, <2>2 DEF FindUnpublished, PublishFails, MarkPublished, IncrementRetry,
         MarkPublishedFails, Abandon, Fault, DeliveryTypeOK
    <3> QED
      BY <1>r, <2>1, <3>1
  <2>3. CASE Publish(b) \/ PublishLost(b)
    <3>1. batch[b].hand \in Events /\ 1 \in Attempts
      BY <1>0, <2>3, BusyBatch, DeliveryAssumption DEF Publish, PublishLost, Attempts
    <3>2. queue' \in [Services -> [Events \X Attempts -> Nat]]
      <4>1. Routed(queue, batch[b].hand, 1) \in [Services -> [Events \X Attempts -> Nat]]
        BY <1>0, <3>1, RoutedType DEF DeliveryTypeOK, Queues
      <4>2. queue' = queue \/ queue' = Routed(queue, batch[b].hand, 1)
        BY <2>3 DEF Publish, PublishLost, broker
      <4> QED
        BY <1>0, <4>1, <4>2 DEF DeliveryTypeOK
    <3>3. /\ handled' = handled /\ dead' = dead /\ bound' = bound
          /\ brokerless' = brokerless /\ faults' \in Nat /\ losses' \in Nat
      BY <1>0, <2>3 DEF Publish, PublishLost, Loss, DeliveryTypeOK, link, broker
    <3>4. channel' \in [Processes -> {"open", "closed", "none"}]
      BY <1>0, <2>3 DEF Publish, PublishLost, Broken, DeliveryTypeOK, link
    <3> QED
      BY <1>0, <2>1, <3>2, <3>3, <3>4 DEF Rest, DeliveryTypeOK
  <2> QED
    BY <1>3, <2>1, <2>2, <2>3 DEF BatchStep
<1>4. ASSUME NEW p \in Processes, Close(p) PROVE Rest /\ Outbox
  <2>1. UNCHANGED <<outbox, batch, bound, queue, dead, handled, brokerless, losses>>
        /\ channel' = [channel EXCEPT ![p] = "closed"] /\ faults' \in Nat
    BY <1>0, <1>4 DEF Close, Fault, DeliveryTypeOK, broker
  <2> QED
    BY <1>0, <1>1, <2>1 DEF Rest, DeliveryTypeOK
<1>5. ASSUME NEW p \in Processes, Restart(p) PROVE Rest /\ Outbox
  <2>1. /\ UNCHANGED outbox
        /\ batch' = [b \in Batches |-> IdleBatch] \/ batch' = batch
    BY <1>5 DEF Restart
  <2>2. Outbox
    <3>1. CASE batch' = batch
      BY <1>1, <2>1, <3>1
    <3>2. CASE batch' = [b \in Batches |-> IdleBatch]
      <4>1. HandsApart' /\ batch' \in [Batches -> BatchState \cup {IdleBatch}]
        BY <3>2 DEF HandsApart, IdleBatch
      <4>2. RetriesHold'
        <5> SUFFICES ASSUME NEW e \in Events
                     PROVE  outbox'[e].retryCount + Cardinality(HoldersOf(e)') <= MostRetries
          BY DEF RetriesHold, MostRetries
        <5>1. HoldersOf(e)' \subseteq HoldersOf(e) /\ HoldersOf(e) \in SUBSET Batches
          BY <3>2 DEF HoldersOf, Has, IdleBatch
        <5>2. outbox[e] \in OutboxRow
              /\ outbox[e].retryCount + Cardinality(HoldersOf(e)) <= MostRetries
          BY <1>0 DEF DeliveryTypeInv, RetriesHold, DeliveryTypeOK
        <5>3. outbox[e].retryCount \in Nat
          BY <5>2 DEF OutboxRow
        <5> QED
          BY <2>1, <5>1, <5>2, <5>3, BatchesAreFinite
      <4> QED
        BY <1>0, <2>1, <4>1, <4>2 DEF DeliveryTypeOK, Outbox
    <3> QED
      BY <2>1, <3>1, <3>2
  <2>3. Rest
    <3>1. /\ UNCHANGED <<queue, dead, handled, losses>> /\ faults' \in Nat
          /\ brokerless' \in BOOLEAN /\ bound' \in SUBSET Services
      BY <1>0, <1>5 DEF Restart, Fault, DeliveryTypeOK, broker
    <3>2. channel' \in [Processes -> {"open", "closed", "none"}]
      BY <1>0, <1>5, DeliveryAssumption DEF Restart, DeliveryTypeOK
    <3> QED
      BY <1>0, <3>1, <3>2 DEF Rest, DeliveryTypeOK
  <2> QED
    BY <2>2, <2>3
<1>6. ASSUME NEW s \in Services, NEW e \in Events, NEW n \in Attempts,
             Handle(s, e, n) \/ DeadLetter(s, e, n) \/ RequeueLost(s, e, n)
      PROVE  Rest /\ Outbox
  <2>1. UNCHANGED <<outbox, batch>> /\ Waiting(s, e, n) /\ queue' = Taken(s, e, n)
    BY <1>6 DEF Handle, DeadLetter, RequeueLost, Received
  <2>2. Outbox
    BY <1>1, <2>1
  <2>3. queue' \in [Services -> [Events \X Attempts -> Nat]]
    BY <1>0, <2>1, TakenType
  <2>4. handled' \in [Services -> SUBSET Events] /\ dead' \in [Services -> SUBSET Events]
    <3>1. CASE Handle(s, e, n)
      BY <1>0, <3>1 DEF Handle, DeliveryTypeOK
    <3>2. CASE DeadLetter(s, e, n)
      <4>1. dead' = DeadLettered(e) /\ handled' = handled
        BY <3>2 DEF DeadLetter
      <4>2. DeadLettered(e) \in [Services -> SUBSET Events]
        BY <1>0 DEF DeadLettered, DeliveryTypeOK
      <4> QED
        BY <1>0, <4>1, <4>2 DEF DeliveryTypeOK
    <3>3. CASE RequeueLost(s, e, n)
      BY <1>0, <3>3 DEF RequeueLost, DeliveryTypeOK
    <3> QED
      BY <1>6, <3>1, <3>2, <3>3
  <2>5. /\ bound' = bound /\ brokerless' = brokerless
        /\ faults' \in Nat /\ losses' \in Nat
    BY <1>0, <1>6 DEF Handle, DeadLetter, RequeueLost, Loss, DeliveryTypeOK, link
  <2>6. channel' \in [Processes -> {"open", "closed", "none"}]
    BY <1>0, <1>6 DEF Handle, DeadLetter, RequeueLost, Broken, DeliveryTypeOK, link
  <2> QED
    BY <1>0, <2>2, <2>3, <2>4, <2>5, <2>6 DEF Rest, DeliveryTypeOK
<1>7. ASSUME NEW s \in Services, NEW e \in Events, NEW n \in Attempts, Requeue(s, e, n)
      PROVE  Rest /\ Outbox
  <2>1. queue' \in [Services -> [Events \X Attempts -> Nat]]
    BY <1>0, <1>7, RequeueType
  <2>2. UNCHANGED <<outbox, batch, channel, bound, brokerless, handled, dead, faults, losses>>
    BY <1>7 DEF Requeue, link
  <2> QED
    BY <1>0, <1>1, <2>1, <2>2 DEF Rest, DeliveryTypeOK
<1>8. ASSUME NEW s \in Services, NEW e \in Events, NEW n \in Attempts,
             HandleUnacked(s, e, n)
      PROVE  Rest /\ Outbox
  <2>1. /\ UNCHANGED <<outbox, batch, bound, brokerless, queue, dead, losses>>
        /\ faults' \in Nat /\ handled' = [handled EXCEPT ![s] = @ \cup {e}]
        /\ channel' = [channel EXCEPT ![s] = "closed"]
    BY <1>0, <1>8 DEF HandleUnacked, Fault, DeliveryTypeOK, broker
  <2>2. /\ handled' \in [Services -> SUBSET Events]
        /\ channel' \in [Processes -> {"open", "closed", "none"}]
    BY <1>0, <2>1 DEF DeliveryTypeOK
  <2> QED
    BY <1>0, <1>1, <2>1, <2>2 DEF Rest, DeliveryTypeOK
<1>9. CASE UNCHANGED deliveryVars
  BY <1>0, <1>1, <1>9, <1>r DEF deliveryVars, DeliveryTypeOK, link, broker
<1> QED
  BY <1>2, <1>3, <1>4, <1>5, <1>6, <1>7, <1>8, <1>9 DEF DeliveryNext, Receive

LEMMA DeliveryTypeStart == DeliveryInit => DeliveryTypeInv
<1> SUFFICES ASSUME DeliveryInit PROVE DeliveryTypeInv
  OBVIOUS
<1>1. DeliveryTypeOK
  <2>1. 0 \in 0 .. MostRetries
    BY BatchesAreFinite
  <2>2. outbox \in [Events -> OutboxRow]
    BY <2>1 DEF DeliveryInit, OutboxRow, MostRetries
  <2> QED
    BY <2>2, DeliveryAssumption DEF DeliveryInit, DeliveryTypeOK
<1>2. HandsApart
  BY DEF DeliveryInit, HandsApart, IdleBatch
<1>3. RetriesHold
  <2> SUFFICES ASSUME NEW e \in Events
               PROVE  outbox[e].retryCount + Cardinality(HoldersOf(e)) <= MostRetries
    BY DEF RetriesHold
  <2>1. HoldersOf(e) = {}
    BY DEF DeliveryInit, HoldersOf, Has, IdleBatch
  <2>2. Cardinality(HoldersOf(e)) = 0
    BY <2>1, FS_EmptySet
  <2> QED
    BY <2>2, BatchesAreFinite DEF DeliveryInit
<1> QED
  BY <1>1, <1>2, <1>3 DEF DeliveryTypeInv

(* However many batches overlap, an event's retries never exceed MaxRetries by more *)
(* than the batches that had taken it; everything else keeps its type too.          *)
THEOREM DeliveryTypeCorrect == DeliverySpec => []DeliveryTypeOK
<1>1. DeliveryTypeInv => DeliveryTypeOK
  BY DEF DeliveryTypeInv
<1> QED
  BY <1>1, DeliveryTypeStart, DeliveryTypeStep, PTL DEF DeliverySpec

-----------------------------------------------------------------------------
(* Durability.  A copy of an event moves from a queue into a handler, the next      *)
(* attempt or the dead-letter queue in one step, and is lost only with a buffer.    *)

LEMMA PresentStays ==
  ASSUME DeliveryTypeInv, [DeliveryNext]_deliveryVars, losses' = 0, bound = Services,
         NEW s \in Services, NEW e \in Events, Present(s, e)
  PROVE  Present(s, e)'
<1>0. DeliveryTypeOK /\ losses \in Nat
  BY DEF DeliveryTypeInv, DeliveryTypeOK
<1> DEFINE Grows == /\ handled[s] \subseteq handled'[s]
                    /\ \A t \in Services : dead[t] \subseteq dead'[t]
                    /\ \A n \in Attempts : Waiting(s, e, n) => Waiting(s, e, n)'
<1>k. (\A t \in Services : dead[t] \subseteq dead'[t]) /\ Kept(s, e) => Kept(s, e)'
  BY DEF Kept, KeepersOf
<1>1. Grows => Present(s, e)'
  BY <1>k DEF Present
<1>2. ASSUME NEW b \in Batches,
             \/ FindUnpublished(b) \/ BatchStep(b)
             \/ MarkPublishedFails(b) \/ Abandon(b)
      PROVE  Grows
  <2>1. CASE Publish(b)
    <3>1. batch[b].hand \in Events /\ 1 \in Attempts
      BY <1>0, <2>1, BusyBatch, DeliveryAssumption DEF Publish, Attempts
    <3>2. \A n \in Attempts : Waiting(s, e, n) => Waiting(s, e, n)'
      <4> SUFFICES ASSUME NEW n \in Attempts, Waiting(s, e, n) PROVE Waiting(s, e, n)'
        OBVIOUS
      <4>1. queue[s][<<e, n>>] \in Nat /\ queue[s][<<e, n>>] > 0
        BY <1>0 DEF DeliveryTypeOK, Waiting
      <4>2. CASE channel[Publisher] = "open"
        <5>1. queue'[s][<<e, n>>] =
                IF <<e, n>> = <<batch[b].hand, 1>>
                  THEN queue[s][<<e, n>>] + 1 ELSE queue[s][<<e, n>>]
          <6>1. queue' = Routed(queue, batch[b].hand, 1)
            BY <2>1, <4>2 DEF Publish
          <6> QED
            <7>1. queue \in Queues
              BY <1>0 DEF DeliveryTypeOK, Queues
            <7>2. Routed(queue, batch[b].hand, 1)[s][<<e, n>>] =
                    IF s \in bound /\ <<e, n>> = <<batch[b].hand, 1>>
                      THEN queue[s][<<e, n>>] + 1 ELSE queue[s][<<e, n>>]
              BY <3>1, <7>1, RoutedType
            <7> QED
              BY <6>1, <7>2
        <5>2. queue'[s][<<e, n>>] > 0
          BY <4>1, <5>1
        <5> QED
          BY <5>2 DEF Waiting
      <4>3. CASE channel[Publisher] # "open"
        BY <2>1, <4>1, <4>3 DEF Publish, Waiting
      <4> QED
        BY <4>2, <4>3
    <3>3. handled' = handled /\ dead' = dead
      BY <2>1 DEF Publish
    <3> QED
      BY <3>2, <3>3
  <2>2. CASE ~Publish(b)
    BY <1>2, <2>2 DEF FindUnpublished, BatchStep, PublishFails, MarkPublished,
       IncrementRetry, MarkPublishedFails, Abandon, broker, Waiting
  <2> QED
    BY <2>1, <2>2
<1>3. CASE \/ \E p \in Processes : Close(p) \/ Restart(p)
           \/ UNCHANGED deliveryVars
           \/ \E f \in Events : CreateEvent(f)
  BY <1>1, <1>3 DEF Close, Restart, CreateEvent, deliveryVars, broker, Waiting
<1>4. ASSUME NEW t \in Services, NEW f \in Events, NEW n \in Attempts,
             HandleUnacked(t, f, n)
      PROVE  Grows
  BY <1>0, <1>4 DEF HandleUnacked, DeliveryTypeOK, broker, Waiting
<1>5. ~\E b \in Batches : PublishLost(b)
  BY <1>0 DEF PublishLost, Loss
<1>6. ~\E t \in Services, f \in Events, n \in Attempts : RequeueLost(t, f, n)
  <2> SUFFICES ASSUME NEW t \in Services, NEW f \in Events, NEW n \in Attempts,
                      RequeueLost(t, f, n)
               PROVE  FALSE
    OBVIOUS
  <2> QED
    BY <1>0 DEF RequeueLost, Loss
<1>7. ASSUME NEW t \in Services, NEW f \in Events, NEW n \in Attempts,
             Handle(t, f, n) \/ Requeue(t, f, n) \/ DeadLetter(t, f, n)
      PROVE  Present(s, e)'
  <2>1. /\ handled[s] \subseteq handled'[s]
        /\ \A u \in Services : dead[u] \subseteq dead'[u]
        /\ Waiting(t, f, n)
    BY <1>0, <1>7 DEF Handle, Requeue, DeadLetter, DeadLettered, Received, DeliveryTypeOK
  <2>2. ASSUME NEW m \in Attempts, Waiting(s, e, m), <<t, f, n>> # <<s, e, m>>
        PROVE  Waiting(s, e, m)'
    <3>1. queue[s][<<e, m>>] \in Nat /\ queue[s][<<e, m>>] > 0
      BY <1>0, <2>2 DEF DeliveryTypeOK, Waiting
    <3>2. Taken(t, f, n)[s][<<e, m>>] = queue[s][<<e, m>>]
      <4>1. Taken(t, f, n)[s][<<e, m>>] =
              IF s = t /\ <<e, m>> = <<f, n>> THEN queue[t][<<f, n>>] - 1
                                            ELSE queue[s][<<e, m>>]
        BY <1>0, <2>1, TakenType
      <4>2. ~(s = t /\ <<e, m>> = <<f, n>>)
        BY <2>2
      <4> QED
        BY <4>1, <4>2
    <3> QED
      BY <1>0, <1>7, <3>1, <3>2, RequeueType DEF Handle, DeadLetter, Waiting
  <2>3. CASE t = s /\ f = e
    <3>1. CASE Handle(t, f, n)
      BY <1>0, <2>3, <3>1 DEF Handle, Present, DeliveryTypeOK
    <3>2. CASE DeadLetter(t, f, n)
      <4>1. \A u \in Services \ NackOnly : e \in dead'[u]
        BY <1>0, <2>3, <3>2 DEF DeadLetter, DeadLettered, DeliveryTypeOK
      <4>2. \E u \in KeepersOf(s) : u \in Services \ NackOnly
        BY DeliveryAssumption DEF KeepersOf
      <4> QED
        BY <4>1, <4>2 DEF Present, Kept, KeepersOf
    <3>3. CASE Requeue(t, f, n)
      <4>1. /\ n + 1 \in Attempts /\ Taken(t, f, n)[s][<<e, n + 1>>] \in Nat
            /\ queue'[s][<<e, n + 1>>] = Taken(t, f, n)[s][<<e, n + 1>>] + 1
        <5>1. n + 1 \in Attempts
          BY <1>0, <3>3, RequeueType
        <5>2. Taken(t, f, n)[s] \in [Events \X Attempts -> Nat]
          <6>1. Taken(t, f, n) \in [Services -> [Events \X Attempts -> Nat]]
            BY <1>0, <2>1, TakenType
          <6> QED
            BY <6>1
        <5>3. Taken(t, f, n)[s][<<e, n + 1>>] \in Nat
          <6>1. <<e, n + 1>> \in Events \X Attempts
            BY <5>1
          <6> QED
            BY <5>2, <6>1
        <5>4. queue'[s][<<e, n + 1>>] =
                IF s \in bound /\ <<e, n + 1>> = <<f, n + 1>>
                  THEN Taken(t, f, n)[s][<<e, n + 1>>] + 1
                  ELSE Taken(t, f, n)[s][<<e, n + 1>>]
          BY <1>0, <3>3, <5>1, RequeueType
        <5> QED
          BY <2>3, <5>1, <5>3, <5>4
      <4>2. Waiting(s, e, n + 1)'
        BY <4>1 DEF Waiting
      <4> QED
        BY <4>1, <4>2 DEF Present
    <3> QED
      BY <1>7, <3>1, <3>2, <3>3
  <2>4. CASE ~(t = s /\ f = e)
    BY <1>k, <2>1, <2>2, <2>4 DEF Present
  <2> QED
    BY <2>3, <2>4
<1> QED
  BY <1>1, <1>2, <1>3, <1>4, <1>5, <1>6, <1>7 DEF DeliveryNext, Receive

\* Batches have sent what they mark, and with a broker for every process the
\* publisher has a channel and every service its queues.
SentIsPresent ==
  \A b \in Batches, s \in Services : batch[b].pc = "sent" => Present(s, batch[b].hand)

Wired == channel[Publisher] # "none" /\ bound = Services

DurableInv ==
  DeliveryTypeInv /\
  (~brokerless /\ losses = 0 => Wired /\ SentIsPresent /\ PublishedIsDurable)

LEMMA DurableStep == DurableInv /\ [DeliveryNext]_deliveryVars => DurableInv'
<1> SUFFICES ASSUME DurableInv, [DeliveryNext]_deliveryVars, ~brokerless', losses' = 0
             PROVE  Wired' /\ SentIsPresent' /\ PublishedIsDurable'
  BY DeliveryTypeStep DEF DurableInv
<1>0. DeliveryTypeInv /\ DeliveryTypeOK /\ losses \in Nat /\ brokerless \in BOOLEAN
  BY DEF DurableInv, DeliveryTypeInv, DeliveryTypeOK
<1>1. /\ losses = 0
      /\ ~\E b \in Batches : PublishLost(b)
      /\ ~\E s \in Services, e \in Events, n \in Attempts : RequeueLost(s, e, n)
  <2>1. ~Loss
    BY <1>0 DEF Loss
  <2>2. (~\E b \in Batches : PublishLost(b))
        /\ ~\E s \in Services, e \in Events, n \in Attempts : RequeueLost(s, e, n)
    BY <2>1 DEF PublishLost, RequeueLost
  <2>3. losses' = losses
    BY <2>2 DEF DeliveryNext, deliveryVars, CreateEvent, FindUnpublished, BatchStep, Publish,
       PublishFails, MarkPublished, IncrementRetry, MarkPublishedFails, Abandon,
       Close, Restart, Receive, Handle, Requeue, DeadLetter, HandleUnacked
  <2> QED
    BY <2>2, <2>3
<1>2. ~brokerless
  <2>1. CASE \E p \in Processes : Restart(p)
    BY <1>0, <2>1 DEF Restart
  <2>2. CASE \E p \in Processes : Close(p)
    BY <1>0, <2>2 DEF Close
  <2>3. CASE brokerless' = brokerless
    BY <2>3
  <2> QED
    BY <2>1, <2>2, <2>3 DEF DeliveryNext, deliveryVars, CreateEvent, FindUnpublished,
       BatchStep, Publish, PublishFails, MarkPublished, IncrementRetry, PublishLost,
       MarkPublishedFails, Abandon, Receive, Handle, Requeue, DeadLetter, HandleUnacked,
       RequeueLost, link
<1>3. Wired /\ SentIsPresent /\ PublishedIsDurable
  BY <1>1, <1>2 DEF DurableInv
<1>4. \A s \in Services, e \in Events : Present(s, e) => Present(s, e)'
  BY <1>0, <1>3, PresentStays DEF Wired
<1>a. ASSUME \A b \in Batches :
               \/ batch'[b].pc # "sent"
               \/ batch'[b] = batch[b]
               \/ \A s \in Services, e \in Events :
                    e = batch'[b].hand => Present(s, e)'
      PROVE  SentIsPresent'
  <2>1. ASSUME NEW b \in Batches, NEW s \in Services, NEW e, e = batch'[b].hand,
               batch'[b].pc = "sent"
        PROVE  Present(s, e)'
    <3>1. DeliveryTypeOK'
      BY DeliveryTypeStep DEF DurableInv, DeliveryTypeInv
    <3>2. e \in Events
      BY <2>1, <3>1 DEF DeliveryTypeOK, BatchState, IdleBatch
    <3>3. CASE batch'[b] = batch[b]
      BY <1>3, <1>4, <2>1, <3>2, <3>3 DEF SentIsPresent
    <3> QED
      BY <1>a, <2>1, <3>2, <3>3
  <2> QED
    BY <2>1 DEF SentIsPresent
<1>5. ASSUME UNCHANGED <<outbox, batch>> PROVE SentIsPresent' /\ PublishedIsDurable'
  <2>1. SentIsPresent'
    BY <1>5, <1>a
  <2>2. PublishedIsDurable'
    BY <1>3, <1>4, <1>5 DEF PublishedIsDurable
  <2> QED
    BY <2>1, <2>2
<1>6. /\ Wired'
      /\ SentIsPresent' /\ PublishedIsDurable'
  <2> DEFINE Marks == \A e \in Events :
                       outbox'[e].state = "published" => outbox[e].state = "published"
             NoneSent == \A b \in Batches : batch'[b].pc = "sent" => batch'[b] = batch[b]
  <2>1. ASSUME Marks, NoneSent PROVE SentIsPresent' /\ PublishedIsDurable'
    <3>1. SentIsPresent'
      BY <1>a, <2>1
    <3>2. PublishedIsDurable'
      BY <1>3, <1>4, <2>1 DEF PublishedIsDurable
    <3> QED
      BY <3>1, <3>2
  <2>2. ASSUME NEW b \in Batches, Publish(b)
        PROVE  Wired' /\ SentIsPresent' /\ PublishedIsDurable'
    <3>1. channel[Publisher] = "open" /\ Wired'
      BY <1>0, <1>3, <2>2 DEF Publish, link, DeliveryTypeOK, Wired, Processes
    <3>2. ASSUME NEW s \in Services, NEW e \in Events, e = batch[b].hand
          PROVE  Present(s, e)'
      <4>1. 1 \in Attempts /\ <<e, 1>> \in Events \X Attempts
        BY DeliveryAssumption DEF Attempts
      <4>2. queue' = Routed(queue, e, 1) /\ s \in bound
        BY <1>3, <2>2, <3>1, <3>2 DEF Publish, Wired
      <4>3. queue'[s][<<e, 1>>] = queue[s][<<e, 1>>] + 1
        <5>1. queue \in Queues /\ e \in Events
          BY <1>0, <3>2 DEF DeliveryTypeOK, Queues
        <5>2. Routed(queue, e, 1)[s][<<e, 1>>] =
                IF s \in bound /\ <<e, 1>> = <<e, 1>>
                  THEN queue[s][<<e, 1>>] + 1 ELSE queue[s][<<e, 1>>]
          BY <4>1, <5>1, RoutedType
        <5> QED
          BY <4>2, <5>2
      <4>4. queue[s][<<e, 1>>] \in Nat
        BY <1>0, <4>1 DEF DeliveryTypeOK
      <4>5. queue'[s][<<e, 1>>] > 0
        BY <4>3, <4>4
      <4> QED
        BY <4>1, <4>5 DEF Present, Waiting
    <3>3. SentIsPresent'
      <4>1. batch'[b].hand = batch[b].hand /\ \A c \in Batches \ {b} : batch'[c] = batch[c]
        BY <1>0, <2>2 DEF Publish, DeliveryTypeOK
      <4> QED
        BY <1>a, <3>2, <4>1
    <3>4. PublishedIsDurable'
      BY <1>3, <1>4, <2>2 DEF PublishedIsDurable, Publish
    <3> QED
      BY <1>3, <3>1, <3>3, <3>4
  <2>3. ASSUME NEW b \in Batches, MarkPublished(b)
        PROVE  Wired' /\ SentIsPresent' /\ PublishedIsDurable'
    <3>1. NoneSent
      BY <1>0, <2>3 DEF MarkPublished, TakeNext, DeliveryTypeOK, IdleBatch
    <3>2. /\ batch[b].hand \in Events /\ batch[b].pc = "sent"
          /\ outbox' = [outbox EXCEPT ![batch[b].hand].state = "published"]
      BY <1>0, <2>3, BusyBatch DEF MarkPublished
    <3>3. SentIsPresent'
      BY <1>a, <3>1
    <3>4. PublishedIsDurable'
      <4> SUFFICES ASSUME NEW e \in Events, NEW s \in Services,
                          outbox'[e].state = "published"
                   PROVE  Present(s, e)'
        BY DEF PublishedIsDurable
      <4>1. CASE e = batch[b].hand
        BY <1>3, <1>4, <3>2, <4>1 DEF SentIsPresent
      <4>2. CASE e # batch[b].hand
        <5>1. outbox'[e] = outbox[e]
          BY <1>0, <3>2, <4>2 DEF DeliveryTypeOK
        <5> QED
          BY <1>3, <1>4, <5>1 DEF PublishedIsDurable
      <4> QED
        BY <4>1, <4>2
    <3> QED
      BY <1>3, <2>3, <3>3, <3>4 DEF MarkPublished, link, Wired
  <2>4. ASSUME NEW b \in Batches,
               \/ FindUnpublished(b) \/ PublishFails(b) \/ MarkPublishedFails(b)
               \/ IncrementRetry(b) \/ Abandon(b)
        PROVE  Wired' /\ SentIsPresent' /\ PublishedIsDurable'
    <3>1. NoneSent
      <4>1. CASE FindUnpublished(b) \/ IncrementRetry(b)
        <5>1. PICK S : TakeNext(b, S)
          BY <4>1 DEF FindUnpublished, IncrementRetry
        <5>2. PICK st : batch' = [batch EXCEPT ![b] = st] /\ st.pc # "sent"
          <6>1. CASE batch' = [batch EXCEPT ![b] = IdleBatch]
            <7>1. IdleBatch.pc # "sent"
              BY DEF IdleBatch
            <7> QED
              BY <6>1, <7>1
          <6>2. ASSUME NEW e \in S,
                       batch' = [batch EXCEPT
                         ![b] = [pc |-> "next", hand |-> e, rest |-> S \ {e}]]
                PROVE  \E r : batch' = [batch EXCEPT ![b] = r] /\ r.pc # "sent"
            <7>1. [pc |-> "next", hand |-> e, rest |-> S \ {e}].pc # "sent"
              OBVIOUS
            <7> QED
              BY <6>2, <7>1
          <6> QED
            BY <5>1, <6>1, <6>2 DEF TakeNext
        <5> QED
          BY <1>0, <5>2 DEF DeliveryTypeOK
      <4>2. CASE PublishFails(b) \/ MarkPublishedFails(b)
        <5>1. batch' = [batch EXCEPT ![b].pc = "failed"]
          BY <4>2 DEF PublishFails, MarkPublishedFails
        <5>2. /\ \A c \in Batches \ {b} : batch'[c] = batch[c]
              /\ batch'[b] = [batch[b] EXCEPT !.pc = "failed"]
              /\ batch[b] \in BatchState
          BY <1>0, <4>2, <5>1 DEF DeliveryTypeOK, PublishFails, MarkPublishedFails, IdleBatch
        <5>3. batch'[b].pc = "failed"
          BY <5>2 DEF BatchState
        <5> QED
          BY <5>2, <5>3
      <4>3. CASE Abandon(b)
        BY <1>0, <4>3 DEF Abandon, IdleBatch, DeliveryTypeOK
      <4> QED
        BY <2>4, <4>1, <4>2, <4>3
    <3>2. Marks
      <4>1. CASE outbox' = outbox
        BY <4>1
      <4>2. CASE IncrementRetry(b)
        <5>1. PICK r : outbox' = [outbox EXCEPT ![batch[b].hand].retryCount = r]
          BY <4>2 DEF IncrementRetry
        <5>2. \A e \in Events : outbox[e] \in OutboxRow
          BY <1>0 DEF DeliveryTypeOK
        <5>3. \A e \in Events : outbox'[e] = IF e = batch[b].hand
                 THEN [outbox[e] EXCEPT !.retryCount = r] ELSE outbox[e]
          BY <1>0, <5>1 DEF DeliveryTypeOK
        <5>4. \A e \in Events : outbox'[e].state = outbox[e].state
          BY <5>2, <5>3 DEF OutboxRow
        <5> QED
          BY <5>4
      <4> QED
        BY <2>4, <4>1, <4>2 DEF FindUnpublished, PublishFails, MarkPublishedFails, Abandon
    <3>3. Wired'
      BY <1>3, <2>4 DEF Wired, FindUnpublished, PublishFails, MarkPublishedFails, IncrementRetry,
         Abandon, link
    <3> QED
      BY <1>3, <2>1, <3>1, <3>2, <3>3
  <2>5. ASSUME NEW p \in Processes, Restart(p)
        PROVE  Wired' /\ SentIsPresent' /\ PublishedIsDurable'
    <3>1. NoneSent /\ Marks
      BY <2>5 DEF Restart, IdleBatch
    <3>2. Wired'
      BY <1>0, <1>3, <2>5 DEF Restart, Wired, DeliveryTypeOK, Processes
    <3> QED
      BY <2>1, <3>1, <3>2
  <2>6. ASSUME NEW p \in Processes, Close(p)
        PROVE  Wired' /\ SentIsPresent' /\ PublishedIsDurable'
    <3>1. NoneSent /\ Marks
      BY <2>6 DEF Close
    <3>2. Wired'
      BY <1>0, <1>3, <2>6 DEF Close, Wired, DeliveryTypeOK, Processes
    <3> QED
      BY <2>1, <3>1, <3>2
  <2>7. ASSUME NEW e \in Events, CreateEvent(e)
        PROVE  Wired' /\ SentIsPresent' /\ PublishedIsDurable'
    <3>1. NoneSent /\ Wired'
      BY <1>3, <2>7 DEF CreateEvent, link, Wired
    <3>2. Marks
      BY <1>0, <2>7 DEF CreateEvent, DeliveryTypeOK
    <3> QED
      BY <1>3, <2>1, <3>1, <3>2
  <2>8. ASSUME UNCHANGED <<outbox, batch, bound>>, channel'[Publisher] = channel[Publisher]
        PROVE  Wired' /\ SentIsPresent' /\ PublishedIsDurable'
    BY <1>3, <1>5, <2>8 DEF Wired
  <2>9. CASE UNCHANGED deliveryVars
    BY <2>8, <2>9 DEF deliveryVars
  <2>10. ASSUME NEW s \in Services, NEW e \in Events, NEW n \in Attempts,
                \/ Handle(s, e, n) \/ Requeue(s, e, n) \/ DeadLetter(s, e, n)
                \/ HandleUnacked(s, e, n)
         PROVE  Wired' /\ SentIsPresent' /\ PublishedIsDurable'
    <3>1. CASE Handle(s, e, n) \/ Requeue(s, e, n) \/ DeadLetter(s, e, n)
      BY <2>8, <3>1 DEF Handle, Requeue, DeadLetter, link
    <3>2. CASE HandleUnacked(s, e, n)
      <4>1. s # Publisher
        BY DeliveryAssumption
      <4>2. channel'[Publisher] = channel[Publisher]
        BY <1>0, <3>2, <4>1 DEF HandleUnacked, DeliveryTypeOK, Processes
      <4> QED
        BY <2>8, <3>2, <4>2 DEF HandleUnacked
    <3> QED
      BY <2>10, <3>1, <3>2
  <2> HIDE DEF Marks, NoneSent
  <2>11. ASSUME NEW b \in Batches,
                \/ FindUnpublished(b) \/ BatchStep(b) \/ MarkPublishedFails(b) \/ Abandon(b)
         PROVE  Wired' /\ SentIsPresent' /\ PublishedIsDurable'
    BY <2>2, <2>3, <2>4, <2>11 DEF BatchStep
  <2>12. ASSUME NEW s \in Services, Receive(s)
         PROVE  Wired' /\ SentIsPresent' /\ PublishedIsDurable'
    BY <2>10, <2>12 DEF Receive
  <2> QED
    BY <1>1, <2>5, <2>6, <2>7, <2>9, <2>10, <2>11, <2>12 DEF DeliveryNext
<1> QED
  BY <1>6

LEMMA DurableStart == DeliveryInit => DurableInv
<1> SUFFICES ASSUME DeliveryInit PROVE DurableInv
  OBVIOUS
<1>1. DeliveryTypeInv
  BY DeliveryTypeStart
<1>2. SentIsPresent /\ PublishedIsDurable
  BY DEF DeliveryInit, SentIsPresent, PublishedIsDurable, IdleBatch
<1>3. ~brokerless => Wired
  <2> SUFFICES ASSUME ~brokerless PROVE Wired
    OBVIOUS
  <2>1. \A p \in Processes : channel[p] \in Channels /\ channel[p] # "none"
    BY DEF DeliveryInit
  <2>2. \A p \in Processes : channel[p] = "open"
    BY <2>1, DeliveryAssumption
  <2> QED
    BY <2>2 DEF DeliveryInit, Wired, Processes
<1> QED
  BY <1>1, <1>2, <1>3 DEF DurableInv

(* With a broker there whenever a process started, and no message lost in a buffer, *)
(* every event the outbox calls published has been handled by every subscribed      *)
(* service, waits in its queue, or lies in the dead-letter queue of the service or, *)
(* if it has none, of another subscriber.                                           *)
THEOREM NothingIsDropped == DeliverySpec => []DurableWithBroker
<1>1. DurableInv => DurableWithBroker
  BY DEF DurableInv, DurableWithBroker
<1> QED
  BY <1>1, DurableStart, DurableStep, PTL DEF DeliverySpec

-----------------------------------------------------------------------------
(* CircuitBreaker: the failures stand oldest first, so that dropping the front of   *)
(* them is the filter of onFailure; a list that did not trip is shorter than the    *)
(* threshold, and time only takes failures out of the window.                       *)

OldestFirst(s) == \A i, j \in DOMAIN s : i <= j => s[j] <= s[i]

BreakerInv == BreakerTypeOK /\ OldestFirst(failures) /\ ClosedMeansFewFailures

LEMMA AgeType ==
  ASSUME NEW limit \in Nat, NEW age \in 0 .. limit
  PROVE  /\ Older(age, limit) \in 0 .. limit /\ age <= Older(age, limit)
         /\ \A a \in 0 .. limit : a <= age => Older(a, limit) <= Older(age, limit)
BY DEF Older

\* Position i is too old exactly if it is one of the first Cardinality(TooOld(s)).
LEMMA OldStandAtFront ==
  ASSUME NEW s \in Seq(0 .. Window), OldestFirst(s)
  PROVE  /\ Cardinality(TooOld(s)) \in 0 .. Len(s)
         /\ \A i \in DOMAIN s : i \in TooOld(s) <=> i <= Cardinality(TooOld(s))
<1> DEFINE n == Len(s)
           m == Cardinality(TooOld(s))
<1>1. n \in Nat /\ DOMAIN s = 1 .. n /\ \A i \in 1 .. n : s[i] \in 0 .. Window
  BY LenProperties, ElementOfSeq
<1>2. TooOld(s) \subseteq 1 .. n
  BY <1>1 DEF TooOld
<1>3. \A k \in Nat : IsFiniteSet(1 .. k) /\ Cardinality(1 .. k) = k
  <2> SUFFICES ASSUME NEW k \in Nat PROVE IsFiniteSet(1 .. k) /\ Cardinality(1 .. k) = k
    OBVIOUS
  <2> QED
    BY FS_Interval
<1>4. IsFiniteSet(TooOld(s)) /\ m \in Nat /\ m <= n
  BY <1>1, <1>2, <1>3, FS_Subset, FS_CardinalityType
<1>5. ASSUME NEW i \in 1 .. n, i \in TooOld(s) PROVE i <= m
  <2>1. 1 .. i \subseteq TooOld(s)
    BY <1>1, <1>5, BreakerAssumption DEF TooOld, OldestFirst
  <2> QED
    BY <1>3, <1>4, <2>1, FS_Subset
<1>6. ASSUME NEW i \in 1 .. n, i \notin TooOld(s) PROVE m < i
  <2>1. TooOld(s) \subseteq 1 .. (i - 1)
    BY <1>1, <1>2, <1>6, BreakerAssumption DEF TooOld, OldestFirst
  <2>2. i - 1 \in Nat /\ IsFiniteSet(1 .. (i - 1)) /\ Cardinality(1 .. (i - 1)) = i - 1
    BY <1>3
  <2>3. m <= i - 1
    BY <2>1, <2>2, FS_Subset
  <2> QED
    BY <1>4, <2>3
<1> QED
  BY <1>1, <1>4, <1>5, <1>6

(* What onFailure keeps of a list: the failures that still count, all of them,     *)
(* in their order.                                                                *)
LEMMA RecentIsFilter ==
  ASSUME NEW s \in Seq(0 .. Window), OldestFirst(s)
  PROVE  /\ Recent(s) \in Seq(0 .. Window) /\ OldestFirst(Recent(s))
         /\ \A i \in DOMAIN Recent(s) : Recent(s)[i] < Window
         /\ Len(Recent(s)) = Cardinality({i \in DOMAIN s : s[i] < Window})
<1> DEFINE n == Len(s)
           m == Cardinality(TooOld(s))
<1>1. n \in Nat /\ DOMAIN s = 1 .. n /\ \A i \in 1 .. n : s[i] \in 0 .. Window
  BY LenProperties, ElementOfSeq
<1>2. m \in 0 .. n /\ \A i \in 1 .. n : i \in TooOld(s) <=> i <= m
  BY <1>1, OldStandAtFront
<1> HIDE DEF m
<1>3. Recent(s) = SubSeq(s, m + 1, n)
  BY DEF Recent, m
<1>4. /\ SubSeq(s, m + 1, n) \in Seq(0 .. Window)
      /\ Len(SubSeq(s, m + 1, n)) = n - m
      /\ \A i \in 1 .. (n - m) : SubSeq(s, m + 1, n)[i] = s[m + i]
  <2>1. m + 1 \in Int /\ n \in Int /\ \A i \in m + 1 .. n : s[i] \in 0 .. Window
    BY <1>1, <1>2
  <2>2. /\ SubSeq(s, m + 1, n) \in Seq(0 .. Window)
        /\ Len(SubSeq(s, m + 1, n)) = IF m + 1 <= n THEN n - (m + 1) + 1 ELSE 0
        /\ \A i \in 1 .. n - (m + 1) + 1 : SubSeq(s, m + 1, n)[i] = s[m + 1 + i - 1]
    BY <2>1, SubSeqProperties
  <2>3. m \in Int /\ n \in Int /\ m <= n
    BY <1>1, <1>2
  <2>4. n - (m + 1) + 1 = n - m
    BY <1>1, <2>3
  <2>5. ~(m + 1 <= n) => n - m = 0
    <3>1. \A a, b \in Int : b <= a /\ ~(b + 1 <= a) => a - b = 0
      OBVIOUS
    <3> HIDE DEF n
    <3> QED
      BY <2>3, <3>1
  <2>6. \A i \in 1 .. (n - m) : m + 1 + i - 1 = m + i
    BY <1>1, <2>3
  <2> QED
    BY <2>2, <2>4, <2>5, <2>6
<1>5. DOMAIN Recent(s) = 1 .. (n - m)
  BY <1>3, <1>4, LenProperties
<1>6. \A i \in 1 .. (n - m) : m + i \in 1 .. n /\ m + i \notin TooOld(s)
  BY <1>1, <1>2
<1>7. \A i \in 1 .. (n - m) : Recent(s)[i] < Window
  BY <1>1, <1>3, <1>4, <1>6, BreakerAssumption DEF TooOld
<1>8. OldestFirst(Recent(s))
  <2> SUFFICES ASSUME NEW i \in 1 .. (n - m), NEW j \in 1 .. (n - m), i <= j
               PROVE  Recent(s)[j] <= Recent(s)[i]
    BY <1>5 DEF OldestFirst
  <2>1. m + i \in DOMAIN s /\ m + j \in DOMAIN s /\ m + i <= m + j
    BY <1>1, <1>2, <1>6
  <2>2. s[m + j] <= s[m + i]
    BY <2>1 DEF OldestFirst
  <2> QED
    BY <1>3, <1>4, <2>2
<1>9. Cardinality({i \in DOMAIN s : s[i] < Window}) = n - m
  <2>1. {i \in DOMAIN s : s[i] < Window} = m + 1 .. n
    BY <1>1, <1>2, BreakerAssumption DEF TooOld
  <2>2. Cardinality(m + 1 .. n) = n - m
    <3>1. m + 1 \in Int /\ n \in Int
      BY <1>1, <1>2
    <3>2. Cardinality(m + 1 .. n) = IF m + 1 > n THEN 0 ELSE n - (m + 1) + 1
      BY <3>1, FS_Interval
    <3> QED
      BY <1>1, <1>2, <3>2
  <2> QED
    BY <2>1, <2>2
<1> QED
  BY <1>3, <1>4, <1>5, <1>7, <1>8, <1>9

LEMMA FailureIsKept ==
  ASSUME NEW s \in Seq(0 .. Window), OldestFirst(s)
  PROVE  /\ Recent(Append(s, 0)) \in Seq(0 .. Window)
         /\ OldestFirst(Recent(Append(s, 0)))
         /\ \A i \in DOMAIN Recent(Append(s, 0)) : Recent(Append(s, 0))[i] < Window
<1> DEFINE t == Append(s, 0)
<1>1. 0 \in 0 .. Window
  BY BreakerAssumption
<1>2. /\ t \in Seq(0 .. Window) /\ DOMAIN t = 1 .. Len(s) + 1
      /\ DOMAIN s = 1 .. Len(s) /\ Len(s) \in Nat
      /\ t[Len(s) + 1] = 0 /\ \A i \in 1 .. Len(s) : t[i] = s[i] /\ s[i] \in 0 .. Window
  <2>1. DOMAIN s = 1 .. Len(s) /\ Len(s) \in Nat /\ \A i \in 1 .. Len(s) : s[i] \in 0 .. Window
    BY LenProperties, ElementOfSeq
  <2>2. /\ t \in Seq(0 .. Window) /\ Len(t) = Len(s) + 1 /\ t[Len(s) + 1] = 0
        /\ \A i \in 1 .. Len(s) : t[i] = s[i]
    BY <1>1, AppendProperties
  <2> HIDE DEF t
  <2>3. DOMAIN t = 1 .. Len(t)
    BY <2>2, LenProperties
  <2> QED
    BY <2>1, <2>2, <2>3
<1> HIDE DEF t
<1>3. OldestFirst(t)
  BY <1>2 DEF OldestFirst
<1> QED
  BY <1>2, <1>3, RecentIsFilter DEF t

\* The failures that count are at most as many as the list has.
LEMMA FewerCount ==
  ASSUME NEW s \in Seq(0 .. Window)
  PROVE  /\ IsFiniteSet({i \in DOMAIN s : s[i] < Window})
         /\ Cardinality({i \in DOMAIN s : s[i] < Window}) \in Nat
         /\ Cardinality({i \in DOMAIN s : s[i] < Window}) <= Len(s)
<1>1. Len(s) \in Nat /\ DOMAIN s = 1 .. Len(s)
  OBVIOUS
<1>2. IsFiniteSet(1 .. Len(s)) /\ Cardinality(1 .. Len(s)) = Len(s)
  BY <1>1, FS_Interval
<1>3. {i \in DOMAIN s : s[i] < Window} \subseteq 1 .. Len(s)
  BY <1>1
<1> QED
  BY <1>2, <1>3, FS_Subset, FS_CardinalityType

LEMMA BreakerStep == BreakerInv /\ [BreakerNext]_breakerVars => BreakerInv'
<1> SUFFICES ASSUME BreakerInv, [BreakerNext]_breakerVars PROVE BreakerInv'
  OBVIOUS
<1>0. /\ BreakerTypeOK /\ OldestFirst(failures) /\ ClosedMeansFewFailures
      /\ failures \in Seq(0 .. Window)
      /\ FailureThreshold \in Nat \ {0} /\ HalfOpenMaxCalls \in Nat \ {0}
      /\ ResetTime \in Nat /\ Window \in Nat \ {0}
  BY BreakerAssumption DEF BreakerInv, BreakerTypeOK
<1>1. CASE Tick
  <2>1. /\ failures' = [i \in DOMAIN failures |-> Older(failures[i], Window)]
        /\ state' = state
    BY <1>1 DEF Tick
  <2>2. /\ DOMAIN failures' = DOMAIN failures /\ DOMAIN failures = 1 .. Len(failures)
        /\ Len(failures) \in Nat
        /\ \A i \in DOMAIN failures : /\ failures[i] \in 0 .. Window
                                      /\ failures'[i] = Older(failures[i], Window)
    BY <1>0, <2>1
  <2>3. \A i \in DOMAIN failures : /\ failures'[i] \in 0 .. Window
                                   /\ failures[i] <= failures'[i]
    BY <1>0, <2>2, AgeType
  <2>4. failures' \in Seq(0 .. Window)
    BY <2>1, <2>2, <2>3
  <2>5. OldestFirst(failures')
    BY <1>0, <2>2, AgeType DEF OldestFirst
  <2>6. {i \in DOMAIN failures' : failures'[i] < Window}
          \subseteq {i \in DOMAIN failures : failures[i] < Window}
    BY <1>0, <2>2, <2>3
  <2>7. RecentFailures' <= RecentFailures /\ RecentFailures' \in Nat /\ RecentFailures \in Nat
    BY <1>0, <2>4, <2>6, FewerCount, FS_Subset DEF RecentFailures
  <2>8. ClosedMeansFewFailures'
    BY <1>0, <2>1, <2>7 DEF ClosedMeansFewFailures
  <2>9. BreakerTypeOK'
    BY <1>0, <1>1, <2>4, AgeType DEF Tick, BreakerTypeOK
  <2> QED
    BY <2>5, <2>8, <2>9 DEF BreakerInv
<1>2. CASE Outage
  BY <1>0, <1>2 DEF Outage, BreakerInv, BreakerTypeOK, ClosedMeansFewFailures, RecentFailures
<1>3. ASSUME NEW c \in Calls, Arrive(c) PROVE BreakerInv'
  <2>1. BreakerTypeOK'
    BY <1>0, <1>3 DEF Arrive, Pass, TryAgain, Probe, MayProbe, BreakerTypeOK
  <2>2. failures' = failures /\ (state' = "CLOSED" => state = "CLOSED")
    BY <1>0, <1>3 DEF Arrive, Pass, TryAgain, Probe
  <2> QED
    BY <1>0, <2>1, <2>2 DEF BreakerInv, ClosedMeansFewFailures, RecentFailures
<1>4. ASSUME NEW c \in Calls, OnSuccess(c) PROVE BreakerInv'
  <2>1. failures' = <<>> /\ <<>> \in Seq(0 .. Window) /\ Len(<<>>) = 0
    BY <1>4 DEF OnSuccess
  <2>2. BreakerTypeOK'
    BY <1>0, <1>4, <2>1 DEF OnSuccess, BreakerTypeOK
  <2>3. OldestFirst(failures')
    BY <2>1 DEF OldestFirst
  <2>4. RecentFailures' <= 0 /\ RecentFailures' \in Nat
    BY <2>1, FewerCount DEF RecentFailures
  <2> QED
    BY <1>0, <2>2, <2>3, <2>4 DEF BreakerInv, ClosedMeansFewFailures
<1>5. ASSUME NEW c \in Calls, OnFailure(c) PROVE BreakerInv'
  <2>1. failures' = Recent(Append(failures, 0))
    BY <1>5 DEF OnFailure
  <2>2. failures' \in Seq(0 .. Window) /\ OldestFirst(failures')
    BY <1>0, <2>1, FailureIsKept
  <2>3. BreakerTypeOK'
    BY <1>0, <1>5, <2>2 DEF OnFailure, BreakerTypeOK
  <2>4. ASSUME state' = "CLOSED" PROVE RecentFailures' < FailureThreshold
    <3>1. ~Trips(failures')
      BY <1>5, <2>4 DEF OnFailure
    <3>2. Len(failures') < FailureThreshold /\ Len(failures') \in Nat
      BY <1>0, <2>2, <3>1 DEF Trips
    <3> QED
      BY <1>0, <2>2, <3>2, FewerCount DEF RecentFailures
  <2> QED
    BY <2>2, <2>3, <2>4 DEF BreakerInv, ClosedMeansFewFailures
<1>6. CASE UNCHANGED breakerVars
  BY <1>0, <1>6 DEF breakerVars, BreakerInv, BreakerTypeOK, ClosedMeansFewFailures,
     RecentFailures
<1>7. ASSUME NEW c \in Calls, Reject(c) PROVE BreakerInv'
  BY <1>6, <1>7 DEF Reject
<1> QED
  BY <1>1, <1>2, <1>3, <1>4, <1>5, <1>6, <1>7 DEF BreakerNext, End

LEMMA BreakerStart == BreakerInit => BreakerInv
<1> SUFFICES ASSUME BreakerInit PROVE BreakerInv
  OBVIOUS
<1>1. failures = <<>> /\ <<>> \in Seq(0 .. Window) /\ Len(<<>>) = 0
  BY DEF BreakerInit
<1>2. BreakerTypeOK
  BY <1>1, BreakerAssumption DEF BreakerInit, BreakerTypeOK
<1>3. RecentFailures <= 0 /\ RecentFailures \in Nat
  BY <1>1, FewerCount DEF RecentFailures
<1> QED
  BY <1>1, <1>2, <1>3, BreakerAssumption DEF BreakerInv, OldestFirst, ClosedMeansFewFailures

(* A breaker that lets calls pass has seen fewer failures than its threshold within *)
(* the window, in whatever order overlapping calls end.                             *)
THEOREM BreakerTrips == BreakerSpec => []ClosedMeansFewFailures
<1>1. BreakerInv => ClosedMeansFewFailures
  BY DEF BreakerInv
<1> QED
  BY <1>1, BreakerStart, BreakerStep, PTL DEF BreakerSpec

(* The probes of a half-open breaker never exceed halfOpenMaxCalls, and the rest of *)
(* the breaker keeps its type.                                                      *)
THEOREM BreakerTypeCorrect == BreakerSpec => []BreakerTypeOK
<1>1. BreakerInv => BreakerTypeOK
  BY DEF BreakerInv
<1> QED
  BY <1>1, BreakerStart, BreakerStep, PTL DEF BreakerSpec
=============================================================================
