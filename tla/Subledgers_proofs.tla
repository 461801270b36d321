------------------------- MODULE Subledgers_proofs --------------------------
(***************************************************************************)
(* Theorems about the two subledgers.                                        *)
(*                                                                         *)
(* VehicleUnits: an event that moved the book value of a unit has a journal, *)
(* and the book value is the sum of what the rows say.  The service learns of *)
(* the journal from an answer and writes long after it; a journal once made  *)
(* stays (EngineContract), so an old answer is still true when it is applied *)
(* (AnswersHold).  The sum needs that a key without a row has moved nothing   *)
(* yet, that the components of a unit are of its births and of posted costs,   *)
(* and that a unit is brought in by a row.                                    *)
(*                                                                         *)
(* OpenItems: no cent of an item or of cash taken on account is lost, and    *)
(* what was written off is in the ledger.  Every operation has one effect on *)
(* an item's balance (Effect); a sweep gives the oldest items first (GivenInAll); *)
(* and the entries of an item cover its write-offs under way (LedgerInv).    *)
(***************************************************************************)
EXTENDS VehicleUnits, OpenItems, Sums, SequenceTheorems

\* An answer POSTED, kept by a request, has a journal behind it.
AnswersHold ==
  \A r \in Requests :
    req[r].posted => req[r].event \in Events /\ exec[req[r].event].journal = "JE"

\* The engine keeps EngineContract's promise.
PostedHasJournal ==
  \A e \in Events : exec[e].status = "POSTED" => exec[e].journal = "JE"

IInv == TypeOK /\ AnswersHold /\ PostedHasJournal /\ AppliedIsBooked

-----------------------------------------------------------------------------
Request == [pc : {"idle", "submit", "waiting", "apply", "write"},
            event : Events \cup {NoEvent}, key : EventKeys \cup {NoEvent},
            amount : Nat, posted : BOOLEAN]

Unit == [exists : BOOLEAN, book : Int, disposed : BOOLEAN]

EventRow == [status : {"NONE", "POSTED", "NOT_POSTED"}, taken : Nat]

RequestsOK ==
  /\ req \in [Requests -> Request]
  /\ \A r \in Requests :
       req[r].pc # "idle" => req[r].key \in EventKeys /\ req[r].event = EventOf[req[r].key]

LEMMA IdleType == Idle \in Request /\ NoUnit \in Unit /\ NoRow \in EventRow
  BY DEF Idle, Request, NoUnit, Unit, NoRow, EventRow

LEMMA TypeIs ==
  TypeOK <=> /\ kind \in [Events -> Kind] /\ unit \in [Units -> Unit]
             /\ component \in [Events -> Nat] /\ row \in [EventKeys -> EventRow]
             /\ exec \in [Events -> Engine!Execution] /\ RequestsOK
  BY DEF TypeOK, Unit, EventRow, Request, RequestsOK

LEMMA TypeNext ==
  TypeOK' <=> /\ kind' \in [Events -> Kind] /\ unit' \in [Units -> Unit]
              /\ component' \in [Events -> Nat] /\ row' \in [EventKeys -> EventRow]
              /\ exec' \in [Events -> Engine!Execution] /\ RequestsOK'
  BY DEF TypeOK, Unit, EventRow, Request, RequestsOK

(* A request that works has a key and the event of the key.                     *)
LEMMA AtWork ==
  ASSUME TypeOK, NEW r \in Requests, req[r].pc # "idle"
  PROVE  /\ req[r].key \in EventKeys /\ req[r].event = EventOf[req[r].key]
         /\ req[r].event \in Events
         /\ req[r].amount \in Nat /\ req[r].posted \in BOOLEAN /\ req[r] \in Request
  BY VehicleAssumption DEF TypeOK, Request

LEMMA BeginsType ==
  ASSUME TypeOK, NEW r \in Requests, NEW k \in EventKeys, NEW pc \in {"submit", "apply"},
         NEW amount \in Nat, Begins(r, k, pc, amount)
  PROVE  /\ RequestsOK' /\ UNCHANGED <<kind, unit, component, row, exec>>
         /\ \A q \in Requests : req'[q] = req[q] \/ ~req'[q].posted
<1> DEFINE new == [pc |-> pc, event |-> EventOf[k], key |-> k, amount |-> amount,
                   posted |-> FALSE]
<1>1. new \in Request /\ new.key \in EventKeys /\ new.event = EventOf[new.key] /\ ~new.posted
  BY VehicleAssumption DEF Request
<1>2. req' = [req EXCEPT ![r] = new] /\ UNCHANGED <<kind, unit, component, row, exec>>
  BY DEF Begins
<1> HIDE DEF new
<1> QED
  BY <1>1, <1>2 DEF RequestsOK, TypeOK, Request

(* The steps that read the unit: no answer yet.                                 *)
LEMMA ReadStep ==
  ASSUME TypeOK, NEW r \in Requests, NEW k \in EventKeys, Reads(r, k)
  PROVE  /\ RequestsOK' /\ UNCHANGED <<kind, unit, component, row, exec>>
         /\ \A q \in Requests : req'[q] = req[q] \/ ~req'[q].posted
<1> DEFINE e == EventOf[k]
<1>0. unit[UnitOf[e]].book \in Int /\ Cost[e] \in Nat
  BY VehicleAssumption DEF TypeOK
<1>1. CASE BringIn(r, k) \/ AddCost(r, k)
  BY <1>0, <1>1, BeginsType DEF BringIn, AddCost
<1>2. CASE WriteDown(r, k)
  <2>1. unit[UnitOf[e]].book - Cost[e] \in Nat
    BY <1>0, <1>2 DEF WriteDown
  <2> QED
    BY <1>2, <2>1, BeginsType DEF WriteDown
<1>3. CASE TradeOut(r, k)
  <2>1. unit[UnitOf[e]].book \in Nat
    BY <1>0, <1>3 DEF TradeOut
  <2> QED
    BY <1>3, <2>1, BeginsType DEF TradeOut
<1> QED
  BY <1>1, <1>2, <1>3 DEF Reads

LEMMA OpensType ==
  ASSUME TypeOK, NEW e \in Events, Engine!Opens(e)
  PROVE  /\ exec' \in [Events -> Engine!Execution]
         /\ \A f \in Events : exec'[f].journal = exec[f].journal
         /\ exec'[e].status # "POSTED"
         /\ \A f \in Events \ {e} : exec'[f] = exec[f]
<1>1. PICK s \in {"POSTING_IN_PROGRESS", "REJECTED"} : exec' = [exec EXCEPT ![e].status = s]
  BY DEF Engine!Opens
<1> QED
  BY <1>1 DEF TypeOK, Engine!Execution, Engine!ExecutionStatus

LEMMA RewritesType ==
  ASSUME TypeOK, NEW e \in Events, NEW x \in Engine!Execution, Engine!Rewrites(e, x)
  PROVE  /\ exec' \in [Events -> Engine!Execution]
         /\ exec'[e] = x
         /\ x.status = "POSTED" => x.journal = "JE"
         /\ exec[e].journal = "JE" => x.journal = "JE"
         /\ \A f \in Events \ {e} : exec'[f] = exec[f]
  BY DEF Engine!Rewrites, TypeOK

LEMMA AnsweredType ==
  ASSUME TypeOK, NEW r \in Requests, NEW s, Answered(r, s), req[r].pc # "idle"
  PROVE  /\ RequestsOK' /\ req'[r].event = req[r].event /\ req'[r].key = req[r].key
         /\ req'[r].amount = req[r].amount /\ req'[r].posted = (s = "POSTED")
         /\ \A q \in Requests \ {r} : req'[q] = req[q]
<1> DEFINE p == (s = "POSTED")
<1>1. req' = [req EXCEPT ![r].pc = "apply", ![r].posted = p]
  BY DEF Answered
<1>2. p \in BOOLEAN
  OBVIOUS
<1> HIDE DEF p
<1>3. req'[r] = [req[r] EXCEPT !.pc = "apply", !.posted = p]
      /\ \A q \in Requests \ {r} : req'[q] = req[q]
  BY <1>1 DEF TypeOK
<1>4. req'[r] \in Request
  <2>1. req[r] \in Request
    BY DEF TypeOK, Request
  <2> QED
    BY <1>2, <1>3, <2>1 DEF Request
<1>5. req' \in [Requests -> Request]
  BY <1>1, <1>3, <1>4 DEF TypeOK, Request
<1>6. /\ req'[r].event = req[r].event /\ req'[r].key = req[r].key
      /\ req'[r].amount = req[r].amount /\ req'[r].posted = p
  BY <1>3 DEF TypeOK
<1>7. RequestsOK'
  <2>1. req[r].key \in EventKeys /\ req[r].event = EventOf[req[r].key]
    BY AtWork
  <2>2. \A q \in Requests :
          req[q].pc # "idle" => req[q].key \in EventKeys /\ req[q].event = EventOf[req[q].key]
    BY DEF TypeOK
  <2> HIDE DEF p
  <2>3. ASSUME NEW q \in Requests, req'[q].pc # "idle"
        PROVE  req'[q].key \in EventKeys /\ req'[q].event = EventOf[req'[q].key]
    <3>1. CASE q = r
      BY <1>6, <2>1, <3>1
    <3>2. CASE q # r
      BY <1>3, <2>2, <2>3, <3>2
    <3> QED
      BY <3>1, <3>2
  <2> QED
    BY <1>5, <2>3 DEF RequestsOK
<1> QED
  BY <1>3, <1>6, <1>7 DEF p

(* An answer that is true of the engine's row, kept while every journal stays.  *)
LEMMA AnswerHolds ==
  ASSUME TypeOK, AnswersHold, NEW r \in Requests, NEW s, Answered(r, s),
         req[r].pc # "idle", s = "POSTED" => exec'[req[r].event].journal = "JE",
         \A f \in Events : exec[f].journal = "JE" => exec'[f].journal = "JE"
  PROVE  RequestsOK' /\ AnswersHold'
<1>1. /\ RequestsOK' /\ req'[r].event = req[r].event
      /\ req'[r].posted = (s = "POSTED")
      /\ \A q \in Requests \ {r} : req'[q] = req[q]
  BY AnsweredType
<1>2. req[r].event \in Events
  BY AtWork
<1> QED
  BY <1>1, <1>2 DEF AnswersHold

(* The same for a step that gives no request an answer.                         *)
LEMMA AnswersKept ==
  ASSUME AnswersHold,
         \A q \in Requests : req'[q] = req[q] \/ ~req'[q].posted,
         \A f \in Events : exec[f].journal = "JE" => exec'[f].journal = "JE"
  PROVE  AnswersHold'
  BY DEF AnswersHold

(* Submitting an event.                                                         *)
LEMMA SubmitStep ==
  ASSUME TypeOK, AnswersHold, PostedHasJournal, NEW r \in Requests, NEW e \in Events,
         Submit(r, e)
  PROVE  /\ RequestsOK' /\ exec' \in [Events -> Engine!Execution]
         /\ \A f \in Events : exec[f].journal = "JE" => exec'[f].journal = "JE"
         /\ PostedHasJournal' /\ AnswersHold'
<1>0. req[r].event = e /\ req[r].pc = "submit"
  BY DEF Submit, At
<1>1. CASE exec[e].status # "NONE"
  <2>1. Answered(r, exec[e].status) /\ exec' = exec
    BY <1>1 DEF Submit
  <2>2. exec[e].status = "POSTED" => exec'[req[r].event].journal = "JE"
    BY <1>0, <2>1 DEF PostedHasJournal
  <2>3. RequestsOK' /\ AnswersHold'
    BY <1>0, <2>1, <2>2, AnswerHolds
  <2> QED
    BY <2>1, <2>3 DEF TypeOK, PostedHasJournal
<1>2. CASE exec[e].status = "NONE"
  <2>1. Engine!Opens(e)
    BY <1>2 DEF Submit
  <2>2. /\ exec' \in [Events -> Engine!Execution]
        /\ \A f \in Events : exec'[f].journal = exec[f].journal
        /\ exec'[e].status # "POSTED"
        /\ \A f \in Events \ {e} : exec'[f] = exec[f]
    BY <2>1, OpensType
  <2>3. PostedHasJournal'
    BY <2>2 DEF PostedHasJournal
  <2>4. CASE exec'[e].status = "REJECTED"
    <3>1. Answered(r, "REJECTED")
      BY <1>2, <2>4 DEF Submit
    <3>2. RequestsOK' /\ AnswersHold'
      BY <1>0, <2>2, <3>1, AnswerHolds
    <3> QED
      BY <2>2, <2>3, <3>2
  <2>5. CASE exec'[e].status # "REJECTED"
    <3>1. req' = [req EXCEPT ![r].pc = "waiting"]
      BY <1>2, <2>5 DEF Submit
    <3>2. /\ req[r] \in Request /\ req[r].event \in Events
          /\ req[r].key \in EventKeys /\ req[r].event = EventOf[req[r].key]
      BY <1>0, AtWork
    <3>3. /\ req'[r] \in Request /\ req'[r].event = req[r].event
          /\ req'[r].key = req[r].key /\ req'[r].posted = req[r].posted
      BY <3>1, <3>2 DEF TypeOK, Request
    <3>4. RequestsOK'
      BY <3>1, <3>2, <3>3 DEF TypeOK, Request, RequestsOK
    <3>5. AnswersHold'
      BY <2>2, <3>1, <3>3 DEF AnswersHold, TypeOK
    <3> QED
      BY <2>2, <2>3, <3>4, <3>5
  <2> QED
    BY <2>4, <2>5
<1> QED
  BY <1>1, <1>2

(* What a rewriting of the engine's row leaves true.                            *)
LEMMA RewriteKeeps ==
  ASSUME TypeOK, PostedHasJournal, NEW e \in Events, NEW x \in Engine!Execution,
         Engine!Rewrites(e, x)
  PROVE  /\ exec' \in [Events -> Engine!Execution]
         /\ \A f \in Events : exec[f].journal = "JE" => exec'[f].journal = "JE"
         /\ PostedHasJournal'
         /\ x.status = "POSTED" => exec'[e].journal = "JE"
  BY RewritesType DEF PostedHasJournal

LEMMA EngineAnswersStep ==
  ASSUME TypeOK, AnswersHold, PostedHasJournal, NEW r \in Requests, NEW e \in Events,
         EngineAnswers(r, e)
  PROVE  /\ RequestsOK' /\ exec' \in [Events -> Engine!Execution]
         /\ \A f \in Events : exec[f].journal = "JE" => exec'[f].journal = "JE"
         /\ PostedHasJournal' /\ AnswersHold'
<1>1. req[r].event = e /\ req[r].pc = "waiting"
  BY DEF EngineAnswers, At
<1>2. PICK x \in Engine!Execution : Engine!Rewrites(e, x) /\ Answered(r, x.status)
  BY DEF EngineAnswers
<1>3. /\ exec' \in [Events -> Engine!Execution]
      /\ \A f \in Events : exec[f].journal = "JE" => exec'[f].journal = "JE"
      /\ PostedHasJournal'
      /\ x.status = "POSTED" => exec'[e].journal = "JE"
  BY <1>2, RewriteKeeps
<1>4. RequestsOK' /\ AnswersHold'
  BY <1>1, <1>2, <1>3, AnswerHolds
<1> QED
  BY <1>3, <1>4

-----------------------------------------------------------------------------
(* The transaction after the answer                                             *)

LEMMA WriteRowType ==
  ASSUME TypeOK, NEW k \in EventKeys, NEW posted \in BOOLEAN, NEW taken \in Nat,
         WriteRow(k, posted, taken)
  PROVE  /\ row' \in [EventKeys -> EventRow]
         /\ \A l \in EventKeys \ {k} : row'[l] = row[l]
         /\ row'[k] # row[k] /\ row'[k].status = "POSTED" => posted
         /\ row[k] # NoRow => row'[k] = row[k]
         /\ row[k] = NoRow => row'[k] # NoRow /\ row'[k].taken = (IF posted THEN taken ELSE 0)
                              /\ (row'[k].status = "POSTED") = posted
<1> DEFINE new == [status |-> IF posted THEN "POSTED" ELSE "NOT_POSTED",
                   taken |-> IF posted THEN taken ELSE 0]
<1>1. /\ new \in EventRow /\ new # NoRow /\ (new.status = "POSTED") = posted
      /\ new.taken = IF posted THEN taken ELSE 0
  <2>1. new.status # "NONE"
    OBVIOUS
  <2> QED
    BY <2>1 DEF EventRow, NoRow
<1>2. row' = [row EXCEPT ![k] = IF row[k] = NoRow THEN new ELSE row[k]]
  BY DEF WriteRow, TypeOK
<1> HIDE DEF new
<1>3. row \in [EventKeys -> EventRow]
  BY DEF TypeOK, EventRow
<1>4. row'[k] = (IF row[k] = NoRow THEN new ELSE row[k])
      /\ \A l \in EventKeys \ {k} : row'[l] = row[l]
  BY <1>2, <1>3
<1>5. row' \in [EventKeys -> EventRow]
  BY <1>1, <1>2, <1>3
<1> QED
  BY <1>1, <1>4, <1>5

LEMMA AddComponentType ==
  ASSUME TypeOK, NEW e \in Events, NEW posted \in BOOLEAN, NEW amount \in Nat,
         AddComponent(e, posted, amount)
  PROVE  /\ component' \in [Events -> Nat]
         /\ \A f \in Events \ {e} : component'[f] = component[f]
         /\ component'[e] = IF posted /\ component[e] = 0 THEN amount ELSE component[e]
  BY DEF AddComponent, TypeOK

(* A unit's book value moved by a whole number.                                 *)
LEMMA UnitType ==
  ASSUME TypeOK, NEW u \in Units, NEW b \in Int, NEW d \in BOOLEAN,
         unit' = [unit EXCEPT ![u].book = b, ![u].disposed = d]
  PROVE  unit' \in [Units -> Unit]
<1>1. unit[u] \in Unit
  BY DEF TypeOK, Unit
<1>2. [unit[u] EXCEPT !.book = b, !.disposed = d] \in Unit
  BY <1>1 DEF Unit
<1>3. unit' = [unit EXCEPT ![u] = [unit[u] EXCEPT !.book = b, !.disposed = d]]
  BY DEF TypeOK
<1> QED
  BY <1>2, <1>3 DEF TypeOK, Unit

(* What the transaction writes under the key of a request, and the answer it     *)
(* rests on.                                                                     *)
WritesOf(r, e) ==
  LET k == req[r].key IN
  /\ unit' \in [Units -> Unit] /\ component' \in [Events -> Nat]
  /\ row' \in [EventKeys -> EventRow]
  /\ \A f \in Events \ {e} : component'[f] = component[f]
  /\ \A l \in EventKeys \ {k} : row'[l] = row[l]
  /\ component'[e] # component[e] => req[r].posted
  /\ row'[k] # row[k] /\ row'[k].status = "POSTED" => req[r].posted

LEMMA BirthWrites ==
  ASSUME TypeOK, NEW r \in Requests, NEW e \in Events, WriteBirth(r, e)
  PROVE  WritesOf(r, e)
<1> DEFINE u == UnitOf[e]
           born == Born(u, req[r].posted, req[r].amount)
<1>1. /\ u \in Units /\ req[r].posted \in BOOLEAN /\ req[r].amount \in Nat
      /\ req[r].key \in EventKeys
  BY VehicleAssumption, AtWork DEF WriteBirth, At, TypeOK
<1>2. born \in Unit
  BY <1>1 DEF Born, TypeOK, Unit
<1>3. unit' = [unit EXCEPT ![u] = born]
  BY DEF WriteBirth
<1>4. unit' \in [Units -> Unit]
  <2> HIDE DEF born
  <2> QED
    BY <1>1, <1>2, <1>3 DEF TypeOK, Unit
<1>5. /\ AddComponent(e, req[r].posted, req[r].amount)
      /\ WriteRow(req[r].key, req[r].posted, 0)
  BY DEF WriteBirth
<1> QED
  BY <1>1, <1>4, <1>5, AddComponentType, WriteRowType DEF WritesOf

LEMMA CostWrites ==
  ASSUME TypeOK, NEW r \in Requests, NEW e \in Events, At(r, e, "apply"), ApplyCost(r, e)
  PROVE  WritesOf(r, e)
<1> DEFINE u == UnitOf[e]
           b == IF req[r].posted THEN unit[u].book + req[r].amount ELSE unit[u].book
<1>1. /\ u \in Units /\ req[r].posted \in BOOLEAN /\ req[r].amount \in Nat
      /\ req[r].key \in EventKeys /\ unit[u].book \in Int /\ unit[u].disposed \in BOOLEAN
  BY VehicleAssumption, AtWork DEF TypeOK, At
<1>2. b \in Int
  BY <1>1
<1>3. unit' = [unit EXCEPT ![u].book = b, ![u].disposed = unit[u].disposed]
  BY <1>1 DEF ApplyCost, TypeOK
<1>4. unit' \in [Units -> Unit]
  <2> HIDE DEF b, u
  <2> QED
    BY <1>1, <1>2, <1>3, UnitType
<1>5. /\ AddComponent(e, req[r].posted, req[r].amount)
      /\ WriteRow(req[r].key, req[r].posted, 0)
  BY DEF ApplyCost
<1> QED
  BY <1>1, <1>4, <1>5, AddComponentType, WriteRowType DEF WritesOf

LEMMA TakenWrites ==
  ASSUME TypeOK, NEW r \in Requests, NEW e \in Events, At(r, e, "apply"), ApplyTaken(r, e)
  PROVE  WritesOf(r, e)
<1> DEFINE u == UnitOf[e]
           b == IF req[r].posted THEN unit[u].book - req[r].amount ELSE unit[u].book
           d == unit[u].disposed \/ (req[r].posted /\ kind[e] = "trade_out")
<1>1. /\ u \in Units /\ req[r].posted \in BOOLEAN /\ req[r].amount \in Nat
      /\ req[r].key \in EventKeys /\ unit[u].book \in Int /\ unit[u].disposed \in BOOLEAN
  BY VehicleAssumption, AtWork DEF TypeOK, At
<1>2. b \in Int
  BY <1>1
<1>3. d \in BOOLEAN
  BY <1>1, Zenon
<1>4. unit' = [unit EXCEPT ![u].book = b, ![u].disposed = d]
  BY <1>1 DEF ApplyTaken, TypeOK
<1>5. unit' \in [Units -> Unit]
  <2> HIDE DEF b, d, u
  <2> QED
    BY <1>1, <1>2, <1>3, <1>4, UnitType
<1>6. WriteRow(req[r].key, req[r].posted, req[r].amount) /\ component' = component
  BY DEF ApplyTaken
<1>7. component' \in [Events -> Nat]
  BY <1>6 DEF TypeOK
<1> QED
  BY <1>1, <1>5, <1>6, <1>7, WriteRowType DEF WritesOf

LEMMA ApplyStep ==
  ASSUME IInv, NEW r \in Requests, NEW e \in Events, Apply(r, e) \/ WriteBirth(r, e)
  PROVE  IInv'
<1>1. TypeOK /\ AnswersHold /\ PostedHasJournal /\ AppliedIsBooked
  BY DEF IInv
<1>2. /\ req[r].event = e /\ req[r].pc # "idle" /\ req' = [req EXCEPT ![r] = Idle]
      /\ UNCHANGED <<kind, exec>>
  BY DEF Apply, WriteBirth, At
<1>3. WritesOf(r, e)
  <2>1. CASE Apply(r, e) /\ MayApply(req[r].key)
    BY <1>1, <2>1, CostWrites, TakenWrites DEF Apply
  <2>2. CASE Apply(r, e) /\ ~MayApply(req[r].key)
    BY <1>1, <2>2 DEF Apply, WritesOf, TypeOK, Unit, EventRow
  <2> QED
    BY <1>1, <2>1, <2>2, BirthWrites
<1>4. RequestsOK'
  BY <1>1, <1>2, IdleType DEF RequestsOK, TypeOK, Request, Idle
<1>5. TypeOK'
  <2>1. kind' \in [Events -> Kind] /\ exec' \in [Events -> Engine!Execution]
    BY <1>1, <1>2 DEF TypeOK
  <2> QED
    BY <1>3, <1>4, <2>1, TypeIs, TypeNext DEF WritesOf
<1>6. AnswersHold'
  BY <1>1, <1>2 DEF AnswersHold, TypeOK, Idle
<1>7. PostedHasJournal'
  BY <1>1, <1>2 DEF PostedHasJournal
<1>8. AppliedIsBooked'
  <2>1. req[r].key \in EventKeys /\ EventOf[req[r].key] = e
    BY <1>1, <1>2, AtWork
  <2>2. req[r].posted => exec[e].journal = "JE"
    BY <1>1, <1>2 DEF AnswersHold
  <2> QED
    BY <1>1, <1>2, <1>3, <2>1, <2>2 DEF AppliedIsBooked, WritesOf
<1> QED
  BY <1>5, <1>6, <1>7, <1>8 DEF IInv

(* A stock-in that looks for its row, or begins its transaction again.           *)
LEMMA LookStep ==
  ASSUME TypeOK, AnswersHold, NEW r \in Requests, NEW e \in Events,
         LookUp(r, e) \/ Collides(r, e)
  PROVE  RequestsOK' /\ AnswersHold' /\ UNCHANGED <<kind, unit, component, row, exec>>
<1>1. req[r].pc # "idle" /\ UNCHANGED <<kind, unit, component, row, exec>>
  BY DEF LookUp, Collides, At
<1>2. /\ req[r].key \in EventKeys /\ req[r].event = EventOf[req[r].key]
      /\ req[r] \in Request
  BY <1>1, AtWork
<1>3. PICK pc \in {"apply", "write"} :
        req' = [req EXCEPT ![r] = Idle] \/ req' = [req EXCEPT ![r] = [req[r] EXCEPT !.pc = pc]]
  <2>1. CASE LookUp(r, e)
    <3>1. \/ req' = [req EXCEPT ![r] = Idle]
          \/ req' = [req EXCEPT ![r] = [req[r] EXCEPT !.pc = "write"]]
      BY <2>1 DEF LookUp
    <3> QED
      BY <3>1
  <2>2. CASE Collides(r, e)
    <3>1. req' = [req EXCEPT ![r] = [req[r] EXCEPT !.pc = "apply"]]
      BY <2>2 DEF Collides, TypeOK
    <3> QED
      BY <3>1
  <2> QED
    BY <2>1, <2>2
<1>4. CASE req' = [req EXCEPT ![r] = Idle]
  BY <1>1, <1>4, IdleType DEF RequestsOK, AnswersHold, TypeOK, Request, Idle
<1>5. CASE req' = [req EXCEPT ![r] = [req[r] EXCEPT !.pc = pc]]
  <2> DEFINE new == [req[r] EXCEPT !.pc = pc]
  <2>1. /\ new \in Request /\ new.key = req[r].key /\ new.event = req[r].event
        /\ new.posted = req[r].posted
    BY <1>2 DEF Request
  <2>2. req' = [req EXCEPT ![r] = new]
    BY <1>5
  <2> HIDE DEF new
  <2>3. req'[r] = new /\ \A q \in Requests \ {r} : req'[q] = req[q]
    BY <2>2 DEF TypeOK
  <2>4. RequestsOK'
    BY <1>2, <2>1, <2>2, <2>3 DEF RequestsOK, TypeOK, Request
  <2>5. AnswersHold'
    BY <1>1, <2>1, <2>3 DEF AnswersHold
  <2> QED
    BY <1>1, <2>4, <2>5
<1> QED
  BY <1>1, <1>3, <1>4, <1>5

-----------------------------------------------------------------------------
LEMMA OtherStep ==
  ASSUME IInv, UNCHANGED <<kind, unit, component, row>>, RequestsOK',
         exec' \in [Events -> Engine!Execution], AnswersHold', PostedHasJournal',
         \A f \in Events : exec[f].journal = "JE" => exec'[f].journal = "JE"
  PROVE  IInv'
<1>1. TypeOK'
  BY TypeNext, TypeIs DEF IInv
<1>2. AppliedIsBooked'
  BY VehicleAssumption DEF IInv, AppliedIsBooked
<1> QED
  BY <1>1, <1>2 DEF IInv

LEMMA Initial == Init => IInv
<1> SUFFICES ASSUME Init PROVE IInv
  OBVIOUS
<1>1. exec = [e \in Events |-> [status |-> "NONE", journal |-> "NULL"]]
  BY DEF Init, Engine!Init, Engine!NoExecution
<1>2. RequestsOK
  BY IdleType DEF Init, RequestsOK, Idle
<1>3. exec \in [Events -> Engine!Execution]
  BY <1>1 DEF Engine!Execution, Engine!ExecutionStatus
<1>4. TypeOK
  BY <1>2, <1>3, IdleType, TypeIs DEF Init
<1>5. AnswersHold /\ PostedHasJournal
  BY <1>1 DEF Init, AnswersHold, PostedHasJournal, Idle
<1>6. AppliedIsBooked
  BY DEF Init, AppliedIsBooked, NoRow
<1> QED
  BY <1>4, <1>5, <1>6 DEF IInv

LEMMA Inductive == IInv /\ [Next]_vars => IInv'
<1> SUFFICES ASSUME IInv, [Next]_vars PROVE IInv'
  OBVIOUS
<1>0. TypeOK /\ AnswersHold /\ PostedHasJournal
  BY DEF IInv
<1>1. CASE UNCHANGED vars
  BY <1>1 DEF vars, IInv, TypeOK, AnswersHold, PostedHasJournal, AppliedIsBooked
<1>2. ASSUME NEW r \in Requests, NEW k \in EventKeys, Reads(r, k) PROVE IInv'
  <2>1. /\ RequestsOK' /\ UNCHANGED <<kind, unit, component, row, exec>>
        /\ \A q \in Requests : req'[q] = req[q] \/ ~req'[q].posted
    BY <1>0, <1>2, ReadStep
  <2>2. AnswersHold'
    BY <1>0, <2>1, AnswersKept
  <2>3. PostedHasJournal' /\ exec' \in [Events -> Engine!Execution]
    BY <1>0, <2>1 DEF PostedHasJournal, TypeOK
  <2> QED
    BY <2>1, <2>2, <2>3, OtherStep
<1>3. ASSUME NEW r \in Requests, NEW e \in Events, Submit(r, e) PROVE IInv'
  <2>1. UNCHANGED <<kind, unit, component, row>>
    BY <1>3 DEF Submit
  <2> QED
    BY <1>0, <1>3, <2>1, SubmitStep, OtherStep
<1>4. ASSUME NEW r \in Requests, NEW e \in Events, EngineAnswers(r, e) PROVE IInv'
  <2>1. UNCHANGED <<kind, unit, component, row>>
    BY <1>4 DEF EngineAnswers
  <2> QED
    BY <1>0, <1>4, <2>1, EngineAnswersStep, OtherStep
<1>5. ASSUME NEW r \in Requests, RequestDies(r) PROVE IInv'
  <2>1. req' = [req EXCEPT ![r] = Idle] /\ UNCHANGED <<kind, unit, component, row, exec>>
    BY <1>5 DEF RequestDies
  <2>2. RequestsOK'
    BY <1>0, <2>1, IdleType DEF RequestsOK, TypeOK, Request, Idle
  <2>3. \A q \in Requests : req'[q] = req[q] \/ ~req'[q].posted
    BY <1>0, <2>1 DEF TypeOK, Idle
  <2>4. AnswersHold'
    BY <1>0, <2>1, <2>3, AnswersKept
  <2>5. PostedHasJournal' /\ exec' \in [Events -> Engine!Execution]
    BY <1>0, <2>1 DEF PostedHasJournal, TypeOK
  <2> QED
    BY <2>1, <2>2, <2>4, <2>5, OtherStep
<1>6. ASSUME NEW e \in Events, EngineMoves(e) PROVE IInv'
  <2>1. PICK x \in Engine!Execution : Engine!Rewrites(e, x)
    BY <1>6 DEF EngineMoves
  <2>2. UNCHANGED <<kind, unit, component, row, req>>
    BY <1>6 DEF EngineMoves
  <2>3. /\ exec' \in [Events -> Engine!Execution]
        /\ \A f \in Events : exec[f].journal = "JE" => exec'[f].journal = "JE"
        /\ PostedHasJournal'
    BY <1>0, <2>1, RewriteKeeps
  <2>4. RequestsOK'
    BY <1>0, <2>2, TypeIs DEF RequestsOK
  <2>5. AnswersHold'
    BY <1>0, <2>2, <2>3, AnswersKept
  <2> QED
    BY <2>2, <2>3, <2>4, <2>5, OtherStep
<1>7. ASSUME NEW r \in Requests, NEW e \in Events, LookUp(r, e) \/ Collides(r, e)
      PROVE  IInv'
  <2>1. /\ RequestsOK' /\ AnswersHold' /\ UNCHANGED <<kind, unit, component, row, exec>>
    BY <1>0, <1>7, LookStep
  <2>2. PostedHasJournal' /\ exec' \in [Events -> Engine!Execution]
    BY <1>0, <2>1 DEF PostedHasJournal, TypeOK
  <2> QED
    BY <2>1, <2>2, OtherStep
<1> QED
  BY <1>1, <1>2, <1>3, <1>4, <1>5, <1>6, <1>7, ApplyStep DEF Next, RequestStep

LEMMA Invariance == Spec => []IInv
  BY Initial, Inductive, PTL DEF Spec

(* Every variable has its type, for any number of events, units and requests of  *)
(* services/vehicle-accounting-service/src/application.                           *)
THEOREM TypeCorrect == Spec => []TypeOK
<1>1. IInv => TypeOK
  BY DEF IInv
<1> QED
  BY <1>1, Invariance, PTL

(* An event that moved a unit's book value has a journal in the ledger: whatever  *)
(* the posting engine did to its row since it answered, the answer POSTED that     *)
(* PostingOrchestrator.submitAndRecord wrote stays true.                           *)
THEOREM AppliedBooked == Spec => []AppliedIsBooked
<1>1. IInv => AppliedIsBooked
  BY DEF IInv
<1> QED
  BY <1>1, Invariance, PTL
-----------------------------------------------------------------------------
(* The book value                                                            *)

\* A component or a row of an event stands on a unit that exists; only the row of
\* its own key goes with a cost; and a posted row went with its component.
RowsHold ==
  /\ \A e \in Events :
       component[e] # 0 =>
         /\ unit[UnitOf[e]].exists
         /\ kind[e] \in Births \cup {"cost"}
         /\ kind[e] = "cost" => row[e] # NoRow
  /\ \A k \in EventKeys :
       row[k] # NoRow =>
         /\ unit[UnitOf[EventOf[k]]].exists
         /\ kind[EventOf[k]] = "cost" => k = EventOf[k]
         /\ row[k].status = "POSTED" /\ kind[EventOf[k]] \in Births =>
              component[EventOf[k]] # 0

\* A unit exists since the row of a birth.
BirthsHold ==
  \A u \in Units : IF unit[u].exists THEN BirthRows(u) # {} ELSE unit[u].book = 0

\* A request that does not bring its unit in has seen it; a cost is under its own
\* key; and what is submitted is an amount.
RequestsHold ==
  \A r \in Requests :
    req[r].pc # "idle" =>
      /\ kind[req[r].event] \in Births \/ unit[UnitOf[req[r].event]].exists
      /\ kind[req[r].event] = "cost" => req[r].key = req[r].event
      /\ req[r].amount # 0
      /\ req[r].pc = "write" => kind[req[r].event] \in Births

BookInv == RowsHold /\ BirthsHold /\ RequestsHold /\ BookFollowsRows

\* What the row of each key says it moved.
RowMoves == [k \in EventKeys |-> Moved(k)]

\* The transaction under key k: what it does to the unit and what the rows say of
\* it agree.
MovesUnit(k) ==
  LET u == UnitOf[EventOf[k]] IN
  /\ \A v \in Units \ {u} : unit'[v] = unit[v]
  /\ \A l \in EventKeys \ {k} : row'[l] = row[l] /\ Moved(l)' = Moved(l)
  /\ row'[k] # NoRow /\ (row[k] # NoRow => row'[k] = row[k])
  /\ unit'[u].exists
  /\ unit[u].exists \/ (kind[EventOf[k]] \in Births /\ row[k] = NoRow)
  /\ OneBirth(u)' => unit'[u].book = unit[u].book + (Moved(k)' - Moved(k))

LEMMA KeyFacts ==
  /\ \A k \in EventKeys : EventOf[k] \in Events /\ UnitOf[EventOf[k]] \in Units
                          /\ k \in KeysOf(UnitOf[EventOf[k]])
  /\ \A e \in Events : e \in EventKeys /\ EventOf[e] = e /\ UnitOf[e] \in Units
  /\ \A u : IsFiniteSet(KeysOf(u)) /\ KeysOf(u) \subseteq EventKeys
<1>1. \A u : IsFiniteSet(KeysOf(u)) /\ KeysOf(u) \subseteq EventKeys
  BY VehicleAssumption, FS_Subset DEF KeysOf
<1> QED
  BY <1>1, VehicleAssumption DEF KeysOf

LEMMA MovedType == TypeOK => \A k \in EventKeys : Moved(k) \in Int
  BY KeyFacts DEF TypeOK, Moved

\* What the transactions of a request know.
Works(r, e, k) ==
  /\ k = req[r].key /\ k \in EventKeys /\ e = EventOf[k] /\ e = req[r].event
  /\ req[r].posted \in BOOLEAN /\ req[r].amount \in Nat \ {0}
  /\ kind[e] \in Births \/ unit[UnitOf[e]].exists
  /\ kind[e] = "cost" => k = e
  /\ UnitOf[e] \in Units /\ unit[UnitOf[e]].book \in Int
  /\ row[k].taken \in Nat

LEMMA AtWorks ==
  ASSUME TypeOK, RequestsHold, NEW r \in Requests, req[r].pc # "idle"
  PROVE  Works(r, req[r].event, req[r].key)
  BY AtWork, KeyFacts DEF RequestsHold, Works, TypeOK

LEMMA BirthMoves ==
  ASSUME TypeOK, RowsHold, BirthsHold, NEW r \in Requests, NEW e \in Events,
         NEW k \in EventKeys, Works(r, e, k), kind[e] \in Births, UNCHANGED kind,
         WriteBirth(r, e)
  PROVE  RowsHold' /\ MovesUnit(k)
<1> DEFINE u == UnitOf[e]
           posted == req[r].posted
           amount == req[r].amount
<1>1. /\ u \in Units /\ posted \in BOOLEAN /\ amount \in Nat \ {0} /\ unit[u].book \in Int
      /\ k = req[r].key /\ e = EventOf[k]
  BY DEF Works
<1>2. /\ unit'[u] = Born(u, posted, amount)
      /\ \A v \in Units \ {u} : unit'[v] = unit[v]
  BY <1>1 DEF WriteBirth, TypeOK
<1>3. /\ component'[e] = (IF posted /\ component[e] = 0 THEN amount ELSE component[e])
      /\ \A f \in Events \ {e} : component'[f] = component[f]
  BY <1>1, AddComponentType DEF WriteBirth
<1>4. /\ \A l \in EventKeys \ {k} : row'[l] = row[l]
      /\ row[k] # NoRow => row'[k] = row[k]
      /\ row[k] = NoRow => /\ row'[k] # NoRow /\ row'[k].taken = 0
                           /\ (row'[k].status = "POSTED") = posted
  <2>1. WriteRow(k, posted, 0)
    BY <1>1 DEF WriteBirth
  <2> QED
    BY <1>1, <2>1, WriteRowType
<1>5. unit'[u].exists /\ \A v \in Units : unit[v].exists => unit'[v].exists
  BY <1>1, <1>2 DEF Born
<1>6. component[e] \in Nat
  BY DEF TypeOK
<1>7. RowsHold'
  <2>1. \A f \in Events : component'[f] # 0 =>
          /\ unit'[UnitOf[f]].exists
          /\ kind'[f] \in Births \cup {"cost"}
          /\ kind'[f] = "cost" => row'[f] # NoRow
    <3> SUFFICES ASSUME NEW f \in Events, component'[f] # 0
                 PROVE  /\ unit'[UnitOf[f]].exists
                        /\ kind[f] \in Births \cup {"cost"}
                        /\ kind[f] = "cost" => row'[f] # NoRow
      OBVIOUS
    <3>1. CASE f = e
      BY <1>5, <3>1 DEF Births
    <3>2. CASE f # e
      <4>1. component[f] # 0 /\ f \in EventKeys /\ UnitOf[f] \in Units
        BY <1>3, <3>2, KeyFacts
      <4>2. row[f] # NoRow => row'[f] # NoRow
        BY <1>4, <4>1
      <4> QED
        BY <1>5, <4>1, <4>2 DEF RowsHold
    <3> QED
      BY <3>1, <3>2
  <2>2. \A l \in EventKeys : row'[l] # NoRow =>
          /\ unit'[UnitOf[EventOf[l]]].exists
          /\ kind'[EventOf[l]] = "cost" => l = EventOf[l]
          /\ row'[l].status = "POSTED" /\ kind'[EventOf[l]] \in Births =>
               component'[EventOf[l]] # 0
    <3> SUFFICES ASSUME NEW l \in EventKeys, row'[l] # NoRow
                 PROVE  /\ unit'[UnitOf[EventOf[l]]].exists
                        /\ kind[EventOf[l]] = "cost" => l = EventOf[l]
                        /\ row'[l].status = "POSTED" /\ kind[EventOf[l]] \in Births =>
                             component'[EventOf[l]] # 0
      OBVIOUS
    <3>0. \A f \in Events : component[f] # 0 => component'[f] # 0
      BY <1>3
    <3>1. CASE row'[l] = row[l]
      BY <1>5, <3>0, <3>1, KeyFacts DEF RowsHold
    <3>2. CASE row'[l] # row[l]
      <4>1. l = k /\ row[k] = NoRow
        BY <1>4, <3>2
      <4>2. posted => component'[e] # 0
        BY <1>1, <1>3, <1>6
      <4> QED
        BY <1>1, <1>4, <1>5, <4>1, <4>2 DEF Births
    <3> QED
      BY <3>1, <3>2
  <2> QED
    BY <2>1, <2>2 DEF RowsHold
<1>8. row[k] # NoRow => unit[u].exists
  BY <1>1 DEF RowsHold
<1>9. \A l \in EventKeys : row'[l] = row[l] => Moved(l)' = Moved(l)
  <2> SUFFICES ASSUME NEW l \in EventKeys, row'[l] = row[l], row[l].status = "POSTED"
               PROVE  component'[EventOf[l]] = component[EventOf[l]]
    BY DEF Moved
  <2>1. CASE EventOf[l] = e
    <3>1. component[e] # 0
      BY <2>1 DEF RowsHold, NoRow
    <3> QED
      BY <1>3, <2>1, <3>1
  <2>2. CASE EventOf[l] # e
    BY <1>3, <2>2, KeyFacts
  <2> QED
    BY <2>1, <2>2
<1>10. ASSUME OneBirth(u)' PROVE unit'[u].book = unit[u].book + (Moved(k)' - Moved(k))
  <2>1. CASE row[k] # NoRow
    <3>1. unit'[u] = unit[u] /\ Moved(k)' = Moved(k)
      BY <1>2, <1>4, <1>8, <1>9, <2>1 DEF Born
    <3> QED
      BY <1>1, <3>1, MovedType
  <2>2. CASE row[k] = NoRow
    <3>1. ~unit[u].exists
      <4>1. SUFFICES ASSUME NEW l \in BirthRows(u) PROVE FALSE
        BY <1>1 DEF BirthsHold
      <4>2. l \in EventKeys /\ l # k /\ l \in BirthRows(u)'
        BY <1>4, <2>2 DEF BirthRows, KeysOf
      <4>3. k \in BirthRows(u)'
        BY <1>1, <1>4, <2>2 DEF BirthRows, KeysOf
      <4> QED
        BY <1>10, <4>2, <4>3 DEF OneBirth
    <3>2. unit[u].book = 0 /\ component[e] = 0
      BY <1>1, <3>1 DEF BirthsHold, RowsHold
    <3>3. unit'[u].book = IF posted THEN amount ELSE 0
      BY <1>2, <3>1 DEF Born
    <3>4. Moved(k) = 0
      BY <2>2 DEF Moved, NoRow
    <3>5. Moved(k)' = IF posted THEN amount ELSE 0
      <4>1. posted => component'[e] = amount
        BY <1>3, <3>2
      <4> QED
        BY <1>1, <1>4, <2>2, <4>1 DEF Moved
    <3> QED
      BY <1>1, <3>2, <3>3, <3>4, <3>5
  <2> QED
    BY <2>1, <2>2
<1> QED
  BY <1>1, <1>2, <1>4, <1>5, <1>7, <1>8, <1>9, <1>10 DEF MovesUnit

(* Rows of a cost, a write-down or a trade out.                                  *)
LEMMA OtherRows ==
  ASSUME TypeOK, RowsHold, NEW e \in Events, NEW k \in EventKeys, e = EventOf[k],
         kind[e] \notin Births, UNCHANGED kind, UnitOf[e] \in Units,
         row[k] = NoRow, row'[k] # NoRow, unit[UnitOf[e]].exists,
         kind[e] = "cost" => k = e,
         \A v \in Units : unit'[v].exists = unit[v].exists,
         \A l \in EventKeys \ {k} : row'[l] = row[l],
         \A f \in Events \ {e} : component'[f] = component[f],
         component'[e] # component[e] => kind[e] = "cost"
  PROVE  /\ RowsHold'
         /\ \A l \in EventKeys \ {k} : Moved(l)' = Moved(l)
<1>1. \A f \in Events : component'[f] # 0 =>
        /\ unit'[UnitOf[f]].exists
        /\ kind'[f] \in Births \cup {"cost"}
        /\ kind'[f] = "cost" => row'[f] # NoRow
  <2> SUFFICES ASSUME NEW f \in Events, component'[f] # 0
               PROVE  /\ unit'[UnitOf[f]].exists
                      /\ kind[f] \in Births \cup {"cost"}
                      /\ kind[f] = "cost" => row'[f] # NoRow
    OBVIOUS
  <2>1. CASE component'[f] = component[f]
    <3>1. f \in EventKeys /\ UnitOf[f] \in Units
      BY KeyFacts
    <3>2. row[f] # NoRow => row'[f] # NoRow
      BY <3>1
    <3> QED
      BY <2>1, <3>1, <3>2 DEF RowsHold
  <2>2. CASE component'[f] # component[f]
    BY <2>2 DEF RowsHold
  <2> QED
    BY <2>1, <2>2
<1>2. \A l \in EventKeys : row'[l] # NoRow =>
        /\ unit'[UnitOf[EventOf[l]]].exists
        /\ kind'[EventOf[l]] = "cost" => l = EventOf[l]
        /\ row'[l].status = "POSTED" /\ kind'[EventOf[l]] \in Births =>
             component'[EventOf[l]] # 0
  <2> SUFFICES ASSUME NEW l \in EventKeys, row'[l] # NoRow
               PROVE  /\ unit'[UnitOf[EventOf[l]]].exists
                      /\ kind[EventOf[l]] = "cost" => l = EventOf[l]
                      /\ row'[l].status = "POSTED" /\ kind[EventOf[l]] \in Births =>
                           component'[EventOf[l]] # 0
    OBVIOUS
  <2>1. CASE l = k
    BY <2>1
  <2>2. CASE l # k
    <3>1. row[l] = row'[l] /\ UnitOf[EventOf[l]] \in Units /\ EventOf[l] \in Events
      BY <2>2, KeyFacts
    <3>2. kind[EventOf[l]] \in Births => component'[EventOf[l]] = component[EventOf[l]]
      BY <3>1
    <3> QED
      BY <3>1, <3>2 DEF RowsHold
  <2> QED
    BY <2>1, <2>2
<1>3. \A l \in EventKeys \ {k} : Moved(l)' = Moved(l)
  <2> SUFFICES ASSUME NEW l \in EventKeys \ {k}, row[l].status = "POSTED"
               PROVE  component'[EventOf[l]] = component[EventOf[l]]
    BY DEF Moved
  <2>1. EventOf[l] \in Events /\ row[l] # NoRow
    BY KeyFacts DEF NoRow
  <2>2. CASE EventOf[l] = e
    <3>1. kind[e] # "cost"
      BY <2>1, <2>2 DEF RowsHold
    <3> QED
      BY <2>2, <3>1
  <2>3. CASE EventOf[l] # e
    BY <2>1, <2>3
  <2> QED
    BY <2>2, <2>3
<1> QED
  BY <1>1, <1>2, <1>3 DEF RowsHold

LEMMA CostMoves ==
  ASSUME TypeOK, RowsHold, NEW r \in Requests, NEW e \in Events, NEW k \in EventKeys,
         Works(r, e, k), UNCHANGED kind, MayApply(k), ApplyCost(r, e)
  PROVE  RowsHold' /\ MovesUnit(k)
<1> DEFINE u == UnitOf[e]
           posted == req[r].posted
           amount == req[r].amount
<1>1. /\ u \in Units /\ posted \in BOOLEAN /\ amount \in Nat \ {0} /\ unit[u].book \in Int
      /\ k = req[r].key /\ e = EventOf[k] /\ kind[e] = "cost"
      /\ kind[e] \notin Births /\ unit[u].exists
  BY DEF Works, ApplyCost, Births
<1>2. k = e /\ row[k] = NoRow /\ component[e] = 0
  BY <1>1 DEF MayApply, RowsHold, Works
<1> DEFINE b == IF posted THEN unit[u].book + amount ELSE unit[u].book
<1>3. /\ unit'[u].book = b
      /\ unit'[u].exists = unit[u].exists
      /\ \A v \in Units \ {u} : unit'[v] = unit[v]
  <2>1. unit' = [unit EXCEPT ![u].book = b]
    BY <1>1 DEF ApplyCost, TypeOK
  <2> HIDE DEF b, u
  <2> QED
    BY <1>1, <2>1 DEF TypeOK
<1>4. /\ \A l \in EventKeys \ {k} : row'[l] = row[l]
      /\ row'[k] # NoRow /\ row'[k].taken = 0 /\ (row'[k].status = "POSTED") = posted
  <2>1. WriteRow(k, posted, 0)
    BY <1>1 DEF ApplyCost
  <2> QED
    BY <1>1, <1>2, <2>1, WriteRowType
<1>5. /\ component'[e] = (IF posted THEN amount ELSE 0)
      /\ \A f \in Events \ {e} : component'[f] = component[f]
  <2>1. AddComponent(e, posted, amount)
    BY <1>1 DEF ApplyCost
  <2>2. /\ component'[e] = (IF posted /\ component[e] = 0 THEN amount ELSE component[e])
        /\ \A f \in Events \ {e} : component'[f] = component[f]
    BY <1>1, <2>1, AddComponentType
  <2> QED
    BY <1>2, <2>2
<1>6. RowsHold' /\ \A l \in EventKeys \ {k} : Moved(l)' = Moved(l)
  <2>1. \A v \in Units : unit'[v].exists = unit[v].exists
    BY <1>3
  <2>2. component'[e] # component[e] => kind[e] = "cost"
    BY <1>1
  <2>3. UnitOf[e] \in Units /\ unit[UnitOf[e]].exists /\ (kind[e] = "cost" => k = e)
    BY <1>1, <1>2
  <2> HIDE DEF u, posted, amount, b
  <2> QED
    BY <1>1, <1>2, <1>4, <1>5, <2>1, <2>2, <2>3, OtherRows
<1>7. Moved(k) = 0 /\ Moved(k)' = IF posted THEN amount ELSE 0
  BY <1>1, <1>2, <1>4, <1>5 DEF Moved, NoRow
<1>8. unit'[u].book = unit[u].book + (Moved(k)' - Moved(k))
  BY <1>1, <1>3, <1>7
<1>9. /\ u = UnitOf[EventOf[k]] /\ unit[u].exists /\ unit'[u].exists
      /\ \A v \in Units \ {u} : unit'[v] = unit[v]
  BY <1>1, <1>3
<1>10. \A l \in EventKeys \ {k} : row'[l] = row[l] /\ Moved(l)' = Moved(l)
  BY <1>4, <1>6
<1>11. row'[k] # NoRow /\ row[k] = NoRow
  BY <1>2, <1>4
<1> HIDE DEF u, posted, amount, b
<1> QED
  BY <1>6, <1>8, <1>9, <1>10, <1>11, Zenon DEF MovesUnit

LEMMA TakenMoves ==
  ASSUME TypeOK, RowsHold, NEW r \in Requests, NEW e \in Events, NEW k \in EventKeys,
         Works(r, e, k), UNCHANGED kind, MayApply(k), ApplyTaken(r, e)
  PROVE  RowsHold' /\ MovesUnit(k)
<1> DEFINE u == UnitOf[e]
           posted == req[r].posted
           amount == req[r].amount
<1>1. /\ u \in Units /\ posted \in BOOLEAN /\ amount \in Nat \ {0} /\ unit[u].book \in Int
      /\ k = req[r].key /\ e = EventOf[k] /\ kind[e] \in {"write_down", "trade_out"}
      /\ kind[e] \notin Births /\ kind[e] # "cost" /\ unit[u].exists
  BY DEF Works, ApplyTaken, Births
<1>2. row[k] = NoRow /\ component[e] = 0
  BY <1>1 DEF MayApply, RowsHold
<1> DEFINE b == IF posted THEN unit[u].book - amount ELSE unit[u].book
           d == unit[u].disposed \/ (posted /\ kind[e] = "trade_out")
<1>3. /\ unit'[u].book = b
      /\ unit'[u].exists = unit[u].exists
      /\ \A v \in Units \ {u} : unit'[v] = unit[v]
  <2>1. unit' = [unit EXCEPT ![u].book = b, ![u].disposed = d]
    BY <1>1 DEF ApplyTaken, TypeOK
  <2> HIDE DEF b, d, u
  <2> QED
    BY <1>1, <2>1 DEF TypeOK
<1>4. /\ \A l \in EventKeys \ {k} : row'[l] = row[l]
      /\ row'[k] # NoRow /\ row'[k].taken = (IF posted THEN amount ELSE 0)
      /\ (row'[k].status = "POSTED") = posted
  <2>1. WriteRow(k, posted, amount)
    BY <1>1 DEF ApplyTaken
  <2> QED
    BY <1>1, <1>2, <2>1, WriteRowType
<1>5. component' = component
  BY DEF ApplyTaken
<1>6. RowsHold' /\ \A l \in EventKeys \ {k} : Moved(l)' = Moved(l)
  <2>1. \A v \in Units : unit'[v].exists = unit[v].exists
    BY <1>3
  <2>2. component'[e] = component[e] /\ \A f \in Events \ {e} : component'[f] = component[f]
    BY <1>5
  <2>3. UnitOf[e] \in Units /\ unit[UnitOf[e]].exists /\ (kind[e] = "cost" => k = e)
    BY <1>1
  <2> HIDE DEF u, posted, amount, b, d
  <2> QED
    BY <1>1, <1>2, <1>4, <2>1, <2>2, <2>3, OtherRows
<1>7. Moved(k) = 0 /\ Moved(k)' = IF posted THEN 0 - amount ELSE 0
  BY <1>1, <1>2, <1>4, <1>5 DEF Moved, NoRow
<1>8. unit'[u].book = unit[u].book + (Moved(k)' - Moved(k))
  BY <1>1, <1>3, <1>7
<1> QED
  BY <1>1, <1>2, <1>3, <1>4, <1>6, <1>8 DEF MovesUnit

(* Such a transaction adds to the unit what it adds to the sum of the rows.       *)
LEMMA MovesBook ==
  ASSUME TypeOK, TypeOK', BookInv, NEW k \in EventKeys, MovesUnit(k), UNCHANGED kind
  PROVE  BirthsHold' /\ BookFollowsRows'
<1> DEFINE u == UnitOf[EventOf[k]]
<1>0. u \in Units /\ k \in KeysOf(u) /\ EventOf[k] \in Events
  BY KeyFacts
<1>1. \A l \in EventKeys : row[l] # NoRow => row'[l] # NoRow
  BY DEF MovesUnit
<1>2. \A v \in Units : BirthRows(v) \subseteq BirthRows(v)'
  BY <1>1 DEF BirthRows, KeysOf
<1>3. BirthsHold'
  <2> SUFFICES ASSUME NEW v \in Units
               PROVE  IF unit'[v].exists THEN BirthRows(v)' # {} ELSE unit'[v].book = 0
    BY DEF BirthsHold
  <2>1. CASE v = u /\ kind[EventOf[k]] \in Births
    <3>1. k \in BirthRows(u)'
      BY <1>0, <2>1 DEF BirthRows, MovesUnit, KeysOf
    <3> QED
      BY <2>1, <3>1 DEF MovesUnit
  <2>2. CASE v = u /\ unit[u].exists
    BY <1>2, <2>2 DEF MovesUnit, BookInv, BirthsHold
  <2>3. CASE v # u
    BY <1>2, <2>3 DEF MovesUnit, BookInv, BirthsHold
  <2> QED
    BY <2>1, <2>2, <2>3 DEF MovesUnit
<1>4. BookFollowsRows'
  <2> DEFINE before == RowMoves
             after == RowMoves'
  <2> SUFFICES ASSUME NEW v \in Units, OneBirth(v)'
               PROVE  unit'[v].book = SumFunctionOnSet(after, KeysOf(v))
    BY DEF BookFollowsRows, RowMoves, KeysOf
  <2>1. IsFiniteSet(KeysOf(v)) /\ KeysOf(v) \subseteq EventKeys
    BY KeyFacts
  <2>2. \A l \in EventKeys : before[l] \in Int /\ after[l] \in Int
    <3>1. \A l \in EventKeys : Moved(l) \in Int
      BY MovedType
    <3>2. \A l \in EventKeys : Moved(l)' \in Int
      BY KeyFacts DEF TypeOK, Moved
    <3> QED
      BY <3>1, <3>2 DEF RowMoves
  <2>3. \A l \in EventKeys \ {k} : before[l] = after[l]
    BY DEF RowMoves, MovesUnit
  <2>4. OneBirth(v)
    BY <1>2 DEF OneBirth
  <2>5. unit[v].book = SumFunctionOnSet(before, KeysOf(v)) /\ unit[v].book \in Int
    BY <2>4 DEF BookInv, BookFollowsRows, RowMoves, TypeOK
  <2>6. before[k] = Moved(k) /\ after[k] = Moved(k)'
    BY DEF RowMoves
  <2> HIDE DEF before, after
  <2>7. CASE v = u
    <3>1. SumFunctionOnSet(after, KeysOf(v))
            = SumFunctionOnSet(before, KeysOf(v)) - before[k] + after[k]
      BY <1>0, <2>1, <2>2, <2>3, <2>7, SumChange
    <3>2. unit'[v].book = unit[v].book + (after[k] - before[k])
      BY <2>6, <2>7 DEF MovesUnit
    <3> QED
      BY <2>2, <2>5, <3>1, <3>2
  <2>8. CASE v # u
    <3>1. \A l \in KeysOf(v) : before[l] = after[l]
      BY <2>1, <2>3, <2>8 DEF KeysOf
    <3>2. SumFunctionOnSet(before, KeysOf(v)) = SumFunctionOnSet(after, KeysOf(v))
      BY <2>1, <3>1, SumSame
    <3>3. unit'[v] = unit[v]
      BY <2>8 DEF MovesUnit
    <3> QED
      BY <2>5, <3>2, <3>3
  <2> QED
    BY <2>7, <2>8
<1> QED
  BY <1>3, <1>4

\* What RequestsHold says of one request.
Knows(x) ==
  /\ kind[x.event] \in Births \/ unit[UnitOf[x.event]].exists
  /\ kind[x.event] = "cost" => x.key = x.event
  /\ x.amount # 0
  /\ x.pc = "write" => kind[x.event] \in Births

(* A unit is never taken away, so what a request saw of it stays.                 *)
LEMMA RequestsKeep ==
  ASSUME TypeOK, RequestsHold, UNCHANGED kind,
         \A v \in Units : unit[v].exists => unit'[v].exists,
         \A r \in Requests :
           \/ req'[r].pc = "idle"
           \/ /\ req[r].pc # "idle" /\ req'[r].event = req[r].event
              /\ req'[r].key = req[r].key /\ req'[r].amount = req[r].amount
              /\ req'[r].pc = "write" => req[r].pc = "write" \/ kind[req[r].event] \in Births
           \/ req'[r].event \in Events /\ Knows(req'[r])
  PROVE  RequestsHold'
<1> SUFFICES ASSUME NEW r \in Requests, req'[r].pc # "idle"
             PROVE  /\ kind[req'[r].event] \in Births \/ unit'[UnitOf[req'[r].event]].exists
                    /\ kind[req'[r].event] = "cost" => req'[r].key = req'[r].event
                    /\ req'[r].amount # 0
                    /\ req'[r].pc = "write" => kind[req'[r].event] \in Births
  BY DEF RequestsHold
<1>1. CASE /\ req[r].pc # "idle" /\ req'[r].event = req[r].event
           /\ req'[r].key = req[r].key /\ req'[r].amount = req[r].amount
           /\ req'[r].pc = "write" => req[r].pc = "write" \/ kind[req[r].event] \in Births
  <2>1. UnitOf[req[r].event] \in Units
    BY <1>1, AtWork, KeyFacts
  <2> QED
    BY <1>1, <2>1 DEF RequestsHold
<1>2. CASE req'[r].event \in Events /\ Knows(req'[r])
  BY <1>2, KeyFacts DEF Knows
<1> QED
  BY <1>1, <1>2

LEMMA BookUnchanged ==
  ASSUME BookInv, UNCHANGED <<kind, unit, component, row>>, RequestsHold' PROVE BookInv'
  BY DEF BookInv, RowsHold, BirthsHold, BookFollowsRows, Moved, OneBirth, BirthRows, KeysOf

(* A request that begins has seen its unit, and its amount is not nothing.        *)
LEMMA ReadKnows ==
  ASSUME TypeOK, RequestsHold, NEW r \in Requests, NEW k \in EventKeys, Reads(r, k)
  PROVE  RequestsHold'
<1> DEFINE e == EventOf[k]
           u == UnitOf[e]
<1>0. /\ e \in Events /\ u \in Units /\ Cost[e] \in Nat \ {0} /\ unit[u].book \in Int
      /\ e \in EventKeys
  BY KeyFacts, VehicleAssumption DEF TypeOK
<1>1. PICK pc \in {"submit", "apply"}, amount \in Nat \ {0} :
        /\ Begins(r, k, pc, amount)
        /\ kind[e] \in Births \/ unit[u].exists
        /\ kind[e] = "cost" => k = e
  <2>1. CASE BringIn(r, k) \/ AddCost(r, k)
    BY <1>0, <2>1 DEF BringIn, AddCost, KeyedByEvent
  <2>2. CASE WriteDown(r, k)
    <3>1. unit[u].book - Cost[e] \in Nat \ {0} /\ kind[e] # "cost" /\ unit[u].exists
      BY <1>0, <2>2 DEF WriteDown
    <3>2. PICK pc \in {"submit", "apply"} : Begins(r, k, pc, unit[u].book - Cost[e])
      BY <2>2 DEF WriteDown
    <3> QED
      BY <3>1, <3>2
  <2>3. CASE TradeOut(r, k)
    <3>1. unit[u].book \in Nat \ {0} /\ kind[e] # "cost" /\ unit[u].exists
      BY <1>0, <2>3 DEF TradeOut
    <3>2. Begins(r, k, "submit", unit[u].book)
      BY <2>3 DEF TradeOut
    <3> QED
      BY <3>1, <3>2
  <2> QED
    BY <2>1, <2>2, <2>3 DEF Reads
<1>2. /\ req' = [req EXCEPT ![r] = [pc |-> pc, event |-> e, key |-> k,
                                  amount |-> amount, posted |-> FALSE]]
      /\ UNCHANGED <<kind, unit>>
  BY <1>1 DEF Begins
<1>3. Knows(req'[r]) /\ req'[r].event \in Events
  BY <1>0, <1>1, <1>2 DEF Knows, TypeOK
<1>4. \A q \in Requests \ {r} : req'[q] = req[q]
  BY <1>2 DEF TypeOK
<1> QED
  BY <1>2, <1>3, <1>4, RequestsKeep

LEMMA BookStep == IInv /\ IInv' /\ BookInv /\ [Next]_vars => BookInv'
<1> SUFFICES ASSUME IInv, IInv', BookInv, [Next]_vars PROVE BookInv'
  OBVIOUS
<1>0. TypeOK /\ TypeOK' /\ RowsHold /\ BirthsHold /\ RequestsHold
  BY DEF IInv, BookInv
<1>1. ASSUME NEW r \in Requests, NEW e \in Events, Apply(r, e) \/ WriteBirth(r, e)
      PROVE  BookInv'
  <2>1. /\ req[r].pc # "idle" /\ req[r].event = e
        /\ req' = [req EXCEPT ![r] = Idle] /\ UNCHANGED kind
    BY <1>1 DEF Apply, WriteBirth, At
  <2> DEFINE k == req[r].key
  <2>2. Works(r, e, k) /\ k \in EventKeys
    BY <1>0, <2>1, AtWorks, AtWork
  <2>3. CASE Apply(r, e) /\ ~MayApply(k)
    <3>1. UNCHANGED <<kind, unit, component, row>>
      BY <2>3 DEF Apply
    <3>2. RequestsHold'
      BY <1>0, <2>1, <3>1, RequestsKeep DEF TypeOK, Idle
    <3> QED
      BY <3>1, <3>2, BookUnchanged
  <2>4. CASE WriteBirth(r, e) \/ (Apply(r, e) /\ MayApply(k))
    <3>1. RowsHold' /\ MovesUnit(k)
      <4>1. CASE WriteBirth(r, e)
        <5>1. kind[e] \in Births
          BY <1>0, <2>1, <4>1 DEF WriteBirth, At, RequestsHold, Births
        <5> QED
          BY <1>0, <2>1, <2>2, <4>1, <5>1, BirthMoves
      <4>2. CASE Apply(r, e) /\ MayApply(k)
        <5>1. ApplyCost(r, e) \/ ApplyTaken(r, e)
          BY <4>2 DEF Apply
        <5> QED
          BY <1>0, <2>1, <2>2, <4>2, <5>1, CostMoves, TakenMoves
      <4> QED
        BY <2>4, <4>1, <4>2
    <3>2. BirthsHold' /\ BookFollowsRows'
      BY <1>0, <2>1, <2>2, <3>1, MovesBook
    <3>3. \A v \in Units : unit[v].exists => unit'[v].exists
      BY <3>1 DEF MovesUnit
    <3>4. RequestsHold'
      BY <1>0, <2>1, <3>3, RequestsKeep DEF TypeOK, Idle
    <3> QED
      BY <3>1, <3>2, <3>4 DEF BookInv
  <2> QED
    BY <1>1, <2>3, <2>4
<1>2. ASSUME NEW r \in Requests, NEW k \in EventKeys, Reads(r, k) PROVE BookInv'
  <2>1. UNCHANGED <<kind, unit, component, row>>
    BY <1>0, <1>2, ReadStep
  <2>2. RequestsHold'
    BY <1>0, <1>2, ReadKnows
  <2> QED
    BY <2>1, <2>2, BookUnchanged
<1>3. ASSUME NEW r \in Requests, NEW e \in Events, Submit(r, e) \/ EngineAnswers(r, e)
      PROVE  BookInv'
  <2>1. UNCHANGED <<kind, unit, component, row>> /\ req[r].pc # "idle"
    BY <1>3 DEF Submit, EngineAnswers, At
  <2>2. \A q \in Requests :
          /\ req[q].pc # "idle" \/ req'[q] = req[q]
          /\ req'[q].event = req[q].event /\ req'[q].key = req[q].key
          /\ req'[q].amount = req[q].amount /\ (req'[q].pc = "write" => req[q].pc = "write")
    <3>1. CASE \E s : Answered(r, s)
      <4>1. PICK s : Answered(r, s)
        BY <3>1
      <4>2. req'[r].pc # "write"
        <5> DEFINE posted == (s = "POSTED")
        <5>1. req' = [req EXCEPT ![r].pc = "apply", ![r].posted = posted]
          BY <4>1 DEF Answered
        <5> HIDE DEF posted
        <5> QED
          BY <1>0, <5>1 DEF TypeOK
      <4> QED
        BY <1>0, <2>1, <4>1, <4>2, AnsweredType
    <3>2. CASE req' = [req EXCEPT ![r].pc = "waiting"]
      BY <1>0, <2>1, <3>2 DEF TypeOK
    <3> QED
      BY <1>3, <3>1, <3>2 DEF Submit, EngineAnswers
  <2>3. RequestsHold'
    <3>1. UNCHANGED <<kind, unit>> /\ \A v \in Units : unit[v].exists => unit'[v].exists
      BY <2>1
    <3>2. \A q \in Requests :
            \/ req'[q].pc = "idle"
            \/ /\ req[q].pc # "idle" /\ req'[q].event = req[q].event
               /\ req'[q].key = req[q].key /\ req'[q].amount = req[q].amount
               /\ req'[q].pc = "write" => req[q].pc = "write" \/ kind[req[q].event] \in Births
      BY <2>2
    <3> QED
      BY <1>0, <3>1, <3>2, RequestsKeep
  <2> QED
    BY <2>1, <2>3, BookUnchanged
<1>4. ASSUME NEW r \in Requests, RequestDies(r) PROVE BookInv'
  <2>1. UNCHANGED <<kind, unit, component, row>>
    BY <1>4 DEF RequestDies
  <2>2. RequestsHold'
    BY <1>0, <1>4, <2>1, RequestsKeep DEF RequestDies, TypeOK, Idle
  <2> QED
    BY <2>1, <2>2, BookUnchanged
<1>5. CASE UNCHANGED <<kind, unit, component, row, req>>
  BY <1>0, <1>5, BookUnchanged DEF RequestsHold
<1>6. ASSUME NEW r \in Requests, NEW e \in Events, LookUp(r, e) \/ Collides(r, e)
      PROVE  BookInv'
  <2>1. /\ UNCHANGED <<kind, unit, component, row>> /\ req[r].pc # "idle"
        /\ req[r].event = e
    BY <1>6 DEF LookUp, Collides, At
  <2>2. req'[r].pc = "idle" \/
          /\ req'[r].event = req[r].event /\ req'[r].key = req[r].key
          /\ req'[r].amount = req[r].amount
          /\ req'[r].pc = "write" => kind[req[r].event] \in Births
    BY <1>0, <1>6, <2>1 DEF LookUp, Collides, TypeOK, Idle, Births
  <2>3. \A q \in Requests \ {r} : req'[q] = req[q]
    BY <1>0, <1>6 DEF LookUp, Collides, TypeOK
  <2>4. RequestsHold'
    <3>1. UNCHANGED <<kind, unit>> /\ \A v \in Units : unit[v].exists => unit'[v].exists
      BY <2>1
    <3>2. \A q \in Requests :
            \/ req'[q].pc = "idle"
            \/ /\ req[q].pc # "idle" /\ req'[q].event = req[q].event
               /\ req'[q].key = req[q].key /\ req'[q].amount = req[q].amount
               /\ req'[q].pc = "write" => req[q].pc = "write" \/ kind[req[q].event] \in Births
      BY <2>1, <2>2, <2>3
    <3> QED
      BY <1>0, <3>1, <3>2, RequestsKeep
  <2> QED
    BY <2>1, <2>4, BookUnchanged
<1> QED
  BY <1>1, <1>2, <1>3, <1>4, <1>5, <1>6 DEF Next, RequestStep, EngineMoves, vars

(* The book value of a unit that one row brought in is what its posted rows say    *)
(* they added and took (vehicle-unit-service.ts, lcnrv-service.ts and              *)
(* dealer-trade-service.ts), however deliveries of the same and of other events,   *)
(* under one key or several, overlap, find each other's rows and die.              *)
THEOREM BookFollows == Spec => []BookFollowsRows
<1>1. Init => BookInv
  <2> SUFFICES ASSUME Init PROVE BookInv
    OBVIOUS
  <2>1. RowsHold /\ BirthsHold /\ RequestsHold
    BY DEF Init, RowsHold, BirthsHold, RequestsHold, NoUnit, Idle
  <2>2. BookFollowsRows
    <3> SUFFICES ASSUME NEW u \in Units
                 PROVE  unit[u].book = SumFunctionOnSet(RowMoves, KeysOf(u))
      BY DEF BookFollowsRows, RowMoves
    <3>1. IsFiniteSet(KeysOf(u)) /\ KeysOf(u) \subseteq EventKeys
      BY KeyFacts
    <3>2. \A k \in KeysOf(u) : RowMoves[k] = 0
      BY <3>1 DEF Init, RowMoves, Moved, NoRow
    <3>3. SumFunctionOnSet(RowMoves, KeysOf(u)) = 0
      BY <3>1, <3>2, SumOfZeros
    <3> QED
      BY <3>3 DEF Init, NoUnit
  <2> QED
    BY <2>1, <2>2 DEF BookInv
<1>2. BookInv => BookFollowsRows
  BY DEF BookInv
<1> QED
  BY <1>1, <1>2, BookStep, Invariance, PTL DEF Spec
(* OpenItems: the tables and their types.                                           *)

\* The two tables, which only grow.
ItemsOK == /\ item \in Seq(Item) /\ Len(item) <= MaxItems
           /\ \A i \in DOMAIN item : item[i].remaining <= item[i].original

AppsOK == app \in Seq(App) /\ Len(app) <= MaxApps

\* What refers to an item refers to one that exists, and parts come after the whole.
RefersOK ==
  /\ \A a \in DOMAIN app : app[a].item \in DOMAIN item
  /\ \A j \in DOMAIN item : item[j].parent < j
  /\ \A r \in WriteOffs :
       \/ writeOff[r] = NoWriteOff
       \/ /\ writeOff[r].pc = "posting" /\ writeOff[r].key \in Keys
          /\ writeOff[r].item \in DOMAIN item
  /\ \A l \in Lines : line[l].writes_off \in {0} \cup DOMAIN item

\* A line that is not there is no entry of a write-off, and was not processed.
LinesOK ==
  \A l \in Lines : line[l].kind = "none" => line[l].writes_off = 0 /\ l \notin detail

TableInv == ItemsTypeOK /\ RefersOK /\ LinesOK

LEMMA TableFacts ==
  ASSUME ItemsTypeOK
  PROVE  /\ Len(item) \in Nat /\ DOMAIN item = 1 .. Len(item) /\ Len(item) <= MaxItems
         /\ \A i \in DOMAIN item : item[i] \in Item /\ item[i].remaining <= item[i].original
         /\ Len(app) \in Nat /\ DOMAIN app = 1 .. Len(app) /\ Len(app) <= MaxApps
         /\ \A a \in DOMAIN app : app[a] \in App
  BY LenProperties, ElementOfSeq DEF ItemsTypeOK

LEMMA StatusType == \A original, remaining : StatusOf(original, remaining) \in Status
  BY DEF StatusOf, Status

\* What stays of an item when its balance is set.
SameItem(x, y) ==
  /\ x.original = y.original /\ x.parent = y.parent /\ x.written_off = y.written_off

LEMMA SetRemainingType ==
  ASSUME ItemsTypeOK, NEW i \in DOMAIN item, NEW n \in 0 .. item[i].original
  PROVE  /\ SetRemaining(i, n) \in Item /\ SetRemaining(i, n).remaining = n
         /\ SameItem(SetRemaining(i, n), item[i])
<1>1. item[i] \in Item /\ n \in Nat
  BY TableFacts DEF Item
<1> QED
  BY <1>1, StatusType DEF SetRemaining, Item, SameItem

LEMMA ClosedType ==
  ASSUME ItemsTypeOK, NEW i \in DOMAIN item
  PROVE  Closed(i) \in Item /\ Closed(i).remaining = 0 /\ SameItem(Closed(i), item[i])
  BY TableFacts DEF Closed, Item, SameItem, Status

LEMMA AppendItem ==
  ASSUME NEW s \in Seq(Item), Len(s) < MaxItems, NEW x \in Item, x.remaining <= x.original,
         \A i \in DOMAIN s : s[i].remaining <= s[i].original,
         item' = Append(s, x)
  PROVE  /\ ItemsOK' /\ Len(item') = Len(s) + 1 /\ item'[Len(s) + 1] = x
         /\ \A i \in 1 .. Len(s) : item'[i] = s[i]
<1>1. /\ item' \in Seq(Item) /\ Len(item') = Len(s) + 1 /\ item'[Len(s) + 1] = x
      /\ \A i \in 1 .. Len(s) : item'[i] = s[i]
      /\ Len(s) \in Nat /\ DOMAIN s = 1 .. Len(s)
  BY AppendProperties, LenProperties
<1>2. DOMAIN item' = 1 .. Len(s) + 1
  BY <1>1, LenProperties
<1> QED
  BY <1>1, <1>2, ScheduleAssumption DEF ItemsOK

LEMMA ReplaceItem ==
  ASSUME ItemsTypeOK, NEW i \in DOMAIN item, NEW x \in Item, x.remaining <= x.original,
         NEW s, s = [item EXCEPT ![i] = x]
  PROVE  /\ s \in Seq(Item) /\ Len(s) = Len(item) /\ DOMAIN s = DOMAIN item
         /\ s[i] = x /\ \A j \in DOMAIN item \ {i} : s[j] = item[j]
         /\ \A j \in DOMAIN s : s[j].remaining <= s[j].original
<1>1. item \in Seq(Item) /\ i \in 1 .. Len(item) /\ DOMAIN item = 1 .. Len(item)
  BY TableFacts DEF ItemsTypeOK
<1>2. /\ s \in Seq(Item) /\ Len(s) = Len(item) /\ DOMAIN s = 1 .. Len(s)
      /\ \A j \in 1 .. Len(item) : s[j] = IF j = i THEN x ELSE item[j]
  BY <1>1, ExceptSeq, LenProperties
<1> QED
  BY <1>1, <1>2, TableFacts

LEMMA AppendApp ==
  ASSUME NEW s \in Seq(App), Len(s) < MaxApps, NEW x \in App, app' = Append(s, x)
  PROVE  /\ AppsOK' /\ Len(app') = Len(s) + 1 /\ DOMAIN app' = 1 .. Len(s) + 1
         /\ app'[Len(s) + 1] = x /\ \A a \in 1 .. Len(s) : app'[a] = s[a]
<1>1. /\ app' \in Seq(App) /\ Len(app') = Len(s) + 1 /\ app'[Len(s) + 1] = x
      /\ \A a \in 1 .. Len(s) : app'[a] = s[a]
      /\ Len(s) \in Nat
  BY AppendProperties, LenProperties
<1>2. DOMAIN app' = 1 .. Len(s) + 1
  BY <1>1, LenProperties
<1> QED
  BY <1>1, <1>2, ScheduleAssumption DEF AppsOK
-----------------------------------------------------------------------------
(* OpenItems: what a step does to the balance of an item.                           *)

Net(i) == SumFunctionOnSet(AmountOf, AppsOf(i))
Carried(i) == SumFunctionOnSet(OriginalOf, PartsFrom(i))

\* The tables grow, and what is added refers to what was there.
Grows ==
  /\ DOMAIN item \subseteq DOMAIN item' /\ DOMAIN app \subseteq DOMAIN app'
  /\ \A i \in DOMAIN item :
       item'[i].original = item[i].original /\ item'[i].parent = item[i].parent
  /\ \A i \in DOMAIN item' \ DOMAIN item :
       /\ item'[i].remaining = item'[i].original /\ item'[i].written_off = 0
       /\ item'[i].parent \in 0 .. Len(item)
  /\ \A a \in DOMAIN app : /\ app'[a].item = app[a].item /\ app'[a].by = app[a].by
                           /\ app'[a].amount = app[a].amount
  /\ \A a \in DOMAIN app' \ DOMAIN app :
       app'[a].item \in DOMAIN item /\ app'[a].amount \in Int

Balanced ==
  \A i \in DOMAIN item :
    item'[i].remaining + item'[i].written_off + Net(i)' + Carried(i)'
      = item[i].remaining + item[i].written_off + Net(i) + Carried(i)

Effect == ItemsOK' /\ AppsOK' /\ Grows /\ Balanced

LEMMA SumTypes ==
  ASSUME ItemsTypeOK
  PROVE  /\ IsFiniteSet(DOMAIN app) /\ IsFiniteSet(DOMAIN item)
         /\ \A a \in DOMAIN app : AmountOf[a] = app[a].amount /\ AmountOf[a] \in Int
         /\ \A j \in DOMAIN item : OriginalOf[j] = item[j].original /\ OriginalOf[j] \in Int
         /\ \A i : Net(i) \in Int /\ Carried(i) \in Int
         /\ \A i \in DOMAIN item : item[i].remaining \in Int /\ item[i].written_off \in Int
<1>1. IsFiniteSet(DOMAIN app) /\ IsFiniteSet(DOMAIN item)
  BY TableFacts, FS_Interval
<1>2. \A a \in DOMAIN app : AmountOf[a] = app[a].amount /\ AmountOf[a] \in Int
  BY TableFacts DEF AmountOf, App
<1>3. \A j \in DOMAIN item : OriginalOf[j] = item[j].original /\ OriginalOf[j] \in Int
  BY TableFacts DEF OriginalOf, Item
<1>4. ASSUME NEW i PROVE Net(i) \in Int
  <2>1. AppsOf(i) \subseteq DOMAIN app
    BY DEF AppsOf
  <2> QED
    BY <1>1, <1>2, <2>1, FS_Subset, SumType DEF Net
<1>5. ASSUME NEW i PROVE Carried(i) \in Int
  <2>1. PartsFrom(i) \subseteq DOMAIN item
    BY DEF PartsFrom
  <2> QED
    BY <1>1, <1>3, <2>1, FS_Subset, SumType DEF Carried
<1> QED
  BY <1>1, <1>2, <1>3, <1>4, <1>5, TableFacts DEF Item

LEMMA NetNext ==
  ASSUME ItemsTypeOK, Grows, NEW i
  PROVE  /\ (\A a \in DOMAIN app' \ DOMAIN app : app'[a].item # i) => Net(i)' = Net(i)
         /\ \A x \in DOMAIN app' \ DOMAIN app :
              (\A a \in DOMAIN app' \ DOMAIN app : app'[a].item = i <=> a = x)
                => Net(i)' = Net(i) + app'[x].amount
<1> DEFINE f == AmountOf
           g == AmountOf'
           S == AppsOf(i)
<1>1. S \subseteq DOMAIN app /\ IsFiniteSet(S)
      /\ \A a \in S : f[a] \in Int /\ g[a] = f[a]
  <2>1. S \subseteq DOMAIN app /\ DOMAIN app \subseteq DOMAIN app'
    BY DEF AppsOf, Grows
  <2>2. \A a \in DOMAIN app : g[a] = app'[a].amount /\ f[a] = app[a].amount
    BY <2>1 DEF AmountOf
  <2> QED
    BY <2>1, <2>2, SumTypes, FS_Subset DEF Grows
<1>2. AppsOf(i)' = S \cup {a \in DOMAIN app' \ DOMAIN app : app'[a].item = i}
  BY DEF AppsOf, Grows
<1>3. ASSUME \A a \in DOMAIN app' \ DOMAIN app : app'[a].item # i
      PROVE  Net(i)' = Net(i)
  <2>1. AppsOf(i)' = S
    BY <1>2, <1>3
  <2> QED
    BY <1>1, <2>1, SumSame DEF Net
<1>4. ASSUME NEW x \in DOMAIN app' \ DOMAIN app,
             \A a \in DOMAIN app' \ DOMAIN app : app'[a].item = i <=> a = x
      PROVE  Net(i)' = Net(i) + app'[x].amount
  <2>1. AppsOf(i)' = S \cup {x} /\ x \notin S
    BY <1>1, <1>2, <1>4
  <2>2. g[x] = app'[x].amount /\ g[x] \in Int
    BY <1>4 DEF AmountOf, Grows
  <2> QED
    BY <1>1, <2>1, <2>2, SumGrows DEF Net
<1> QED
  BY <1>3, <1>4

LEMMA CarriedNext ==
  ASSUME ItemsTypeOK, Grows, ItemsOK', NEW i
  PROVE  /\ (\A j \in DOMAIN item' \ DOMAIN item : item'[j].parent # i)
              => Carried(i)' = Carried(i)
         /\ \A x \in DOMAIN item' \ DOMAIN item :
              (\A j \in DOMAIN item' \ DOMAIN item : item'[j].parent = i <=> j = x)
                => Carried(i)' = Carried(i) + item'[x].original
         /\ \A x, y \in DOMAIN item' \ DOMAIN item :
              x # y /\ (\A j \in DOMAIN item' \ DOMAIN item : item'[j].parent = i <=> j \in {x, y})
                => Carried(i)' = Carried(i) + item'[x].original + item'[y].original
<1> DEFINE f == OriginalOf
           g == OriginalOf'
           S == PartsFrom(i)
<1>1. S \subseteq DOMAIN item /\ IsFiniteSet(S)
      /\ \A j \in S : f[j] \in Int /\ g[j] = f[j]
  <2>1. S \subseteq DOMAIN item /\ DOMAIN item \subseteq DOMAIN item'
    BY DEF PartsFrom, Grows
  <2>2. \A j \in DOMAIN item : g[j] = item'[j].original /\ f[j] = item[j].original
    BY <2>1 DEF OriginalOf
  <2> QED
    BY <2>1, <2>2, SumTypes, FS_Subset DEF Grows
<1>2. PartsFrom(i)' = S \cup {j \in DOMAIN item' \ DOMAIN item : item'[j].parent = i}
  BY DEF PartsFrom, Grows
<1>3. \A j \in DOMAIN item' : g[j] = item'[j].original /\ g[j] \in Int
  <2>1. item' \in Seq(Item)
    BY DEF ItemsOK
  <2>2. \A j \in DOMAIN item' : item'[j] \in Item
    BY <2>1, LenProperties, ElementOfSeq
  <2>3. \A j \in DOMAIN item' : g[j] = item'[j].original
    BY DEF OriginalOf
  <2> QED
    BY <2>2, <2>3 DEF Item
<1>4. ASSUME \A j \in DOMAIN item' \ DOMAIN item : item'[j].parent # i
      PROVE  Carried(i)' = Carried(i)
  <2>1. PartsFrom(i)' = S
    BY <1>2, <1>4
  <2> QED
    BY <1>1, <2>1, SumSame DEF Carried
<1>5. ASSUME NEW x \in DOMAIN item' \ DOMAIN item,
             \A j \in DOMAIN item' \ DOMAIN item : item'[j].parent = i <=> j = x
      PROVE  Carried(i)' = Carried(i) + item'[x].original
  <2>1. PartsFrom(i)' = S \cup {x} /\ x \notin S
    BY <1>1, <1>2, <1>5
  <2> QED
    BY <1>1, <1>3, <2>1, SumGrows DEF Carried
<1>6. ASSUME NEW x \in DOMAIN item' \ DOMAIN item, NEW y \in DOMAIN item' \ DOMAIN item, x # y,
             \A j \in DOMAIN item' \ DOMAIN item : item'[j].parent = i <=> j \in {x, y}
      PROVE  Carried(i)' = Carried(i) + item'[x].original + item'[y].original
  <2>1. PartsFrom(i)' = (S \cup {x}) \cup {y} /\ x \notin S /\ y \notin S \cup {x}
    BY <1>1, <1>2, <1>6
  <2>2. SumFunctionOnSet(g, S \cup {x}) = SumFunctionOnSet(f, S) + g[x]
    BY <1>1, <1>3, <2>1, SumGrows
  <2>3. IsFiniteSet(S \cup {x}) /\ \A j \in (S \cup {x}) \cup {y} : g[j] \in Int
    BY <1>1, <1>3, FS_AddElement
  <2>4. SumFunctionOnSet(g, (S \cup {x}) \cup {y}) = SumFunctionOnSet(g, S \cup {x}) + g[y]
    BY <2>1, <2>3, SumAdd
  <2> QED
    BY <1>3, <2>1, <2>2, <2>4 DEF Carried
<1> QED
  BY <1>4, <1>5, <1>6

\* What is new has no applications and no parts yet.
LEMMA NewAreClear ==
  ASSUME TableInv, Grows, NEW i \in DOMAIN item' \ DOMAIN item, i \in Nat, i > Len(item)
  PROVE  Net(i)' = 0 /\ Carried(i)' = 0
<1>1. \A a \in DOMAIN app' : app'[a].item \in DOMAIN item
  BY DEF TableInv, RefersOK, Grows
<1>2. AppsOf(i)' = {}
  BY <1>1 DEF AppsOf
<1>3. \A j \in DOMAIN item' : item'[j].parent # i
  <2>1. \A j \in DOMAIN item : item[j].parent < j /\ item[j].parent \in Int /\ j <= Len(item)
    BY TableFacts DEF TableInv, RefersOK, Item
  <2>2. Len(item) \in Nat
    BY TableFacts DEF TableInv
  <2> QED
    BY <2>1, <2>2, TableFacts DEF Grows, TableInv
<1>4. PartsFrom(i)' = {}
  BY <1>3 DEF PartsFrom
<1> QED
  BY <1>2, <1>4, SumOfNone DEF Net, Carried

LEMMA ConservedNext == ASSUME TableInv, Conserved, Effect PROVE Conserved'
<1> SUFFICES ASSUME NEW i \in DOMAIN item'
             PROVE  item'[i].original
                      = item'[i].remaining + item'[i].written_off + Net(i)' + Carried(i)'
  BY DEF Conserved, Net, Carried
<1>1. CASE i \in DOMAIN item
  <2>1. item[i].original = item[i].remaining + item[i].written_off + Net(i) + Carried(i)
    BY <1>1 DEF Conserved, Net, Carried
  <2> QED
    BY <1>1, <2>1 DEF Effect, Grows, Balanced
<1>2. CASE i \notin DOMAIN item
  <2>1. DOMAIN item' = 1 .. Len(item') /\ item'[i] \in Item /\ Len(item') \in Nat
    BY LenProperties, ElementOfSeq DEF Effect, ItemsOK
  <2>2. i \in Nat /\ i > Len(item) /\ Len(item) \in Nat
    BY <1>2, <2>1, TableFacts DEF TableInv
  <2>3. Net(i)' = 0 /\ Carried(i)' = 0
    BY <1>2, <2>2, NewAreClear DEF Effect
  <2>4. item'[i].original \in Nat
    BY <2>1 DEF Item
  <2> QED
    BY <1>2, <2>3, <2>4 DEF Effect, Grows
<1> QED
  BY <1>1, <1>2
-----------------------------------------------------------------------------
(* OpenItems: the effect of each operation on the tables.                           *)

\* One item changes its balance, and the applications on it by as much.
LEMMA ApplyToEffect ==
  ASSUME TableInv, NEW i \in DOMAIN item, NEW amount \in Int,
         NEW by \in Lines \cup Keys \cup {None},
         InBounds(i, item[i].remaining - amount), ApplyTo(i, amount, by)
  PROVE  /\ Effect
         /\ \A j \in DOMAIN item : item'[j].written_off = item[j].written_off
         /\ \A a \in DOMAIN app' \ DOMAIN app : app'[a].by = by
<1> DEFINE n == item[i].remaining - amount
           x == NewApp(i, amount, by, 0)
<1>0. ItemsTypeOK /\ RefersOK
  BY DEF TableInv
<1>1. item[i] \in Item /\ n \in 0 .. item[i].original
  BY <1>0, TableFacts DEF InBounds, Item
<1>2. /\ SetRemaining(i, n) \in Item /\ SetRemaining(i, n).remaining = n
      /\ SameItem(SetRemaining(i, n), item[i])
  BY <1>0, <1>1, SetRemainingType
<1>3. SetRemaining(i, n).remaining <= SetRemaining(i, n).original
  BY <1>1, <1>2 DEF SameItem
<1>4. item' = [item EXCEPT ![i] = SetRemaining(i, n)]
  BY DEF ApplyTo
<1> HIDE DEF n, x
<1>5. /\ item' \in Seq(Item) /\ Len(item') = Len(item) /\ DOMAIN item' = DOMAIN item
      /\ item'[i] = SetRemaining(i, n) /\ \A j \in DOMAIN item \ {i} : item'[j] = item[j]
      /\ \A j \in DOMAIN item' : item'[j].remaining <= item'[j].original
  BY <1>0, <1>2, <1>3, <1>4, ReplaceItem
<1>6. ItemsOK'
  BY <1>0, <1>5, TableFacts DEF ItemsOK
<1> USE DEF x
<1>7. /\ x \in App /\ x.item = i /\ x.amount = amount /\ x.by = by
  <2>1. i \in 1 .. MaxItems /\ 0 \in 0 .. MaxApps
    BY <1>0, TableFacts, ScheduleAssumption
  <2> QED
    BY <2>1 DEF NewApp, App
<1>8. app \in Seq(App) /\ Len(app) < MaxApps /\ app' = Append(app, x)
  <2>1. app' = Append(app, x)
    BY DEF ApplyTo
  <2>2. Len(app) < MaxApps
    BY DEF ApplyTo, RoomForApp
  <2>3. app \in Seq(App)
    BY <1>0 DEF ItemsTypeOK
  <2> QED
    BY <2>1, <2>2, <2>3
<1> HIDE DEF x
<1>9. /\ AppsOK' /\ DOMAIN app' = 1 .. Len(app) + 1
      /\ app'[Len(app) + 1] = x /\ \A a \in 1 .. Len(app) : app'[a] = app[a]
  BY <1>7, <1>8, AppendApp
<1>10. /\ DOMAIN app = 1 .. Len(app) /\ DOMAIN app' \ DOMAIN app = {Len(app) + 1}
  BY <1>0, <1>9, TableFacts
<1>11. Grows
  BY <1>2, <1>5, <1>7, <1>9, <1>10 DEF Grows, SameItem
<1>12. \A j : Carried(j)' = Carried(j)
  BY <1>0, <1>5, <1>6, <1>11, CarriedNext
<1>13. Net(i)' = Net(i) + amount /\ \A j \in DOMAIN item \ {i} : Net(j)' = Net(j)
  BY <1>0, <1>7, <1>9, <1>10, <1>11, NetNext
<1>14. Balanced
  <2> SUFFICES ASSUME NEW j \in DOMAIN item
               PROVE  item'[j].remaining + item'[j].written_off + Net(j)' + Carried(j)'
                        = item[j].remaining + item[j].written_off + Net(j) + Carried(j)
    BY DEF Balanced
  <2>1. CASE j = i
    <3>1. /\ item'[i].remaining = item[i].remaining - amount
          /\ item'[i].written_off = item[i].written_off
      BY <1>2, <1>5 DEF n, SameItem
    <3> QED
      BY <1>0, <1>12, <1>13, <2>1, <3>1, SumTypes
  <2>2. CASE j # i
    BY <1>5, <1>12, <1>13, <2>2
  <2> QED
    BY <2>1, <2>2
<1>15. \A j \in DOMAIN item : item'[j].written_off = item[j].written_off
  BY <1>2, <1>5 DEF SameItem
<1> QED
  BY <1>6, <1>7, <1>9, <1>10, <1>11, <1>14, <1>15 DEF Effect

LEMMA UnchangedEffect ==
  ASSUME TableInv, UNCHANGED <<item, app>>
  PROVE  /\ Effect
         /\ \A j \in DOMAIN item : item'[j].written_off = item[j].written_off
         /\ DOMAIN app' \ DOMAIN app = {}
<1>1. ItemsOK' /\ AppsOK'
  BY DEF TableInv, ItemsTypeOK, ItemsOK, AppsOK
<1>2. Grows
  BY DEF Grows
<1>3. \A i : Net(i)' = Net(i) /\ Carried(i)' = Carried(i)
  BY <1>1, <1>2, NetNext, CarriedNext DEF TableInv
<1> QED
  BY <1>1, <1>2, <1>3 DEF Effect, Balanced

LEMMA OpensItemEffect ==
  ASSUME TableInv, NEW l \in Lines, OpensItem(l)
  PROVE  /\ Effect
         /\ \A j \in DOMAIN item : item'[j].written_off = item[j].written_off
         /\ DOMAIN app' \ DOMAIN app = {}
<1> DEFINE x == NewItem(Magnitude(line[l].amount), line[l].control, line[l].number,
                        line[l].date, 0)
<1>0. ItemsTypeOK /\ RefersOK
  BY DEF TableInv
<1>1. /\ x \in Item /\ x.remaining = x.original /\ x.written_off = 0 /\ x.parent = 0
      /\ x.original \in Nat
  <2>1. line[l] \in Line
    BY <1>0 DEF ItemsTypeOK
  <2>2. /\ Magnitude(line[l].amount) \in Nat /\ line[l].control \in Controls
        /\ line[l].number \in Numbers \cup {None} /\ line[l].date \in Nat
    BY <2>1 DEF Line, Magnitude
  <2>3. 0 \in 0 .. MaxItems
    BY ScheduleAssumption
  <2> QED
    BY <2>2, <2>3 DEF NewItem, Item, Status
<1>2. /\ item' = Append(item, x) /\ Len(item) < MaxItems /\ item \in Seq(Item)
      /\ app' = app
  BY <1>0, TableFacts, ScheduleAssumption DEF OpensItem, RoomForItems, ItemsTypeOK
<1> HIDE DEF x
<1>3. /\ ItemsOK' /\ Len(item') = Len(item) + 1 /\ item'[Len(item) + 1] = x
      /\ \A i \in 1 .. Len(item) : item'[i] = item[i]
  BY <1>0, <1>1, <1>2, AppendItem, TableFacts
<1>4. /\ DOMAIN item = 1 .. Len(item) /\ DOMAIN item' = 1 .. Len(item) + 1
      /\ DOMAIN item' \ DOMAIN item = {Len(item) + 1} /\ Len(item) \in Nat
  BY <1>0, <1>3, TableFacts, LenProperties DEF ItemsOK
<1>5. AppsOK'
  BY <1>0, <1>2 DEF ItemsTypeOK, AppsOK
<1>6. Grows
  BY <1>1, <1>2, <1>3, <1>4 DEF Grows
<1>7. \A i : Net(i)' = Net(i)
  BY <1>0, <1>2, <1>6, NetNext
<1>8. \A i \in DOMAIN item : Carried(i)' = Carried(i)
  BY <1>0, <1>1, <1>3, <1>4, <1>6, CarriedNext
<1> QED
  BY <1>2, <1>3, <1>4, <1>5, <1>6, <1>7, <1>8 DEF Effect, Balanced

LEMMA ReverseEffect ==
  ASSUME TableInv, NEW a \in DOMAIN app, ReverseApplication(a)
  PROVE  /\ Effect
         /\ \A j \in DOMAIN item : item'[j].written_off = item[j].written_off
         /\ \A b \in DOMAIN app' \ DOMAIN app : app'[b].by = None
<1>i. PICK i : i = app[a].item
  OBVIOUS
<1> DEFINE n == item[i].remaining - Reversal(a)
           was == [app EXCEPT ![a].reversed = TRUE]
           x == NewApp(i, Reversal(a), None, a)
<1>0. ItemsTypeOK /\ RefersOK
  BY DEF TableInv
<1>1. /\ i \in DOMAIN item /\ app[a] \in App /\ app[a].amount \in Int
      /\ Reversal(a) = -app[a].amount
  BY <1>0, <1>i, TableFacts DEF RefersOK, App, Reversal
<1>2. item[i] \in Item /\ n \in 0 .. item[i].original
  BY <1>0, <1>1, <1>i, TableFacts DEF ReverseApplication, InBounds, Item
<1>3. /\ SetRemaining(i, n) \in Item /\ SetRemaining(i, n).remaining = n
      /\ SameItem(SetRemaining(i, n), item[i])
  BY <1>0, <1>1, <1>2, SetRemainingType
<1>4. /\ item' = [item EXCEPT ![i] = SetRemaining(i, n)]
      /\ app' = Append(was, x) /\ Len(app) < MaxApps
  BY <1>i DEF ReverseApplication, RoomForApp
<1>5. SetRemaining(i, n).remaining <= SetRemaining(i, n).original
  BY <1>2, <1>3 DEF SameItem
<1>6. /\ x \in App /\ x.item = i /\ x.amount = -app[a].amount /\ x.by = None
  <2>1. i \in 1 .. MaxItems /\ a \in 0 .. MaxApps /\ Reversal(a) \in Int
    BY <1>0, <1>1, TableFacts, ScheduleAssumption
  <2> QED
    BY <1>1, <2>1 DEF NewApp, App
<1>7. /\ was \in Seq(App) /\ Len(was) = Len(app)
      /\ \A b \in DOMAIN app : /\ was[b].item = app[b].item /\ was[b].by = app[b].by
                               /\ was[b].amount = app[b].amount
  <2>1. app \in Seq(App) /\ a \in 1 .. Len(app) /\ DOMAIN app = 1 .. Len(app)
    BY <1>0, TableFacts DEF ItemsTypeOK
  <2>2. [app[a] EXCEPT !.reversed = TRUE] \in App
    BY <1>1 DEF App
  <2>3. was = [app EXCEPT ![a] = [app[a] EXCEPT !.reversed = TRUE]]
    BY <2>1
  <2>4. /\ was \in Seq(App) /\ Len(was) = Len(app)
        /\ \A b \in 1 .. Len(app) :
             was[b] = IF b = a THEN [app[a] EXCEPT !.reversed = TRUE] ELSE app[b]
    BY <2>1, <2>2, <2>3, ExceptSeq
  <2> QED
    BY <1>1, <2>1, <2>4 DEF App
<1> HIDE DEF n, x, was
<1>8. /\ item' \in Seq(Item) /\ Len(item') = Len(item) /\ DOMAIN item' = DOMAIN item
      /\ item'[i] = SetRemaining(i, n) /\ \A j \in DOMAIN item \ {i} : item'[j] = item[j]
      /\ \A j \in DOMAIN item' : item'[j].remaining <= item'[j].original
  BY <1>0, <1>1, <1>3, <1>4, <1>5, ReplaceItem
<1>9. ItemsOK'
  BY <1>0, <1>8, TableFacts DEF ItemsOK
<1>10. /\ AppsOK' /\ DOMAIN app' = 1 .. Len(app) + 1
       /\ app'[Len(app) + 1] = x /\ \A b \in 1 .. Len(app) : app'[b] = was[b]
  BY <1>4, <1>6, <1>7, AppendApp
<1>11. /\ DOMAIN app = 1 .. Len(app) /\ DOMAIN app' \ DOMAIN app = {Len(app) + 1}
  BY <1>0, <1>10, TableFacts
<1>12. Grows
  <2>1. \A b \in DOMAIN app : /\ app'[b].item = app[b].item /\ app'[b].by = app[b].by
                             /\ app'[b].amount = app[b].amount
    BY <1>7, <1>10, <1>11
  <2>2. \A b \in DOMAIN app' \ DOMAIN app :
          app'[b].item \in DOMAIN item /\ app'[b].amount \in Int
    BY <1>1, <1>6, <1>10, <1>11
  <2>3. DOMAIN app \subseteq DOMAIN app'
    BY <1>0, <1>10, <1>11, TableFacts
  <2> QED
    BY <1>3, <1>8, <2>1, <2>2, <2>3 DEF Grows, SameItem
<1>13. \A j : Carried(j)' = Carried(j)
  BY <1>0, <1>8, <1>9, <1>12, CarriedNext
<1>14. Net(i)' = Net(i) - app[a].amount /\ \A j \in DOMAIN item \ {i} : Net(j)' = Net(j)
  <2>1. /\ \A j \in DOMAIN item \ {i} : Net(j)' = Net(j)
        /\ \A j : j = i => Net(j)' = Net(j) + app'[Len(app) + 1].amount
    BY <1>0, <1>6, <1>10, <1>11, <1>12, NetNext
  <2>2. Net(i) \in Int
    BY <1>0, SumTypes
  <2> QED
    BY <1>1, <1>6, <1>10, <2>1, <2>2
<1>15. Balanced
  <2> SUFFICES ASSUME NEW j \in DOMAIN item
               PROVE  item'[j].remaining + item'[j].written_off + Net(j)' + Carried(j)'
                        = item[j].remaining + item[j].written_off + Net(j) + Carried(j)
    BY DEF Balanced
  <2>1. CASE j = i
    <3>1. /\ item'[j].remaining = item[j].remaining + app[a].amount
          /\ item'[j].written_off = item[j].written_off
      <4>1. item'[j].remaining = n /\ item'[j].written_off = item[j].written_off
        BY <1>3, <1>8, <2>1 DEF SameItem
      <4>2. item[i].remaining \in Int
        BY <1>2 DEF Item
      <4> QED
        BY <1>1, <2>1, <4>1, <4>2 DEF n
    <3>2. /\ Net(j) \in Int /\ Carried(j) \in Int /\ item[j].remaining \in Int
          /\ item[j].written_off \in Int
      BY <1>0, SumTypes
    <3>3. Net(j)' = Net(j) - app[a].amount /\ Carried(j)' = Carried(j)
      BY <1>13, <1>14, <2>1
    <3> QED
      BY <1>1, <3>1, <3>2, <3>3
  <2>2. CASE j # i
    BY <1>8, <1>13, <1>14, <2>2
  <2> QED
    BY <2>1, <2>2
<1>16. \A j \in DOMAIN item : item'[j].written_off = item[j].written_off
  BY <1>3, <1>8 DEF SameItem
<1> QED
  BY <1>6, <1>9, <1>10, <1>11, <1>12, <1>15, <1>16 DEF Effect

LEMMA ConcatIs ==
  ASSUME NEW S, NEW s \in Seq(S), NEW t \in Seq(S)
  PROVE  /\ s \o t \in Seq(S) /\ Len(s \o t) = Len(s) + Len(t)
         /\ \A j \in 1 .. Len(s) + Len(t) :
              (s \o t)[j] = IF j <= Len(s) THEN s[j] ELSE t[j - Len(s)]
  BY ConcatProperties, Zenon

LEMMA SplitEffect ==
  ASSUME TableInv, NEW key \in Keys, NEW i \in DOMAIN item, SplitOpenItem(key, i)
  PROVE  /\ Effect
         /\ \A j \in DOMAIN item : item'[j].written_off = item[j].written_off
<1>0. ItemsTypeOK /\ RefersOK
  BY DEF TableInv
<1>1. PICK p \in PartsOf(i) :
        item' = [item EXCEPT ![i] = Closed(i)]
                \o [n \in 1..2 |-> NewItem(p[n], item[i].control, None, item[i].date, i)]
  BY DEF SplitOpenItem
<1> DEFINE was == [item EXCEPT ![i] = Closed(i)]
           x == NewItem(p[1], item[i].control, None, item[i].date, i)
           y == NewItem(p[2], item[i].control, None, item[i].date, i)
           new == [n \in 1..2 |-> NewItem(p[n], item[i].control, None, item[i].date, i)]
           len == Len(item)
<1>2. /\ item[i] \in Item /\ item[i].remaining \in Nat /\ p[1] \in Nat /\ p[2] \in Nat
      /\ p[1] + p[2] = item[i].remaining
      /\ len \in Nat /\ len + 2 <= MaxItems /\ i \in 1 .. MaxItems /\ i \in 1 .. len
  <2>1. len \in Nat /\ DOMAIN item = 1 .. len /\ MaxItems \in Nat /\ item[i] \in Item
    BY <1>0, TableFacts, ScheduleAssumption
  <2>2. len + 2 <= MaxItems
    BY DEF SplitOpenItem, RoomForItems
  <2>3. item[i].remaining \in Nat
    BY <2>1 DEF Item
  <2> QED
    BY <2>1, <2>2, <2>3 DEF PartsOf
<1>3. /\ Closed(i) \in Item /\ Closed(i).remaining = 0 /\ SameItem(Closed(i), item[i])
      /\ Closed(i).remaining <= Closed(i).original
  BY <1>0, <1>2, ClosedType DEF SameItem, Item
<1>4. /\ x \in Item /\ x.original = p[1] /\ x.remaining = p[1] /\ x.parent = i
      /\ x.written_off = 0
      /\ y \in Item /\ y.original = p[2] /\ y.remaining = p[2] /\ y.parent = i
      /\ y.written_off = 0
  BY <1>2 DEF NewItem, Item, Status
<1>5. new \in Seq(Item) /\ Len(new) = 2 /\ new[1] = x /\ new[2] = y
  BY <1>4
<1> HIDE DEF x, y, new
<1>6. /\ was \in Seq(Item) /\ Len(was) = len /\ DOMAIN was = DOMAIN item
      /\ was[i] = Closed(i) /\ \A j \in DOMAIN item \ {i} : was[j] = item[j]
      /\ \A j \in DOMAIN was : was[j].remaining <= was[j].original
  BY <1>0, <1>3, ReplaceItem
<1>7. item' = was \o new
  BY <1>1 DEF new
<1> HIDE DEF was
<1>8. /\ item' \in Seq(Item) /\ Len(item') = len + 2
      /\ \A j \in 1 .. len + 2 : item'[j] = IF j <= len THEN was[j] ELSE new[j - len]
  <2>1. /\ item' \in Seq(Item) /\ Len(item') = Len(was) + Len(new)
        /\ \A j \in 1 .. Len(was) + Len(new) :
             item'[j] = IF j <= Len(was) THEN was[j] ELSE new[j - Len(was)]
    <3>1. /\ was \o new \in Seq(Item) /\ Len(was \o new) = Len(was) + Len(new)
          /\ \A j \in 1 .. Len(was) + Len(new) :
               (was \o new)[j] = IF j <= Len(was) THEN was[j] ELSE new[j - Len(was)]
      <4>1. was \in Seq(Item) /\ new \in Seq(Item)
        BY <1>5, <1>6
      <4> QED
        BY <4>1, ConcatIs, Zenon
    <3> QED
      BY <1>7, <3>1
  <2> QED
    BY <1>5, <1>6, <2>1
<1>9. /\ DOMAIN item = 1 .. len /\ DOMAIN item' = 1 .. len + 2
      /\ DOMAIN item' \ DOMAIN item = {len + 1, len + 2} /\ len + 1 # len + 2
  <2>1. DOMAIN item = 1 .. len /\ DOMAIN item' = 1 .. len + 2
    BY <1>0, <1>8, TableFacts, LenProperties
  <2> QED
    BY <1>2, <2>1
<1>10. /\ \A j \in DOMAIN item : item'[j] = was[j]
       /\ item'[len + 1] = x /\ item'[len + 2] = y
  BY <1>2, <1>5, <1>8, <1>9
<1> HIDE DEF len
<1>11. ItemsOK'
  <2>1. \A j \in DOMAIN item' : item'[j].remaining <= item'[j].original
    BY <1>2, <1>4, <1>6, <1>9, <1>10
  <2> QED
    BY <1>2, <1>8, <2>1 DEF ItemsOK
<1>12. AppsOK' /\ app' = app
  BY <1>0 DEF ItemsTypeOK, AppsOK, SplitOpenItem
<1>13. Grows
  <2>1. i \in 0 .. Len(item)
    BY <1>2 DEF len
  <2> QED
    BY <1>3, <1>4, <1>6, <1>9, <1>10, <1>12, <2>1 DEF Grows, SameItem
<1>14. \A j : Net(j)' = Net(j)
  BY <1>0, <1>12, <1>13, NetNext
<1>15. \A j \in DOMAIN item \ {i} : Carried(j)' = Carried(j)
  BY <1>0, <1>4, <1>9, <1>10, <1>11, <1>13, CarriedNext
<1>16. \A j : j = i => Carried(j)' = Carried(j) + p[1] + p[2]
  BY <1>0, <1>4, <1>9, <1>10, <1>11, <1>13, CarriedNext
<1>17. Balanced
  <2> SUFFICES ASSUME NEW j \in DOMAIN item
               PROVE  item'[j].remaining + item'[j].written_off + Net(j)' + Carried(j)'
                        = item[j].remaining + item[j].written_off + Net(j) + Carried(j)
    BY DEF Balanced
  <2>1. CASE j = i
    <3>1. item'[j].remaining = 0 /\ item'[j].written_off = item[j].written_off
      BY <1>3, <1>6, <1>10, <2>1 DEF SameItem
    <3>2. Net(j) \in Int /\ Carried(j) \in Int /\ item[j].written_off \in Int
      BY <1>0, SumTypes
    <3> QED
      BY <1>2, <1>14, <1>16, <2>1, <3>1, <3>2
  <2>2. CASE j # i
    BY <1>6, <1>10, <1>14, <1>15, <2>2
  <2> QED
    BY <2>1, <2>2
<1>18. \A j \in DOMAIN item : item'[j].written_off = item[j].written_off
  BY <1>3, <1>6, <1>10 DEF SameItem
<1> QED
  BY <1>11, <1>12, <1>13, <1>17, <1>18 DEF Effect

LEMMA TransferEffect ==
  ASSUME TableInv, NEW key \in Keys, NEW i \in DOMAIN item, NEW control \in Controls,
         NEW number \in Numbers, TransferOpenItem(key, i, control, number)
  PROVE  /\ Effect
         /\ \A j \in DOMAIN item : item'[j].written_off = item[j].written_off
<1> DEFINE was == [item EXCEPT ![i] = Closed(i)]
           x == NewItem(item[i].remaining, control, number, item[i].date, i)
           len == Len(item)
<1>0. ItemsTypeOK /\ RefersOK
  BY DEF TableInv
<1>1. item' = Append(was, x) /\ app' = app /\ len + 1 <= MaxItems
  BY DEF TransferOpenItem, RoomForItems
<1>2. /\ item[i] \in Item /\ item[i].remaining \in Nat
      /\ len \in Nat /\ len < MaxItems /\ i \in 1 .. MaxItems /\ i \in 1 .. len
  <2>1. len \in Nat /\ DOMAIN item = 1 .. len /\ MaxItems \in Nat /\ item[i] \in Item
    BY <1>0, TableFacts, ScheduleAssumption
  <2>2. item[i].remaining \in Nat
    BY <2>1 DEF Item
  <2> QED
    BY <1>1, <2>1, <2>2
<1>3. /\ Closed(i) \in Item /\ Closed(i).remaining = 0 /\ SameItem(Closed(i), item[i])
      /\ Closed(i).remaining <= Closed(i).original
  BY <1>0, <1>2, ClosedType DEF SameItem, Item
<1>4. /\ x \in Item /\ x.original = item[i].remaining /\ x.remaining = item[i].remaining
      /\ x.parent = i /\ x.written_off = 0
  BY <1>2 DEF NewItem, Item, Status
<1> HIDE DEF x
<1>5. /\ was \in Seq(Item) /\ Len(was) = len /\ DOMAIN was = DOMAIN item
      /\ was[i] = Closed(i) /\ \A j \in DOMAIN item \ {i} : was[j] = item[j]
      /\ \A j \in DOMAIN was : was[j].remaining <= was[j].original
  BY <1>0, <1>3, ReplaceItem
<1> HIDE DEF was
<1>6. /\ ItemsOK' /\ Len(item') = len + 1 /\ item'[len + 1] = x
      /\ \A j \in 1 .. len : item'[j] = was[j]
  <2>1. x.remaining <= x.original /\ Len(was) < MaxItems /\ item' = Append(was, x)
    BY <1>1, <1>2, <1>4, <1>5
  <2>2. /\ ItemsOK' /\ Len(item') = Len(was) + 1 /\ item'[Len(was) + 1] = x
        /\ \A j \in 1 .. Len(was) : item'[j] = was[j]
    BY <1>4, <1>5, <2>1, AppendItem
  <2> QED
    BY <1>5, <2>2
<1>7. /\ DOMAIN item = 1 .. len /\ DOMAIN item' = 1 .. len + 1
      /\ DOMAIN item' \ DOMAIN item = {len + 1}
  BY <1>0, <1>2, <1>6, TableFacts, LenProperties DEF ItemsOK
<1>8. AppsOK'
  BY <1>0, <1>1 DEF ItemsTypeOK, AppsOK
<1>9. Grows
  <2>1. i \in 0 .. Len(item)
    BY <1>2
  <2> QED
    BY <1>1, <1>3, <1>4, <1>5, <1>6, <1>7, <2>1 DEF Grows, SameItem
<1>10. \A j : Net(j)' = Net(j)
  BY <1>0, <1>1, <1>9, NetNext
<1>11. \A j \in DOMAIN item \ {i} : Carried(j)' = Carried(j)
  BY <1>0, <1>4, <1>6, <1>7, <1>9, CarriedNext
<1>12. \A j : j = i => Carried(j)' = Carried(j) + item[i].remaining
  BY <1>0, <1>4, <1>6, <1>7, <1>9, CarriedNext
<1>13. Balanced
  <2> SUFFICES ASSUME NEW j \in DOMAIN item
               PROVE  item'[j].remaining + item'[j].written_off + Net(j)' + Carried(j)'
                        = item[j].remaining + item[j].written_off + Net(j) + Carried(j)
    BY DEF Balanced
  <2>1. CASE j = i
    <3>1. item'[j].remaining = 0 /\ item'[j].written_off = item[j].written_off
      BY <1>3, <1>5, <1>6, <1>7, <2>1 DEF SameItem
    <3>2. Net(j) \in Int /\ Carried(j) \in Int /\ item[j].written_off \in Int
      BY <1>0, SumTypes
    <3> QED
      BY <1>2, <1>10, <1>12, <2>1, <3>1, <3>2
  <2>2. CASE j # i
    BY <1>5, <1>6, <1>7, <1>10, <1>11, <2>2
  <2> QED
    BY <2>1, <2>2
<1>14. \A j \in DOMAIN item : item'[j].written_off = item[j].written_off
  BY <1>3, <1>5, <1>6, <1>7 DEF SameItem
<1> QED
  BY <1>6, <1>8, <1>9, <1>13, <1>14 DEF Effect

\* A write-off moves what remains of an item into what was written off.
LEMMA CommitEffect ==
  ASSUME TableInv, NEW r \in WriteOffs, CommitWriteOff(r)
  PROVE  /\ Effect
         /\ writeOff[r].item \in DOMAIN item
         /\ \A j \in DOMAIN item : item'[j].written_off =
              IF j = writeOff[r].item THEN item[j].written_off + writeOff[r].seen
                                      ELSE item[j].written_off
<1>i. PICK i : i = writeOff[r].item
  OBVIOUS
<1> DEFINE x == WrittenOff(i, writeOff[r].seen)
<1>0. ItemsTypeOK /\ RefersOK
  BY DEF TableInv
<1>1. /\ i \in DOMAIN item /\ item[i] \in Item /\ writeOff[r].seen \in Nat
      /\ item[i].remaining = writeOff[r].seen
  BY <1>0, <1>i, TableFacts DEF RefersOK, CommitWriteOff, Unchanged, ItemsTypeOK, NoWriteOff
<1>2. item' = [item EXCEPT ![i] = x] /\ app' = app
  BY <1>i DEF CommitWriteOff
<1>3. /\ x \in Item /\ x.remaining = 0 /\ x.original = item[i].original
      /\ x.parent = item[i].parent /\ x.written_off = item[i].written_off + writeOff[r].seen
      /\ x.remaining <= x.original
  <2>1. item[i].written_off + writeOff[r].seen \in Nat /\ item[i].original \in Nat
    BY <1>1 DEF Item
  <2> DEFINE y == [item[i] EXCEPT !.remaining = 0]
             z == [y EXCEPT !.status = "WRITTEN_OFF"]
  <2>2. /\ y \in Item /\ y.remaining = 0 /\ y.original = item[i].original
        /\ y.parent = item[i].parent /\ y.written_off = item[i].written_off
    BY <1>1 DEF Item
  <2>3. x = [z EXCEPT !.written_off = @ + writeOff[r].seen]
    BY DEF WrittenOff
  <2> HIDE DEF y
  <2>4. /\ z \in Item /\ z.remaining = 0 /\ z.original = item[i].original
        /\ z.parent = item[i].parent /\ z.written_off = item[i].written_off
    BY <2>2 DEF Item, Status
  <2> HIDE DEF x, z
  <2> QED
    BY <2>1, <2>3, <2>4 DEF Item
<1> HIDE DEF x
<1>4. /\ item' \in Seq(Item) /\ Len(item') = Len(item) /\ DOMAIN item' = DOMAIN item
      /\ item'[i] = x /\ \A j \in DOMAIN item \ {i} : item'[j] = item[j]
      /\ \A j \in DOMAIN item' : item'[j].remaining <= item'[j].original
  <2>1. /\ i \in DOMAIN item /\ x \in Item /\ x.remaining <= x.original
        /\ item' = [item EXCEPT ![i] = x]
    BY <1>1, <1>2, <1>3
  <2> QED
    BY <1>0, <2>1, ReplaceItem
<1>5. ItemsOK' /\ AppsOK'
  BY <1>0, <1>2, <1>4, TableFacts DEF ItemsOK, AppsOK, ItemsTypeOK
<1>6. Grows
  BY <1>2, <1>3, <1>4 DEF Grows
<1>7. \A j : Carried(j)' = Carried(j) /\ Net(j)' = Net(j)
  BY <1>0, <1>2, <1>4, <1>5, <1>6, CarriedNext, NetNext
<1>8. Balanced
  <2> SUFFICES ASSUME NEW j \in DOMAIN item
               PROVE  item'[j].remaining + item'[j].written_off + Net(j)' + Carried(j)'
                        = item[j].remaining + item[j].written_off + Net(j) + Carried(j)
    BY DEF Balanced
  <2>1. CASE j = i
    BY <1>0, <1>1, <1>3, <1>4, <1>7, <2>1, SumTypes
  <2>2. CASE j # i
    BY <1>4, <1>7, <2>2
  <2> QED
    BY <2>1, <2>2
<1> QED
  BY <1>1, <1>3, <1>4, <1>5, <1>6, <1>8, <1>i DEF Effect
-----------------------------------------------------------------------------
(* OpenItems: the sweep gives to the oldest first, and no more than there is.       *)

LEMMA LargerOf == \A a, b \in Int : Max({a, b}) = IF a >= b THEN a ELSE b
<1> SUFFICES ASSUME NEW a \in Int, NEW b \in Int
             PROVE  Max({a, b}) = IF a >= b THEN a ELSE b
  OBVIOUS
<1>1. \E x \in {a, b} : \A y \in {a, b} : x >= y
  OBVIOUS
<1>2. Max({a, b}) \in {a, b} /\ \A y \in {a, b} : Max({a, b}) >= y
  BY <1>1 DEF Max
<1> QED
  BY <1>2

LEMMA SmallerOf == \A a, b \in Int : Min({a, b}) = IF a <= b THEN a ELSE b
<1> SUFFICES ASSUME NEW a \in Int, NEW b \in Int
             PROVE  Min({a, b}) = IF a <= b THEN a ELSE b
  OBVIOUS
<1>1. \E x \in {a, b} : \A y \in {a, b} : x <= y
  OBVIOUS
<1>2. Min({a, b}) \in {a, b} /\ \A y \in {a, b} : Min({a, b}) <= y
  BY <1>1 DEF Min
<1> QED
  BY <1>2

\* Older is a strict total order.
LEMMA AgesAreOrdered ==
  ASSUME ItemsTypeOK, NEW i \in DOMAIN item, NEW j \in DOMAIN item
  PROVE  /\ ~Older(i, i) /\ (Older(i, j) => ~Older(j, i))
         /\ i # j => Older(i, j) \/ Older(j, i)
         /\ \A k \in DOMAIN item : Older(i, j) /\ Older(j, k) => Older(i, k)
<1>1. /\ \A k \in DOMAIN item : item[k].date \in Nat /\ k \in Nat
  BY TableFacts DEF Item
<1> QED
  BY <1>1 DEF Older

LEMMA NewestExists ==
  ASSUME ItemsTypeOK, NEW S \in SUBSET DOMAIN item, S # {}
  PROVE  \E x \in S : \A y \in S \ {x} : Older(y, x)
<1> DEFINE Newest(T, x) == \A y \in T \ {x} : Older(y, x)
           Bad == {T \in SUBSET S : T # {} /\ ~\E x \in T : Newest(T, x)}
<1>0. IsFiniteSet(S)
  BY SumTypes, FS_Subset
<1>1. SUFFICES ASSUME Bad # {} PROVE FALSE
  OBVIOUS
<1>2. PICK T \in Bad : \A U \in SUBSET T : U # T => U \notin Bad
  <2>1. Bad \in SUBSET SUBSET S
    OBVIOUS
  <2> HIDE DEF Bad
  <2> QED
    BY <1>0, <1>1, <2>1, MinimalSubset
<1>3. PICK z \in T : TRUE
  BY <1>2
<1>4. T \ {z} # {}
  BY <1>2, <1>3
<1>5. PICK w \in T \ {z} : Newest(T \ {z}, w)
  <2>1. T \ {z} \in SUBSET S /\ T \ {z} \notin Bad
    BY <1>2, <1>3
  <2> QED
    BY <1>4, <2>1
<1>6. z \in DOMAIN item /\ w \in DOMAIN item /\ z # w /\ T \subseteq DOMAIN item
  BY <1>2, <1>3, <1>5
<1>7. CASE Older(z, w)
  BY <1>2, <1>5, <1>7
<1>8. CASE Older(w, z)
  <2>1. \A y \in T \ {z, w} : Older(y, w) /\ y \in DOMAIN item
    BY <1>5, <1>6
  <2>2. Newest(T, z)
    BY <1>6, <1>8, <2>1, AgesAreOrdered
  <2> QED
    BY <1>2, <1>3, <2>2
<1> QED
  BY <1>6, <1>7, <1>8, AgesAreOrdered

\* What the sweep gives to each item, as a function.
PortionOf(control, amount) == [i \in DOMAIN item |-> Portion(control, amount, i)]

\* What can be given of an amount when so much can be taken.
Given(amount, room) ==
  IF amount <= 0 THEN 0 ELSE IF amount <= room THEN amount ELSE room

LEMMA RemainingType ==
  ASSUME ItemsTypeOK
  PROVE  /\ \A i \in DOMAIN item : RemainingOf[i] = item[i].remaining /\ RemainingOf[i] \in Nat
         /\ \A S \in SUBSET DOMAIN item : IsFiniteSet(S) /\ Remaining(S) \in Nat
<1>1. \A i \in DOMAIN item : RemainingOf[i] = item[i].remaining /\ RemainingOf[i] \in Nat
  BY TableFacts DEF RemainingOf, Item
<1>2. ASSUME NEW S \in SUBSET DOMAIN item PROVE IsFiniteSet(S) /\ Remaining(S) \in Nat
  <2>1. IsFiniteSet(S)
    BY SumTypes, FS_Subset
  <2> QED
    BY <1>1, <2>1, SumNat DEF Remaining
<1> QED
  BY <1>1, <1>2

LEMMA PortionIs ==
  ASSUME ItemsTypeOK, NEW control, NEW amount \in Int, NEW i \in DOMAIN item
  PROVE  LET left == amount - Remaining({j \in NotClosed(control) : Older(j, i)})
         IN  /\ Portion(control, amount, i) = Given(left, item[i].remaining)
             /\ Portion(control, amount, i) \in 0 .. item[i].remaining
             /\ PortionOf(control, amount)[i] = Portion(control, amount, i)
<1> DEFINE R == Remaining({j \in NotClosed(control) : Older(j, i)})
           left == amount - R
           here == item[i].remaining
<1>1. R \in Nat /\ here \in Nat
  <2>1. {j \in NotClosed(control) : Older(j, i)} \in SUBSET DOMAIN item
    BY DEF NotClosed
  <2> QED
    BY <2>1, RemainingType
<1>2. Portion(control, amount, i) = Max({0, Min({left, here})})
  BY DEF Portion
<1>3. PortionOf(control, amount)[i] = Portion(control, amount, i)
  BY DEF PortionOf
<1> HIDE DEF R, here
<1>4. left \in Int
  BY <1>1
<1>5. Min({left, here}) = IF left <= here THEN left ELSE here
  BY <1>1, <1>4, SmallerOf
<1>6. Max({0, Min({left, here})}) = Given(left, here)
  BY <1>1, <1>4, <1>5, LargerOf DEF Given
<1>7. Given(left, here) \in 0 .. here
  BY <1>1, <1>4 DEF Given
<1> QED
  BY <1>2, <1>3, <1>6, <1>7 DEF R, here

\* The older ones are served before: the sums over what is oldest decide.
LEMMA GivenInAll ==
  ASSUME ItemsTypeOK, NEW control, NEW amount \in Int
  PROVE  SumFunctionOnSet(PortionOf(control, amount), NotClosed(control))
           = Given(amount, Remaining(NotClosed(control)))
<1> DEFINE N == NotClosed(control)
           p == PortionOf(control, amount)
           Total(T) == SumFunctionOnSet(p, T)
           Front(T) == \A i \in T, j \in N : Older(j, i) => j \in T
           Bad == {T \in SUBSET N : Front(T) /\ Total(T) # Given(amount, Remaining(T))}
<1>0. N \in SUBSET DOMAIN item /\ IsFiniteSet(N)
  BY RemainingType DEF NotClosed
<1>1. SUFFICES ASSUME Bad # {} PROVE FALSE
  <2>1. N \in SUBSET N /\ Front(N)
    OBVIOUS
  <2> HIDE DEF Front, Total, p, N
  <2> QED
    BY <2>1 DEF Total, p, N
<1>2. PICK T \in Bad : \A U \in SUBSET T : U # T => U \notin Bad
  <2>1. Bad \in SUBSET SUBSET N
    OBVIOUS
  <2> HIDE DEF Bad
  <2> QED
    BY <1>0, <1>1, <2>1, MinimalSubset
<1>3. T \in SUBSET N /\ T \in SUBSET DOMAIN item /\ IsFiniteSet(T) /\ Front(T)
      /\ Total(T) # Given(amount, Remaining(T))
  BY <1>0, <1>2, FS_Subset
<1>4. T # {}
  <2>1. Total({}) = 0 /\ Remaining({}) = 0
    BY SumOfNone DEF Remaining
  <2> QED
    BY <1>3, <2>1 DEF Given
<1>5. PICK x \in T : \A y \in T \ {x} : Older(y, x)
  BY <1>3, <1>4, NewestExists
<1>6. /\ T \ {x} \in SUBSET N /\ T \ {x} \in SUBSET DOMAIN item /\ x \in DOMAIN item
  BY <1>3
<1>7. Front(T \ {x})
  BY <1>0, <1>3, <1>5, <1>6, AgesAreOrdered
<1>8. {j \in N : Older(j, x)} = T \ {x}
  <2>1. ~Older(x, x)
    BY <1>6, AgesAreOrdered
  <2> QED
    BY <1>3, <1>5, <2>1
<1>9. Total(T \ {x}) = Given(amount, Remaining(T \ {x}))
  BY <1>2, <1>6, <1>7
<1>10. \A i \in DOMAIN item : p[i] \in Int /\ RemainingOf[i] \in Int
  <2>1. \A i \in DOMAIN item : RemainingOf[i] \in Int /\ item[i].remaining \in Nat
    BY RemainingType
  <2>2. \A i \in DOMAIN item : p[i] \in 0 .. item[i].remaining
    BY PortionIs
  <2> QED
    BY <2>1, <2>2
<1>11. p[x] = Given(amount - Remaining(T \ {x}), item[x].remaining)
  BY <1>6, <1>8, PortionIs
<1>12. Total(T) = p[x] + Total(T \ {x})
  BY <1>3, <1>10, SumRemove
<1>13. Remaining(T) = item[x].remaining + Remaining(T \ {x})
  BY <1>3, <1>6, <1>10, SumRemove, RemainingType DEF Remaining
<1>14. Remaining(T \ {x}) \in Nat /\ item[x].remaining \in Nat
  BY <1>6, RemainingType
<1> HIDE DEF p, Total
<1> QED
  BY <1>3, <1>9, <1>11, <1>12, <1>13, <1>14 DEF Given

\* The applications that a sweep adds, in the order of the items.
LEMMA SweepApps ==
  ASSUME TableInv, NEW control \in Controls, NEW amount \in Int, NEW by \in Lines \cup Keys,
         Sweep(control, amount, by)
  PROVE  /\ AppsOK'
         /\ DOMAIN app \subseteq DOMAIN app' /\ \A a \in DOMAIN app : app'[a] = app[a]
         /\ \A a \in DOMAIN app' \ DOMAIN app :
              /\ app'[a].item \in Swept(control, amount) /\ app'[a].by = by
              /\ app'[a].amount = Portion(control, amount, app'[a].item)
              /\ \A b \in DOMAIN app' \ DOMAIN app : app'[a].item = app'[b].item => a = b
         /\ \A i \in Swept(control, amount) :
              \E a \in DOMAIN app' \ DOMAIN app : app'[a].item = i
<1> DEFINE S == Swept(control, amount)
           n == Cardinality(S)
           m == Len(app)
<1>0. ItemsTypeOK
  BY DEF TableInv
<1>1. S \in SUBSET DOMAIN item /\ IsFiniteSet(S) /\ n \in Nat
  <2>1. S \in SUBSET DOMAIN item
    BY DEF Swept, NotClosed
  <2> QED
    BY <1>0, <2>1, RemainingType, FS_CardinalityType
<1>2. PICK s \in InOrder(S) :
        /\ m + Len(s) <= MaxApps
        /\ app' = app \o [k \in DOMAIN s |-> NewApp(s[k], Portion(control, amount, s[k]), by, 0)]
  BY DEF Sweep
<1> DEFINE new == [k \in DOMAIN s |-> NewApp(s[k], Portion(control, amount, s[k]), by, 0)]
<1> HIDE DEF S, n
<1>3. /\ s \in [1 .. n -> S] /\ \A i \in S : \E k \in 1 .. n : s[k] = i
      /\ \A k, l \in 1 .. n : k < l => Older(s[k], s[l])
      /\ DOMAIN s = 1 .. n
  BY <1>2 DEF InOrder, n
<1>4. \A k, l \in 1 .. n : s[k] = s[l] => k = l
  <2> SUFFICES ASSUME NEW k \in 1 .. n, NEW l \in 1 .. n, s[k] = s[l], k < l PROVE FALSE
    BY <1>1
  <2>1. Older(s[k], s[k]) /\ s[k] \in DOMAIN item
    BY <1>1, <1>3
  <2> QED
    BY <1>0, <2>1, AgesAreOrdered
<1>5. \A k \in 1 .. n : /\ new[k] \in App /\ new[k].item = s[k] /\ new[k].by = by
                        /\ new[k].amount = Portion(control, amount, s[k])
  <2> SUFFICES ASSUME NEW k \in 1 .. n
               PROVE  /\ new[k] \in App /\ new[k].item = s[k] /\ new[k].by = by
                      /\ new[k].amount = Portion(control, amount, s[k])
    OBVIOUS
  <2>1. s[k] \in DOMAIN item /\ s[k] \in 1 .. MaxItems /\ 0 \in 0 .. MaxApps
    BY <1>0, <1>1, <1>3, TableFacts, ScheduleAssumption
  <2>2. item[s[k]].remaining \in Nat
    BY <1>0, <2>1, RemainingType
  <2>3. Portion(control, amount, s[k]) \in Int
    <3>1. Portion(control, amount, s[k]) \in 0 .. item[s[k]].remaining
      BY <1>0, <2>1, PortionIs
    <3> QED
      BY <2>2, <3>1
  <2>4. new[k] = NewApp(s[k], Portion(control, amount, s[k]), by, 0)
    BY <1>3
  <2> HIDE DEF new
  <2> QED
    BY <2>1, <2>3, <2>4 DEF NewApp, App
<1>6. new \in [1 .. n -> App]
  <2>1. DOMAIN new = 1 .. n /\ new = [k \in 1 .. n |-> new[k]]
    BY <1>3
  <2> HIDE DEF new
  <2> QED
    BY <1>5, <2>1
<1>7. app' = app \o new
  BY <1>2
<1> HIDE DEF new
<1>8. new \in Seq(App) /\ Len(new) = n /\ DOMAIN new = 1 .. n
  BY <1>1, <1>6
<1>9. /\ app' \in Seq(App) /\ Len(app') = m + n
      /\ \A a \in 1 .. m + n : app'[a] = IF a <= m THEN app[a] ELSE new[a - m]
  <2>1. app \in Seq(App)
    BY <1>0 DEF ItemsTypeOK
  <2>2. /\ app \o new \in Seq(App) /\ Len(app \o new) = m + Len(new)
        /\ \A a \in 1 .. m + Len(new) :
             (app \o new)[a] = IF a <= m THEN app[a] ELSE new[a - m]
    BY <1>8, <2>1, ConcatIs
  <2> QED
    BY <1>7, <1>8, <2>2
<1>10. /\ m \in Nat /\ DOMAIN app = 1 .. m /\ DOMAIN app' = 1 .. m + n
       /\ Len(app') <= MaxApps
  <2>1. Len(s) = n
    BY <1>1, <1>3
  <2> QED
    BY <1>0, <1>2, <1>9, <2>1, TableFacts, LenProperties
<1> HIDE DEF m
<1>11. \A a \in DOMAIN app' \ DOMAIN app : a - m \in 1 .. n /\ app'[a] = new[a - m]
  BY <1>1, <1>9, <1>10
<1>12. \A k \in 1 .. n : m + k \in DOMAIN app' \ DOMAIN app /\ app'[m + k] = new[k]
  BY <1>1, <1>9, <1>10
<1>13. AppsOK'
  BY <1>9, <1>10 DEF AppsOK
<1>14. DOMAIN app \subseteq DOMAIN app' /\ \A a \in DOMAIN app : app'[a] = app[a]
  BY <1>1, <1>9, <1>10
<1>15. ASSUME NEW a \in DOMAIN app' \ DOMAIN app
       PROVE  /\ app'[a].item \in S /\ app'[a].by = by
              /\ app'[a].amount = Portion(control, amount, app'[a].item)
              /\ \A b \in DOMAIN app' \ DOMAIN app : app'[a].item = app'[b].item => a = b
  <2>1. /\ app'[a].item = s[a - m] /\ app'[a].by = by /\ s[a - m] \in S
        /\ app'[a].amount = Portion(control, amount, s[a - m])
    BY <1>3, <1>5, <1>11
  <2>2. ASSUME NEW b \in DOMAIN app' \ DOMAIN app, app'[a].item = app'[b].item PROVE a = b
    <3>1. s[a - m] = s[b - m] /\ a - m \in 1 .. n /\ b - m \in 1 .. n
      BY <1>5, <1>11, <2>1, <2>2
    <3>2. a - m = b - m
      BY <1>4, <3>1
    <3> QED
      BY <1>1, <1>10, <3>2
  <2> QED
    BY <2>1, <2>2
<1>16. ASSUME NEW i \in S PROVE \E a \in DOMAIN app' \ DOMAIN app : app'[a].item = i
  <2>1. PICK k \in 1 .. n : s[k] = i
    BY <1>3
  <2> QED
    BY <1>5, <1>12, <2>1
<1> QED
  BY <1>13, <1>14, <1>15, <1>16 DEF S

LEMMA SweepEffect ==
  ASSUME TableInv, NEW control \in Controls, NEW amount \in Int, NEW by \in Lines \cup Keys,
         Sweep(control, amount, by)
  PROVE  /\ Effect
         /\ \A j \in DOMAIN item : item'[j].written_off = item[j].written_off
         /\ \A a \in DOMAIN app' \ DOMAIN app : app'[a].by = by
<1> DEFINE S == Swept(control, amount)
           P(i) == Portion(control, amount, i)
           new == DOMAIN app' \ DOMAIN app
<1>0. ItemsTypeOK
  BY DEF TableInv
<1>1. /\ AppsOK' /\ DOMAIN app \subseteq DOMAIN app' /\ \A a \in DOMAIN app : app'[a] = app[a]
      /\ \A a \in new : /\ app'[a].item \in S /\ app'[a].by = by
                        /\ app'[a].amount = P(app'[a].item)
                        /\ \A b \in new : app'[a].item = app'[b].item => a = b
      /\ \A i \in S : \E a \in new : app'[a].item = i
  BY SweepApps
<1>2. S \subseteq DOMAIN item
  BY DEF Swept, NotClosed
<1>3. \A i \in DOMAIN item : /\ item[i] \in Item /\ item[i].remaining \in Nat
                             /\ item[i].remaining <= item[i].original /\ item[i].original \in Nat
  BY <1>0, TableFacts DEF Item
<1>4. \A i \in DOMAIN item : P(i) \in 0 .. item[i].remaining
  BY <1>0, PortionIs
<1>5. item' = [i \in DOMAIN item |->
                IF i \in S THEN SetRemaining(i, item[i].remaining - P(i)) ELSE item[i]]
  BY DEF Sweep
<1> HIDE DEF S, P
<1>6. ASSUME NEW i \in DOMAIN item
      PROVE  /\ item'[i] \in Item /\ SameItem(item'[i], item[i])
             /\ item'[i].remaining =
                  IF i \in S THEN item[i].remaining - P(i) ELSE item[i].remaining
             /\ item'[i].remaining <= item'[i].original
  <2>1. CASE i \in S
    <3>1. item[i].remaining - P(i) \in 0 .. item[i].original
      BY <1>3, <1>4
    <3>2. /\ SetRemaining(i, item[i].remaining - P(i)) \in Item
          /\ SetRemaining(i, item[i].remaining - P(i)).remaining = item[i].remaining - P(i)
          /\ SameItem(SetRemaining(i, item[i].remaining - P(i)), item[i])
      BY <1>0, <3>1, SetRemainingType
    <3>3. item'[i] = SetRemaining(i, item[i].remaining - P(i))
      BY <1>5, <2>1
    <3> QED
      BY <2>1, <3>1, <3>2, <3>3 DEF SameItem
  <2>2. CASE i \notin S
    BY <1>3, <1>5, <2>2 DEF SameItem
  <2> QED
    BY <2>1, <2>2
<1>7. ItemsOK' /\ DOMAIN item' = DOMAIN item
  <2>1. /\ DOMAIN item = 1 .. Len(item) /\ Len(item) \in Nat /\ Len(item) <= MaxItems
    BY <1>0, TableFacts
  <2>2. item' \in [1 .. Len(item) -> Item]
    BY <1>5, <1>6, <2>1
  <2>3. item' \in Seq(Item) /\ Len(item') = Len(item) /\ DOMAIN item' = DOMAIN item
    BY <2>1, <2>2
  <2> QED
    BY <1>6, <2>1, <2>3 DEF ItemsOK
<1>8. \A a \in new : app'[a].amount \in Int /\ app'[a].item \in DOMAIN item
  BY <1>1, <1>2, <1>3, <1>4
<1>9. Grows
  BY <1>1, <1>6, <1>7, <1>8 DEF Grows, SameItem
<1>10. \A j : Carried(j)' = Carried(j)
  BY <1>0, <1>7, <1>9, CarriedNext
<1>11. ASSUME NEW j \in S PROVE Net(j)' = Net(j) + P(j)
  <2>1. PICK x \in new : app'[x].item = j
    BY <1>1
  <2>2. \A a \in new : app'[a].item = j <=> a = x
    BY <1>1, <2>1
  <2>3. app'[x].amount = P(j)
    BY <1>1, <2>1
  <2> QED
    BY <1>0, <1>9, <2>2, <2>3, NetNext
<1>12. ASSUME NEW j \in DOMAIN item, j \notin S PROVE Net(j)' = Net(j)
  <2>1. \A a \in new : app'[a].item # j
    BY <1>1, <1>12
  <2> QED
    BY <1>0, <1>9, <2>1, NetNext
<1>13. Balanced
  <2> SUFFICES ASSUME NEW j \in DOMAIN item
               PROVE  item'[j].remaining + item'[j].written_off + Net(j)' + Carried(j)'
                        = item[j].remaining + item[j].written_off + Net(j) + Carried(j)
    BY DEF Balanced
  <2>1. item'[j].written_off = item[j].written_off /\ Carried(j)' = Carried(j)
    BY <1>6, <1>10 DEF SameItem
  <2>2. /\ Net(j) \in Int /\ Carried(j) \in Int /\ item[j].remaining \in Int
        /\ item[j].written_off \in Int /\ P(j) \in Int
    BY <1>0, <1>3, <1>4, SumTypes
  <2>3. CASE j \in S
    <3>1. item'[j].remaining = item[j].remaining - P(j) /\ Net(j)' = Net(j) + P(j)
      BY <1>6, <1>11, <2>3
    <3> QED
      BY <2>1, <2>2, <3>1
  <2>4. CASE j \notin S
    <3>1. item'[j].remaining = item[j].remaining /\ Net(j)' = Net(j)
      BY <1>6, <1>12, <2>4
    <3> QED
      BY <2>1, <2>2, <3>1
  <2> QED
    BY <2>3, <2>4
<1> QED
  BY <1>1, <1>6, <1>7, <1>9, <1>13 DEF Effect, SameItem
-----------------------------------------------------------------------------
(* OpenItems: a line on account is accounted for.                                   *)

Accounted(l) ==
  line[l].kind = "on_account" /\ Relief(l) > 0 =>
    Relief(l) = receipt[l] + SumFunctionOnSet(AmountOf, AppsBy(l))

\* A line has no traces before its event is processed.
Untouched(l) == receipt[l] = 0 /\ AppsBy(l) = {}

AccountInv == /\ \A l \in detail : Accounted(l)
              /\ \A l \in Lines \ detail : Untouched(l)

LEMMA AccountStays ==
  ASSUME ItemsTypeOK, Grows, NEW l \in Lines,
         \A a \in DOMAIN app' \ DOMAIN app : app'[a].by # l,
         receipt'[l] = receipt[l]
  PROVE  /\ Untouched(l) => Untouched(l)'
         /\ Accounted(l) /\ line'[l].kind = line[l].kind /\ line'[l].amount = line[l].amount
              => Accounted(l)'
<1>1. AppsBy(l) \subseteq DOMAIN app /\ AppsBy(l)' = AppsBy(l)
  BY DEF AppsBy, Grows
<1>2. \A a \in AppsBy(l) : AmountOf[a] = AmountOf'[a]
  BY <1>1 DEF AmountOf, Grows
<1>3. SumFunctionOnSet(AmountOf', AppsBy(l)') = SumFunctionOnSet(AmountOf, AppsBy(l))
  BY <1>1, <1>2, SumTypes, FS_Subset, SumSame
<1> QED
  BY <1>1, <1>3 DEF Untouched, Accounted, Relief

\* What a sweep for a line gives and what it leaves make up the line.
LEMMA SweepAccounts ==
  ASSUME TableInv, NEW l \in Lines, NEW control \in Controls, Untouched(l), line' = line,
         line[l].amount \in Int, Sweep(control, Relief(l), l)
  PROVE  Accounted(l)'
<1> DEFINE amount == Relief(l)
           S == Swept(control, amount)
           N == NotClosed(control)
           p == PortionOf(control, amount)
           new == DOMAIN app' \ DOMAIN app
           item_of == [a \in new |-> app'[a].item]
<1>0. ItemsTypeOK /\ amount \in Int
  BY DEF TableInv, Relief
<1>1. /\ AppsOK' /\ DOMAIN app \subseteq DOMAIN app' /\ \A a \in DOMAIN app : app'[a] = app[a]
      /\ \A a \in new : /\ app'[a].item \in S /\ app'[a].by = l
                        /\ app'[a].amount = Portion(control, amount, app'[a].item)
                        /\ \A b \in new : app'[a].item = app'[b].item => a = b
      /\ \A i \in S : \E a \in new : app'[a].item = i
  BY <1>0, SweepApps
<1>2. /\ N \in SUBSET DOMAIN item /\ IsFiniteSet(N) /\ Remaining(N) \in Nat
      /\ S \in SUBSET N /\ IsFiniteSet(S)
      /\ \A i \in N \ S : ~(Portion(control, amount, i) > 0)
  <2>1. N \in SUBSET DOMAIN item /\ S \in SUBSET N
    BY DEF NotClosed, Swept
  <2>2. \A i \in N \ S : ~(Portion(control, amount, i) > 0)
    BY DEF Swept
  <2> QED
    BY <1>0, <2>1, <2>2, RemainingType
<1>3. \A i \in DOMAIN item : /\ p[i] = Portion(control, amount, i)
                             /\ p[i] \in Nat
  <2> SUFFICES ASSUME NEW i \in DOMAIN item
               PROVE  p[i] = Portion(control, amount, i) /\ p[i] \in Nat
    OBVIOUS
  <2>1. /\ p[i] = Portion(control, amount, i)
        /\ Portion(control, amount, i) \in 0 .. item[i].remaining
    BY <1>0, PortionIs
  <2>2. item[i].remaining \in Nat
    BY <1>0, RemainingType
  <2> QED
    BY <2>1, <2>2
<1>4. SumFunctionOnSet(p, N) = Given(amount, Remaining(N))
  BY <1>0, GivenInAll
<1>5. SumFunctionOnSet(p, N) = SumFunctionOnSet(p, S)
  <2>1. \A i \in N \ S : p[i] = 0
    BY <1>2, <1>3
  <2>2. \A i \in N : p[i] \in Int
    BY <1>2, <1>3
  <2> HIDE DEF p, N, S
  <2> QED
    BY <1>2, <2>1, <2>2, SumSupport
<1>6. receipt'[l] = Max({0, amount - Remaining(N)})
  <2>1. receipt' = [receipt EXCEPT ![l] = @ + Unapplied(control, amount)]
    BY DEF Sweep
  <2>2. receipt'[l] = 0 + Unapplied(control, amount)
    BY <1>0, <2>1 DEF Untouched, ItemsTypeOK
  <2>3. Max({0, amount - Remaining(N)}) \in Int
    BY <1>0, <1>2, LargerOf
  <2> QED
    BY <2>2, <2>3 DEF Unapplied
<1>7. AppsBy(l)' = new
  <2>1. AppsBy(l) = {}
    BY DEF Untouched
  <2> QED
    BY <1>1, <2>1 DEF AppsBy
<1>8. IsFiniteSet(new)
  <2>1. DOMAIN app' = 1 .. Len(app') /\ Len(app') \in Nat
    BY <1>1, LenProperties DEF AppsOK
  <2>2. IsFiniteSet(DOMAIN app')
    BY <2>1, FS_Interval
  <2> QED
    BY <2>2, FS_Subset
<1>9. {item_of[a] : a \in new} = S
  BY <1>1
<1>10. \A a \in new : AmountOf'[a] = p[item_of[a]] /\ AmountOf'[a] \in Int
  <2> SUFFICES ASSUME NEW a \in new
               PROVE  AmountOf'[a] = p[item_of[a]] /\ AmountOf'[a] \in Int
    OBVIOUS
  <2>1. AmountOf'[a] = app'[a].amount
    BY DEF AmountOf
  <2>2. item_of[a] = app'[a].item /\ app'[a].item \in DOMAIN item
    BY <1>1, <1>2
  <2>3. app'[a].amount = Portion(control, amount, app'[a].item)
    BY <1>1
  <2> HIDE DEF p, item_of, new
  <2> QED
    BY <1>3, <2>1, <2>2, <2>3
<1>11. \A a, b \in new : item_of[a] = item_of[b] => a = b
  BY <1>1
<1> HIDE DEF new, item_of, p, S, N, amount
<1>12. SumFunctionOnSet(AmountOf', new) = SumFunctionOnSet(p, S)
  <2>1. PICK f : f = AmountOf'
    OBVIOUS
  <2>2. PICK T : T = new
    OBVIOUS
  <2>3. \A a \in T : f[a] = p[item_of[a]] /\ f[a] \in Int
    BY <1>10, <2>1, <2>2
  <2>4. /\ IsFiniteSet(T) /\ \A a, b \in T : item_of[a] = item_of[b] => a = b
        /\ {item_of[a] : a \in T} = S
    BY <1>8, <1>9, <1>11, <2>2
  <2>5. IsFiniteSet({item_of[a] : a \in T})
    BY <1>2, <2>4
  <2>6. SumFunctionOnSet(f, T) = SumFunctionOnSet(p, {item_of[a] : a \in T})
    BY <2>3, <2>4, <2>5, SumAlong
  <2> QED
    BY <2>1, <2>2, <2>4, <2>6
<1>13. SumFunctionOnSet(AmountOf', AppsBy(l)') = Given(amount, Remaining(N))
  BY <1>4, <1>5, <1>7, <1>12
<1>14. receipt'[l] = IF amount - Remaining(N) <= 0 THEN 0 ELSE amount - Remaining(N)
  BY <1>0, <1>2, <1>6, LargerOf
<1>15. amount > 0 => amount = receipt'[l] + SumFunctionOnSet(AmountOf', AppsBy(l)')
  BY <1>0, <1>2, <1>13, <1>14 DEF Given
<1>16. Relief(l)' = amount
  BY DEF Relief, amount
<1> QED
  BY <1>15, <1>16 DEF Accounted
-----------------------------------------------------------------------------
(* OpenItems: what is written off is in the ledger.                                  *)

SeenOf == [r \in WriteOffs |-> writeOff[r].seen]
UnderWay(i) == {r \in WriteOffs : writeOff[r].item = i}

Pending(i) == SumFunctionOnSet(SeenOf, UnderWay(i))
Ledger(i) == SumFunctionOnSet(CreditOf, EntriesFor(i))

\* The entries of an item cover its write-offs under way besides those that took place.
LedgerInv == \A i \in DOMAIN item : item[i].written_off + Pending(i) <= Ledger(i)

LEMMA LedgerTypes ==
  ASSUME TableInv
  PROVE  /\ IsFiniteSet(WriteOffs) /\ IsFiniteSet(Lines)
         /\ \A r \in WriteOffs : SeenOf[r] = writeOff[r].seen /\ SeenOf[r] \in Nat
         /\ \A l \in Lines : CreditOf[l] = -line[l].amount /\ CreditOf[l] \in Int
         /\ \A i : /\ UnderWay(i) \subseteq WriteOffs /\ IsFiniteSet(UnderWay(i))
                   /\ EntriesFor(i) \subseteq Lines /\ IsFiniteSet(EntriesFor(i))
                   /\ Pending(i) \in Nat /\ Ledger(i) \in Int
<1>0. IsFiniteSet(WriteOffs) /\ IsFiniteSet(Lines) /\ ItemsTypeOK
  BY ScheduleAssumption DEF TableInv
<1>1. \A r \in WriteOffs : SeenOf[r] = writeOff[r].seen /\ SeenOf[r] \in Nat
  BY <1>0 DEF SeenOf, ItemsTypeOK
<1>2. \A l \in Lines : CreditOf[l] = -line[l].amount /\ CreditOf[l] \in Int
  <2>1. \A l \in Lines : line[l] \in Line
    BY <1>0 DEF ItemsTypeOK
  <2> QED
    BY <2>1 DEF CreditOf, Line
<1>3. \A i : UnderWay(i) \subseteq WriteOffs /\ EntriesFor(i) \subseteq Lines
  BY DEF UnderWay, EntriesFor
<1>4. \A i : IsFiniteSet(UnderWay(i)) /\ IsFiniteSet(EntriesFor(i))
  BY <1>0, <1>3, FS_Subset
<1>5. ASSUME NEW i PROVE Pending(i) \in Nat /\ Ledger(i) \in Int
  <2>1. /\ \A r \in UnderWay(i) : SeenOf[r] \in Nat
        /\ \A l \in EntriesFor(i) : CreditOf[l] \in Int
    BY <1>1, <1>2, <1>3
  <2>2. Pending(i) \in Nat
    BY <1>4, <2>1, SumNat DEF Pending
  <2>3. Ledger(i) \in Int
    BY <1>4, <2>1, SumType DEF Ledger
  <2> QED
    BY <2>2, <2>3
<1> QED
  BY <1>0, <1>1, <1>2, <1>3, <1>4, <1>5

\* Steps that neither make entries nor write off.
LEMMA LedgerStays ==
  ASSUME TableInv, LedgerInv, Effect, writeOff' = writeOff,
         \A i \in DOMAIN item : item'[i].written_off = item[i].written_off,
         \A l \in Lines : /\ line'[l].writes_off = line[l].writes_off
                          /\ line'[l].amount = line[l].amount
  PROVE  LedgerInv'
<1>1. \A i : UnderWay(i)' = UnderWay(i) /\ SeenOf' = SeenOf
  BY DEF UnderWay, SeenOf
<1>2. \A i : EntriesFor(i)' = EntriesFor(i)
  BY DEF EntriesFor
<1>3. CreditOf' = CreditOf
  BY DEF CreditOf
<1>4. \A i : Pending(i)' = Pending(i) /\ Ledger(i)' = Ledger(i)
  BY <1>1, <1>2, <1>3 DEF Pending, Ledger
<1> SUFFICES ASSUME NEW i \in DOMAIN item'
             PROVE  item'[i].written_off + Pending(i)' <= Ledger(i)'
  BY DEF LedgerInv
<1>5. CASE i \in DOMAIN item
  BY <1>4, <1>5 DEF LedgerInv
<1>6. CASE i \notin DOMAIN item
  <2>1. i # 0
    BY LenProperties DEF Effect, ItemsOK
  <2>2. UnderWay(i) = {} /\ EntriesFor(i) = {}
    BY <1>6, <2>1 DEF UnderWay, EntriesFor, TableInv, RefersOK, NoWriteOff
  <2>3. Pending(i) = 0 /\ Ledger(i) = 0
    BY <2>2, SumOfNone DEF Pending, Ledger
  <2>4. item'[i].written_off = 0
    BY <1>6 DEF Effect, Grows
  <2> QED
    BY <1>4, <2>3, <2>4
<1> QED
  BY <1>5, <1>6

\* A write-off that begins makes an entry of all that it may write off.
LEMMA LedgerBegins ==
  ASSUME TableInv, LedgerInv, NEW r \in WriteOffs, NEW key \in Keys, NEW i \in DOMAIN item,
         NEW l \in Lines, BeginWriteOff(r, key, i, l)
  PROVE  LedgerInv'
<1> DEFINE n == item[i].remaining
<1>0. ItemsTypeOK /\ RefersOK
  BY DEF TableInv
<1>1. n \in Nat /\ item' = item /\ i # 0
  BY <1>0, TableFacts DEF BeginWriteOff, Item
<1>2. /\ writeOff[r] = NoWriteOff
      /\ writeOff'[r].item = i /\ writeOff'[r].seen = n
      /\ \A x \in WriteOffs \ {r} : writeOff'[x] = writeOff[x]
  BY <1>0 DEF BeginWriteOff, ItemsTypeOK
<1>3. /\ line[l].kind = "none"
      /\ line'[l].amount = -n /\ line'[l].writes_off = i
      /\ \A x \in Lines \ {l} : line'[x] = line[x]
  BY <1>0 DEF BeginWriteOff, CreatesEntry, ItemsTypeOK
<1>4. line[l].writes_off = 0
  BY <1>3 DEF TableInv, LinesOK
<1> HIDE DEF n
<1>5. Pending(i)' = Pending(i) + n
  <2>1. UnderWay(i)' = UnderWay(i) \cup {r} /\ r \notin UnderWay(i)
    BY <1>1, <1>2 DEF UnderWay, NoWriteOff
  <2>2. SeenOf'[r] = n
    BY <1>2 DEF SeenOf
  <2>3. \A x \in UnderWay(i) : SeenOf'[x] = SeenOf[x]
    BY <1>2, <2>1 DEF SeenOf, UnderWay
  <2>4. SumFunctionOnSet(SeenOf', UnderWay(i) \cup {r}) = Pending(i) + SeenOf'[r]
    BY <1>1, <2>1, <2>2, <2>3, LedgerTypes, SumGrows DEF Pending
  <2> QED
    BY <2>1, <2>2, <2>4 DEF Pending
<1>6. Ledger(i)' = Ledger(i) + n
  <2>1. EntriesFor(i)' = EntriesFor(i) \cup {l} /\ l \notin EntriesFor(i)
    BY <1>1, <1>3, <1>4 DEF EntriesFor
  <2>2. CreditOf'[l] = n
    BY <1>1, <1>3 DEF CreditOf
  <2>3. \A x \in EntriesFor(i) : CreditOf'[x] = CreditOf[x]
    BY <1>3, <2>1 DEF CreditOf, EntriesFor
  <2>4. SumFunctionOnSet(CreditOf', EntriesFor(i) \cup {l}) = Ledger(i) + CreditOf'[l]
    BY <1>1, <2>1, <2>2, <2>3, LedgerTypes, SumGrows DEF Ledger
  <2> QED
    BY <2>1, <2>2, <2>4 DEF Ledger
<1>7. \A j \in DOMAIN item \ {i} : Pending(j)' = Pending(j) /\ Ledger(j)' = Ledger(j)
  <2> SUFFICES ASSUME NEW j \in DOMAIN item \ {i}
               PROVE  Pending(j)' = Pending(j) /\ Ledger(j)' = Ledger(j)
    OBVIOUS
  <2>1. j # 0
    BY <1>0, TableFacts
  <2>2. UnderWay(j)' = UnderWay(j) /\ r \notin UnderWay(j)
    BY <1>2, <2>1 DEF UnderWay, NoWriteOff
  <2>3. EntriesFor(j)' = EntriesFor(j) /\ l \notin EntriesFor(j)
    BY <1>3, <1>4, <2>1 DEF EntriesFor
  <2>4. \A x \in UnderWay(j) : SeenOf[x] = SeenOf'[x]
    BY <1>2, <2>2 DEF SeenOf, UnderWay
  <2>5. \A x \in EntriesFor(j) : CreditOf[x] = CreditOf'[x]
    BY <1>3, <2>3 DEF CreditOf, EntriesFor
  <2>6. SumFunctionOnSet(SeenOf, UnderWay(j)) = SumFunctionOnSet(SeenOf', UnderWay(j))
    BY <2>4, LedgerTypes, SumSame
  <2>7. SumFunctionOnSet(CreditOf, EntriesFor(j)) = SumFunctionOnSet(CreditOf', EntriesFor(j))
    BY <2>5, LedgerTypes, SumSame
  <2> QED
    BY <2>2, <2>3, <2>6, <2>7 DEF Pending, Ledger
<1>8. \A j \in DOMAIN item : item[j].written_off \in Nat
  BY <1>0, TableFacts DEF Item
<1> SUFFICES ASSUME NEW j \in DOMAIN item
             PROVE  item[j].written_off + Pending(j)' <= Ledger(j)'
  BY <1>1 DEF LedgerInv
<1>9. CASE j = i
  <2>1. item[i].written_off + Pending(i) <= Ledger(i)
    BY DEF LedgerInv
  <2>2. item[i].written_off + Pending(i)' <= Ledger(i)'
    BY <1>1, <1>5, <1>6, <1>8, <2>1, LedgerTypes
  <2> QED
    BY <1>9, <2>2
<1>10. CASE j # i
  BY <1>7, <1>10 DEF LedgerInv
<1> QED
  BY <1>9, <1>10

\* A write-off that ends is no longer under way.
LEMMA PendingEnds ==
  ASSUME TableInv, NEW r \in WriteOffs, writeOff' = [writeOff EXCEPT ![r] = NoWriteOff],
         writeOff[r].item \in DOMAIN item
  PROVE  \A j \in DOMAIN item :
           Pending(j)' = IF j = writeOff[r].item THEN Pending(j) - writeOff[r].seen
                                                 ELSE Pending(j)
<1>1. /\ writeOff'[r] = NoWriteOff /\ \A x \in WriteOffs \ {r} : writeOff'[x] = writeOff[x]
  BY DEF TableInv, ItemsTypeOK
<1> SUFFICES ASSUME NEW j \in DOMAIN item
             PROVE  Pending(j)' = IF j = writeOff[r].item THEN Pending(j) - writeOff[r].seen
                                                          ELSE Pending(j)
  OBVIOUS
<1>2. j # 0
  BY TableFacts DEF TableInv
<1>3. UnderWay(j)' = UnderWay(j) \ {r}
  BY <1>1, <1>2 DEF UnderWay, NoWriteOff
<1>4. \A x \in UnderWay(j) \ {r} : SeenOf[x] = SeenOf'[x]
  BY <1>1 DEF SeenOf, UnderWay
<1>5. Pending(j)' = SumFunctionOnSet(SeenOf, UnderWay(j) \ {r})
  <2>1. IsFiniteSet(UnderWay(j) \ {r})
    BY LedgerTypes, FS_Subset
  <2>2. SumFunctionOnSet(SeenOf, UnderWay(j) \ {r})
          = SumFunctionOnSet(SeenOf', UnderWay(j) \ {r})
    BY <1>4, <2>1, SumSame
  <2> QED
    BY <1>3, <2>2 DEF Pending
<1>6. CASE j = writeOff[r].item
  <2>1. r \in UnderWay(j) /\ SeenOf[r] = writeOff[r].seen /\ SeenOf[r] \in Nat
    BY <1>6, LedgerTypes DEF UnderWay
  <2>2. \A x \in UnderWay(j) : SeenOf[x] \in Int
    BY LedgerTypes
  <2>3. SumFunctionOnSet(SeenOf, UnderWay(j))
          = SeenOf[r] + SumFunctionOnSet(SeenOf, UnderWay(j) \ {r})
    BY <2>1, <2>2, LedgerTypes, SumRemove
  <2>4. SumFunctionOnSet(SeenOf, UnderWay(j) \ {r}) \in Int
    <3>1. IsFiniteSet(UnderWay(j) \ {r}) /\ \A x \in UnderWay(j) \ {r} : SeenOf[x] \in Int
      BY <2>2, LedgerTypes, FS_Subset
    <3> QED
      BY <3>1, SumType
  <2> QED
    BY <1>5, <1>6, <2>1, <2>3, <2>4 DEF Pending
<1>7. CASE j # writeOff[r].item
  <2>1. UnderWay(j) \ {r} = UnderWay(j)
    BY <1>7 DEF UnderWay
  <2> QED
    BY <1>5, <1>7, <2>1 DEF Pending
<1> QED
  BY <1>6, <1>7

LEMMA LedgerEnds ==
  ASSUME TableInv, LedgerInv, NEW r \in WriteOffs, CommitWriteOff(r) \/ AbortWriteOff(r)
  PROVE  LedgerInv'
<1>0. ItemsTypeOK /\ RefersOK
  BY DEF TableInv
<1>1. /\ writeOff[r].item \in DOMAIN item /\ writeOff[r].seen \in Nat
      /\ writeOff' = [writeOff EXCEPT ![r] = NoWriteOff] /\ line' = line
  BY <1>0 DEF CommitWriteOff, AbortWriteOff, RefersOK, NoWriteOff, ItemsTypeOK
<1>2. \A j : Ledger(j)' = Ledger(j)
  BY <1>1 DEF Ledger, CreditOf, EntriesFor
<1>3. \A j \in DOMAIN item :
        Pending(j)' = IF j = writeOff[r].item THEN Pending(j) - writeOff[r].seen
                                              ELSE Pending(j)
  BY <1>1, PendingEnds
<1>4. /\ DOMAIN item' = DOMAIN item
      /\ \A j \in DOMAIN item :
           \/ item'[j].written_off = item[j].written_off
           \/ /\ j = writeOff[r].item
              /\ item'[j].written_off = item[j].written_off + writeOff[r].seen
  <2>1. CASE CommitWriteOff(r)
    <3>1. DOMAIN item' = DOMAIN item
      BY <1>0, <2>1 DEF CommitWriteOff
    <3> QED
      BY <2>1, <3>1, CommitEffect
  <2>2. CASE AbortWriteOff(r)
    BY <2>2 DEF AbortWriteOff
  <2> QED
    BY <2>1, <2>2
<1> SUFFICES ASSUME NEW j \in DOMAIN item
             PROVE  item'[j].written_off + Pending(j)' <= Ledger(j)'
  BY <1>4 DEF LedgerInv
<1>5. item[j].written_off \in Nat /\ item[j].written_off + Pending(j) <= Ledger(j)
  BY <1>0, TableFacts DEF LedgerInv, Item
<1>6. Pending(j) \in Nat /\ Ledger(j) \in Int
  BY LedgerTypes
<1> QED
  BY <1>1, <1>2, <1>3, <1>4, <1>5, <1>6
-----------------------------------------------------------------------------
(* OpenItems: every step keeps the tables.                                           *)

LEMMA TableNext ==
  ASSUME TableInv, Effect,
         line' \in [Lines -> Line], detail' \subseteq {l \in Lines : line'[l].booked},
         receipt' \in [Lines \cup Keys -> Nat], used' \subseteq Keys,
         writeOff' \in [WriteOffs -> [pc : {"idle", "posting"}, key : Keys \cup {None},
                                      item : 0 .. MaxItems, seen : Nat]],
         \A r \in WriteOffs :
           \/ writeOff'[r] = NoWriteOff
           \/ /\ writeOff'[r].pc = "posting" /\ writeOff'[r].key \in Keys
              /\ writeOff'[r].item \in DOMAIN item,
         \A l \in Lines : line'[l].writes_off \in {0} \cup DOMAIN item,
         LinesOK'
  PROVE  TableInv'
<1>1. ItemsTypeOK'
  BY DEF ItemsTypeOK, Effect, ItemsOK, AppsOK
<1>2. \A a \in DOMAIN app' : app'[a].item \in DOMAIN item'
  BY DEF TableInv, RefersOK, Effect, Grows
<1>3. \A j \in DOMAIN item' : item'[j].parent < j
  <2> SUFFICES ASSUME NEW j \in DOMAIN item' PROVE item'[j].parent < j
    OBVIOUS
  <2>1. CASE j \in DOMAIN item
    BY <2>1 DEF TableInv, RefersOK, Effect, Grows
  <2>2. CASE j \notin DOMAIN item
    <3>1. DOMAIN item' = 1 .. Len(item') /\ Len(item') \in Nat
      BY LenProperties DEF Effect, ItemsOK
    <3>2. j \in Nat /\ j > Len(item) /\ Len(item) \in Nat
      BY <2>2, <3>1, TableFacts DEF TableInv
    <3>3. item'[j].parent \in 0 .. Len(item)
      BY <2>2 DEF Effect, Grows
    <3> QED
      BY <3>2, <3>3
  <2> QED
    BY <2>1, <2>2
<1>4. DOMAIN item \subseteq DOMAIN item'
  BY DEF Effect, Grows
<1>5. RefersOK'
  BY <1>2, <1>3, <1>4 DEF RefersOK
<1> QED
  BY <1>1, <1>5 DEF TableInv

\* Steps that leave the lines and the write-offs as they are.
LEMMA TableStays ==
  ASSUME TableInv, Effect, UNCHANGED <<line, writeOff>>,
         receipt' \in [Lines \cup Keys -> Nat], used' \subseteq Keys,
         \A l \in detail' : l \in detail \/ (/\ l \in Lines /\ line[l].booked
                                             /\ line[l].kind # "none")
  PROVE  TableInv'
<1>1. /\ line' \in [Lines -> Line] /\ detail' \subseteq {l \in Lines : line'[l].booked}
      /\ writeOff' \in [WriteOffs -> [pc : {"idle", "posting"}, key : Keys \cup {None},
                                      item : 0 .. MaxItems, seen : Nat]]
  BY DEF TableInv, ItemsTypeOK
<1>2. /\ \A r \in WriteOffs :
           \/ writeOff'[r] = NoWriteOff
           \/ /\ writeOff'[r].pc = "posting" /\ writeOff'[r].key \in Keys
              /\ writeOff'[r].item \in DOMAIN item
      /\ \A l \in Lines : line'[l].writes_off \in {0} \cup DOMAIN item
  BY DEF TableInv, RefersOK
<1>3. LinesOK'
  BY DEF TableInv, LinesOK
<1> QED
  BY <1>1, <1>2, <1>3, TableNext

LEMMA SweepReceipt ==
  ASSUME TableInv, NEW control, NEW amount \in Int, NEW by \in Lines \cup Keys,
         Sweep(control, amount, by)
  PROVE  /\ receipt' \in [Lines \cup Keys -> Nat]
         /\ \A x \in (Lines \cup Keys) \ {by} : receipt'[x] = receipt[x]
<1>0. ItemsTypeOK
  BY DEF TableInv
<1>1. NotClosed(control) \subseteq DOMAIN item
  BY DEF NotClosed
<1>2. Remaining(NotClosed(control)) \in Nat
  BY <1>0, <1>1, RemainingType
<1>3. Unapplied(control, amount) \in Nat
  BY <1>2, LargerOf DEF Unapplied
<1>4. receipt' = [receipt EXCEPT ![by] = @ + Unapplied(control, amount)]
  BY DEF Sweep
<1> QED
  BY <1>0, <1>3, <1>4 DEF ItemsTypeOK

LEMMA ProcessEffect ==
  ASSUME TableInv, NEW l \in Lines, Process(l)
  PROVE  /\ Effect /\ TableInv'
         /\ \A j \in DOMAIN item : item'[j].written_off = item[j].written_off
         /\ \A a \in DOMAIN app' \ DOMAIN app : app'[a].by = l
         /\ \A m \in Lines \ {l} : receipt'[m] = receipt[m]
<1>0. ItemsTypeOK /\ line[l] \in Line /\ Relief(l) \in Int /\ line[l].control \in Controls
  BY DEF TableInv, ItemsTypeOK, Line, Relief
<1> DEFINE Moves == /\ Effect /\ receipt' \in [Lines \cup Keys -> Nat]
                    /\ \A j \in DOMAIN item : item'[j].written_off = item[j].written_off
                    /\ \A a \in DOMAIN app' \ DOMAIN app : app'[a].by = l
                    /\ \A m \in Lines \ {l} : receipt'[m] = receipt[m]
<1>1. ASSUME OpensItem(l) PROVE Moves
  <2>1. receipt' = receipt
    BY <1>1 DEF OpensItem
  <2> QED
    BY <1>0, <1>1, <2>1, OpensItemEffect DEF ItemsTypeOK
<1>2. ASSUME AppliesToItem(l) PROVE Moves
  <2>1. receipt' = receipt
    BY <1>2 DEF AppliesToItem
  <2>2. CASE UNCHANGED <<item, app>>
    BY <1>0, <2>1, <2>2, UnchangedEffect DEF ItemsTypeOK
  <2>3. CASE ~UNCHANGED <<item, app>>
    <3>1. PICK i \in NotClosed(line[l].control) :
            InBounds(i, item[i].remaining - Relief(l)) /\ ApplyTo(i, Relief(l), l)
      BY <1>2, <2>3 DEF AppliesToItem
    <3>2. i \in DOMAIN item
      BY DEF NotClosed
    <3>3. /\ Effect
          /\ \A j \in DOMAIN item : item'[j].written_off = item[j].written_off
          /\ \A a \in DOMAIN app' \ DOMAIN app : app'[a].by = l
      BY <1>0, <3>1, <3>2, ApplyToEffect
    <3> QED
      BY <1>0, <2>1, <3>3 DEF ItemsTypeOK
  <2> QED
    BY <2>2, <2>3
<1>3. ASSUME Sweep(line[l].control, Relief(l), l) PROVE Moves
  <2>1. /\ Effect
        /\ \A j \in DOMAIN item : item'[j].written_off = item[j].written_off
        /\ \A a \in DOMAIN app' \ DOMAIN app : app'[a].by = l
    BY <1>0, <1>3, SweepEffect
  <2>2. /\ receipt' \in [Lines \cup Keys -> Nat]
        /\ \A x \in (Lines \cup Keys) \ {l} : receipt'[x] = receipt[x]
    BY <1>0, <1>3, SweepReceipt
  <2> QED
    BY <2>1, <2>2
<1>4. Moves
  BY <1>1, <1>2, <1>3 DEF Process
<1>5. TableInv'
  <2>1. /\ UNCHANGED <<line, writeOff>> /\ used' \subseteq Keys
        /\ \A m \in detail' : m \in detail \/ (/\ m \in Lines /\ line[m].booked
                                               /\ line[m].kind # "none")
    BY <1>0 DEF Process, ItemsTypeOK
  <2> QED
    BY <1>4, <2>1, TableStays
<1> QED
  BY <1>4, <1>5

\* What an operator's request other than a write-off does.
Asks(key) ==
  \/ \E i \in DOMAIN item, n \in Amounts : ApplyManual(key, i, n)
  \/ \E c \in Controls, n \in Amounts : ApplyAutoFifo(key, c, n)
  \/ \E i \in DOMAIN item : SplitOpenItem(key, i)
  \/ \E i \in DOMAIN item, c \in Controls, n \in Numbers : TransferOpenItem(key, i, c, n)

\* New applications of an operator come from a request, or reverse others.
NotFromLines ==
  /\ \A a \in DOMAIN app' \ DOMAIN app : app'[a].by \notin Lines
  /\ \A l \in Lines : receipt'[l] = receipt[l]

LEMMA RequestEffect ==
  ASSUME TableInv, NEW key \in Keys, Asks(key)
  PROVE  /\ Effect /\ TableInv' /\ NotFromLines
         /\ \A j \in DOMAIN item : item'[j].written_off = item[j].written_off
<1>0. ItemsTypeOK /\ key \notin Lines /\ Amounts \subseteq Int
  BY ScheduleAssumption DEF TableInv, Amounts
<1>1. /\ UNCHANGED <<line, detail, writeOff>> /\ used' \subseteq Keys
  BY <1>0 DEF Asks, ApplyManual, ApplyAutoFifo, SplitOpenItem, TransferOpenItem, Uses,
              ItemsTypeOK
<1> DEFINE Moves == /\ Effect /\ receipt' \in [Lines \cup Keys -> Nat] /\ NotFromLines
                    /\ \A j \in DOMAIN item : item'[j].written_off = item[j].written_off
<1>2. ASSUME NEW i \in DOMAIN item, NEW n \in Amounts, ApplyManual(key, i, n) PROVE Moves
  <2>1. InBounds(i, item[i].remaining - n) /\ ApplyTo(i, n, key) /\ receipt' = receipt
    BY <1>2 DEF ApplyManual
  <2>2. n \in Int
    BY <1>0
  <2>3. /\ Effect
        /\ \A j \in DOMAIN item : item'[j].written_off = item[j].written_off
        /\ \A a \in DOMAIN app' \ DOMAIN app : app'[a].by = key
    BY <2>1, <2>2, ApplyToEffect
  <2> QED
    BY <1>0, <2>1, <2>3 DEF ItemsTypeOK, NotFromLines
<1>3. ASSUME NEW c \in Controls, NEW n \in Amounts, ApplyAutoFifo(key, c, n) PROVE Moves
  <2>1. Sweep(c, n, key) /\ n \in Int
    BY <1>0, <1>3 DEF ApplyAutoFifo
  <2>2. /\ Effect
        /\ \A j \in DOMAIN item : item'[j].written_off = item[j].written_off
        /\ \A a \in DOMAIN app' \ DOMAIN app : app'[a].by = key
    BY <2>1, SweepEffect
  <2>3. /\ receipt' \in [Lines \cup Keys -> Nat]
        /\ \A x \in (Lines \cup Keys) \ {key} : receipt'[x] = receipt[x]
    BY <2>1, SweepReceipt
  <2> QED
    BY <1>0, <2>2, <2>3 DEF NotFromLines
<1>4. ASSUME NEW i \in DOMAIN item, SplitOpenItem(key, i) PROVE Moves
  <2>1. app' = app /\ receipt' = receipt
    BY <1>4 DEF SplitOpenItem
  <2> QED
    BY <1>0, <1>4, <2>1, SplitEffect DEF ItemsTypeOK, NotFromLines
<1>5. ASSUME NEW i \in DOMAIN item, NEW c \in Controls, NEW n \in Numbers,
             TransferOpenItem(key, i, c, n)
      PROVE  Moves
  <2>1. app' = app /\ receipt' = receipt
    BY <1>5 DEF TransferOpenItem
  <2> QED
    BY <1>0, <1>5, <2>1, TransferEffect DEF ItemsTypeOK, NotFromLines
<1>6. Moves
  BY <1>2, <1>3, <1>4, <1>5 DEF Asks
<1>7. TableInv'
  BY <1>1, <1>6, TableStays
<1> QED
  BY <1>6, <1>7

LEMMA ReversalKeeps ==
  ASSUME TableInv, NEW a \in DOMAIN app, ReverseApplication(a)
  PROVE  /\ Effect /\ TableInv' /\ NotFromLines
         /\ \A j \in DOMAIN item : item'[j].written_off = item[j].written_off
<1>1. /\ UNCHANGED <<line, detail, receipt, used, writeOff>>
  BY DEF ReverseApplication
<1>2. /\ Effect
      /\ \A j \in DOMAIN item : item'[j].written_off = item[j].written_off
      /\ \A b \in DOMAIN app' \ DOMAIN app : app'[b].by = None
  BY ReverseEffect
<1>3. NotFromLines
  BY <1>1, <1>2, ScheduleAssumption DEF NotFromLines
<1>4. receipt' \in [Lines \cup Keys -> Nat] /\ used' \subseteq Keys
  BY <1>1 DEF TableInv, ItemsTypeOK
<1>5. TableInv'
  BY <1>1, <1>2, <1>4, TableStays
<1> QED
  BY <1>2, <1>3, <1>5

LEMMA BooksKeeps ==
  ASSUME TableInv, NEW l \in Lines, Books(l)
  PROVE  /\ Effect /\ TableInv' /\ NotFromLines
         /\ \A j \in DOMAIN item : item'[j].written_off = item[j].written_off
         /\ \A m \in Lines : /\ line'[m].kind = line[m].kind /\ line'[m].amount = line[m].amount
                             /\ line'[m].writes_off = line[m].writes_off
<1>0. ItemsTypeOK /\ RefersOK
  BY DEF TableInv
<1>1. /\ line' = [line EXCEPT ![l].booked = TRUE] /\ line[l].kind # "none"
      /\ UNCHANGED <<detail, item, app, receipt, used, writeOff>>
  BY DEF Books
<1>2. /\ Effect /\ DOMAIN app' \ DOMAIN app = {}
      /\ \A j \in DOMAIN item : item'[j].written_off = item[j].written_off
  BY <1>1, UnchangedEffect
<1>3. /\ line' \in [Lines -> Line]
      /\ \A m \in Lines : /\ line'[m].kind = line[m].kind /\ line'[m].amount = line[m].amount
                          /\ line'[m].writes_off = line[m].writes_off
                          /\ line[m].booked => line'[m].booked
  <2>1. line \in [Lines -> Line] /\ line[l] \in Line
    BY <1>0 DEF ItemsTypeOK
  <2>2. /\ [line[l] EXCEPT !.booked = TRUE] \in Line
        /\ [line[l] EXCEPT !.booked = TRUE].kind = line[l].kind
        /\ [line[l] EXCEPT !.booked = TRUE].amount = line[l].amount
        /\ [line[l] EXCEPT !.booked = TRUE].writes_off = line[l].writes_off
        /\ [line[l] EXCEPT !.booked = TRUE].booked = TRUE
    BY <2>1 DEF Line
  <2> QED
    BY <1>1, <2>1, <2>2
<1>4. /\ detail' \subseteq {m \in Lines : line'[m].booked}
      /\ receipt' \in [Lines \cup Keys -> Nat] /\ used' \subseteq Keys
      /\ writeOff' \in [WriteOffs -> [pc : {"idle", "posting"}, key : Keys \cup {None},
                                      item : 0 .. MaxItems, seen : Nat]]
  BY <1>0, <1>1, <1>3 DEF ItemsTypeOK
<1>5. /\ \A r \in WriteOffs :
           \/ writeOff'[r] = NoWriteOff
           \/ /\ writeOff'[r].pc = "posting" /\ writeOff'[r].key \in Keys
              /\ writeOff'[r].item \in DOMAIN item
      /\ \A m \in Lines : line'[m].writes_off \in {0} \cup DOMAIN item
  BY <1>0, <1>1, <1>3 DEF RefersOK
<1>6. LinesOK'
  BY <1>1, <1>3 DEF TableInv, LinesOK
<1>7. TableInv'
  BY <1>2, <1>3, <1>4, <1>5, <1>6, TableNext
<1> QED
  BY <1>1, <1>2, <1>3, <1>7 DEF NotFromLines

LEMMA BeginKeeps ==
  ASSUME TableInv, NEW r \in WriteOffs, NEW key \in Keys, NEW i \in DOMAIN item,
         NEW l \in Lines, BeginWriteOff(r, key, i, l)
  PROVE  /\ Effect /\ TableInv' /\ NotFromLines
         /\ l \notin detail /\ detail' = detail
         /\ \A m \in Lines \ {l} : line'[m] = line[m]
<1>0. ItemsTypeOK /\ RefersOK
  BY DEF TableInv
<1> DEFINE x == [kind |-> "on_account", amount |-> -item[i].remaining,
                 control |-> item[i].control, number |-> None, date |-> item[i].date,
                 writes_off |-> i, booked |-> FALSE]
           w == [pc |-> "posting", key |-> key, item |-> i, seen |-> item[i].remaining]
<1>1. /\ line' = [line EXCEPT ![l] = x] /\ line[l].kind = "none"
      /\ writeOff' = [writeOff EXCEPT ![r] = w]
      /\ UNCHANGED <<detail, item, app, receipt, used>>
  BY DEF BeginWriteOff, CreatesEntry
<1>2. /\ Effect /\ DOMAIN app' \ DOMAIN app = {}
  BY <1>1, UnchangedEffect
<1>3. /\ item[i].remaining \in Nat /\ item[i].control \in Controls /\ item[i].date \in Nat
      /\ i \in 0 .. MaxItems
  BY <1>0, TableFacts, ScheduleAssumption DEF Item
<1>4. x \in Line /\ x.writes_off = i /\ x.kind = "on_account"
  BY <1>3 DEF Line
<1>5. w \in [pc : {"idle", "posting"}, key : Keys \cup {None}, item : 0 .. MaxItems, seen : Nat]
      /\ w.pc = "posting" /\ w.key = key /\ w.item = i
  BY <1>3
<1> HIDE DEF x, w
<1>6. /\ line' \in [Lines -> Line] /\ line'[l] = x /\ \A m \in Lines \ {l} : line'[m] = line[m]
  BY <1>0, <1>1, <1>4 DEF ItemsTypeOK
<1>7. l \notin detail
  BY <1>1 DEF TableInv, LinesOK
<1>8. /\ detail' \subseteq {m \in Lines : line'[m].booked}
      /\ receipt' \in [Lines \cup Keys -> Nat] /\ used' \subseteq Keys
      /\ writeOff' \in [WriteOffs -> [pc : {"idle", "posting"}, key : Keys \cup {None},
                                      item : 0 .. MaxItems, seen : Nat]]
      /\ writeOff'[r] = w /\ \A s \in WriteOffs \ {r} : writeOff'[s] = writeOff[s]
  BY <1>0, <1>1, <1>5, <1>6, <1>7 DEF ItemsTypeOK
<1>9. /\ \A s \in WriteOffs :
           \/ writeOff'[s] = NoWriteOff
           \/ /\ writeOff'[s].pc = "posting" /\ writeOff'[s].key \in Keys
              /\ writeOff'[s].item \in DOMAIN item
      /\ \A m \in Lines : line'[m].writes_off \in {0} \cup DOMAIN item
  BY <1>0, <1>4, <1>5, <1>6, <1>8 DEF RefersOK
<1>10. LinesOK'
  BY <1>1, <1>4, <1>6, <1>7 DEF TableInv, LinesOK
<1>11. TableInv'
  BY <1>2, <1>6, <1>8, <1>9, <1>10, TableNext
<1> QED
  BY <1>1, <1>2, <1>6, <1>7, <1>11 DEF NotFromLines

LEMMA EndKeeps ==
  ASSUME TableInv, NEW r \in WriteOffs, CommitWriteOff(r) \/ AbortWriteOff(r)
  PROVE  Effect /\ TableInv' /\ NotFromLines /\ UNCHANGED <<line, detail>>
<1>0. ItemsTypeOK /\ RefersOK
  BY DEF TableInv
<1>1. /\ UNCHANGED <<line, detail, app, receipt>> /\ used' \subseteq Keys
      /\ writeOff' = [writeOff EXCEPT ![r] = NoWriteOff]
  BY <1>0 DEF CommitWriteOff, AbortWriteOff, Uses, ItemsTypeOK, RefersOK, NoWriteOff
<1>2. Effect
  BY CommitEffect, UnchangedEffect DEF AbortWriteOff
<1>3. /\ writeOff' \in [WriteOffs -> [pc : {"idle", "posting"}, key : Keys \cup {None},
                                      item : 0 .. MaxItems, seen : Nat]]
      /\ writeOff'[r] = NoWriteOff /\ \A s \in WriteOffs \ {r} : writeOff'[s] = writeOff[s]
  <2>1. NoWriteOff \in [pc : {"idle", "posting"}, key : Keys \cup {None},
                        item : 0 .. MaxItems, seen : Nat]
    BY ScheduleAssumption DEF NoWriteOff
  <2> QED
    BY <1>0, <1>1, <2>1 DEF ItemsTypeOK
<1>4. /\ \A s \in WriteOffs :
           \/ writeOff'[s] = NoWriteOff
           \/ /\ writeOff'[s].pc = "posting" /\ writeOff'[s].key \in Keys
              /\ writeOff'[s].item \in DOMAIN item
      /\ \A m \in Lines : line'[m].writes_off \in {0} \cup DOMAIN item
  BY <1>0, <1>1, <1>3 DEF RefersOK
<1>5. /\ line' \in [Lines -> Line] /\ detail' \subseteq {m \in Lines : line'[m].booked}
      /\ receipt' \in [Lines \cup Keys -> Nat]
  BY <1>0, <1>1 DEF ItemsTypeOK
<1>6. LinesOK'
  BY <1>1 DEF TableInv, LinesOK
<1>7. TableInv'
  BY <1>1, <1>2, <1>3, <1>4, <1>5, <1>6, TableNext
<1> QED
  BY <1>1, <1>2, <1>7 DEF NotFromLines
-----------------------------------------------------------------------------
(* OpenItems: the invariants of the schedule.                                        *)

\* Steps that neither process a line nor change what a processed one is.
LEMMA AccountKept ==
  ASSUME TableInv, AccountInv, Effect, NotFromLines, detail' = detail,
         \A l \in detail : line'[l].kind = line[l].kind /\ line'[l].amount = line[l].amount
  PROVE  AccountInv'
<1>0. ItemsTypeOK /\ Grows /\ detail \subseteq Lines
  BY DEF TableInv, ItemsTypeOK, Effect
<1>1. ASSUME NEW l \in Lines
      PROVE  /\ Untouched(l) => Untouched(l)'
             /\ Accounted(l) /\ line'[l].kind = line[l].kind /\ line'[l].amount = line[l].amount
                  => Accounted(l)'
  <2>1. /\ \A a \in DOMAIN app' \ DOMAIN app : app'[a].by # l
        /\ receipt'[l] = receipt[l]
    BY DEF NotFromLines
  <2> QED
    BY <1>0, <2>1, AccountStays
<1> QED
  BY <1>0, <1>1 DEF AccountInv

LEMMA AccountProcess ==
  ASSUME TableInv, AccountInv, NEW l \in Lines, Process(l)
  PROVE  AccountInv'
<1>0. ItemsTypeOK /\ line[l] \in Line /\ detail \subseteq Lines
  BY DEF TableInv, ItemsTypeOK
<1>1. l \notin detail /\ detail' = detail \cup {l} /\ line' = line
  BY DEF Process, IsDuplicate
<1>2. /\ Effect /\ \A a \in DOMAIN app' \ DOMAIN app : app'[a].by = l
      /\ \A m \in Lines \ {l} : receipt'[m] = receipt[m]
  BY ProcessEffect
<1>3. ASSUME NEW m \in Lines \ {l}
      PROVE  (Untouched(m) => Untouched(m)') /\ (Accounted(m) => Accounted(m)')
  <2>1. /\ Grows /\ \A a \in DOMAIN app' \ DOMAIN app : app'[a].by # m
        /\ receipt'[m] = receipt[m] /\ m \in Lines
    BY <1>2 DEF Effect
  <2>2. /\ Untouched(m) => Untouched(m)'
        /\ Accounted(m) /\ line'[m].kind = line[m].kind /\ line'[m].amount = line[m].amount
             => Accounted(m)'
    BY <1>0, <2>1, AccountStays
  <2> QED
    BY <1>1, <2>2
<1>4. Accounted(l)'
  <2>1. CASE line[l].kind = "on_account"
    <3>1. Sweep(line[l].control, Relief(l), l)
      BY <2>1 DEF Process
    <3>2. line[l].control \in Controls /\ line[l].amount \in Int
      BY <1>0 DEF Line
    <3>3. Untouched(l)
      BY <1>1 DEF AccountInv
    <3> QED
      BY <1>1, <3>1, <3>2, <3>3, SweepAccounts
  <2>2. CASE line[l].kind # "on_account"
    BY <1>1, <2>2 DEF Accounted
  <2> QED
    BY <2>1, <2>2
<1> QED
  BY <1>0, <1>1, <1>3, <1>4 DEF AccountInv

ItemsInv == TableInv /\ Conserved /\ AccountInv /\ LedgerInv

LEMMA ItemsInvInit == ItemsInit => ItemsInv
<1> SUFFICES ASSUME ItemsInit PROVE ItemsInv
  OBVIOUS
<1>1. \A l \in Lines : line[l] \in Line /\ line[l].writes_off = 0
  BY FirstLinesAssumption DEF ItemsInit
<1>2. DOMAIN line = Lines /\ line \in [Lines -> Line]
  BY <1>1 DEF ItemsInit
<1>3. DOMAIN item = {} /\ DOMAIN app = {} /\ Len(item) = 0 /\ Len(app) = 0
      /\ item \in Seq(Item) /\ app \in Seq(App)
  BY DEF ItemsInit
<1>4. NoWriteOff \in [pc : {"idle", "posting"}, key : Keys \cup {None},
                      item : 0 .. MaxItems, seen : Nat]
  BY ScheduleAssumption DEF NoWriteOff
<1>5. ItemsTypeOK
  BY <1>2, <1>3, <1>4, ScheduleAssumption DEF ItemsInit, ItemsTypeOK
<1>6. TableInv
  BY <1>1, <1>3, <1>5 DEF ItemsInit, TableInv, RefersOK, LinesOK
<1>7. Conserved /\ LedgerInv
  BY <1>3 DEF Conserved, LedgerInv
<1>8. AccountInv
  BY <1>3 DEF ItemsInit, AccountInv, Untouched, AppsBy
<1> QED
  BY <1>6, <1>7, <1>8 DEF ItemsInv

LEMMA ItemsInvNext == ItemsInv /\ [ItemsNext]_itemVars => ItemsInv'
<1> SUFFICES ASSUME ItemsInv, [ItemsNext]_itemVars PROVE ItemsInv'
  OBVIOUS
<1>0. TableInv /\ Conserved /\ AccountInv /\ LedgerInv
  BY DEF ItemsInv
<1>1. ASSUME NEW l \in Lines, Books(l) PROVE ItemsInv'
  <2>1. /\ Effect /\ TableInv' /\ NotFromLines
        /\ \A j \in DOMAIN item : item'[j].written_off = item[j].written_off
        /\ \A m \in Lines : /\ line'[m].kind = line[m].kind /\ line'[m].amount = line[m].amount
                            /\ line'[m].writes_off = line[m].writes_off
    BY <1>0, <1>1, BooksKeeps
  <2>2. detail' = detail /\ writeOff' = writeOff /\ detail \subseteq Lines
    BY <1>0, <1>1 DEF Books, TableInv, ItemsTypeOK
  <2>3. AccountInv'
    BY <1>0, <2>1, <2>2, AccountKept
  <2>4. LedgerInv'
    BY <1>0, <2>1, <2>2, LedgerStays
  <2> QED
    BY <1>0, <2>1, <2>3, <2>4, ConservedNext DEF ItemsInv
<1>2. ASSUME NEW l \in Lines, Process(l) PROVE ItemsInv'
  <2>1. /\ Effect /\ TableInv'
        /\ \A j \in DOMAIN item : item'[j].written_off = item[j].written_off
    BY <1>0, <1>2, ProcessEffect
  <2>2. line' = line /\ writeOff' = writeOff
    BY <1>2 DEF Process
  <2>3. AccountInv'
    BY <1>0, <1>2, AccountProcess
  <2>4. LedgerInv'
    BY <1>0, <2>1, <2>2, LedgerStays
  <2> QED
    BY <1>0, <2>1, <2>3, <2>4, ConservedNext DEF ItemsInv
<1>3. ASSUME NEW key \in Keys, Asks(key) PROVE ItemsInv'
  <2>1. /\ Effect /\ TableInv' /\ NotFromLines
        /\ \A j \in DOMAIN item : item'[j].written_off = item[j].written_off
    BY <1>0, <1>3, RequestEffect
  <2>2. line' = line /\ writeOff' = writeOff /\ detail' = detail
    BY <1>3 DEF Asks, ApplyManual, ApplyAutoFifo, SplitOpenItem, TransferOpenItem
  <2>3. AccountInv'
    BY <1>0, <2>1, <2>2, AccountKept
  <2>4. LedgerInv'
    BY <1>0, <2>1, <2>2, LedgerStays
  <2> QED
    BY <1>0, <2>1, <2>3, <2>4, ConservedNext DEF ItemsInv
<1>4. ASSUME NEW key \in Keys, NEW r \in WriteOffs, NEW i \in DOMAIN item, NEW l \in Lines,
             BeginWriteOff(r, key, i, l)
      PROVE  ItemsInv'
  <2>1. /\ Effect /\ TableInv' /\ NotFromLines
        /\ l \notin detail /\ detail' = detail
        /\ \A m \in Lines \ {l} : line'[m] = line[m]
    BY <1>0, <1>4, BeginKeeps
  <2>2. detail \subseteq Lines
    BY <1>0 DEF TableInv, ItemsTypeOK
  <2>3. AccountInv'
    BY <1>0, <2>1, <2>2, AccountKept
  <2>4. LedgerInv'
    BY <1>0, <1>4, LedgerBegins
  <2> QED
    BY <1>0, <2>1, <2>3, <2>4, ConservedNext DEF ItemsInv
<1>5. ASSUME NEW r \in WriteOffs, CommitWriteOff(r) \/ AbortWriteOff(r) PROVE ItemsInv'
  <2>1. Effect /\ TableInv' /\ NotFromLines /\ UNCHANGED <<line, detail>>
    BY <1>0, <1>5, EndKeeps
  <2>2. AccountInv'
    BY <1>0, <2>1, AccountKept
  <2>3. LedgerInv'
    BY <1>0, <1>5, LedgerEnds
  <2> QED
    BY <1>0, <2>1, <2>2, <2>3, ConservedNext DEF ItemsInv
<1>6. ASSUME NEW a \in DOMAIN app, ReverseApplication(a) PROVE ItemsInv'
  <2>1. /\ Effect /\ TableInv' /\ NotFromLines
        /\ \A j \in DOMAIN item : item'[j].written_off = item[j].written_off
    BY <1>0, <1>6, ReversalKeeps
  <2>2. line' = line /\ writeOff' = writeOff /\ detail' = detail
    BY <1>6 DEF ReverseApplication
  <2>3. AccountInv'
    BY <1>0, <2>1, <2>2, AccountKept
  <2>4. LedgerInv'
    BY <1>0, <2>1, <2>2, LedgerStays
  <2> QED
    BY <1>0, <2>1, <2>3, <2>4, ConservedNext DEF ItemsInv
<1>7. CASE UNCHANGED itemVars
  <2>1. ItemsTypeOK' /\ RefersOK' /\ LinesOK'
    BY <1>0, <1>7 DEF itemVars, TableInv, ItemsTypeOK, RefersOK, LinesOK
  <2>2. Conserved'
    BY <1>0, <1>7 DEF itemVars, Conserved, AmountOf, AppsOf, OriginalOf, PartsFrom
  <2>3. AccountInv'
    BY <1>0, <1>7 DEF itemVars, AccountInv, Accounted, Untouched, AppsBy, Relief, AmountOf
  <2>4. LedgerInv'
    BY <1>0, <1>7 DEF itemVars, LedgerInv, Pending, SeenOf, UnderWay, Ledger, CreditOf,
                      EntriesFor
  <2> QED
    BY <2>1, <2>2, <2>3, <2>4 DEF ItemsInv, TableInv
<1>8. CASE ItemsNext
  <2>1. CASE \E l \in Lines : LineStep(l)
    BY <1>1, <1>2, <2>1 DEF LineStep
  <2>2. CASE \E key \in Keys : OperatorStep(key)
    <3>1. PICK key \in Keys : OperatorStep(key)
      BY <2>2
    <3>2. \/ Asks(key)
          \/ \E r \in WriteOffs, i \in DOMAIN item, l \in Lines : BeginWriteOff(r, key, i, l)
      BY <3>1 DEF OperatorStep, Asks
    <3> QED
      BY <1>3, <1>4, <3>2
  <2>3. CASE \E a \in DOMAIN app : ReverseApplication(a)
    BY <1>6, <2>3
  <2>4. CASE \E r \in WriteOffs : CommitWriteOff(r) \/ AbortWriteOff(r)
    BY <1>5, <2>4
  <2> QED
    BY <1>8, <2>1, <2>2, <2>3, <2>4 DEF ItemsNext
<1> QED
  BY <1>7, <1>8

LEMMA ItemsInvHolds == ItemsSpec => []ItemsInv
  BY ItemsInvInit, ItemsInvNext, PTL DEF ItemsSpec

(* Every balance of an open item lies between nothing and what the item was, and    *)
(* the tables of the schedule hold what their columns admit, whatever operators and *)
(* events do (apply-amount and the tables' checks).                                  *)
THEOREM ItemsTypeCorrect == ItemsSpec => []ItemsTypeOK
<1>1. ItemsInv => ItemsTypeOK
  BY DEF ItemsInv, TableInv
<1> QED
  BY <1>1, ItemsInvHolds, PTL

(* No cent of an open item is lost or made, through any number of applications,     *)
(* sweeps, splits, transfers, write-offs and reversals in any order.                 *)
THEOREM NoCentIsLost == ItemsSpec => []Conserved
<1>1. ItemsInv => Conserved
  BY DEF ItemsInv
<1> QED
  BY <1>1, ItemsInvHolds, PTL

(* Cash taken on account is applied to the oldest items or kept as an unapplied     *)
(* receipt to the cent, for any number of items, ages and balances.                  *)
THEOREM CashIsAccountedFor == ItemsSpec => []OnAccountIsAccountedFor
<1>1. ItemsInv => OnAccountIsAccountedFor
  BY DEF ItemsInv, AccountInv, Accounted, OnAccountIsAccountedFor
<1> QED
  BY <1>1, ItemsInvHolds, PTL

(* Whatever was written off an item is in entries of the general ledger, with any   *)
(* number of write-offs under way, aborted and run again.                            *)
THEOREM WriteOffsAreBooked == ItemsSpec => []WrittenOffIsInLedger
<1>1. ItemsInv => WrittenOffIsInLedger
  <2> SUFFICES ASSUME ItemsInv, NEW i \in DOMAIN item
               PROVE  item[i].written_off <= Ledger(i)
    BY DEF WrittenOffIsInLedger, Ledger
  <2>1. TableInv /\ item[i].written_off + Pending(i) <= Ledger(i)
    BY DEF ItemsInv, LedgerInv
  <2>2. Pending(i) \in Nat /\ Ledger(i) \in Int
    BY <2>1, LedgerTypes
  <2>3. item[i].written_off \in Nat
    BY <2>1, TableFacts DEF TableInv, Item
  <2> QED
    BY <2>1, <2>2, <2>3
<1> QED
  BY <1>1, ItemsInvHolds, PTL
=============================================================================
