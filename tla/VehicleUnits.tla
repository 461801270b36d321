---------------------------- MODULE VehicleUnits ----------------------------
(***************************************************************************)
(* services/vehicle-accounting-service: the book value of a vehicle unit,    *)
(* moved by stock-in, added costs, write-downs to market and dealer trades   *)
(* in and out.  Each operation is an event, sent under a key: it looks for   *)
(* the row of the key, reads the unit, submits the event to the posting      *)
(* engine, and then, in one transaction, writes the row and, if the answer   *)
(* was POSTED, moves the book value.                                         *)
(*                                                                         *)
(* The engine is the one of EngineContract.  Nothing ties the two databases  *)
(* together: a request may end between the steps, an event may be sent       *)
(* again, and the engine's row moves on under its own replays.               *)
(***************************************************************************)
EXTENDS Integers, FiniteSets, FiniteSetsExt

CONSTANTS
  Events,     \* the events, one per caller's eventId
  EventKeys,  \* the idempotency keys; an event's own id is its default key
  EventOf,    \* the event each key is sent with
  Units,      \* stock numbers
  UnitOf,     \* the unit of each event
  Cost,       \* the cost an event adds, or the market value of a write-down
  Kinds,      \* what each event may be
  Requests,   \* concurrent requests of the service
  NoEvent     \* the event and the key of a request that works on none

\* The events that bring a unit in.
Births == {"stock_in", "trade_in"}

Kind == Births \cup {"cost", "write_down", "trade_out"}

ASSUME VehicleAssumption ==
  /\ Events \subseteq EventKeys /\ EventOf \in [EventKeys -> Events]
  /\ \A e \in Events : EventOf[e] = e
  /\ UnitOf \in [Events -> Units]
  /\ Cost \in [Events -> Nat \ {0}]
  /\ Kinds \in [Events -> SUBSET Kind]
  /\ NoEvent \notin EventKeys
  /\ IsFiniteSet(EventKeys)

VARIABLES
  kind,       \* what each event is
  unit,       \* vehicle_unit: whether it exists, its book value, its disposal
  component,  \* vehicle_cost_component: the amount of the event's row, 0 for none
  row,        \* the event, write-down or trade row of each key: its status, and
              \* the amount it took off the book value
  exec,       \* the posting engine's execution row
  req         \* local variables of each request

vars == <<kind, unit, component, row, exec, req>>

Engine == INSTANCE EngineContract
-----------------------------------------------------------------------------
NoUnit == [exists |-> FALSE, book |-> 0, disposed |-> FALSE]

NoRow == [status |-> "NONE", taken |-> 0]

Idle ==
  [pc |-> "idle", event |-> NoEvent, key |-> NoEvent, amount |-> 0, posted |-> FALSE]

TypeOK ==
  /\ kind \in [Events -> Kind]
  /\ unit \in [Units -> [exists : BOOLEAN, book : Int, disposed : BOOLEAN]]
  /\ component \in [Events -> Nat]
  /\ row \in [EventKeys -> [status : {"NONE", "POSTED", "NOT_POSTED"}, taken : Nat]]
  /\ exec \in [Events -> Engine!Execution]
  /\ req \in [Requests -> [pc : {"idle", "submit", "waiting", "apply", "write"},
                           event : Events \cup {NoEvent}, key : EventKeys \cup {NoEvent},
                           amount : Nat, posted : BOOLEAN]]
  /\ \A r \in Requests :
       req[r].pc # "idle" => req[r].key \in EventKeys /\ req[r].event = EventOf[req[r].key]

Init ==
  /\ kind \in [Events -> Kind] /\ \A e \in Events : kind[e] \in Kinds[e]
  /\ unit = [u \in Units |-> NoUnit]
  /\ component = [e \in Events |-> 0]
  /\ row = [k \in EventKeys |-> NoRow]
  /\ Engine!Init
  /\ req = [r \in Requests |-> Idle]

At(r, e, pc) == req[r].pc = pc /\ req[r].event = e
-----------------------------------------------------------------------------
(* Reading the unit                                                          *)

Begins(r, k, pc, amount) ==
  /\ req[r] = Idle
  /\ row[k] = NoRow
  /\ req' = [req EXCEPT ![r] = [pc |-> pc, event |-> EventOf[k], key |-> k,
                               amount |-> amount, posted |-> FALSE]]
  /\ UNCHANGED <<kind, unit, component, row, exec>>

\* Stock-ins and costs have no key but their event's id.
KeyedByEvent == {"stock_in", "cost"}

\* A stock number must be new, also for a unit that a dealer trade brings in.
BringIn(r, k) ==
  LET e == EventOf[k] IN
  /\ kind[e] \in Births
  /\ kind[e] \in KeyedByEvent => k = e
  /\ ~unit[UnitOf[e]].exists
  /\ Begins(r, k, "submit", Cost[e])

AddCost(r, k) ==
  LET e == EventOf[k] IN
  /\ kind[e] = "cost" /\ k = e
  /\ unit[UnitOf[e]].exists
  /\ Begins(r, k, "submit", Cost[e])

\* The write-down is the excess of the book value over the market value; one
\* above the configured threshold is refused before it is submitted.
WriteDown(r, k) ==
  LET e == EventOf[k]
      u == UnitOf[e] IN
  /\ kind[e] = "write_down"
  /\ unit[u].exists
  /\ unit[u].book > Cost[e]
  /\ \E pc \in {"submit", "apply"} : Begins(r, k, pc, unit[u].book - Cost[e])

\* The unit leaves at its book value.
TradeOut(r, k) ==
  LET e == EventOf[k]
      u == UnitOf[e] IN
  /\ kind[e] = "trade_out"
  /\ unit[u].exists /\ ~unit[u].disposed
  /\ unit[u].book > 0
  /\ Begins(r, k, "submit", unit[u].book)
-----------------------------------------------------------------------------
(* PostingOrchestrator.submitAndRecord                                       *)

Answered(r, s) == req' = [req EXCEPT ![r].pc = "apply", ![r].posted = (s = "POSTED")]

\* An event the engine knows is answered from its row, whatever that says.
Submit(r, e) ==
  /\ At(r, e, "submit")
  /\ IF exec[e].status = "NONE"
       THEN /\ Engine!Opens(e)
            /\ IF exec'[e].status = "REJECTED" THEN Answered(r, "REJECTED")
               ELSE req' = [req EXCEPT ![r].pc = "waiting"]
       ELSE Answered(r, exec[e].status) /\ UNCHANGED exec
  /\ UNCHANGED <<kind, unit, component, row>>

\* The evaluation that the request waits for ends.
EngineAnswers(r, e) ==
  /\ At(r, e, "waiting")
  /\ \E x \in Engine!Execution :
       /\ x.status \in {"POSTED", "REJECTED"}
       /\ Engine!Rewrites(e, x)
       /\ Answered(r, x.status)
  /\ UNCHANGED <<kind, unit, component, row>>

\* The engine's own work on the event: late evaluations and replays.
EngineMoves(e) ==
  /\ \E x \in Engine!Execution : x # exec[e] /\ Engine!Rewrites(e, x)
  /\ UNCHANGED <<kind, unit, component, row, req>>

\* The engine is unreachable or its answer lost, or the process dies: nothing is
\* written, and the caller may send the event again.
RequestDies(r) ==
  /\ req[r] # Idle
  /\ req' = [req EXCEPT ![r] = Idle]
  /\ UNCHANGED <<kind, unit, component, row, exec>>
-----------------------------------------------------------------------------
(* The transaction after the answer                                          *)

\* Mutated form: a row that is found does not stop the transaction.
MayApply_Always(k) == row[k].status \in {"NONE", "POSTED", "NOT_POSTED"}

\* alreadyApplied: the row of the key is looked for again.
MayApply(k) == row[k] = NoRow

\* The row, unless there is one.
WriteRow(k, posted, taken) ==
  row' = [row EXCEPT ![k] =
    IF @ = NoRow
    THEN [status |-> IF posted THEN "POSTED" ELSE "NOT_POSTED",
          taken |-> IF posted THEN taken ELSE 0]
    ELSE @]

\* Mutated form: the component is written whatever the answer was.
AddComponent_Unposted(e, posted, amount) ==
  component' = [component EXCEPT ![e] = IF posted \/ @ = 0 THEN amount ELSE @]

\* The component of a posted event, unless there is one.
AddComponent(e, posted, amount) ==
  component' = [component EXCEPT ![e] = IF posted /\ @ = 0 THEN amount ELSE @]

\* A cost, a write-down or a trade out is one step that finds the row of the key or
\* writes it: one that runs into the row of a concurrent transaction rolls back and
\* looks again (withP2002Retry).
ApplyCost(r, e) ==
  /\ kind[e] = "cost"
  /\ unit' = [unit EXCEPT ![UnitOf[e]].book =
        IF req[r].posted THEN @ + req[r].amount ELSE @]
  /\ AddComponent(e, req[r].posted, req[r].amount)
  /\ WriteRow(req[r].key, req[r].posted, 0)

\* A write-down or a trade takes off what was computed before the event was
\* submitted.
ApplyTaken(r, e) ==
  /\ kind[e] \in {"write_down", "trade_out"}
  /\ unit' = [unit EXCEPT
        ![UnitOf[e]].book = IF req[r].posted THEN @ - req[r].amount ELSE @,
        ![UnitOf[e]].disposed = @ \/ (req[r].posted /\ kind[e] = "trade_out")]
  /\ WriteRow(req[r].key, req[r].posted, req[r].amount)
  /\ UNCHANGED component

Apply(r, e) ==
  /\ At(r, e, "apply")
  /\ kind[e] \notin Births
  /\ IF MayApply(req[r].key)
       THEN ApplyCost(r, e) \/ ApplyTaken(r, e)
       ELSE UNCHANGED <<unit, component, row>>
  /\ req' = [req EXCEPT ![r] = Idle]
  /\ UNCHANGED <<kind, exec>>

\* A stock-in looks first, and writes what another one may have written since.
LookUp(r, e) ==
  /\ At(r, e, "apply")
  /\ kind[e] = "stock_in"
  /\ req' = [req EXCEPT ![r] =
       IF MayApply(req[r].key) THEN [req[r] EXCEPT !.pc = "write"] ELSE Idle]
  /\ UNCHANGED <<kind, unit, component, row, exec>>

\* An upsert runs into the row of a concurrent transaction after all, and the
\* transaction begins again.
Collides(r, e) ==
  /\ At(r, e, "write")
  /\ unit[UnitOf[e]].exists
  /\ req' = [req EXCEPT ![r].pc = "apply"]
  /\ UNCHANGED <<kind, unit, component, row, exec>>

\* The unit an upsert leaves: it changes nothing of a unit that exists.
Born(u, posted, amount) ==
  IF unit[u].exists THEN unit[u]
  ELSE [exists |-> TRUE, book |-> IF posted THEN amount ELSE 0, disposed |-> FALSE]

\* The three upserts of a stock-in or a trade in, each of which writes or finds its
\* own row; a trade in does not look first.
WriteBirth(r, e) ==
  /\ \/ At(r, e, "write")
     \/ At(r, e, "apply") /\ kind[e] = "trade_in"
  /\ unit' = [unit EXCEPT ![UnitOf[e]] =
        Born(UnitOf[e], req[r].posted, req[r].amount)]
  /\ AddComponent(e, req[r].posted, req[r].amount)
  /\ WriteRow(req[r].key, req[r].posted, 0)
  /\ req' = [req EXCEPT ![r] = Idle]
  /\ UNCHANGED <<kind, exec>>
-----------------------------------------------------------------------------
Reads(r, k) == BringIn(r, k) \/ AddCost(r, k) \/ WriteDown(r, k) \/ TradeOut(r, k)

RequestStep(r, e) ==
  \/ Submit(r, e) \/ EngineAnswers(r, e)
  \/ Apply(r, e) \/ LookUp(r, e) \/ Collides(r, e) \/ WriteBirth(r, e)

Next ==
  \/ \E r \in Requests, k \in EventKeys : Reads(r, k)
  \/ \E r \in Requests, e \in Events : RequestStep(r, e)
  \/ \E r \in Requests : RequestDies(r)
  \/ \E e \in Events : EngineMoves(e)

Spec == Init /\ [][Next]_vars
-----------------------------------------------------------------------------
(* Properties                                                                *)

EventsOf(u) == {e \in Events : UnitOf[e] = u}

KeysOf(u) == {k \in EventKeys : UnitOf[EventOf[k]] = u}

\* The rows that brought the unit in.
BirthRows(u) ==
  {k \in KeysOf(u) : kind[EventOf[k]] \in Births /\ row[k] # NoRow}

OneBirth(u) == \A k, l \in BirthRows(u) : k = l

\* What the row of a key, if it is posted, says it moved.
Moved(k) ==
  IF row[k].status = "POSTED" THEN component[EventOf[k]] - row[k].taken ELSE 0

(* "it must be applied AT MOST ONCE across every retry of a racing duplicate":   *)
(* the book value of a unit that one row brought in is what its posted rows      *)
(* added and took, however deliveries of the same and of other events overlap,    *)
(* find each other's rows and die.                                               *)
BookFollowsRows ==
  \A u \in Units : OneBirth(u) =>
    unit[u].book = SumFunctionOnSet([k \in EventKeys |-> Moved(k)], KeysOf(u))

(* "maintained transactionally alongside each cost-component write so it always   *)
(* equals the sum of the components": the book value is that sum, less what       *)
(* write-downs and trades took.                                                   *)
BookIsSumOfComponents ==
  \A u \in Units :
    unit[u].book = SumFunctionOnSet(component, EventsOf(u))
                   - SumFunctionOnSet([k \in EventKeys |-> row[k].taken], KeysOf(u))

(* The unit's ledger claims nothing the general ledger lacks: an event that      *)
(* moved the book value has a journal, although the answer that moved it may     *)
(* be old by then.                                                               *)
AppliedIsBooked ==
  /\ \A e \in Events : component[e] # 0 => exec[e].journal = "JE"
  /\ \A k \in EventKeys : row[k].status = "POSTED" => exec[EventOf[k]].journal = "JE"
=============================================================================
