------------------------ MODULE PostingEngine_proofs ------------------------
(***************************************************************************)
(* Theorems about PostingEngine: one submission of an event is at the bridge, *)
(* a POSTED row names a journal that left DRAFT, only versions that were      *)
(* activated post, and the engine implements EngineContract.                  *)
(*                                                                         *)
(* The argument is the same for all four.  Rows, journals and versions only   *)
(* move forward (Evolves), so what a request knows when it takes a step stays *)
(* true until it uses it, whatever the others do in between (Informed).       *)
(***************************************************************************)
EXTENDS PostingEngine, TLAPS

Activated(v) == pack[v] \in {"ACTIVE", "SUPERSEDED"}

HasRow(e) == exec[e].status # "NONE"

\* A request past its claim, and one that has a version to claim with.
Chooses(r) == AtBridge(r) \/ (At(r, "claim") /\ Submitting(r))

\* What a request knows.
Informed ==
  \A r \in Requests :
    /\ At(r, "idle") => Submitting(r)
    /\ At(r, "select") => ~Submitting(r)
    /\ AtBridge(r) \/ (~At(r, "idle") /\ ~Submitting(r)) => HasRow(req[r].event)
    /\ Chooses(r) => req[r].version \in Versions /\ Activated(req[r].version)
    /\ At(r, "submit") => journal[req[r].event][KeyOf(r)] # "NONE"
    /\ req[r].pc \in {"booked", "recorded"} =>
         journal[req[r].event][KeyOf(r)] = "PAST_DRAFT"

\* What rows and journals say of each other and of the versions.
RowsAgree ==
  \A e \in Events :
    /\ exec[e].status = "POSTED" =>
         /\ exec[e].version \in Versions /\ Activated(exec[e].version)
         /\ exec[e].journal \in {Original, exec[e].version}
         /\ journal[e][exec[e].journal] = "PAST_DRAFT"
    /\ \A k \in Keys : journal[e][k] # "NONE" => HasRow(e)
    /\ \A v \in Versions : journal[e][v] # "NONE" => Activated(v)

IInv == TypeOK /\ OneSubmissionPosts /\ Informed /\ RowsAgree

-----------------------------------------------------------------------------
(* Types                                                                     *)

LEMMA IdleRequestType == IdleRequest \in Request
  BY DEF IdleRequest, Request, RowStatus

LEMMA FinalStatusType ==
  ASSUME NEW r, NEW s \in FinalStatus(r)
  PROVE  s \in {"NO_RULE_MATCH", "REJECTED"}
<1>1. CASE req[r].verdict = "UNMATCHED"
  BY <1>1 DEF FinalStatus
<1>2. CASE req[r].verdict = "REFUSED"
  BY <1>2 DEF FinalStatus
<1>3. CASE req[r].verdict \notin {"UNMATCHED", "REFUSED"}
  BY <1>3 DEF FinalStatus
<1> QED
  BY <1>1, <1>2, <1>3

LEMMA GoesType ==
  ASSUME TypeOK, NEW r \in Requests, NEW e \in Events,
         NEW pc \in {"conclude", "claim", "create"},
         NEW v \in Versions \cup {Nothing},
         NEW verdict \in {"NONE", "UNMATCHED", "REFUSED", "AMBIGUOUS"},
         Goes(r, e, pc, v, verdict)
  PROVE  /\ req' \in [Requests -> Request]
         /\ \A q \in Requests : req'[q].pc # "idle" => req'[q].event \in Events
<1>1. [req[r] EXCEPT !.pc = pc, !.event = e, !.version = v, !.verdict = verdict] \in Request
  BY DEF TypeOK, Request
<1> QED
  BY <1>1 DEF TypeOK, Goes

LEMMA EvaluateType ==
  ASSUME TypeOK, NEW r \in Requests, NEW e \in Events, NEW pc \in {"claim", "create"},
         Evaluate(r, e, pc)
  PROVE  /\ req' \in [Requests -> Request]
         /\ \A q \in Requests : req'[q].pc # "idle" => req'[q].event \in Events
  BY GoesType DEF Evaluate

LEMMA SetPackType ==
  ASSUME TypeOK, NEW p \in [Versions -> VersionStatus], SetPack(p)
  PROVE  pack' \in [Versions -> VersionStatus] /\ past' \in [Versions -> SUBSET VersionStatus]
<1>1. pack' = p /\ past' = [v \in Versions |-> past[v] \cup {p[v]}]
  BY DEF SetPack
<1> QED
  BY <1>1 DEF TypeOK

LEMMA JournalType ==
  ASSUME TypeOK, NEW e, NEW k, NEW s \in {"DRAFT", "PAST_DRAFT"}
  PROVE  [journal EXCEPT ![e][k] = s] \in [Events -> [Keys -> JournalStatus]]
<1>1. journal \in [Events -> [Keys -> JournalStatus]] /\ s \in JournalStatus
  BY DEF TypeOK, JournalStatus
<1>2. \A f \in Events : [journal[f] EXCEPT ![k] = s] \in [Keys -> JournalStatus]
  BY <1>1
<1> QED
  BY <1>1, <1>2

LEMMA PackTypeStep ==
  ASSUME TypeOK, PackStep PROVE TypeOK'
<1>1. ASSUME NEW v \in Versions, CreateRulePackVersion(v) PROVE TypeOK'
  <2>1. [pack EXCEPT ![v] = "DRAFT"] \in [Versions -> VersionStatus]
    BY DEF TypeOK, VersionStatus
  <2> QED
    BY <1>1, <2>1, SetPackType DEF CreateRulePackVersion, TypeOK
<1>2. ASSUME NEW v \in Versions, Validate(v) PROVE TypeOK'
  <2>1. PICK s \in VersionStatus :
          /\ SetPack([pack EXCEPT ![v] = s])
          /\ UNCHANGED <<desk, exec, journal, req, crashes>>
    BY <1>2 DEF Validate, TypeOK, VersionStatus
  <2>2. [pack EXCEPT ![v] = s] \in [Versions -> VersionStatus]
    BY DEF TypeOK
  <2> QED
    BY <2>1, <2>2, SetPackType DEF TypeOK
<1>3. ASSUME NEW d \in Desks, NEW v \in Versions, Activate(d, v) PROVE TypeOK'
  BY <1>3 DEF Activate, TypeOK, Desk
<1>4. ASSUME NEW d \in Desks, ActivateCommit(d) PROVE TypeOK'
  <2> DEFINE p == [v \in Versions |->
                     IF v = desk[d].version THEN "ACTIVE"
                     ELSE IF v \in desk[d].seen /\ pack[v] = "ACTIVE" THEN "SUPERSEDED"
                     ELSE pack[v]]
  <2>1. p \in [Versions -> VersionStatus]
    BY DEF TypeOK, VersionStatus
  <2>2. SetPack(p)
    BY <1>4 DEF ActivateCommit
  <2>3. pack' \in [Versions -> VersionStatus] /\ past' \in [Versions -> SUBSET VersionStatus]
    BY <2>1, <2>2, SetPackType
  <2> QED
    BY <1>4, <2>3 DEF ActivateCommit, TypeOK, Desk, IdleDesk
<1> QED
  BY <1>1, <1>2, <1>3, <1>4 DEF PackStep

LEMMA TypeStep == TypeOK /\ [Next]_vars => TypeOK'
<1> SUFFICES ASSUME TypeOK, [Next]_vars PROVE TypeOK'
  OBVIOUS
<1>1. CASE PackStep
  BY <1>1, PackTypeStep
<1>2. ASSUME NEW r \in Requests, NEW e \in Events, Submit(r, e) PROVE TypeOK'
  BY <1>2, EvaluateType DEF Submit, TypeOK
<1>3. ASSUME NEW r \in Requests, NEW e \in Events, Replay(r, e) PROVE TypeOK'
  <2>1. [IdleRequest EXCEPT !.pc = "claim", !.kind = "replay", !.event = e,
                            !.read = exec[e].status] \in Request
    BY DEF IdleRequest, Request, TypeOK, Row
  <2> QED
    BY <1>3, <2>1 DEF Replay, TypeOK
<1>4. ASSUME NEW r \in Requests, RequestStep(r) PROVE TypeOK'
  <2>1. ASSUME End(r)
        PROVE  /\ req' \in [Requests -> Request]
               /\ \A q \in Requests : req'[q].pc # "idle" => req'[q].event \in Events
    BY <2>1, IdleRequestType DEF End, TypeOK, IdleRequest
  <2>2. ASSUME NEW pc \in {"submit", "booked", "recorded"}, GoTo(r, pc), ~At(r, "idle")
        PROVE  /\ req' \in [Requests -> Request]
               /\ \A q \in Requests : req'[q].pc # "idle" => req'[q].event \in Events
    BY <2>2 DEF GoTo, TypeOK, Request, At
  <2>3. CASE SelectAgain(r)
    <3>1. req[r].event \in Events
      BY <2>3 DEF SelectAgain, At, TypeOK
    <3> QED
      BY <2>3, <3>1, EvaluateType DEF SelectAgain, TypeOK
  <2>4. CASE Conclude(r)
    <3>1. ASSUME NEW s \in FinalStatus(r),
                 exec' = [exec EXCEPT ![req[r].event].status = s,
                                      ![req[r].event].version = Nothing]
          PROVE  exec' \in [Events -> Row]
      <4>1. s \in RowStatus
        BY FinalStatusType DEF RowStatus
      <4> QED
        BY <3>1, <4>1 DEF TypeOK, Row
    <3>2. exec' \in [Events -> Row]
      BY <2>4, <3>1 DEF Conclude, TypeOK
    <3> QED
      BY <2>1, <2>4, <3>2 DEF Conclude, TypeOK
  <2>5. CASE Claim(r)
    <3>1. exec' \in [Events -> Row]
      BY <2>5 DEF Claim, TypeOK, Row, RowStatus
    <3>2. ASSUME NEW pc \in {"create", "select"},
                 req' = [req EXCEPT ![r].pc = pc, ![r].read = "NONE"]
          PROVE  /\ req' \in [Requests -> Request]
                 /\ \A q \in Requests : req'[q].pc # "idle" => req'[q].event \in Events
      <4>1. [req[r] EXCEPT !.pc = pc, !.read = "NONE"] \in Request
        BY DEF TypeOK, Request, RowStatus
      <4>2. req' = [req EXCEPT ![r] = [req[r] EXCEPT !.pc = pc, !.read = "NONE"]]
        BY <3>2 DEF TypeOK
      <4>3. req' \in [Requests -> Request]
        BY <4>1, <4>2 DEF TypeOK
      <4>4. \A q \in Requests : req'[q].event = req[q].event
        BY <4>2 DEF TypeOK, Request
      <4> QED
        BY <4>2, <4>3, <4>4, <2>5 DEF TypeOK, Claim, At
    <3>3. /\ req' \in [Requests -> Request]
          /\ \A q \in Requests : req'[q].pc # "idle" => req'[q].event \in Events
      BY <2>5, <3>2 DEF Claim
    <3> QED
      BY <2>5, <3>1, <3>3 DEF Claim, TypeOK
  <2>6. CASE LoseClaim(r)
    BY <2>1, <2>6 DEF LoseClaim, TypeOK
  <2>7. CASE BridgeCreate(r)
    <3>1. journal' \in [Events -> [Keys -> JournalStatus]]
      <4>1. \/ journal' = journal
            \/ journal' = [journal EXCEPT ![req[r].event][KeyOf(r)] = "DRAFT"]
        BY <2>7 DEF BridgeCreate
      <4>2. [journal EXCEPT ![req[r].event][KeyOf(r)] = "DRAFT"]
              \in [Events -> [Keys -> JournalStatus]]
        BY JournalType
      <4> QED
        BY <4>1, <4>2 DEF TypeOK
    <3>2. /\ req' \in [Requests -> Request]
          /\ \A q \in Requests : req'[q].pc # "idle" => req'[q].event \in Events
      BY <2>2, <2>7 DEF BridgeCreate, At
    <3> QED
      BY <2>7, <3>1, <3>2 DEF BridgeCreate, TypeOK
  <2>8. CASE BridgeSubmit(r)
    <3>1. journal' \in [Events -> [Keys -> JournalStatus]]
      BY <2>8, JournalType DEF BridgeSubmit, TypeOK
    <3>2. /\ req' \in [Requests -> Request]
          /\ \A q \in Requests : req'[q].pc # "idle" => req'[q].event \in Events
      BY <2>2, <2>8 DEF BridgeSubmit, At
    <3> QED
      BY <2>8, <3>1, <3>2 DEF BridgeSubmit, TypeOK
  <2>9. CASE RecordPosted(r)
    <3>1. KeyOf(r) \in Keys \cup {Nothing}
      BY DEF KeyOf, Keys, TypeOK, Request
    <3>2. [status |-> "POSTED", version |-> req[r].version, journal |-> KeyOf(r)] \in Row
      BY <3>1 DEF Row, RowStatus, TypeOK, Request
    <3>3. exec' \in [Events -> Row]
      BY <2>9, <3>2 DEF RecordPosted, TypeOK
    <3>4. /\ req' \in [Requests -> Request]
          /\ \A q \in Requests : req'[q].pc # "idle" => req'[q].event \in Events
      BY <2>2, <2>9 DEF RecordPosted, At
    <3> QED
      BY <2>9, <3>3, <3>4 DEF RecordPosted, TypeOK
  <2>10. CASE Finish(r)
    BY <2>1, <2>10 DEF Finish, TypeOK
  <2>11. CASE RecordRejected(r)
    <3>1. exec' \in [Events -> Row]
      BY <2>11 DEF RecordRejected, TypeOK, Row, RowStatus
    <3> QED
      BY <2>1, <2>11, <3>1 DEF RecordRejected, TypeOK
  <2>12. CASE Crash(r)
    BY <2>1, <2>12 DEF Crash, TypeOK
  <2> QED
    BY <1>4, <2>3, <2>4, <2>5, <2>6, <2>7, <2>8, <2>9, <2>10, <2>11, <2>12 DEF RequestStep
<1>5. ASSUME NEW e \in Events, NEW k \in Keys, DraftMoves(e, k) PROVE TypeOK'
  BY <1>5, JournalType DEF DraftMoves, TypeOK
<1>6. CASE UNCHANGED vars
  BY <1>6 DEF vars, TypeOK
<1> QED
  BY <1>1, <1>2, <1>3, <1>4, <1>5, <1>6 DEF Next

LEMMA TypeInit == Init => TypeOK
  BY IdleRequestType DEF Init, TypeOK, VersionStatus, Desk, IdleDesk, NoRow, Row, RowStatus,
    JournalStatus, IdleRequest

(* PostingEngine's type invariant, for all events, versions and requests.       *)
THEOREM TypeCorrect == Spec => []TypeOK
  BY TypeInit, TypeStep, PTL DEF Spec
-----------------------------------------------------------------------------
(* How the shared state moves                                                *)

\* Rows, journals and activated versions only move forward.
Evolves ==
  /\ \A v \in Versions : Activated(v) => Activated(v)'
  /\ \A e \in Events : HasRow(e) => HasRow(e)'
  /\ \A e \in Events, k \in Keys :
       /\ journal[e][k] # "NONE" => journal'[e][k] # "NONE"
       /\ journal[e][k] = "PAST_DRAFT" => journal'[e][k] = "PAST_DRAFT"

LEMMA PackEvolves ==
  ASSUME TypeOK, PackStep
  PROVE  /\ \A v \in Versions : Activated(v) => Activated(v)'
         /\ UNCHANGED <<exec, journal, req, crashes>>
<1>0. pack \in [Versions -> VersionStatus] /\ past \in [Versions -> SUBSET VersionStatus]
  BY DEF TypeOK
<1>1. ASSUME NEW w \in Versions, CreateRulePackVersion(w)
      PROVE  \A v \in Versions : Activated(v) => Activated(v)'
  BY <1>0, <1>1 DEF CreateRulePackVersion, SetPack, Activated
<1>2. ASSUME NEW w \in Versions, Validate(w)
      PROVE  \A v \in Versions : Activated(v) => Activated(v)'
  <2>1. PICK s \in VersionStatus \ {"ABSENT"} :
          TriggerAllows(pack[w], s) /\ pack' = [pack EXCEPT ![w] = s]
    <3>1. PICK read \in past[w] \ {"ABSENT"} :
            \E s \in IF read = "DRAFT" THEN {"DRAFT", "VALIDATED"} ELSE {read} :
              TriggerAllows(pack[w], s) /\ pack' = [pack EXCEPT ![w] = s]
      BY <1>2 DEF Validate, SetPack
    <3>2. read \in VersionStatus
      BY <1>0
    <3> QED
      BY <3>1, <3>2 DEF VersionStatus
  <2>2. Activated(w) => s \in {"ACTIVE", "SUPERSEDED"}
    BY <2>1 DEF TriggerAllows, Activated, VersionStatus
  <2> QED
    BY <1>0, <2>1, <2>2 DEF Activated
<1>3. ASSUME NEW d \in Desks, NEW w \in Versions, Activate(d, w)
      PROVE  \A v \in Versions : Activated(v) => Activated(v)'
  BY <1>3 DEF Activate, Activated
<1>4. ASSUME NEW d \in Desks, ActivateCommit(d)
      PROVE  \A v \in Versions : Activated(v) => Activated(v)'
  BY <1>0, <1>4 DEF ActivateCommit, SetPack, Activated
<1> QED
  BY <1>1, <1>2, <1>3, <1>4 DEF PackStep, CreateRulePackVersion, Validate, Activate,
    ActivateCommit

\* What one request's step does to the shared state, from what it knows.
LEMMA StepEvolves ==
  ASSUME TypeOK, Informed, [Next]_vars PROVE Evolves
<1>0. /\ exec \in [Events -> Row] /\ journal \in [Events -> [Keys -> JournalStatus]]
      /\ \A r \in Requests : ~At(r, "idle") => req[r].event \in Events
  BY DEF TypeOK, At
<1>1. CASE PackStep
  BY <1>1, PackEvolves DEF Evolves, HasRow
<1>2. ASSUME UNCHANGED <<pack, exec, journal>> PROVE Evolves
  BY <1>2 DEF Evolves, Activated, HasRow
<1>3. ASSUME NEW r \in Requests, Conclude(r) PROVE Evolves
  <2>1. ASSUME NEW s \in FinalStatus(r),
               exec' = [exec EXCEPT ![req[r].event].status = s,
                                    ![req[r].event].version = Nothing]
        PROVE  \A e \in Events : HasRow(e) => HasRow(e)'
    <3>1. s # "NONE"
      BY FinalStatusType
    <3> QED
      BY <1>0, <2>1, <3>1 DEF HasRow, Row
  <2>2. \A e \in Events : HasRow(e) => HasRow(e)'
    BY <1>3, <2>1 DEF Conclude, HasRow
  <2> QED
    BY <1>3, <2>2 DEF Conclude, Evolves, Activated
<1>4. ASSUME NEW r \in Requests, Claim(r) PROVE Evolves
  <2>1. \A e \in Events : HasRow(e) => HasRow(e)'
    BY <1>0, <1>4 DEF Claim, HasRow, Row
  <2> QED
    BY <1>4, <2>1 DEF Claim, Evolves, Activated
<1>5. ASSUME NEW r \in Requests, BridgeCreate(r) PROVE Evolves
  <2>1. \/ journal' = journal
        \/ /\ journal[req[r].event][KeyOf(r)] = "NONE"
           /\ journal' = [journal EXCEPT ![req[r].event][KeyOf(r)] = "DRAFT"]
    BY <1>5 DEF BridgeCreate
  <2>2. \A e \in Events, k \in Keys :
          /\ journal[e][k] # "NONE" => journal'[e][k] # "NONE"
          /\ journal[e][k] = "PAST_DRAFT" => journal'[e][k] = "PAST_DRAFT"
    BY <1>0, <2>1
  <2> QED
    BY <1>5, <2>2 DEF BridgeCreate, Evolves, Activated, HasRow
<1>6. ASSUME NEW r \in Requests, BridgeSubmit(r) PROVE Evolves
  <2>1. \/ journal' = journal
        \/ journal' = [journal EXCEPT ![req[r].event][KeyOf(r)] = "PAST_DRAFT"]
    BY <1>6 DEF BridgeSubmit
  <2>2. \A e \in Events, k \in Keys :
          /\ journal[e][k] # "NONE" => journal'[e][k] # "NONE"
          /\ journal[e][k] = "PAST_DRAFT" => journal'[e][k] = "PAST_DRAFT"
    BY <1>0, <2>1
  <2> QED
    BY <1>6, <2>2 DEF BridgeSubmit, Evolves, Activated, HasRow
<1>7. ASSUME NEW r \in Requests, RecordPosted(r) \/ RecordRejected(r) PROVE Evolves
  <2>1. ASSUME RecordPosted(r) PROVE \A e \in Events : HasRow(e) => HasRow(e)'
    BY <1>0, <2>1 DEF RecordPosted, HasRow
  <2>2. ASSUME RecordRejected(r) PROVE \A e \in Events : HasRow(e) => HasRow(e)'
    BY <1>0, <2>2 DEF RecordRejected, HasRow, Row
  <2> QED
    BY <1>7, <2>1, <2>2 DEF RecordPosted, RecordRejected, Evolves, Activated
<1>8. ASSUME NEW e \in Events, NEW k \in Keys, DraftMoves(e, k) PROVE Evolves
  <2>1. \A f \in Events, j \in Keys :
          /\ journal[f][j] # "NONE" => journal'[f][j] # "NONE"
          /\ journal[f][j] = "PAST_DRAFT" => journal'[f][j] = "PAST_DRAFT"
    BY <1>0, <1>8 DEF DraftMoves
  <2> QED
    BY <1>8, <2>1 DEF DraftMoves, Evolves, Activated, HasRow
<1> QED
  BY <1>1, <1>2, <1>3, <1>4, <1>5, <1>6, <1>7, <1>8 DEF Next, RequestStep, Submit, Replay,
    SelectAgain, LoseClaim, Finish, Crash, vars
-----------------------------------------------------------------------------
(* What a request knows                                                      *)

Knows(r) ==
  /\ At(r, "idle") => Submitting(r)
  /\ At(r, "select") => ~Submitting(r)
  /\ AtBridge(r) \/ (~At(r, "idle") /\ ~Submitting(r)) => HasRow(req[r].event)
  /\ Chooses(r) => req[r].version \in Versions /\ Activated(req[r].version)
  /\ At(r, "submit") => journal[req[r].event][KeyOf(r)] # "NONE"
  /\ req[r].pc \in {"booked", "recorded"} =>
       journal[req[r].event][KeyOf(r)] = "PAST_DRAFT"

LEMMA InformedIsKnows == Informed <=> \A r \in Requests : Knows(r)
  BY DEF Informed, Knows

(* A request that takes no step knows what it knew.                             *)
LEMMA KnowsStays ==
  ASSUME TypeOK, Evolves, NEW r \in Requests, Knows(r), req'[r] = req[r]
  PROVE  Knows(r)'
<1>1. At(r, "idle") \/ req[r].event \in Events
  BY DEF TypeOK, At
<1>2. KeyOf(r)' = KeyOf(r)
  BY DEF KeyOf, Submitting
<1>3. AtBridge(r) => KeyOf(r) \in Keys
  BY DEF Knows, Chooses, AtBridge, KeyOf, Keys
<1> QED
  BY <1>1, <1>2, <1>3 DEF Knows, Evolves, At, AtBridge, Submitting, Chooses, HasRow, Activated

LEMMA EvaluateKnows ==
  ASSUME TypeOK, NEW r \in Requests, NEW e \in Events, NEW accepted \in {"claim", "create"},
         Evaluate(r, e, accepted)
  PROVE  /\ req'[r].kind = req[r].kind /\ req'[r].event = e
         /\ req'[r].pc \in {"conclude", accepted}
         /\ req'[r].pc = accepted =>
              req'[r].version \in Versions /\ pack[req'[r].version] = "ACTIVE"
         /\ \A q \in Requests \ {r} : req'[q] = req[q]
<1>0. req \in [Requests -> Request]
  BY DEF TypeOK
<1>1. ASSUME NEW pc, NEW v, NEW verdict, Goes(r, e, pc, v, verdict)
      PROVE  /\ req'[r].kind = req[r].kind /\ req'[r].event = e
             /\ req'[r].pc = pc /\ req'[r].version = v
             /\ \A q \in Requests \ {r} : req'[q] = req[q]
  BY <1>0, <1>1 DEF Goes, Request
<1>2. CASE MostSpecific = {} /\ Goes(r, e, "conclude", Nothing, "UNMATCHED")
  BY <1>1, <1>2
<1>3. CASE Cardinality(MostSpecific) > 1 /\ Goes(r, e, "conclude", Nothing, "AMBIGUOUS")
  BY <1>1, <1>3
<1>4. ASSUME NEW v \in Versions, MostSpecific = {v},
             Goes(r, e, accepted, v, "NONE") \/ Goes(r, e, "conclude", v, "REFUSED")
      PROVE  /\ req'[r].kind = req[r].kind /\ req'[r].event = e
             /\ req'[r].pc \in {"conclude", accepted}
             /\ req'[r].pc = accepted =>
                  req'[r].version \in Versions /\ pack[req'[r].version] = "ACTIVE"
             /\ \A q \in Requests \ {r} : req'[q] = req[q]
  <2>1. pack[v] = "ACTIVE"
    BY <1>4 DEF MostSpecific
  <2> QED
    BY <1>1, <1>4, <2>1
<1> QED
  BY <1>2, <1>3, <1>4 DEF Evaluate

LEMMA EndKnows ==
  ASSUME TypeOK, NEW r \in Requests, End(r)
  PROVE  Knows(r)' /\ \A q \in Requests \ {r} : req'[q] = req[q]
<1>1. req'[r] = IdleRequest /\ \A q \in Requests \ {r} : req'[q] = req[q]
  BY DEF End, TypeOK
<1> QED
  BY <1>1 DEF Knows, At, AtBridge, Submitting, Chooses, IdleRequest

LEMMA GoToMoves ==
  ASSUME TypeOK, NEW r \in Requests, NEW pc, GoTo(r, pc)
  PROVE  /\ req'[r].pc = pc /\ req'[r].kind = req[r].kind
         /\ req'[r].event = req[r].event /\ req'[r].version = req[r].version
         /\ \A q \in Requests \ {r} : req'[q] = req[q]
  BY DEF GoTo, TypeOK, Request

(* One step per action of the request.                                          *)
LEMMA RequestKnows ==
  ASSUME TypeOK, Evolves, NEW r \in Requests, Knows(r), RequestStep(r)
  PROVE  Knows(r)' /\ \A q \in Requests \ {r} : req'[q] = req[q]
<1>0. /\ exec \in [Events -> Row] /\ journal \in [Events -> [Keys -> JournalStatus]]
      /\ ~At(r, "idle") => req[r].event \in Events
      /\ req \in [Requests -> Request]
  BY DEF TypeOK, At
<1>1. CASE End(r)
  BY <1>1, EndKnows
<1>2. CASE SelectAgain(r)
  <2>1. req[r].event \in Events /\ Evaluate(r, req[r].event, "create") /\ HasRow(req[r].event)
    BY <1>0, <1>2 DEF SelectAgain, At, Knows
  <2>2. ~Submitting(r) /\ UNCHANGED <<pack, exec>>
    BY <1>2 DEF SelectAgain, Knows
  <2> QED
    BY <2>1, <2>2, EvaluateKnows DEF Knows, At, AtBridge, Submitting, Chooses, HasRow, Activated
<1>3. CASE Claim(r)
  <2>1. /\ req'[r].pc = IF Submitting(r) THEN "create" ELSE "select"
        /\ req'[r].kind = req[r].kind
        /\ req'[r].event = req[r].event /\ req'[r].version = req[r].version
        /\ \A q \in Requests \ {r} : req'[q] = req[q]
    BY <1>0, <1>3 DEF Claim, Request
  <2>2. HasRow(req[r].event)'
    BY <1>0, <1>3 DEF Claim, At, HasRow, Row
  <2>3. UNCHANGED pack
    BY <1>3 DEF Claim
  <2>4. Submitting(r) => req[r].version \in Versions /\ Activated(req[r].version)
    BY <1>3 DEF Claim, Knows, Chooses
  <2> QED
    BY <2>1, <2>2, <2>3, <2>4 DEF Knows, At, AtBridge, Submitting, Chooses, HasRow, Activated
<1>4. ASSUME NEW pc \in {"submit", "booked", "recorded"}, GoTo(r, pc), AtBridge(r),
             journal'[req[r].event][KeyOf(r)] # "NONE",
             pc # "submit" => journal'[req[r].event][KeyOf(r)] = "PAST_DRAFT"
      PROVE  Knows(r)' /\ \A q \in Requests \ {r} : req'[q] = req[q]
  <2>1. req[r].event \in Events /\ HasRow(req[r].event)
    BY <1>0, <1>4 DEF AtBridge, At, Knows
  <2>2. req[r].version \in Versions /\ Activated(req[r].version)
    BY <1>4 DEF Knows, Chooses
  <2>3. KeyOf(r)' = KeyOf(r)
    BY <1>4, GoToMoves DEF KeyOf, Submitting
  <2>4. HasRow(req[r].event)' /\ Activated(req[r].version)'
    <3>1. exec'[req[r].event].status # "NONE" /\ pack'[req[r].version] \in {"ACTIVE", "SUPERSEDED"}
      BY <2>1, <2>2 DEF Evolves, HasRow, Activated
    <3> QED
      BY <1>4, <3>1, GoToMoves DEF HasRow, Activated
  <2> QED
    BY <1>4, <2>2, <2>3, <2>4, GoToMoves DEF Knows, At, AtBridge, Submitting, Chooses, HasRow, Activated
<1>5. AtBridge(r) => KeyOf(r) \in Keys /\ req[r].event \in Events
  BY <1>0 DEF Knows, Chooses, AtBridge, KeyOf, Keys, At
<1>6. CASE BridgeCreate(r)
  <2>1. AtBridge(r)
    BY <1>6 DEF BridgeCreate, At, AtBridge
  <2>2. journal[req[r].event][KeyOf(r)] \in JournalStatus
    BY <1>0, <1>5, <2>1
  <2>3. CASE journal[req[r].event][KeyOf(r)] \in {"NONE", "DRAFT"}
    <3>1. GoTo(r, "submit") /\ journal'[req[r].event][KeyOf(r)] # "NONE"
      BY <1>0, <1>5, <1>6, <2>1, <2>3 DEF BridgeCreate
    <3> QED
      BY <1>4, <2>1, <3>1
  <2>4. CASE journal[req[r].event][KeyOf(r)] = "PAST_DRAFT"
    <3>1. GoTo(r, "booked") /\ UNCHANGED journal
      BY <1>6, <2>4 DEF BridgeCreate
    <3> QED
      BY <1>4, <2>1, <2>4, <3>1
  <2> QED
    BY <2>2, <2>3, <2>4 DEF JournalStatus
<1>7. CASE BridgeSubmit(r)
  <2>1. AtBridge(r) /\ GoTo(r, "booked")
    BY <1>7 DEF BridgeSubmit, At, AtBridge
  <2>2. journal' = IF journal[req[r].event][KeyOf(r)] = "DRAFT"
                    THEN [journal EXCEPT ![req[r].event][KeyOf(r)] = "PAST_DRAFT"] ELSE journal
    BY <1>7 DEF BridgeSubmit
  <2>3. journal[req[r].event][KeyOf(r)] \in {"DRAFT", "PAST_DRAFT"}
    BY <1>0, <1>5, <1>7, <2>1 DEF BridgeSubmit, Knows, JournalStatus
  <2>4. journal'[req[r].event][KeyOf(r)] = "PAST_DRAFT"
    BY <1>0, <1>5, <2>1, <2>2, <2>3
  <2> QED
    BY <1>4, <2>1, <2>4
<1>8. CASE RecordPosted(r)
  <2>1. AtBridge(r) /\ GoTo(r, "recorded") /\ UNCHANGED journal
    BY <1>8 DEF RecordPosted, At, AtBridge
  <2>2. journal[req[r].event][KeyOf(r)] = "PAST_DRAFT"
    BY <1>8 DEF RecordPosted, At, Knows
  <2> QED
    BY <1>4, <2>1, <2>2
<1> QED
  BY <1>1, <1>2, <1>3, <1>6, <1>7, <1>8 DEF RequestStep, Conclude, LoseClaim, Finish,
    RecordRejected, Crash

LEMMA InformedStep ==
  ASSUME TypeOK, Informed, Evolves, [Next]_vars PROVE Informed'
<1>0. \A r \in Requests : Knows(r)
  BY InformedIsKnows
<1>1. ASSUME req' = req PROVE \A q \in Requests : Knows(q)'
  BY <1>0, <1>1, KnowsStays
<1>2. ASSUME NEW r \in Requests, RequestStep(r) PROVE \A q \in Requests : Knows(q)'
  BY <1>0, <1>2, KnowsStays, RequestKnows
<1>3. ASSUME NEW r \in Requests, NEW e \in Events, Submit(r, e)
      PROVE  \A q \in Requests : Knows(q)'
  <2>1. Evaluate(r, e, "claim") /\ UNCHANGED pack
    BY <1>3 DEF Submit
  <2>2. /\ req'[r].kind = req[r].kind
        /\ req'[r].pc \in {"conclude", "claim"}
        /\ req'[r].pc = "claim" =>
             req'[r].version \in Versions /\ pack[req'[r].version] = "ACTIVE"
        /\ \A q \in Requests \ {r} : req'[q] = req[q]
    BY <2>1, EvaluateKnows
  <2>3. Submitting(r)
    BY <1>0, <1>3 DEF Submit, Knows
  <2>4. Knows(r)'
    BY <2>1, <2>2, <2>3 DEF Knows, At, AtBridge, Submitting, Chooses, Activated
  <2> QED
    BY <1>0, <2>2, <2>4, KnowsStays
<1>4. ASSUME NEW r \in Requests, NEW e \in Events, Replay(r, e)
      PROVE  \A q \in Requests : Knows(q)'
  <2>1. /\ req'[r] = [IdleRequest EXCEPT !.pc = "claim", !.kind = "replay", !.event = e,
                                         !.read = exec[e].status]
        /\ \A q \in Requests \ {r} : req'[q] = req[q]
    BY <1>4 DEF Replay, TypeOK
  <2>2. HasRow(e) /\ UNCHANGED exec
    BY <1>4 DEF Replay, HasRow
  <2>3. Knows(r)'
    BY <2>1, <2>2 DEF Knows, At, AtBridge, Submitting, Chooses, IdleRequest, HasRow
  <2> QED
    BY <1>0, <2>1, <2>3, KnowsStays
<1>5. \A q \in Requests : Knows(q)'
  BY <1>1, <1>2, <1>3, <1>4 DEF Next, PackStep, CreateRulePackVersion, Validate, Activate,
    ActivateCommit, DraftMoves, vars
<1> QED
  BY <1>5 DEF Informed, Knows
-----------------------------------------------------------------------------
(* Rows, journals and versions agree                                         *)

Agrees(e) ==
  /\ exec[e].status = "POSTED" =>
       /\ exec[e].version \in Versions /\ Activated(exec[e].version)
       /\ exec[e].journal \in {Original, exec[e].version}
       /\ journal[e][exec[e].journal] = "PAST_DRAFT"
  /\ \A k \in Keys : journal[e][k] # "NONE" => HasRow(e)
  /\ \A v \in Versions : journal[e][v] # "NONE" => Activated(v)

LEMMA AgreesStays ==
  ASSUME Evolves, NEW e \in Events, Agrees(e),
         exec'[e].status # "POSTED" \/ exec'[e] = exec[e],
         \A k \in Keys : journal'[e][k] # "NONE" => journal[e][k] # "NONE"
  PROVE  Agrees(e)'
<1>1. exec'[e].status = "POSTED" =>
        /\ exec'[e].version \in Versions /\ Activated(exec[e].version)'
        /\ exec'[e].journal \in {Original, exec'[e].version}
        /\ journal'[e][exec'[e].journal] = "PAST_DRAFT"
  BY DEF Agrees, Evolves, Activated, Keys
<1>2. \A k \in Keys : journal'[e][k] # "NONE" => HasRow(e)'
  BY DEF Agrees, Evolves
<1>3. \A v \in Versions : journal'[e][v] # "NONE" => Activated(v)'
  BY DEF Agrees, Evolves, Keys
<1> QED
  BY <1>1, <1>2, <1>3 DEF Agrees, Activated

LEMMA RowsAgreeStep ==
  ASSUME TypeOK, Informed, RowsAgree, Evolves, [Next]_vars PROVE RowsAgree'
<1>0. /\ \A e \in Events : Agrees(e)
      /\ \A r \in Requests : Knows(r)
      /\ exec \in [Events -> Row] /\ journal \in [Events -> [Keys -> JournalStatus]]
  BY DEF RowsAgree, Agrees, Informed, Knows, TypeOK
<1>1. ASSUME exec' = exec, journal' = journal PROVE \A e \in Events : Agrees(e)'
  BY <1>0, <1>1, AgreesStays
<1>2. ASSUME PackStep PROVE \A e \in Events : Agrees(e)'
  BY <1>1, <1>2, PackEvolves
<1>3. ASSUME NEW r \in Requests, RequestStep(r) PROVE \A e \in Events : Agrees(e)'
  <2>0. AtBridge(r) => /\ req[r].event \in Events /\ KeyOf(r) \in Keys
                       /\ HasRow(req[r].event)
                       /\ req[r].version \in Versions /\ Activated(req[r].version)
                       /\ KeyOf(r) \in Versions => KeyOf(r) = req[r].version
    BY <1>0, EngineAssumption DEF TypeOK, Knows, Chooses, AtBridge, KeyOf, Keys
  <2>1. ASSUME NEW s \in FinalStatus(r), UNCHANGED journal,
               exec' = [exec EXCEPT ![req[r].event].status = s,
                                    ![req[r].event].version = Nothing]
        PROVE  \A e \in Events : Agrees(e)'
    <3>1. s # "POSTED"
      BY FinalStatusType
    <3>2. \A e \in Events : exec'[e].status # "POSTED" \/ exec'[e] = exec[e]
      BY <1>0, <2>1, <3>1 DEF Row
    <3> QED
      BY <1>0, <2>1, <3>2, AgreesStays
  <2>2. CASE Conclude(r)
    BY <1>1, <2>1, <2>2 DEF Conclude
  <2>3. CASE Claim(r) \/ RecordRejected(r)
    <3>1. \A e \in Events : exec'[e].status # "POSTED" \/ exec'[e] = exec[e]
      BY <1>0, <2>3 DEF Claim, RecordRejected, Row
    <3>2. UNCHANGED journal
      BY <2>3 DEF Claim, RecordRejected
    <3> QED
      BY <1>0, <3>1, <3>2, AgreesStays
  <2>4. CASE BridgeCreate(r)
    <3>1. AtBridge(r) /\ UNCHANGED <<pack, exec>>
      BY <2>4 DEF BridgeCreate, At, AtBridge
    <3>2. \A e \in Events, k \in Keys :
            /\ journal'[e][k] # "NONE" => journal[e][k] # "NONE" \/ (e = req[r].event /\ k = KeyOf(r))
            /\ journal[e][k] = "PAST_DRAFT" => journal'[e][k] = "PAST_DRAFT"
      BY <1>0, <2>4 DEF BridgeCreate
    <3> QED
      BY <1>0, <2>0, <3>1, <3>2 DEF Agrees, HasRow, Activated, Keys
  <2>5. CASE BridgeSubmit(r)
    <3>1. UNCHANGED exec
      BY <2>5 DEF BridgeSubmit
    <3>2. \A e \in Events, k \in Keys : journal'[e][k] # "NONE" => journal[e][k] # "NONE"
      BY <1>0, <2>5 DEF BridgeSubmit
    <3> QED
      BY <1>0, <3>1, <3>2, AgreesStays
  <2>6. CASE RecordPosted(r)
    <3>1. /\ AtBridge(r) /\ UNCHANGED <<pack, journal>>
          /\ journal[req[r].event][KeyOf(r)] = "PAST_DRAFT"
      BY <1>0, <2>6 DEF RecordPosted, At, AtBridge, Knows
    <3>2. exec' = [exec EXCEPT ![req[r].event] =
            [status |-> "POSTED", version |-> req[r].version, journal |-> KeyOf(r)]]
      BY <2>6 DEF RecordPosted
    <3>3. KeyOf(r) \in {Original, req[r].version}
      BY DEF KeyOf
    <3>4. ASSUME NEW e \in Events, e = req[r].event PROVE Agrees(e)'
      <4>1. exec'[e] = [status |-> "POSTED", version |-> req[r].version, journal |-> KeyOf(r)]
        BY <1>0, <3>2, <3>4
      <4>2. Agrees(e) /\ journal' = journal /\ pack' = pack
        BY <1>0, <3>1
      <4> QED
        BY <2>0, <3>1, <3>3, <3>4, <4>1, <4>2 DEF Agrees, HasRow, Activated
    <3>5. ASSUME NEW e \in Events, e # req[r].event PROVE Agrees(e)'
      <4>1. exec'[e] = exec[e] /\ Agrees(e) /\ journal' = journal
        BY <1>0, <3>1, <3>2, <3>5
      <4> QED
        BY <4>1, AgreesStays
    <3> QED
      BY <3>4, <3>5
  <2> QED
    BY <1>1, <1>3, <2>2, <2>3, <2>4, <2>5, <2>6 DEF RequestStep, SelectAgain, LoseClaim,
      Finish, Crash
<1>4. ASSUME NEW f \in Events, NEW k \in Keys, DraftMoves(f, k)
      PROVE  \A e \in Events : Agrees(e)'
  <2>1. \A e \in Events, j \in Keys : journal'[e][j] # "NONE" => journal[e][j] # "NONE"
    BY <1>0, <1>4 DEF DraftMoves
  <2> QED
    BY <1>0, <1>4, <2>1, AgreesStays DEF DraftMoves
<1>5. \A e \in Events : Agrees(e)'
  BY <1>1, <1>2, <1>3, <1>4 DEF Next, Submit, Replay, vars
<1> QED
  BY <1>5 DEF RowsAgree, Agrees
-----------------------------------------------------------------------------
(* One submission at the bridge                                              *)

AtBridgeToSubmit(r) == AtBridge(r) /\ Submitting(r)

(* Only its claim takes a submission to the bridge, and that finds no row.       *)
LEMMA ArrivesByClaim ==
  ASSUME TypeOK, Informed, [Next]_vars, NEW r \in Requests, AtBridgeToSubmit(r)'
  PROVE  /\ req'[r].event = req[r].event
         /\ \/ AtBridgeToSubmit(r)
            \/ /\ ~HasRow(req[r].event) /\ ~AtBridge(r)
               /\ \A q \in Requests \ {r} : req'[q] = req[q]
<1> DEFINE Goal == /\ req'[r].event = req[r].event
                   /\ \/ AtBridgeToSubmit(r)
                      \/ /\ ~HasRow(req[r].event) /\ ~AtBridge(r)
                         /\ \A q \in Requests \ {r} : req'[q] = req[q]
<1>0. req \in [Requests -> Request] /\ \A q \in Requests : Knows(q)
  BY DEF TypeOK, Informed, Knows
<1>1. ASSUME req'[r] = req[r] PROVE Goal
  BY <1>1 DEF AtBridgeToSubmit, AtBridge, Submitting
<1>2. ASSUME NEW q \in Requests, End(q) PROVE Goal
  <2>1. req'[q] = IdleRequest /\ \A p \in Requests \ {q} : req'[p] = req[p]
    BY <1>0, <1>2 DEF End
  <2>2. q # r
    BY <2>1 DEF AtBridgeToSubmit, AtBridge, IdleRequest
  <2> QED
    BY <1>1, <2>1, <2>2
<1>3. ASSUME NEW q \in Requests, NEW pc, GoTo(q, pc), AtBridge(q) PROVE Goal
  <2>1. /\ req'[q].kind = req[q].kind /\ req'[q].event = req[q].event
        /\ \A p \in Requests \ {q} : req'[p] = req[p]
    BY <1>3, GoToMoves
  <2>2. CASE q = r
    BY <1>3, <2>1, <2>2 DEF AtBridgeToSubmit, AtBridge, Submitting
  <2> QED
    BY <1>1, <2>1, <2>2
<1>4. ASSUME NEW q \in Requests, NEW e \in Events, Submit(q, e) \/ Replay(q, e) PROVE Goal
  <2>1. CASE Submit(q, e)
    <3>1. /\ req'[q].pc \in {"conclude", "claim"}
          /\ \A p \in Requests \ {q} : req'[p] = req[p]
      BY <2>1, EvaluateKnows DEF Submit
    <3>2. q # r
      BY <3>1 DEF AtBridgeToSubmit, AtBridge
    <3> QED
      BY <1>1, <3>1, <3>2
  <2>2. CASE Replay(q, e)
    <3>1. /\ req'[q].pc = "claim" /\ \A p \in Requests \ {q} : req'[p] = req[p]
      BY <1>0, <2>2 DEF Replay, IdleRequest
    <3>2. q # r
      BY <3>1 DEF AtBridgeToSubmit, AtBridge
    <3> QED
      BY <1>1, <3>1, <3>2
  <2> QED
    BY <1>4, <2>1, <2>2
<1>5. ASSUME NEW q \in Requests, SelectAgain(q) PROVE Goal
  <2>1. req[q].event \in Events /\ ~Submitting(q) /\ Evaluate(q, req[q].event, "create")
    BY <1>0, <1>5 DEF SelectAgain, TypeOK, Knows, At
  <2>2. req'[q].kind = req[q].kind /\ \A p \in Requests \ {q} : req'[p] = req[p]
    BY <2>1, EvaluateKnows
  <2>3. q # r
    BY <2>1, <2>2 DEF AtBridgeToSubmit, Submitting
  <2> QED
    BY <1>1, <2>2, <2>3
<1>6. ASSUME NEW q \in Requests, Claim(q) PROVE Goal
  <2>1. /\ req'[q].kind = req[q].kind /\ req'[q].event = req[q].event
        /\ \A p \in Requests \ {q} : req'[p] = req[p]
        /\ req[q].pc = "claim"
        /\ Submitting(q) => ~HasRow(req[q].event)
    BY <1>0, <1>6 DEF Claim, Claimable, At, HasRow, Request
  <2>2. CASE q = r
    BY <2>1, <2>2 DEF AtBridgeToSubmit, AtBridge, Submitting
  <2> QED
    BY <1>1, <2>1, <2>2
<1>7. ASSUME NEW q \in Requests, BridgeCreate(q) \/ BridgeSubmit(q) \/ RecordPosted(q)
      PROVE  Goal
  <2>1. AtBridge(q) /\ \E pc : GoTo(q, pc)
    BY <1>7 DEF BridgeCreate, BridgeSubmit, RecordPosted, At, AtBridge
  <2> QED
    BY <1>3, <2>1
<1>8. ASSUME req' = req PROVE Goal
  BY <1>1, <1>8
<1> QED
  BY <1>2, <1>4, <1>5, <1>6, <1>7, <1>8 DEF Next, PackStep, CreateRulePackVersion, Validate,
    Activate, ActivateCommit, RequestStep, Conclude, LoseClaim, Finish, RecordRejected, Crash,
    DraftMoves, vars

LEMMA OneSubmissionStep ==
  ASSUME TypeOK, Informed, OneSubmissionPosts, [Next]_vars PROVE OneSubmissionPosts'
<1> SUFFICES ASSUME NEW r \in Requests, NEW s \in Requests,
                    AtBridgeToSubmit(r)', AtBridgeToSubmit(s)',
                    req'[r].event = req'[s].event
             PROVE  r = s
  BY DEF OneSubmissionPosts, AtBridgeToSubmit
<1>1. \A q \in {r, s} :
        /\ req'[q].event = req[q].event
        /\ \/ AtBridgeToSubmit(q)
           \/ /\ ~HasRow(req[q].event) /\ ~AtBridge(q)
              /\ \A p \in Requests \ {q} : req'[p] = req[p]
  BY ArrivesByClaim
<1>2. \A q \in {r, s} : AtBridgeToSubmit(q) => HasRow(req[q].event)
  BY DEF Informed, AtBridgeToSubmit
<1>3. CASE AtBridgeToSubmit(r) /\ AtBridgeToSubmit(s)
  BY <1>1, <1>3 DEF OneSubmissionPosts, AtBridgeToSubmit
<1>4. CASE ~AtBridgeToSubmit(r) /\ AtBridgeToSubmit(s)
  BY <1>1, <1>2, <1>4
<1>5. CASE AtBridgeToSubmit(r) /\ ~AtBridgeToSubmit(s)
  BY <1>1, <1>2, <1>5
<1>6. CASE ~AtBridgeToSubmit(r) /\ ~AtBridgeToSubmit(s)
  <2>1. r # s => req'[s] = req[s] /\ ~AtBridge(s)
    BY <1>1, <1>6
  <2> QED
    BY <2>1 DEF AtBridgeToSubmit, AtBridge
<1> QED
  BY <1>3, <1>4, <1>5, <1>6

LEMMA Invariance == Spec => []IInv
<1>1. Init => IInv
  <2> SUFFICES ASSUME Init PROVE IInv
    OBVIOUS
  <2>1. TypeOK
    BY TypeInit
  <2>2. \A r \in Requests : req[r] = IdleRequest
    BY DEF Init
  <2>3. OneSubmissionPosts /\ Informed
    BY <2>2 DEF OneSubmissionPosts, Informed, At, AtBridge, Submitting, Chooses, IdleRequest
  <2>4. RowsAgree
    BY DEF Init, RowsAgree, NoRow, Keys
  <2> QED
    BY <2>1, <2>3, <2>4 DEF IInv
<1>2. IInv /\ [Next]_vars => IInv'
  <2> SUFFICES ASSUME IInv, [Next]_vars PROVE IInv'
    OBVIOUS
  <2>1. TypeOK /\ OneSubmissionPosts /\ Informed /\ RowsAgree
    BY DEF IInv
  <2>2. Evolves
    BY <2>1, StepEvolves
  <2> QED
    BY <2>1, <2>2, TypeStep, OneSubmissionStep, InformedStep, RowsAgreeStep DEF IInv
<1> QED
  BY <1>1, <1>2, PTL DEF Spec

(* claimExecution: two submissions of an event never reach gl-service together.  *)
THEOREM OneSubmission == Spec => []OneSubmissionPosts
<1>1. IInv => OneSubmissionPosts
  BY DEF IInv
<1> QED
  BY <1>1, Invariance, PTL

(* finalizeExecution: a POSTED row names a journal that left DRAFT.              *)
THEOREM PostedNames == Spec => []PostedNamesItsJournal
<1>1. IInv => PostedNamesItsJournal
  BY DEF IInv, RowsAgree, PostedNamesItsJournal
<1> QED
  BY <1>1, Invariance, PTL

(* activateVersion and the immutability trigger: only versions that were        *)
(* activated post, and they never look unactivated again.                       *)
THEOREM UsedWereActivated == Spec => []UsedVersionsWereActivated
<1>1. IInv => UsedVersionsWereActivated
  BY DEF IInv, RowsAgree, Activated, UsedVersionsWereActivated
<1> QED
  BY <1>1, Invariance, PTL
-----------------------------------------------------------------------------
(* The refinement of EngineContract                                          *)

HasJournal(e) == \E k \in Keys : journal[e][k] # "NONE"

Bar(e) ==
  [status |-> IF exec[e].status = "NO_RULE_MATCH" THEN "REJECTED" ELSE exec[e].status,
   journal |-> IF HasJournal(e) THEN "JE" ELSE "NULL"]

Bars == [e \in Events |-> Bar(e)]

LEMMA BarType ==
  ASSUME TypeOK, NEW e \in Events PROVE Bar(e) \in Contract!Execution
<1>1. exec[e].status \in RowStatus
  BY DEF TypeOK, Row
<1> QED
  BY <1>1 DEF Bar, Contract!Execution, Contract!ExecutionStatus, RowStatus

(* A step that leaves the rows and the journals of all other events alone, and   *)
(* finds a row for this one, rewrites it as the contract allows.                *)
LEMMA RewriteRefines ==
  ASSUME TypeOK', Evolves, RowsAgree', NEW e \in Events, HasRow(e),
         \A f \in Events \ {e} : exec'[f] = exec[f] /\ journal'[f] = journal[f]
  PROVE  Contract!Next
<1>0. PICK x : x = Bar(e)'
  OBVIOUS
<1>1. x \in Contract!Execution
  BY <1>0, BarType DEF TypeOK, Contract!Execution, Contract!ExecutionStatus, Bar, Row, RowStatus
<1>2. exec[e].status # "NONE" /\ exec'[e].status # "NONE"
  BY DEF Evolves, HasRow
<1>3. HasJournal(e) => HasJournal(e)'
  BY DEF HasJournal, Evolves
<1>4. exec'[e].status = "POSTED" => HasJournal(e)'
  BY DEF RowsAgree, HasJournal, Keys
<1>5. Bars' = [Bars EXCEPT ![e] = x]
  BY <1>0 DEF Bars, Bar, HasJournal
<1>6. Contract!Rewrites(e, x)
  BY <1>0, <1>2, <1>3, <1>4, <1>5 DEF Contract!Rewrites, Bars, Bar, HasJournal
<1> QED
  BY <1>1, <1>6 DEF Contract!Next

(* A submission that finds no row opens one, with no journal behind it yet.      *)
LEMMA OpenRefines ==
  ASSUME RowsAgree, NEW e \in Events, ~HasRow(e), journal' = journal,
         exec \in [Events -> Row], exec' \in [Events -> Row],
         exec'[e].status \in {"POSTING_IN_PROGRESS", "NO_RULE_MATCH", "REJECTED"},
         \A f \in Events \ {e} : exec'[f] = exec[f]
  PROVE  Contract!Next
<1> DEFINE s == IF exec'[e].status = "NO_RULE_MATCH" THEN "REJECTED" ELSE exec'[e].status
<1>1. ~HasJournal(e)
  BY DEF RowsAgree, HasJournal
<1>2. Bars[e] = Contract!NoExecution
  BY <1>1 DEF Bars, Bar, HasRow, Contract!NoExecution
<1>3. s \in {"POSTING_IN_PROGRESS", "REJECTED"}
  OBVIOUS
<1>4. Bars' = [Bars EXCEPT ![e].status = s]
  BY <1>1 DEF Bars, Bar, HasJournal
<1>5. Contract!Opens(e)
  BY <1>2, <1>3, <1>4 DEF Contract!Opens, Bars, Bar, HasJournal
<1> QED
  BY <1>5 DEF Contract!Next

LEMMA StutterRefines ==
  ASSUME exec' = exec, journal' = journal PROVE Bars' = Bars
  BY DEF Bars, Bar, HasJournal

LEMMA StepRefines ==
  ASSUME IInv, IInv', [Next]_vars PROVE Contract!Next \/ Bars' = Bars
<1> DEFINE Goal == Contract!Next \/ Bars' = Bars
<1>0. /\ TypeOK /\ TypeOK' /\ RowsAgree /\ RowsAgree' /\ Evolves
      /\ exec \in [Events -> Row] /\ journal \in [Events -> [Keys -> JournalStatus]]
      /\ exec' \in [Events -> Row]
      /\ \A r \in Requests : Knows(r)
  BY StepEvolves DEF IInv, TypeOK, Informed, Knows
<1>1. ASSUME PackStep PROVE Goal
  BY <1>0, <1>1, PackEvolves, StutterRefines
<1>2. ASSUME NEW e \in Events, NEW k \in Keys, DraftMoves(e, k) PROVE Goal
  <2>1. HasRow(e) /\ exec' = exec
    BY <1>0, <1>2 DEF DraftMoves, RowsAgree
  <2>2. \A f \in Events \ {e} : journal'[f] = journal[f]
    BY <1>0, <1>2 DEF DraftMoves
  <2> QED
    BY <1>0, <2>1, <2>2, RewriteRefines
<1>3. ASSUME NEW r \in Requests, RequestStep(r) PROVE Goal
  <2>1. ASSUME NEW e \in Events, e = req[r].event,
               BridgeCreate(r) \/ BridgeSubmit(r) \/ RecordPosted(r) \/ RecordRejected(r)
        PROVE  Goal
    <3>1. HasRow(e)
      BY <1>0, <2>1 DEF BridgeCreate, BridgeSubmit, RecordPosted, RecordRejected, Knows,
        At, AtBridge
    <3>2. \A f \in Events \ {e} : exec'[f] = exec[f] /\ journal'[f] = journal[f]
      BY <1>0, <2>1 DEF BridgeCreate, BridgeSubmit, RecordPosted, RecordRejected
    <3> QED
      BY <1>0, <3>1, <3>2, RewriteRefines
  <2>2. ASSUME NEW e \in Events, e = req[r].event, Claim(r) PROVE Goal
    <3>1. /\ journal' = journal
          /\ \A f \in Events \ {e} : exec'[f] = exec[f]
          /\ exec'[e].status = IF Submitting(r) THEN "POSTING_IN_PROGRESS"
                                ELSE "REPLAY_IN_PROGRESS"
      BY <1>0, <2>2 DEF Claim, Row
    <3>2. CASE Submitting(r)
      <4>1. ~HasRow(e)
        BY <2>2, <3>2 DEF Claim, Claimable, HasRow
      <4> QED
        BY <1>0, <3>1, <3>2, <4>1, OpenRefines
    <3>3. CASE ~Submitting(r)
      <4>1. HasRow(e)
        BY <1>0, <2>2, <3>3 DEF Claim, Knows, At
      <4> QED
        BY <1>0, <3>1, <4>1, RewriteRefines
    <3> QED
      BY <3>2, <3>3
  <2>3. ASSUME NEW e \in Events, e = req[r].event, Conclude(r) PROVE Goal
    <3>1. journal' = journal
      BY <2>3 DEF Conclude
    <3>2. CASE exec' = exec
      BY <3>1, <3>2, StutterRefines
    <3>3. ASSUME NEW s \in FinalStatus(r),
                 exec' = [exec EXCEPT ![req[r].event].status = s,
                                      ![req[r].event].version = Nothing],
                 ~Submitting(r) \/ ~HasRow(e)
          PROVE  Goal
      <4>1. s \in {"NO_RULE_MATCH", "REJECTED"}
        BY FinalStatusType
      <4>2. exec'[e].status = s /\ \A f \in Events \ {e} : exec'[f] = exec[f]
        BY <1>0, <2>3, <3>3 DEF Row
      <4>3. CASE ~HasRow(e)
        BY <1>0, <3>1, <4>1, <4>2, <4>3, OpenRefines
      <4>4. CASE HasRow(e)
        BY <1>0, <3>1, <4>2, <4>4, RewriteRefines
      <4> QED
        BY <4>3, <4>4
    <3> QED
      BY <2>3, <3>2, <3>3 DEF Conclude, HasRow
  <2>4. CASE exec' = exec /\ journal' = journal
    BY <2>4, StutterRefines
  <2>5. ASSUME ~(exec' = exec /\ journal' = journal) PROVE req[r].event \in Events
    BY <1>0, <1>3, <2>5 DEF TypeOK, At, RequestStep, SelectAgain, Conclude, Claim, LoseClaim,
      BridgeCreate, BridgeSubmit, RecordPosted, RecordRejected, Finish, Crash
  <2> QED
    BY <1>3, <2>1, <2>2, <2>3, <2>4, <2>5 DEF RequestStep, SelectAgain, LoseClaim, Finish, Crash
<1> QED
  BY <1>1, <1>2, <1>3, StutterRefines DEF Next, Submit, Replay, vars

(* The engine implements what its callers are modelled against (EngineContract). *)
THEOREM Refinement == Spec => ImplementsContract
<1>1. Init => Contract!Init
  BY DEF Init, NoRow, Contract!Init, Contract!NoExecution
<1>2. IInv /\ IInv' /\ [Next]_vars => [Contract!Next]_(Bars)
  BY StepRefines
<1>3. Bars = [e \in Events |->
    [status |-> IF exec[e].status = "NO_RULE_MATCH" THEN "REJECTED"
                ELSE exec[e].status,
     journal |-> IF \E k \in Keys : journal[e][k] # "NONE" THEN "JE" ELSE "NULL"]]
  BY DEF Bars, Bar, HasJournal
<1> QED
  BY <1>1, <1>2, <1>3, Invariance, PTL DEF Spec, ImplementsContract, Contract!Spec, Bars, Bar, HasJournal
=============================================================================
