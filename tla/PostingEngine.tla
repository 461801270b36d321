---------------------------- MODULE PostingEngine ----------------------------
(***************************************************************************)
(* services/coa-service, the posting engine (CH01): the versions of a rule   *)
(* pack, the execution row of each source event, and the bridge that turns   *)
(* an accepted event into a journal of gl-service, the only ledger it posts  *)
(* to.  POST /posting-engine/events submits an event; an authorized replay   *)
(* evaluates a rejected one again under the version that is active then.     *)
(*                                                                         *)
(* One step is one database statement or transaction, or one call of         *)
(* gl-service.  What a version's rules say of an event, whether its accounts *)
(* resolve and whether a version passes validation are left open.  The       *)
(* attempt, exception, replay and audit rows, which decide nothing, are left *)
(* out, but the writes of them that may fail after a journal is booked stay. *)
(***************************************************************************)
EXTENDS Naturals, FiniteSets

CONSTANTS
  Events,      \* source events, one per (tenantId, eventId)
  Versions,    \* versions of one rule pack of the events' legal entity
  EffectiveFrom, \* the day each version takes effect; all cover the events
  Requests,    \* concurrent submissions and authorized replays
  Desks,       \* concurrent activations of a version
  Original,    \* names the journal of an event's first evaluation
  Nothing,     \* NULL
  MaxCrashes   \* bound on the crashes of a behaviour

ASSUME EngineAssumption ==
  /\ EffectiveFrom \in [Versions -> Nat]
  /\ Original \notin Versions /\ Nothing \notin Versions \cup {Original}
  /\ Nothing \notin Events
  /\ MaxCrashes \in Nat

VARIABLES
  pack,     \* posting_rule_pack_version.status
  past,     \* the statuses each version has had
  desk,     \* the activations between their first statement and their commit
  exec,     \* posting_execution
  journal,  \* gl-service's journal for an idempotency key: an event and a
            \* version it was replayed under, or Original
  req,      \* local variables of each submission and replay
  crashes   \* how many requests have crashed

vars == <<pack, past, desk, exec, journal, req, crashes>>
-----------------------------------------------------------------------------
VersionStatus == {"ABSENT", "DRAFT", "VALIDATED", "ACTIVE", "SUPERSEDED"}

RowStatus == {"NONE", "POSTING_IN_PROGRESS", "REPLAY_IN_PROGRESS", "POSTED",
              "NO_RULE_MATCH", "REJECTED"}

Keys == Versions \cup {Original}

NoRow == [status |-> "NONE", version |-> Nothing, journal |-> Nothing]

\* version is kept for POSTED rows only: nothing decides by that of another.
Row == [status : RowStatus, version : Versions \cup {Nothing},
        journal : Keys \cup {Nothing}]

\* PAST_DRAFT: submitted for review, approved, posted, reversed or voided; the
\* engine tells none of them apart.
JournalStatus == {"NONE", "DRAFT", "PAST_DRAFT"}

IdleDesk == [version |-> Nothing, seen |-> {}]

Desk == [version : Versions \cup {Nothing}, seen : SUBSET Versions]

\* verdict: what the rules decided; read: the status a replay read.
IdleRequest ==
  [pc |-> "idle", kind |-> "submit", event |-> Nothing, version |-> Nothing, read |-> "NONE",
   verdict |-> "NONE"]

Request ==
  [pc : {"idle", "select", "conclude", "claim", "create", "submit", "booked",
         "recorded"},
   kind : {"submit", "replay"}, event : Events \cup {Nothing}, version : Versions \cup {Nothing},
   read : RowStatus, verdict : {"NONE", "UNMATCHED", "REFUSED", "AMBIGUOUS"}]

TypeOK ==
  /\ pack \in [Versions -> VersionStatus]
  /\ past \in [Versions -> SUBSET VersionStatus]
  /\ desk \in [Desks -> Desk]
  /\ exec \in [Events -> Row]
  /\ journal \in [Events -> [Keys -> JournalStatus]]
  /\ req \in [Requests -> Request]
  /\ \A r \in Requests : req[r].pc # "idle" => req[r].event \in Events
  /\ crashes \in Nat

Init ==
  /\ pack = [v \in Versions |-> "ABSENT"]
  /\ past = [v \in Versions |-> {"ABSENT"}]
  /\ desk = [d \in Desks |-> IdleDesk]
  /\ exec = [e \in Events |-> NoRow]
  /\ journal = [e \in Events |-> [k \in Keys |-> "NONE"]]
  /\ req = [r \in Requests |-> IdleRequest]
  /\ crashes = 0
-----------------------------------------------------------------------------
(* The rule pack.  A request that validates or activates a version reads its   *)
(* status first and may be as late as it likes after that: what it read is     *)
(* any status the version has had.                                             *)

SetPack(p) ==
  /\ pack' = p
  /\ past' = [v \in Versions |-> past[v] \cup {p[v]}]

CreateRulePackVersion(v) ==
  /\ pack[v] = "ABSENT"
  /\ SetPack([pack EXCEPT ![v] = "DRAFT"])
  /\ UNCHANGED <<desk, exec, journal, req, crashes>>

\* Mutated form: the database has no immutability trigger.
TriggerAllows_Always(old, new) == old \in VersionStatus /\ new \in VersionStatus

\* enforce_posting_rule_pack_version_immutability
TriggerAllows(old, new) ==
  ~(old \in {"ACTIVE", "SUPERSEDED"} /\ new \in {"DRAFT", "VALIDATED"})

\* validateVersion: the update names the version by id and writes the status
\* that follows from the one that was read.
Validate(v) ==
  \E read \in past[v] \ {"ABSENT"} :
  \E s \in IF read = "DRAFT" THEN {"DRAFT", "VALIDATED"} ELSE {read} :
    /\ TriggerAllows(pack[v], s)
    /\ SetPack([pack EXCEPT ![v] = s])
    /\ UNCHANGED <<desk, exec, journal, req, crashes>>

\* activateVersion, after the guard on what it read.  READ COMMITTED: the
\* updateMany matches the versions that are ACTIVE when it starts, waits for the
\* rows another activation holds, and skips those that are not ACTIVE any more.
Activate(d, v) ==
  /\ desk[d].version = Nothing
  /\ "VALIDATED" \in past[v]
  /\ desk' = [desk EXCEPT ![d] =
        [version |-> v, seen |-> {w \in Versions : pack[w] = "ACTIVE"}]]
  /\ UNCHANGED <<pack, past, exec, journal, req, crashes>>

\* The version itself is updated by id, and the transaction commits.
ActivateCommit(d) ==
  /\ desk[d].version # Nothing
  /\ SetPack([v \in Versions |->
        IF v = desk[d].version THEN "ACTIVE"
        ELSE IF v \in desk[d].seen /\ pack[v] = "ACTIVE" THEN "SUPERSEDED"
        ELSE pack[v]])
  /\ desk' = [desk EXCEPT ![d] = IdleDesk]
  /\ UNCHANGED <<exec, journal, req, crashes>>
-----------------------------------------------------------------------------
(* Submission and replay of an event                                         *)

At(r, pc) == req[r].pc = pc

Submitting(r) == req[r].kind = "submit"

GoTo(r, pc) == req' = [req EXCEPT ![r].pc = pc]

End(r) == req' = [req EXCEPT ![r] = IdleRequest]

\* replayEvent: the row is read and a POSTED one refused.
Replay(r, e) ==
  /\ At(r, "idle")
  /\ exec[e].status \notin {"NONE", "POSTED"}
  /\ req' = [req EXCEPT ![r] = [IdleRequest EXCEPT
        !.pc = "claim", !.kind = "replay", !.event = e, !.read = exec[e].status]]
  /\ UNCHANGED <<pack, past, desk, exec, journal, crashes>>

MostSpecific ==
  LET Active == {v \in Versions : pack[v] = "ACTIVE"}
  IN {v \in Active : \A w \in Active : EffectiveFrom[w] <= EffectiveFrom[v]}

Goes(r, e, pc, v, verdict) ==
  req' = [req EXCEPT ![r] = [@ EXCEPT
            !.pc = pc, !.event = e, !.version = v, !.verdict = verdict]]

\* The version of the latest effective day is selected and its rules evaluated;
\* two of the same day are refused as ambiguous.
Evaluate(r, e, accepted) ==
  \/ MostSpecific = {} /\ Goes(r, e, "conclude", Nothing, "UNMATCHED")
  \/ Cardinality(MostSpecific) > 1 /\ Goes(r, e, "conclude", Nothing, "AMBIGUOUS")
  \/ \E v \in Versions :
       /\ MostSpecific = {v}
       /\ Goes(r, e, accepted, v, "NONE") \/ Goes(r, e, "conclude", v, "REFUSED")

\* submitEvent: an event that has a row is answered from it and goes no further;
\* a row that comes in between changes nothing before the claim finds it.
Submit(r, e) ==
  /\ At(r, "idle")
  /\ exec[e].status = "NONE"
  /\ Evaluate(r, e, "claim")
  /\ UNCHANGED <<pack, past, desk, exec, journal, crashes>>

SelectAgain(r) ==
  /\ At(r, "select")
  /\ Evaluate(r, req[r].event, "create")
  /\ UNCHANGED <<pack, past, desk, exec, journal, crashes>>

\* No rule matched, or the blueprint or an account was refused.
FinalStatus(r) ==
  CASE req[r].verdict = "UNMATCHED" -> {"NO_RULE_MATCH"}
    [] req[r].verdict = "REFUSED"   -> {"NO_RULE_MATCH", "REJECTED"}
    [] OTHER                        -> {"REJECTED"}

\* createOrReconcileExecution: the row is created, or another request's found.
\* A replay updates the row by id, but ambiguity leaves it in progress.
Conclude(r) ==
  LET e == req[r].event
      Writes == IF Submitting(r) THEN exec[e].status = "NONE"
                ELSE req[r].verdict # "AMBIGUOUS"
  IN /\ At(r, "conclude")
     /\ IF Writes
          THEN \E s \in FinalStatus(r) :
                 exec' = [exec EXCEPT ![e].status = s, ![e].version = Nothing]
          ELSE UNCHANGED exec
     /\ End(r)
     /\ UNCHANGED <<pack, past, desk, journal, crashes>>

\* Mutated form: the row is not unique for the event.
Claimable_Always(r) == req[r].event \in Events

\* A submission creates the row, unique for the event; a replay's updateMany
\* matches the status it read, which may be that of a replay in progress.
Claimable(r) ==
  exec[req[r].event].status = IF Submitting(r) THEN "NONE" ELSE req[r].read

Claim(r) ==
  /\ At(r, "claim")
  /\ Claimable(r)
  /\ exec' = [exec EXCEPT ![req[r].event].status =
        IF Submitting(r) THEN "POSTING_IN_PROGRESS" ELSE "REPLAY_IN_PROGRESS"]
  /\ req' = [req EXCEPT ![r].pc = IF Submitting(r) THEN "create" ELSE "select",
                        ![r].read = "NONE"]
  /\ UNCHANGED <<pack, past, desk, journal, crashes>>

\* The loser is answered from the row.
LoseClaim(r) ==
  /\ At(r, "claim")
  /\ ~Claimable(r)
  /\ End(r)
  /\ UNCHANGED <<pack, past, desk, exec, journal, crashes>>
-----------------------------------------------------------------------------
(* HttpGlPostingBridge.post                                                  *)

\* A replay's idempotency key names the version it applies.
KeyOf(r) == IF Submitting(r) THEN Original ELSE req[r].version

\* Mutated form: a journal found in DRAFT is not submitted any more.
BridgeCreate_TakesDraft(r) ==
  LET e == req[r].event  k == KeyOf(r)
  IN /\ At(r, "create")
     /\ IF journal[e][k] = "NONE"
          THEN journal' = [journal EXCEPT ![e][k] = "DRAFT"] /\ GoTo(r, "submit")
          ELSE GoTo(r, "booked") /\ UNCHANGED journal
     /\ UNCHANGED <<pack, past, desk, exec, crashes>>

\* Mutated form: the answer to the creation is not looked at.
BridgeCreate_IgnoresFailure(r) ==
  LET e == req[r].event  k == KeyOf(r)
  IN /\ At(r, "create")
     /\ \/ journal' = [journal EXCEPT ![e][k] = IF @ = "NONE" THEN "DRAFT" ELSE @]
        \/ UNCHANGED journal
     /\ GoTo(r, "booked")
     /\ UNCHANGED <<pack, past, desk, exec, crashes>>

\* gl-service creates a draft, or finds the journal of the key: one past DRAFT
\* is taken as it is, even one that was voided.
BridgeCreate(r) ==
  LET e == req[r].event  k == KeyOf(r)
  IN /\ At(r, "create")
     /\ IF journal[e][k] = "NONE"
          THEN journal' = [journal EXCEPT ![e][k] = "DRAFT"] /\ GoTo(r, "submit")
          ELSE /\ GoTo(r, IF journal[e][k] = "DRAFT" THEN "submit" ELSE "booked")
               /\ UNCHANGED journal
     /\ UNCHANGED <<pack, past, desk, exec, crashes>>

\* POST /:id/post; when that fails because another call moved the journal past
\* DRAFT, the journal is fetched again and taken.
BridgeSubmit(r) ==
  LET e == req[r].event  k == KeyOf(r)
  IN /\ At(r, "submit")
     /\ journal' = IF journal[e][k] = "DRAFT"
                     THEN [journal EXCEPT ![e][k] = "PAST_DRAFT"] ELSE journal
     /\ GoTo(r, "booked")
     /\ UNCHANGED <<pack, past, desk, exec, crashes>>

\* Every update of the row names it by id only.
RecordPosted(r) ==
  /\ At(r, "booked")
  /\ exec' = [exec EXCEPT ![req[r].event] =
        [status |-> "POSTED", version |-> req[r].version, journal |-> KeyOf(r)]]
  /\ GoTo(r, "recorded")
  /\ UNCHANGED <<pack, past, desk, journal, crashes>>

Finish(r) ==
  /\ At(r, "recorded")
  /\ End(r)
  /\ UNCHANGED <<pack, past, desk, exec, journal, crashes>>

\* A call of gl-service fails or its answer is lost, or the update of the row or
\* the audit row after it fails: one catch handles them all.  The reference of a
\* journal booked before is kept.
RecordRejected(r) ==
  /\ req[r].pc \in {"create", "submit", "booked", "recorded"}
  /\ exec' = [exec EXCEPT ![req[r].event].status = "REJECTED",
                          ![req[r].event].version = Nothing]
  /\ End(r)
  /\ UNCHANGED <<pack, past, desk, journal, crashes>>

\* The process dies, or a statement fails where nothing catches it.
Crash(r) ==
  /\ ~At(r, "idle")
  /\ crashes < MaxCrashes
  /\ crashes' = crashes + 1
  /\ End(r)
  /\ UNCHANGED <<pack, past, desk, exec, journal>>

\* gl-service's own users submit a draft or void it.
DraftMoves(e, k) ==
  /\ journal[e][k] = "DRAFT"
  /\ journal' = [journal EXCEPT ![e][k] = "PAST_DRAFT"]
  /\ UNCHANGED <<pack, past, desk, exec, req, crashes>>
-----------------------------------------------------------------------------
PackStep ==
  \/ \E v \in Versions : CreateRulePackVersion(v) \/ Validate(v)
  \/ \E d \in Desks, v \in Versions : Activate(d, v)
  \/ \E d \in Desks : ActivateCommit(d)

RequestStep(r) ==
  \/ SelectAgain(r) \/ Conclude(r) \/ Claim(r) \/ LoseClaim(r)
  \/ BridgeCreate(r) \/ BridgeSubmit(r) \/ RecordPosted(r) \/ Finish(r)
  \/ RecordRejected(r) \/ Crash(r)

Next ==
  \/ PackStep
  \/ \E r \in Requests, e \in Events : Submit(r, e) \/ Replay(r, e)
  \/ \E r \in Requests : RequestStep(r)
  \/ \E e \in Events, k \in Keys : DraftMoves(e, k)

Spec == Init /\ [][Next]_vars
-----------------------------------------------------------------------------
(* Properties                                                                *)

AtBridge(r) == req[r].pc \in {"create", "submit", "booked", "recorded"}

(* claimExecution: "the ONLY point preventing two concurrent submissions of a  *)
(* brand-new event from each calling the GL bridge": at most one submission of *)
(* an event is ever at the bridge, also after another has crashed there.       *)
OneSubmissionPosts ==
  \A r, s \in Requests :
    /\ AtBridge(r) /\ Submitting(r)
    /\ AtBridge(s) /\ Submitting(s)
    /\ req[r].event = req[s].event
    => r = s

(* The evidence in a POSTED row: although every update names the row by id and  *)
(* a submission and replays may finish over each other in any order, the        *)
(* journal named is one that left DRAFT, made by the first evaluation or under  *)
(* the version the row names.                                                   *)
PostedNamesItsJournal ==
  \A e \in Events : exec[e].status = "POSTED" =>
    /\ exec[e].journal \in {Original, exec[e].version}
    /\ journal[e][exec[e].journal] = "PAST_DRAFT"

(* Segregation of duties rests on activation: a journal is made under a replay's *)
(* version only if that version was activated, and whatever stale validation     *)
(* finishes later, the version never looks unactivated again.                    *)
UsedVersionsWereActivated ==
  /\ \A e \in Events, v \in Versions :
       journal[e][v] # "NONE" => pack[v] \in {"ACTIVE", "SUPERSEDED"}
  /\ \A e \in Events :
       exec[e].status = "POSTED" => pack[exec[e].version] \in {"ACTIVE", "SUPERSEDED"}

(* replayEvent: the claim is "the only thing preventing two concurrent replays   *)
(* of the same execution from both calling the GL bridge".                       *)
OneReplayPosts ==
  \A r, s \in Requests :
    /\ AtBridge(r) /\ ~Submitting(r)
    /\ AtBridge(s) /\ ~Submitting(s)
    /\ req[r].event = req[s].event
    => r = s

(* The engine keeps the promises its callers are modelled against.               *)
Contract == INSTANCE EngineContract WITH
  exec <- [e \in Events |->
    [status |-> IF exec[e].status = "NO_RULE_MATCH" THEN "REJECTED"
                ELSE exec[e].status,
     journal |-> IF \E k \in Keys : journal[e][k] # "NONE" THEN "JE" ELSE "NULL"]]

ImplementsContract == Contract!Spec
=============================================================================
