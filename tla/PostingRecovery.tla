--------------------------- MODULE PostingRecovery ---------------------------
(***************************************************************************)
(* services/posting-recovery-service: the dead-letter cases of rejected     *)
(* posting events, the replay that sends a case back to the posting engine  *)
(* (CH01, services/coa-service), and the reaper that reclaims a replay lock *)
(* whose owner seems dead.                                                  *)
(*                                                                         *)
(* One step is one database statement or transaction, or one remote call:   *)
(* between two steps of a request any other request may run and the process *)
(* may crash.  Time is not measured: a scan of the reaper may find any held *)
(* lock older than its threshold, because a slow replay cannot be told from *)
(* a dead one (and POST /dead-letters/reap-stale-replays takes any          *)
(* staleAfterMs > 0).  The append-only transition, failure and audit rows,  *)
(* which no handler reads back to decide anything, are left out.            *)
(***************************************************************************)
EXTENDS Naturals, FiniteSets

CONSTANTS
  Cases,          \* the source events that may get a case, one per (tenant, event)
  Replayers,      \* concurrent POST /dead-letters/:id/replay requests
  Reapers,        \* concurrent POST /dead-letters/reap-stale-replays requests
  NoCase,         \* the case of a request that works on none
  MaxVersion,     \* bound: operators and replays leave a case alone from there on
  MaxCrashes      \* bound on the crashes of a behaviour

VARIABLES
  dlq,       \* posting_dead_letter: one row per case
  attempts,  \* posting_replay_attempt: the set of attempt rows of each case
  exec,      \* CH01's posting_execution row for the event of the case, and
             \* whether gl-service has booked a journal for that event
  replay,    \* local variables of each replay request
  reap,      \* local variables of each reaper request
  crashes,   \* how many requests have crashed
  byHand     \* history, read from the posting_case_transition rows: the cases
             \* that somebody has moved by hand into or out of REPLAY_IN_PROGRESS

vars == <<dlq, attempts, exec, replay, reap, crashes, byHand>>

Engine == INSTANCE EngineContract WITH Events <- Cases

-----------------------------------------------------------------------------
CaseStatus ==
  {"QUARANTINED", "UNDER_REVIEW", "AWAITING_CORRECTION", "READY_FOR_REPLAY",
   "REPLAY_IN_PROGRESS", "RESOLVED", "ESCALATED", "DISPOSITIONED"}

AllowedTransitions ==
       {"QUARANTINED"}         \X {"UNDER_REVIEW", "ESCALATED", "DISPOSITIONED"}
  \cup {"UNDER_REVIEW"}        \X {"AWAITING_CORRECTION", "READY_FOR_REPLAY",
                                   "ESCALATED", "DISPOSITIONED", "QUARANTINED"}
  \cup {"AWAITING_CORRECTION"} \X {"UNDER_REVIEW", "READY_FOR_REPLAY",
                                   "ESCALATED", "DISPOSITIONED"}
  \cup {"READY_FOR_REPLAY"}    \X {"REPLAY_IN_PROGRESS", "AWAITING_CORRECTION",
                                   "ESCALATED", "DISPOSITIONED"}
  \cup {"REPLAY_IN_PROGRESS"}  \X {"RESOLVED", "AWAITING_CORRECTION",
                                   "UNDER_REVIEW", "ESCALATED"}
  \cup {"ESCALATED"}           \X {"UNDER_REVIEW", "DISPOSITIONED"}

\* The edges that leave REPLAY_IN_PROGRESS or enter it, which are the replay's and
\* the reaper's own; transitionFixture accepts them as it does every other.
ReplayEdges ==
  {e \in AllowedTransitions :
     e[1] = "REPLAY_IN_PROGRESS" \/ e[2] = "REPLAY_IN_PROGRESS"}

ASSUME RecoveryAssumption ==
  /\ NoCase \notin Cases
  /\ MaxVersion \in Nat
  /\ MaxCrashes \in Nat

\* What CH01 answers: a fresh posting, its cached one, a refusal, or an error.
Outcome == {"POSTED", "NOOP_ALREADY_POSTED", "REJECTED", "FAILED"}

OutcomeToAttemptStatus(o) == IF o = "POSTED" THEN "SUCCEEDED" ELSE o

OutcomeToCaseStatus(o) ==
  IF o \in {"POSTED", "NOOP_ALREADY_POSTED"} THEN "RESOLVED" ELSE "UNDER_REVIEW"

AttemptStatus ==
  {"SUCCEEDED", "NOOP_ALREADY_POSTED", "REJECTED", "FAILED", "TIMED_OUT"}

\* CH01 answers a known event from its execution row.
Passthrough(s) ==
  CASE s = "POSTED"   -> "NOOP_ALREADY_POSTED"
    [] s = "REJECTED" -> "REJECTED"
    [] OTHER          -> "FAILED"

-----------------------------------------------------------------------------
(* Rows and local variables.  A lock is named by the row version that the   *)
(* winning compare-and-set read plus one, so 0 is a NULL                    *)
(* replay_lock_acquired_at and a later acquisition has a larger name.       *)

NoRow == [status |-> "ABSENT", version |-> 0, attemptCount |-> 0, lock |-> 0,
          journal |-> "NULL"]

Row == [status : CaseStatus \cup {"ABSENT"}, version : Nat, attemptCount : Nat,
        lock : Nat, journal : {"NULL", "JE"}]

Attempt == [number : Nat, status : AttemptStatus]

IdleReplay ==
  [pc |-> "idle", case |-> NoCase, version |-> 0, number |-> 0,
   outcome |-> "FAILED"]

ReplayState ==
  [pc : {"idle", "loaded", "locked", "waiting", "answered"},
   case : Cases \cup {NoCase}, version : Nat, number : Nat, outcome : Outcome]

\* One row of the reaper's findMany, with the attempt number it will record.
Stale == [case : Cases, number : Nat, lock : Nat]

\* todo: the rows still to reclaim; claimed: reclaimed, TIMED_OUT row not written.
IdleReap == [todo |-> {}, claimed |-> {}]

ReapState == [todo : SUBSET Stale, claimed : SUBSET Stale]

Init ==
  /\ dlq = [c \in Cases |-> NoRow]
  /\ attempts = [c \in Cases |-> {}]
  /\ Engine!Init
  /\ replay = [r \in Replayers |-> IdleReplay]
  /\ reap = [p \in Reapers |-> IdleReap]
  /\ crashes = 0
  /\ byHand = {}

TypeOK ==
  /\ dlq \in [Cases -> Row]
  /\ attempts \in [Cases -> SUBSET Attempt]
  /\ exec \in [Cases -> Engine!Execution]
  /\ replay \in [Replayers -> ReplayState]
  /\ reap \in [Reapers -> ReapState]
  /\ crashes \in Nat
  /\ byHand \subseteq Cases

-----------------------------------------------------------------------------
(* DeadLetterIntakeService.intake.  The producer reports an event CH01       *)
(* refused, one it never reached, or a conflicting redelivery of one it had  *)
(* posted.  A second report finds the row (or loses the unique index) and    *)
(* changes nothing, whatever its payload.                                    *)

Intake(c) ==
  /\ dlq[c] = NoRow
  /\ dlq' = [dlq EXCEPT ![c] = [NoRow EXCEPT !.status = "QUARANTINED",
                                             !.version = 1]]
  /\ UNCHANGED <<attempts, exec, replay, reap, crashes, byHand>>

(* FixtureService.transitionFixture, the only route that moves a case by     *)
(* hand and the only one to READY_FOR_REPLAY.  Any allowed transition will do, *)
(* also one that takes a case from a replay in flight; replay_lock_acquired_at *)
(* is left as it is.  Its update matches on the version it read and every     *)
(* write of the status increments the version, so read and update are one step. *)
Transition(c, to) ==
  /\ <<dlq[c].status, to>> \in AllowedTransitions
  /\ dlq[c].version < MaxVersion
  /\ dlq' = [dlq EXCEPT ![c].status = to, ![c].version = @ + 1]
  /\ byHand' = IF <<dlq[c].status, to>> \in ReplayEdges THEN byHand \cup {c} ELSE byHand
  /\ UNCHANGED <<attempts, exec, replay, reap, crashes>>

-----------------------------------------------------------------------------
(* ReplayService.replay                                                      *)

Holds(r, c, pcs) == replay[r].case = c /\ replay[r].pc \in pcs

\* findFirst and the status guard.
Load(r, c) ==
  /\ replay[r].pc = "idle"
  /\ dlq[c].status = "READY_FOR_REPLAY"
  /\ dlq[c].version < MaxVersion
  /\ replay' = [replay EXCEPT ![r] =
        [pc |-> "loaded", case |-> c, version |-> dlq[c].version,
         number |-> dlq[c].attemptCount + 1, outcome |-> "FAILED"]]
  /\ UNCHANGED <<dlq, attempts, exec, reap, crashes, byHand>>

\* Mutated form: the compare-and-set matches the status only.
CanAcquire_StatusOnly(r, c) ==
  dlq[c].status = "READY_FOR_REPLAY" /\ replay[r].case = c

\* The row the compare-and-set of r matches.
CanAcquire(r, c) ==
  dlq[c].status = "READY_FOR_REPLAY" /\ dlq[c].version = replay[r].version

\* Mutated form: replay_lock_acquired_at is not set.
Acquire_NoLock(r, c) ==
  /\ Holds(r, c, {"loaded"})
  /\ CanAcquire(r, c)
  /\ dlq' = [dlq EXCEPT ![c].status = "REPLAY_IN_PROGRESS", ![c].version = @ + 1]
  /\ replay' = [replay EXCEPT ![r].pc = "locked"]
  /\ UNCHANGED <<attempts, exec, reap, crashes, byHand>>

Acquire(r, c) ==
  /\ Holds(r, c, {"loaded"})
  /\ CanAcquire(r, c)
  /\ dlq' = [dlq EXCEPT ![c].status = "REPLAY_IN_PROGRESS",
                        ![c].version = @ + 1,
                        ![c].lock = replay[r].version + 1]
  /\ replay' = [replay EXCEPT ![r].pc = "locked"]
  /\ UNCHANGED <<attempts, exec, reap, crashes, byHand>>

\* 409 REPLAY_ALREADY_IN_PROGRESS.
LoseRace(r, c) ==
  /\ Holds(r, c, {"loaded"})
  /\ ~CanAcquire(r, c)
  /\ replay' = [replay EXCEPT ![r] = IdleReplay]
  /\ UNCHANGED <<dlq, attempts, exec, reap, crashes, byHand>>

Answered(r, o) == replay' = [replay EXCEPT ![r].pc = "answered", ![r].outcome = o]

\* POST /posting-engine/events: CH01 refuses an event it does not know, or claims it
\* and works on it; for one it knows it answers from the row.
Submit(r, c) ==
  /\ Holds(r, c, {"locked"})
  /\ IF exec[c].status = "NONE"
       THEN /\ Engine!Opens(c)
            /\ IF exec'[c].status = "REJECTED" THEN Answered(r, "REJECTED")
               ELSE replay' = [replay EXCEPT ![r].pc = "waiting"]
       ELSE Answered(r, Passthrough(exec[c].status)) /\ UNCHANGED exec
  /\ UNCHANGED <<dlq, attempts, reap, crashes, byHand>>

\* CH01 unreachable, or its answer lost: the adapter answers FAILED.
CallFails(r, c) ==
  /\ Holds(r, c, {"locked", "waiting"})
  /\ Answered(r, "FAILED")
  /\ UNCHANGED <<dlq, attempts, exec, reap, crashes, byHand>>

\* Mutated form: no unique index on the attempt number.
Recorded_NoIndex(c, n) == c \notin Cases /\ n \in Nat

\* Unique index (dead_letter_id, attempt_number).
Recorded(c, n) == \E a \in attempts[c] : a.number = n

\* Mutated form: the journal reference is not copied to the case.
Finalized_NoJournal(row, o) ==
  [status |-> OutcomeToCaseStatus(o), version |-> row.version + 1,
   attemptCount |-> row.attemptCount + 1, lock |-> 0, journal |-> row.journal]

\* The case after a completed attempt: the update names the row by id only.
Finalized(row, o) ==
  [status |-> OutcomeToCaseStatus(o), version |-> row.version + 1,
   attemptCount |-> row.attemptCount + 1, lock |-> 0,
   journal |-> IF OutcomeToCaseStatus(o) = "RESOLVED" THEN "JE" ELSE row.journal]

\* The finalize transaction: the attempt row, then an update of the case by id.
Finalize(r, c) ==
  /\ Holds(r, c, {"answered"})
  /\ ~Recorded(c, replay[r].number)
  /\ LET o == replay[r].outcome IN
       /\ attempts' = [attempts EXCEPT ![c] = @ \cup
             {[number |-> replay[r].number, status |-> OutcomeToAttemptStatus(o)]}]
       /\ dlq' = [dlq EXCEPT ![c] = Finalized(@, o)]
  /\ replay' = [replay EXCEPT ![r] = IdleReplay]
  /\ UNCHANGED <<exec, reap, crashes, byHand>>

\* The unique index refuses the attempt row: the transaction rolls back.
FinalizeRefused(r, c) ==
  /\ Holds(r, c, {"answered"})
  /\ Recorded(c, replay[r].number)
  /\ replay' = [replay EXCEPT ![r] = IdleReplay]
  /\ UNCHANGED <<dlq, attempts, exec, reap, crashes, byHand>>

\* The process dies, or a statement of its own fails, while it holds the lock.
ReplayCrash(r) ==
  /\ replay[r].pc \in {"locked", "waiting", "answered"}
  /\ crashes < MaxCrashes
  /\ crashes' = crashes + 1
  /\ replay' = [replay EXCEPT ![r] = IdleReplay]
  /\ UNCHANGED <<dlq, attempts, exec, reap, byHand>>

-----------------------------------------------------------------------------
(* CH01, as EngineContract has it.  Its row moves under the request and before  *)
(* the case exists: the evaluation of an abandoned call goes on, other services  *)
(* submit the event, and authorized replays of CH01's own rewrite the row.       *)

\* The evaluation that r waits for ends.
CoaAnswers(r, c) ==
  /\ Holds(r, c, {"waiting"})
  /\ \E x \in Engine!Execution :
       /\ x.status \in {"POSTED", "REJECTED"}
       /\ Engine!Rewrites(c, x)
       /\ Answered(r, x.status)
  /\ UNCHANGED <<dlq, attempts, reap, crashes, byHand>>

CoaMoves(c) ==
  /\ \/ Engine!Opens(c)
     \/ \E x \in Engine!Execution : x # exec[c] /\ Engine!Rewrites(c, x)
  /\ UNCHANGED <<dlq, attempts, replay, reap, crashes, byHand>>

-----------------------------------------------------------------------------
(* ReplayReaperService.reapStaleReplays                                      *)

\* The rows that findMany can match: a NULL lock is older than no threshold.
Held == {c \in Cases : dlq[c].status = "REPLAY_IN_PROGRESS" /\ dlq[c].lock # 0}

\* findMany matches the held locks older than the threshold, which time may make any.
Scan(p) ==
  /\ reap[p] = IdleReap
  /\ \E S \in SUBSET Held :
       /\ S # {}
       /\ reap' = [reap EXCEPT ![p].todo =
             {[case |-> c, number |-> dlq[c].attemptCount + 1,
               lock |-> dlq[c].lock] : c \in S}]
  /\ UNCHANGED <<dlq, attempts, exec, replay, crashes, byHand>>

\* The update matches only a lock that was already old when the pass began.
StillStale(i) ==
  dlq[i.case].status = "REPLAY_IN_PROGRESS" /\ dlq[i.case].lock = i.lock

\* Mutated form: the reaper does not count the attempt it records.
Reclaimed_NotCounted(row) ==
  [status |-> "AWAITING_CORRECTION", version |-> row.version + 1,
   attemptCount |-> row.attemptCount, lock |-> 0, journal |-> row.journal]

Reclaimed(row) ==
  [status |-> "AWAITING_CORRECTION", version |-> row.version + 1,
   attemptCount |-> row.attemptCount + 1, lock |-> 0, journal |-> row.journal]

Reclaim(p, i) ==
  /\ i \in reap[p].todo /\ reap[p].claimed = {}
  /\ StillStale(i)
  /\ dlq' = [dlq EXCEPT ![i.case] = Reclaimed(@)]
  /\ reap' = [reap EXCEPT ![p] = [todo |-> @.todo \ {i}, claimed |-> {i}]]
  /\ UNCHANGED <<attempts, exec, replay, crashes, byHand>>

\* count = 0: the replay finished, or another pass was first.
Skip(p, i) ==
  /\ i \in reap[p].todo /\ reap[p].claimed = {}
  /\ ~StillStale(i)
  /\ reap' = [reap EXCEPT ![p].todo = @ \ {i}]
  /\ UNCHANGED <<dlq, attempts, exec, replay, crashes, byHand>>

\* The second transaction: the TIMED_OUT row of the reclaimed lock.
RecordTimeout(p, i) ==
  /\ i \in reap[p].claimed
  /\ ~Recorded(i.case, i.number)
  /\ attempts' = [attempts EXCEPT ![i.case] = @ \cup
        {[number |-> i.number, status |-> "TIMED_OUT"]}]
  /\ reap' = [reap EXCEPT ![p].claimed = {}]
  /\ UNCHANGED <<dlq, exec, replay, crashes, byHand>>

\* The unique index refuses it: the error ends the pass, the rest of todo with it.
RecordRefused(p, i) ==
  /\ i \in reap[p].claimed
  /\ Recorded(i.case, i.number)
  /\ reap' = [reap EXCEPT ![p] = IdleReap]
  /\ UNCHANGED <<dlq, attempts, exec, replay, crashes, byHand>>

ReapCrash(p) ==
  /\ reap[p] # IdleReap
  /\ crashes < MaxCrashes
  /\ crashes' = crashes + 1
  /\ reap' = [reap EXCEPT ![p] = IdleReap]
  /\ UNCHANGED <<dlq, attempts, exec, replay, byHand>>

-----------------------------------------------------------------------------
ReplayStep(r, c) ==
  \/ Load(r, c) \/ Acquire(r, c) \/ LoseRace(r, c) \/ Submit(r, c)
  \/ CoaAnswers(r, c) \/ CallFails(r, c) \/ Finalize(r, c) \/ FinalizeRefused(r, c)

ReapStep(p, i) ==
  Reclaim(p, i) \/ Skip(p, i) \/ RecordTimeout(p, i) \/ RecordRefused(p, i)

Next ==
  \/ \E c \in Cases : Intake(c) \/ CoaMoves(c)
  \/ \E c \in Cases, to \in CaseStatus : Transition(c, to)
  \/ \E r \in Replayers, c \in Cases : ReplayStep(r, c)
  \/ \E r \in Replayers : ReplayCrash(r)
  \/ \E p \in Reapers : Scan(p) \/ ReapCrash(p)
  \/ \E p \in Reapers : \E i \in reap[p].todo \cup reap[p].claimed : ReapStep(p, i)

Spec == Init /\ [][Next]_vars

\* Nothing makes a replay finish, CH01 answer, or the reaper be called: a route calls
\* it, and no scheduler of the repository calls the route.  A pass that has begun goes
\* on unless it crashes.
Fairness ==
  \A p \in Reapers :
    WF_vars(\E i \in reap[p].todo \cup reap[p].claimed : ReapStep(p, i))

FairSpec == Spec /\ Fairness
-----------------------------------------------------------------------------
(* Properties                                                                *)

InFlight(r, c) == Holds(r, c, {"locked", "waiting", "answered"})

(* The compare-and-set of ReplayService.replay matches status and version      *)
(* "so operators get a clean single attempt record": two requests that run     *)
(* for one case at once, which a reaped but living replay makes possible,      *)
(* never carry the same attempt number, as long as nobody has moved the case   *)
(* into or out of REPLAY_IN_PROGRESS by hand.  transitionFixture lets them, and *)
(* moves no attempt_count: then two requests can.                               *)
AttemptNumbersDistinct ==
  \A c \in Cases \ byHand : \A r, s \in Replayers :
    r # s /\ InFlight(r, c) /\ InFlight(s, c) => replay[r].number # replay[s].number

(* The TIMED_OUT row the reaper writes fences the replay whose lock it         *)
(* reclaimed and no other: the number it claims never belongs to a request     *)
(* that took the lock later, whose own result would then be refused.  Again of *)
(* the cases that nobody has taken from a replay, or given to one, by hand.     *)
ReaperFencesOnlyTheReaped ==
  \A p \in Reapers : \A i \in reap[p].claimed : \A r \in Replayers :
    i.case \notin byHand /\ InFlight(r, i.case) /\ replay[r].number = i.number
      => replay[r].version + 1 = i.lock

(* attempt_count never falls behind the append-only ledger: it covers the       *)
(* number of every attempt row, so the next replay never computes a number     *)
(* already used, and a number has one outcome.                                  *)
CountCoversLedger ==
  \A c \in Cases : \A a \in attempts[c] :
    /\ a.number \in 1 .. dlq[c].attemptCount
    /\ \A b \in attempts[c] : a.number = b.number => a = b

(* What makes the two of them inductive: the numbers that requests and reapers  *)
(* carry are old or the next one, and only the holder of the lock has the next. *)
NumbersInRange ==
  /\ \A r \in Replayers, c \in Cases :
       /\ Holds(r, c, {"loaded"}) => replay[r].version <= dlq[c].version
       /\ Holds(r, c, {"loaded"}) \/ InFlight(r, c) =>
            replay[r].number \in 1 .. dlq[c].attemptCount + 1
  /\ \A p \in Reapers :
       /\ \A i \in reap[p].todo : i.number \in 1 .. dlq[i.case].attemptCount + 1
       /\ \A i \in reap[p].claimed : i.number \in 1 .. dlq[i.case].attemptCount

OnlyOwnerIsNext ==
  \A r \in Replayers, c \in Cases :
    /\ Holds(r, c, {"loaded"}) /\ replay[r].version = dlq[c].version
         => replay[r].number = dlq[c].attemptCount + 1
    /\ InFlight(r, c) /\ replay[r].number = dlq[c].attemptCount + 1 /\ c \notin byHand
         => dlq[c].status = "REPLAY_IN_PROGRESS"

(* The case row and the attempt ledger tell the same story, though two services  *)
(* write them: a journal reference is on the case exactly when an attempt         *)
(* succeeded, and then the event has a journal in the general ledger, through     *)
(* crashes, lost answers, reaped replays and moves by hand; and a RESOLVED case   *)
(* has the reference, unless somebody moved it out of REPLAY_IN_PROGRESS by hand, *)
(* which transitionFixture lets them do straight to RESOLVED.                     *)
JournalEvidence ==
  \A c \in Cases :
    /\ dlq[c].journal = "JE" <=>
         \E a \in attempts[c] : a.status \in {"SUCCEEDED", "NOOP_ALREADY_POSTED"}
    /\ dlq[c].journal = "JE" => exec[c].journal = "JE"
    /\ dlq[c].status = "RESOLVED" /\ c \notin byHand => dlq[c].journal = "JE"

(* The purpose of the reaper (migration 20260731010000): a case whose replay      *)
(* crashed, or never returns, does not stay in REPLAY_IN_PROGRESS.  The premise   *)
(* is that somebody goes on calling the reaper until a pass finds the case ("an   *)
(* operator or scheduler polling every minute or two", replay-reaper-service.ts), *)
(* and a case put there by hand with a NULL lock time is none that it finds.      *)
StuckReplayIsReclaimed ==
  \A c \in Cases :
    (\E p \in Reapers : WF_vars(Scan(p) /\ \E i \in reap'[p].todo : i.case = c))
      => (dlq[c].status = "REPLAY_IN_PROGRESS" /\ (c \notin byHand \/ c \in Held)
            ~> dlq[c].status # "REPLAY_IN_PROGRESS")

(* schema.prisma of the lock time: "set only while status = REPLAY_IN_PROGRESS;   *)
(* cleared (null) the moment the case leaves that status".  The replay and the    *)
(* reaper clear it; transitionFixture does not.                                   *)
LockOnlyInProgress ==
  \A c \in Cases : dlq[c].lock # 0 => dlq[c].status = "REPLAY_IN_PROGRESS"
==============================================================================
