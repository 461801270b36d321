----------------------- MODULE PostingRecovery_proofs -----------------------
(* TLAPS proofs about PostingRecovery, for any number of cases, requests and *)
(* crashes.                                                                  *)
EXTENDS PostingRecovery, TLAPS

(* What the two updates of a case row make of it. *)
LEMMA FinalizedType ==
  ASSUME NEW row \in Row, NEW o \in Outcome
  PROVE  /\ Finalized(row, o) \in Row
         /\ Finalized(row, o).status = OutcomeToCaseStatus(o)
         /\ Finalized(row, o).attemptCount = row.attemptCount + 1
         /\ Finalized(row, o).version = row.version + 1
<1>1. OutcomeToCaseStatus(o) \in CaseStatus
  BY DEF OutcomeToCaseStatus, CaseStatus
<1>2. (IF OutcomeToCaseStatus(o) = "RESOLVED" THEN "JE" ELSE row.journal) \in {"NULL", "JE"}
  BY DEF Row
<1> QED BY <1>1, <1>2 DEF Finalized, Row

LEMMA ReclaimedType ==
  ASSUME NEW row \in Row
  PROVE  /\ Reclaimed(row) \in Row
         /\ Reclaimed(row).status = "AWAITING_CORRECTION"
         /\ Reclaimed(row).attemptCount = row.attemptCount + 1
         /\ Reclaimed(row).version = row.version + 1
BY DEF Reclaimed, Row, CaseStatus

(* A replay that has asked CH01 waits, or has its answer, and keeps the rest.   *)
LEMMA AnsweredType ==
  ASSUME replay \in [Replayers -> ReplayState], NEW r \in Replayers, NEW o \in Outcome,
         NEW y, y = [replay[r] EXCEPT !.pc = "answered", !.outcome = o]
                \/ y = [replay[r] EXCEPT !.pc = "waiting"],
         replay' = [replay EXCEPT ![r] = y]
  PROVE  /\ replay' \in [Replayers -> ReplayState]
         /\ replay'[r].case = replay[r].case /\ replay'[r].number = replay[r].number
         /\ replay'[r].version = replay[r].version
         /\ replay'[r].pc \in {"waiting", "answered"}
         /\ \A q \in Replayers \ {r} : replay'[q] = replay[q]
<1>1. /\ y \in ReplayState /\ y.case = replay[r].case /\ y.number = replay[r].number
      /\ y.version = replay[r].version /\ y.pc \in {"waiting", "answered"}
  BY DEF ReplayState
<1> HIDE DEF ReplayState
<1> QED
  BY <1>1

LEMMA OpensType ==
  ASSUME exec \in [Cases -> Engine!Execution], NEW c \in Cases, Engine!Opens(c)
  PROVE  /\ exec' \in [Cases -> Engine!Execution]
         /\ \A d \in Cases : exec'[d].journal = exec[d].journal
         /\ exec'[c].status \in {"POSTING_IN_PROGRESS", "REJECTED"}
         /\ \A d \in Cases \ {c} : exec'[d] = exec[d]
<1>1. PICK s \in {"POSTING_IN_PROGRESS", "REJECTED"} : exec' = [exec EXCEPT ![c].status = s]
  BY DEF Engine!Opens
<1> QED
  BY <1>1 DEF Engine!Execution, Engine!ExecutionStatus

LEMMA InitialExecution ==
  ASSUME Engine!Init
  PROVE  exec \in [Cases -> Engine!Execution]
         /\ \A c \in Cases : exec[c].status = "NONE" /\ exec[c].journal = "NULL"
  BY DEF Engine!Init, Engine!NoExecution, Engine!Execution, Engine!ExecutionStatus

(* What the calls of CH01 do: the request waits or has an answer, which for a     *)
(* claim of success is true of the ledger, and a journal is never unbooked.      *)
AnswerIsTrue(o, c) == o \in {"POSTED", "NOOP_ALREADY_POSTED"} => exec'[c].journal = "JE"

PostedHasJournal ==
  \A c \in Cases : exec[c].status = "POSTED" => exec[c].journal = "JE"

JournalsStay == \A c \in Cases : exec[c].journal = "JE" => exec'[c].journal = "JE"

LEMMA CallOfEngine ==
  ASSUME TypeOK, NEW r \in Replayers, NEW c \in Cases,
         Submit(r, c) \/ CallFails(r, c) \/ CoaAnswers(r, c)
  PROVE  /\ exec' \in [Cases -> Engine!Execution] /\ JournalsStay
         /\ PostedHasJournal => PostedHasJournal'
         /\ \/ replay' = [replay EXCEPT ![r].pc = "waiting"]
            \/ \E o \in Outcome : Answered(r, o) /\ (PostedHasJournal => AnswerIsTrue(o, c))
<1> USE DEF JournalsStay, PostedHasJournal, AnswerIsTrue
<1>0. exec \in [Cases -> Engine!Execution]
  BY DEF TypeOK
<1>1. CASE Submit(r, c) /\ exec[c].status = "NONE"
  <2>1. Engine!Opens(c) /\ (Answered(r, "REJECTED")
                            \/ replay' = [replay EXCEPT ![r].pc = "waiting"])
    BY <1>1 DEF Submit
  <2>2. "REJECTED" \in Outcome
    BY DEF Outcome
  <2>3. /\ exec' \in [Cases -> Engine!Execution]
        /\ \A d \in Cases : exec'[d].journal = exec[d].journal
        /\ exec'[c].status # "POSTED"
        /\ \A d \in Cases \ {c} : exec'[d] = exec[d]
    BY <1>0, <2>1, OpensType
  <2> QED
    BY <2>1, <2>2, <2>3
<1>2. CASE Submit(r, c) /\ exec[c].status # "NONE"
  <2>1. Answered(r, Passthrough(exec[c].status)) /\ exec' = exec
    BY <1>2 DEF Submit
  <2>2. /\ Passthrough(exec[c].status) \in Outcome
        /\ Passthrough(exec[c].status) \in {"POSTED", "NOOP_ALREADY_POSTED"}
             => exec[c].status = "POSTED"
    BY DEF Passthrough, Outcome
  <2> QED
    BY <1>0, <2>1, <2>2
<1>3. CASE CallFails(r, c)
  <2>1. Answered(r, "FAILED") /\ exec' = exec /\ "FAILED" \in Outcome
    BY <1>3 DEF CallFails, Outcome
  <2> QED
    BY <1>0, <2>1
<1>4. CASE CoaAnswers(r, c)
  <2>1. PICK x \in Engine!Execution : /\ x.status \in {"POSTED", "REJECTED"}
                                      /\ Engine!Rewrites(c, x)
                                      /\ Answered(r, x.status)
    BY <1>4 DEF CoaAnswers
  <2>2. x.status \in Outcome
    BY <2>1 DEF Outcome
  <2>3. /\ exec' = [exec EXCEPT ![c] = x]
        /\ x.status = "POSTED" => x.journal = "JE"
        /\ exec[c].journal = "JE" => x.journal = "JE"
    BY <2>1 DEF Engine!Rewrites
  <2>4. x.status \in {"POSTED", "NOOP_ALREADY_POSTED"} => x.status = "POSTED"
    BY <2>1
  <2>5. Answered(r, x.status)
    BY <2>1
  <2> QED
    BY <1>0, <2>2, <2>3, <2>4, <2>5
<1> QED
  BY <1>1, <1>2, <1>3, <1>4

LEMMA CallType ==
  ASSUME TypeOK, NEW r \in Replayers, NEW c \in Cases,
         Submit(r, c) \/ CallFails(r, c) \/ CoaAnswers(r, c)
  PROVE  /\ replay' \in [Replayers -> ReplayState]
         /\ replay'[r].case = replay[r].case /\ replay'[r].number = replay[r].number
         /\ replay'[r].version = replay[r].version
         /\ replay'[r].pc \in {"waiting", "answered"}
         /\ \A q \in Replayers \ {r} : replay'[q] = replay[q]
<1>1. replay \in [Replayers -> ReplayState]
  BY DEF TypeOK
<1>2. CASE replay' = [replay EXCEPT ![r].pc = "waiting"]
  <2>1. replay' = [replay EXCEPT ![r] = [replay[r] EXCEPT !.pc = "waiting"]]
    BY <1>1, <1>2
  <2>2. "FAILED" \in Outcome
    BY DEF Outcome
  <2> QED
    BY <1>1, <2>1, <2>2, AnsweredType
<1>3. ASSUME NEW o \in Outcome, Answered(r, o)
      PROVE  /\ replay' \in [Replayers -> ReplayState]
             /\ replay'[r].case = replay[r].case /\ replay'[r].number = replay[r].number
             /\ replay'[r].version = replay[r].version
             /\ replay'[r].pc \in {"waiting", "answered"}
             /\ \A q \in Replayers \ {r} : replay'[q] = replay[q]
  <2>1. replay' = [replay EXCEPT ![r] = [replay[r] EXCEPT !.pc = "answered", !.outcome = o]]
    BY <1>1, <1>3 DEF Answered
  <2> QED
    BY <1>1, <2>1, AnsweredType
<1> QED
  BY <1>2, <1>3, CallOfEngine

(* Type correctness: every row and every local variable stays in its domain. *)
LEMMA TypeStep == TypeOK /\ [Next]_vars => TypeOK'
<1> SUFFICES ASSUME TypeOK, [Next]_vars PROVE TypeOK'
  OBVIOUS
<1> USE RecoveryAssumption DEF TypeOK, Row, ReplayState, ReapState, Stale, Outcome
<1>1. ASSUME NEW c \in Cases, Intake(c) PROVE TypeOK'
  BY <1>1 DEF Intake, NoRow, CaseStatus
<1>2. ASSUME NEW c \in Cases, CoaMoves(c) PROVE TypeOK'
  <2>1. CASE Engine!Opens(c)
    BY <1>2, <2>1, OpensType DEF CoaMoves
  <2>2. CASE ~Engine!Opens(c)
    BY <1>2, <2>2 DEF CoaMoves, Engine!Rewrites
  <2> QED BY <2>1, <2>2
<1>4. ASSUME NEW c \in Cases, NEW to \in CaseStatus, Transition(c, to) PROVE TypeOK'
  BY <1>4 DEF Transition
<1>5. ASSUME NEW r \in Replayers, NEW c \in Cases, ReplayStep(r, c) PROVE TypeOK'
  <2>1. CASE Load(r, c)
    BY <2>1 DEF Load
  <2>2. CASE Acquire(r, c)
    BY <2>2 DEF Acquire, CaseStatus
  <2>3. CASE LoseRace(r, c)
    BY <2>3 DEF LoseRace, IdleReplay
  <2>4. CASE Submit(r, c) \/ CallFails(r, c) \/ CoaAnswers(r, c)
    <3>1. exec' \in [Cases -> Engine!Execution] /\ replay' \in [Replayers -> ReplayState]
      BY <2>4, CallOfEngine, CallType
    <3>2. UNCHANGED <<dlq, attempts, reap, crashes, byHand>>
      BY <2>4 DEF Submit, CallFails, CoaAnswers
    <3> QED BY <3>1, <3>2
  <2>6. CASE Finalize(r, c)
    <3> DEFINE o == replay[r].outcome
               new == [number |-> replay[r].number, status |-> OutcomeToAttemptStatus(o)]
    <3>1. /\ OutcomeToAttemptStatus(o) \in AttemptStatus
          /\ OutcomeToCaseStatus(o) \in CaseStatus
      BY DEF OutcomeToAttemptStatus, OutcomeToCaseStatus, AttemptStatus, CaseStatus
    <3>2. attempts' \in [Cases -> SUBSET Attempt]
      <4>1. new \in Attempt
        BY <3>1 DEF Attempt
      <4> QED BY <2>6, <4>1 DEF Finalize
    <3>3. dlq' \in [Cases -> Row]
      <4>1. Finalized(dlq[c], o) \in Row
        BY <3>1, FinalizedType
      <4> HIDE DEF Row
      <4> QED BY <2>6, <4>1 DEF Finalize
    <3> QED BY <2>6, <3>2, <3>3 DEF Finalize, IdleReplay
  <2>7. CASE FinalizeRefused(r, c)
    BY <2>7 DEF FinalizeRefused, IdleReplay
  <2> QED BY <1>5, <2>1, <2>2, <2>3, <2>4, <2>6, <2>7 DEF ReplayStep
<1>6. ASSUME NEW r \in Replayers, ReplayCrash(r) PROVE TypeOK'
  BY <1>6 DEF ReplayCrash, IdleReplay
<1>7. ASSUME NEW p \in Reapers, Scan(p) PROVE TypeOK'
  BY <1>7 DEF Scan, Held, IdleReap
<1>8. ASSUME NEW p \in Reapers, ReapCrash(p) PROVE TypeOK'
  BY <1>8 DEF ReapCrash, IdleReap
<1>9. ASSUME NEW p \in Reapers, NEW i \in reap[p].todo \cup reap[p].claimed,
             ReapStep(p, i)
      PROVE  TypeOK'
  <2>1. i \in Stale
    OBVIOUS
  <2>2. CASE Reclaim(p, i)
    <3>1. Reclaimed(dlq[i.case]) \in Row
      BY <2>1, ReclaimedType
    <3>2. [todo |-> reap[p].todo \ {i}, claimed |-> {i}] \in ReapState
      BY <2>1
    <3> HIDE DEF Row, ReapState
    <3>3. dlq' \in [Cases -> Row] /\ reap' \in [Reapers -> ReapState]
      BY <2>1, <2>2, <3>1, <3>2 DEF Reclaim
    <3> QED BY <2>2, <3>3 DEF Reclaim
  <2>3. CASE Skip(p, i)
    BY <2>3 DEF Skip
  <2>4. CASE RecordTimeout(p, i)
    <3>1. [number |-> i.number, status |-> "TIMED_OUT"] \in Attempt
      BY <2>1 DEF Attempt, AttemptStatus
    <3>2. [reap[p] EXCEPT !.claimed = {}] \in ReapState /\ i.case \in Cases
      BY <2>1
    <3> HIDE DEF Row, ReplayState, ReapState, Stale, Outcome
    <3> QED BY <2>4, <3>1, <3>2 DEF RecordTimeout
  <2>5. CASE RecordRefused(p, i)
    BY <2>5 DEF RecordRefused, IdleReap
  <2> QED BY <1>9, <2>2, <2>3, <2>4, <2>5 DEF ReapStep
<1>10. CASE UNCHANGED vars
  BY <1>10 DEF vars
<1> QED BY <1>1, <1>2, <1>4, <1>5, <1>6, <1>7, <1>8, <1>9, <1>10 DEF Next

THEOREM TypeCorrect == Spec => []TypeOK
<1>1. Init => TypeOK
  BY RecoveryAssumption, InitialExecution DEF Init, TypeOK, Row, NoRow, ReplayState, IdleReplay,
     ReapState, IdleReap, Outcome
<1> QED BY <1>1, TypeStep, PTL DEF Spec

-----------------------------------------------------------------------------
(* The attempt ledger.                                                       *)

LedgerInv == TypeOK /\ NumbersInRange /\ CountCoversLedger

(* Every step leaves a case row alone or raises its version; the attempt      *)
(* count never falls.                                                        *)
LEMMA RowsMoveOn ==
  ASSUME TypeOK, [Next]_vars, NEW c \in Cases
  PROVE  \/ dlq'[c] = dlq[c]
         \/ /\ dlq'[c].version = dlq[c].version + 1
            /\ dlq'[c].attemptCount \in {dlq[c].attemptCount, dlq[c].attemptCount + 1}
<1> DEFINE Moved(d) == dlq'[d].version = dlq[d].version + 1
                       /\ dlq'[d].attemptCount \in {dlq[d].attemptCount, dlq[d].attemptCount + 1}
<1>0. dlq \in [Cases -> Row]
  BY DEF TypeOK
<1>1. CASE UNCHANGED dlq
  BY <1>1
<1>2. ASSUME NEW d \in Cases, Intake(d) PROVE dlq'[c] = dlq[c] \/ Moved(c)
  BY <1>0, <1>2 DEF Intake, NoRow
<1>3. ASSUME NEW d \in Cases, NEW to \in CaseStatus, Transition(d, to)
      PROVE  dlq'[c] = dlq[c] \/ Moved(c)
  BY <1>0, <1>3 DEF Transition, Row
<1>4. ASSUME NEW r \in Replayers, NEW d \in Cases, ReplayStep(r, d)
      PROVE  dlq'[c] = dlq[c] \/ Moved(c)
  <2>1. CASE Acquire(r, d)
    BY <1>0, <2>1 DEF Acquire, Row
  <2>2. CASE Finalize(r, d)
    <3>1. dlq' = [dlq EXCEPT ![d] = Finalized(@, replay[r].outcome)]
      BY <2>2 DEF Finalize
    <3>2. replay[r].outcome \in Outcome
      BY DEF TypeOK, ReplayState
    <3> QED BY <1>0, <3>1, <3>2, FinalizedType
  <2>3. CASE ~Acquire(r, d) /\ ~Finalize(r, d)
    BY <1>1, <1>4, <2>3 DEF ReplayStep, Load, LoseRace, Submit, CoaAnswers, CallFails,
       FinalizeRefused
  <2> QED BY <2>1, <2>2, <2>3
<1>5. ASSUME NEW p \in Reapers, NEW i \in reap[p].todo \cup reap[p].claimed,
             ReapStep(p, i)
      PROVE  dlq'[c] = dlq[c] \/ Moved(c)
  <2>1. CASE Reclaim(p, i)
    <3>1. i.case \in Cases
      BY DEF TypeOK, ReapState, Stale
    <3> QED BY <1>0, <2>1, <3>1, ReclaimedType DEF Reclaim
  <2>2. CASE ~Reclaim(p, i)
    BY <1>1, <1>5, <2>2 DEF ReapStep, Skip, RecordTimeout, RecordRefused
  <2> QED BY <2>1, <2>2
<1>6. CASE \/ \E d \in Cases : CoaMoves(d)
           \/ \E r \in Replayers : ReplayCrash(r)
           \/ \E p \in Reapers : Scan(p) \/ ReapCrash(p)
           \/ UNCHANGED vars
  BY <1>1, <1>6 DEF CoaMoves, ReplayCrash, Scan, ReapCrash, vars
<1> QED BY <1>2, <1>3, <1>4, <1>5, <1>6 DEF Next

(* What a step makes of the number a request carries: it keeps it, or loads.  *)
LEMMA RequestsKeepTheirNumber ==
  ASSUME TypeOK, [Next]_vars, NEW r \in Replayers, replay'[r].pc # "idle"
  PROVE  \/ /\ replay'[r].case = replay[r].case
            /\ replay'[r].number = replay[r].number
            /\ replay'[r].version = replay[r].version
            /\ replay[r].pc # "idle"
            /\ replay'[r].pc = "loaded" => replay[r].pc = "loaded"
            /\ replay[r].pc = "loaded" => replay'[r].pc = "loaded"
                                          \/ Acquire(r, replay[r].case)
         \/ Load(r, replay'[r].case) /\ replay'[r].case \in Cases
<1> DEFINE Kept == /\ replay'[r].case = replay[r].case
                   /\ replay'[r].number = replay[r].number
                   /\ replay'[r].version = replay[r].version
                   /\ replay[r].pc # "idle"
                   /\ replay'[r].pc = "loaded" => replay[r].pc = "loaded"
                   /\ replay[r].pc = "loaded" => replay'[r].pc = "loaded"
                                                 \/ Acquire(r, replay[r].case)
<1> USE DEF IdleReplay
<1>0. replay \in [Replayers -> ReplayState] /\ replay[r] \in ReplayState
  BY DEF TypeOK
<1>1. CASE replay'[r] = replay[r]
  BY <1>1
<1>2. ASSUME NEW q \in Replayers, NEW d \in Cases, ReplayStep(q, d)
      PROVE  Kept \/ (Load(r, replay'[r].case) /\ replay'[r].case \in Cases)
  <2>1. CASE q # r
    <3>1. CASE Submit(q, d) \/ CallFails(q, d) \/ CoaAnswers(q, d)
      BY <1>1, <2>1, <3>1, CallType
    <3>2. CASE ~(Submit(q, d) \/ CallFails(q, d) \/ CoaAnswers(q, d))
      <4>1. replay'[r] = replay[r]
        BY <1>0, <1>2, <2>1, <3>2 DEF ReplayStep, Load, Acquire, LoseRace, Finalize,
           FinalizeRefused
      <4> QED BY <1>1, <4>1
    <3> QED BY <3>1, <3>2
  <2>2. CASE q = r /\ Load(r, d)
    BY <1>0, <2>2 DEF Load
  <2>3. CASE q = r /\ Acquire(r, d)
    BY <1>0, <2>3 DEF Acquire, Holds, ReplayState
  <2>4. CASE q = r /\ (Submit(r, d) \/ CallFails(r, d) \/ CoaAnswers(r, d))
    <3>1. replay[r].pc \in {"locked", "waiting"}
      BY <2>4 DEF Submit, CallFails, CoaAnswers, Holds
    <3> QED BY <2>4, <3>1, CallType
  <2>5. CASE q = r /\ (LoseRace(r, d) \/ Finalize(r, d) \/ FinalizeRefused(r, d))
    BY <1>0, <2>5 DEF LoseRace, Finalize, FinalizeRefused
  <2> QED BY <1>2, <2>1, <2>2, <2>3, <2>4, <2>5 DEF ReplayStep
<1>4. ASSUME NEW q \in Replayers, ReplayCrash(q) PROVE Kept
  BY <1>0, <1>1, <1>4 DEF ReplayCrash
<1>5. CASE UNCHANGED replay
  BY <1>5
<1>6. ASSUME NEW p \in Reapers, NEW i \in reap[p].todo \cup reap[p].claimed,
             ReapStep(p, i)
      PROVE  UNCHANGED replay
  BY <1>6 DEF ReapStep, Reclaim, Skip, RecordTimeout, RecordRefused
<1>7. CASE \/ \E d \in Cases : Intake(d) \/ CoaMoves(d)
           \/ \E d \in Cases, to \in CaseStatus : Transition(d, to)
           \/ \E p \in Reapers : Scan(p) \/ ReapCrash(p)
           \/ UNCHANGED vars
  BY <1>5, <1>7 DEF Intake, CoaMoves, Transition, Scan, ReapCrash, vars
<1> QED BY <1>2, <1>4, <1>5, <1>6, <1>7 DEF Next

(* The reaper: what it carries comes from the rows, and is recorded once.    *)
LEMMA ReaperNumbersStep ==
  ASSUME TypeOK, NumbersInRange, [Next]_vars, NEW p \in Reapers
  PROVE  /\ \A i \in reap'[p].todo : i.number \in 1 .. dlq'[i.case].attemptCount + 1
         /\ \A i \in reap'[p].claimed : i.number \in 1 .. dlq'[i.case].attemptCount
<1> DEFINE Todo(i) == i.number \in 1 .. dlq'[i.case].attemptCount + 1
           Claimed(i) == i.number \in 1 .. dlq'[i.case].attemptCount
<1>0. /\ reap \in [Reapers -> ReapState] /\ reap[p].todo \subseteq Stale
      /\ reap[p].claimed \subseteq Stale /\ dlq \in [Cases -> Row]
  BY DEF TypeOK, ReapState
<1>1. \A c \in Cases : /\ dlq[c].attemptCount \in Nat
                       /\ dlq'[c].attemptCount \in Nat
                       /\ dlq'[c].attemptCount >= dlq[c].attemptCount
  BY <1>0, RowsMoveOn DEF Row
<1>2. \A i \in reap[p].todo : i \in Stale /\ Todo(i)
  BY <1>0, <1>1 DEF NumbersInRange, Stale
<1>3. \A i \in reap[p].claimed : i \in Stale /\ Claimed(i)
  BY <1>0, <1>1 DEF NumbersInRange, Stale
<1>4. CASE reap'[p] = reap[p]
  BY <1>2, <1>3, <1>4
<1>5. ASSUME NEW q \in Reapers, Scan(q)
      PROVE  /\ \A i \in reap'[p].todo : Todo(i)
             /\ reap'[p].claimed = reap[p].claimed
  <2>1. CASE q # p
    BY <1>0, <1>2, <1>5, <2>1 DEF Scan
  <2>2. CASE q = p
    <3>1. PICK S \in SUBSET Cases :
            reap' = [reap EXCEPT ![p].todo =
              {[case |-> c, number |-> dlq[c].attemptCount + 1,
                lock |-> dlq[c].lock] : c \in S}]
      BY <1>5, <2>2 DEF Scan, Held
    <3>2. reap'[p].todo = {[case |-> c, number |-> dlq[c].attemptCount + 1,
                            lock |-> dlq[c].lock] : c \in S}
          /\ reap'[p].claimed = reap[p].claimed
      BY <1>0, <3>1 DEF ReapState
    <3>3. UNCHANGED dlq
      BY <1>5 DEF Scan
    <3> QED BY <1>1, <3>2, <3>3
  <2> QED BY <2>1, <2>2
<1>6. ASSUME NEW q \in Reapers, NEW j \in reap[q].todo \cup reap[q].claimed,
             ReapStep(q, j)
      PROVE  (\A i \in reap'[p].todo : Todo(i)) /\ \A i \in reap'[p].claimed : Claimed(i)
  <2>1. CASE q # p
    BY <1>0, <1>4, <1>6, <2>1
       DEF ReapStep, Reclaim, Skip, RecordTimeout, RecordRefused
  <2>2. CASE q = p /\ Reclaim(p, j)
    <3>1. /\ reap'[p].todo = reap[p].todo \ {j} /\ reap'[p].claimed = {j}
          /\ j \in reap[p].todo /\ j.case \in Cases /\ j.number \in Nat
      BY <1>0, <1>2, <2>2 DEF Reclaim, Stale
    <3>2. dlq'[j.case].attemptCount = dlq[j.case].attemptCount + 1
      BY <1>0, <2>2, <3>1, ReclaimedType DEF Reclaim
    <3>3. j.number \in 1 .. dlq[j.case].attemptCount + 1
      BY <3>1 DEF NumbersInRange
    <3> QED BY <1>2, <3>1, <3>2, <3>3
  <2>3. CASE q = p /\ (Skip(p, j) \/ RecordTimeout(p, j) \/ RecordRefused(p, j))
    <3>1. reap'[p].todo \subseteq reap[p].todo /\ reap'[p].claimed \subseteq reap[p].claimed
      BY <1>0, <2>3 DEF Skip, RecordTimeout, RecordRefused, IdleReap, ReapState
    <3> QED BY <1>2, <1>3, <3>1
  <2> QED BY <1>6, <2>1, <2>2, <2>3 DEF ReapStep
<1>7. ASSUME NEW q \in Reapers, ReapCrash(q)
      PROVE  reap'[p] = reap[p] \/ (reap'[p].todo = {} /\ reap'[p].claimed = {})
  BY <1>0, <1>7 DEF ReapCrash, IdleReap
<1>8. ASSUME NEW r \in Replayers, NEW c \in Cases, ReplayStep(r, c) PROVE UNCHANGED reap
  BY <1>8 DEF ReplayStep, Load, Acquire, LoseRace, Submit, CoaAnswers, CallFails, Finalize,
     FinalizeRefused
<1>9. CASE \/ \E c \in Cases : Intake(c) \/ CoaMoves(c)
           \/ \E c \in Cases, to \in CaseStatus : Transition(c, to)
           \/ \E r \in Replayers : ReplayCrash(r)
           \/ UNCHANGED vars
  BY <1>4, <1>9 DEF Intake, CoaMoves, Transition, ReplayCrash, vars
<1> QED BY <1>3, <1>4, <1>5, <1>6, <1>7, <1>8, <1>9 DEF Next

LEMMA NumbersStep ==
  TypeOK /\ NumbersInRange /\ [Next]_vars => NumbersInRange'
<1> SUFFICES ASSUME TypeOK, NumbersInRange, [Next]_vars PROVE NumbersInRange'
  OBVIOUS
<1>1. ASSUME NEW r \in Replayers, NEW c \in Cases,
             replay'[r].case = c, replay'[r].pc # "idle"
      PROVE  /\ replay'[r].pc = "loaded" => replay'[r].version <= dlq'[c].version
             /\ replay'[r].number \in 1 .. dlq'[c].attemptCount + 1
  <2>0. dlq[c] \in Row /\ replay[r] \in ReplayState /\ replay \in [Replayers -> ReplayState]
    BY DEF TypeOK
  <2>1. CASE Load(r, c)
    <3>1. /\ replay'[r].version = dlq[c].version
          /\ replay'[r].number = dlq[c].attemptCount + 1
          /\ dlq' = dlq
      BY <2>0, <2>1 DEF Load
    <3>2. dlq[c].version \in Nat /\ dlq[c].attemptCount \in Nat
      BY <2>0 DEF Row
    <3> QED BY <3>1, <3>2
  <2>2. CASE ~Load(r, c)
    <3>1. /\ replay[r].case = c /\ replay[r].pc # "idle"
          /\ replay'[r].number = replay[r].number
          /\ replay'[r].version = replay[r].version
          /\ replay'[r].pc = "loaded" => replay[r].pc = "loaded"
      BY <1>1, <2>2, RequestsKeepTheirNumber
    <3>2. /\ replay[r].pc = "loaded" => replay[r].version <= dlq[c].version
          /\ replay[r].number \in 1 .. dlq[c].attemptCount + 1
      BY <2>0, <3>1 DEF NumbersInRange, Holds, InFlight, ReplayState
    <3> QED BY <2>0, <3>1, <3>2, RowsMoveOn DEF Row, ReplayState
  <2> QED BY <2>1, <2>2
<1> QED BY <1>1, ReaperNumbersStep DEF NumbersInRange, Holds, InFlight

(* A step adds at most one attempt row, with a number no row of the case has   *)
(* and the count of the case then covers.                                     *)
LEMMA AttemptsStep ==
  ASSUME TypeOK, NumbersInRange, [Next]_vars, NEW c \in Cases
  PROVE  \/ attempts'[c] = attempts[c]
         \/ \E a \in Attempt : /\ attempts'[c] = attempts[c] \cup {a}
                               /\ ~Recorded(c, a.number)
                               /\ a.number \in 1 .. dlq'[c].attemptCount
<1> DEFINE Added == \E a \in Attempt : /\ attempts'[c] = attempts[c] \cup {a}
                                       /\ ~Recorded(c, a.number)
                                       /\ a.number \in 1 .. dlq'[c].attemptCount
<1>0. /\ attempts \in [Cases -> SUBSET Attempt] /\ dlq \in [Cases -> Row]
      /\ reap \in [Reapers -> ReapState] /\ replay \in [Replayers -> ReplayState]
  BY DEF TypeOK
<1>1. CASE UNCHANGED attempts
  BY <1>1
<1>2. ASSUME NEW r \in Replayers, NEW d \in Cases, ReplayStep(r, d)
      PROVE  attempts'[c] = attempts[c] \/ Added
  <2>1. CASE Finalize(r, d) /\ d # c
    BY <1>0, <2>1 DEF Finalize
  <2>2. CASE Finalize(r, d) /\ d = c
    <3> DEFINE o == replay[r].outcome
               a == [number |-> replay[r].number, status |-> OutcomeToAttemptStatus(o)]
    <3>1. replay[r].number \in Nat /\ o \in Outcome
      BY <1>0 DEF ReplayState
    <3>2. OutcomeToAttemptStatus(o) \in AttemptStatus
      BY <3>1 DEF OutcomeToAttemptStatus, AttemptStatus, Outcome
    <3>3. a \in Attempt /\ a.number = replay[r].number
      BY <3>1, <3>2 DEF Attempt
    <3>4. attempts'[c] = attempts[c] \cup {a} /\ ~Recorded(c, replay[r].number)
      BY <1>0, <2>2 DEF Finalize
    <3>5. dlq'[c].attemptCount = dlq[c].attemptCount + 1
      <4>1. dlq' = [dlq EXCEPT ![c] = Finalized(@, o)]
        BY <2>2 DEF Finalize
      <4> QED BY <1>0, <3>1, <4>1, FinalizedType
    <3>6. replay[r].number \in 1 .. dlq[c].attemptCount + 1
      BY <2>2 DEF Finalize, NumbersInRange, InFlight, Holds
    <3> QED BY <3>3, <3>4, <3>5, <3>6
  <2>3. CASE ~Finalize(r, d)
    BY <1>1, <1>2, <2>3 DEF ReplayStep, Load, Acquire, LoseRace, Submit, CoaAnswers, CallFails,
       FinalizeRefused
  <2> QED BY <2>1, <2>2, <2>3
<1>3. ASSUME NEW p \in Reapers, NEW i \in reap[p].todo \cup reap[p].claimed,
             ReapStep(p, i)
      PROVE  attempts'[c] = attempts[c] \/ Added
  <2>0. i.case \in Cases /\ i.number \in Nat
    BY <1>0 DEF ReapState, Stale
  <2>1. CASE RecordTimeout(p, i) /\ i.case # c
    BY <1>0, <2>0, <2>1 DEF RecordTimeout
  <2>2. CASE RecordTimeout(p, i) /\ i.case = c
    <3> DEFINE a == [number |-> i.number, status |-> "TIMED_OUT"]
    <3>1. a \in Attempt /\ a.number = i.number
      BY <2>0 DEF Attempt, AttemptStatus
    <3>2. /\ attempts'[c] = attempts[c] \cup {a} /\ ~Recorded(c, i.number)
          /\ dlq'[c] = dlq[c]
      BY <1>0, <2>2 DEF RecordTimeout
    <3>3. i.number \in 1 .. dlq[c].attemptCount
      BY <2>2 DEF RecordTimeout, NumbersInRange
    <3> QED BY <3>1, <3>2, <3>3
  <2>3. CASE ~RecordTimeout(p, i)
    BY <1>1, <1>3, <2>3 DEF ReapStep, Reclaim, Skip, RecordRefused
  <2> QED BY <2>1, <2>2, <2>3
<1>4. CASE \/ \E d \in Cases : Intake(d) \/ CoaMoves(d)
           \/ \E d \in Cases, to \in CaseStatus : Transition(d, to)
           \/ \E r \in Replayers : ReplayCrash(r)
           \/ \E p \in Reapers : Scan(p) \/ ReapCrash(p)
           \/ UNCHANGED vars
  BY <1>1, <1>4 DEF Intake, CoaMoves, Transition, ReplayCrash, Scan,
     ReapCrash, vars
<1> QED BY <1>2, <1>3, <1>4 DEF Next

LEMMA LedgerStep ==
  TypeOK /\ NumbersInRange /\ CountCoversLedger /\ [Next]_vars => CountCoversLedger'
<1> SUFFICES ASSUME TypeOK, NumbersInRange, CountCoversLedger, [Next]_vars,
                    NEW c \in Cases, NEW a \in attempts'[c]
             PROVE  /\ a.number \in 1 .. dlq'[c].attemptCount
                    /\ \A b \in attempts'[c] : a.number = b.number => a = b
  BY DEF CountCoversLedger
<1>1. \A b \in attempts[c] : b.number \in 1 .. dlq'[c].attemptCount
  BY RowsMoveOn DEF CountCoversLedger, TypeOK, Row
<1>2. \A b, d \in attempts[c] : b.number = d.number => b = d
  BY DEF CountCoversLedger
<1>3. CASE attempts'[c] = attempts[c]
  BY <1>1, <1>2, <1>3
<1>4. CASE \E x \in Attempt : /\ attempts'[c] = attempts[c] \cup {x}
                              /\ ~Recorded(c, x.number)
                              /\ x.number \in 1 .. dlq'[c].attemptCount
  BY <1>1, <1>2, <1>4 DEF Recorded
<1> QED BY <1>3, <1>4, AttemptsStep

(* The attempt ledger is sound whatever moves are made by hand, and whoever     *)
(* crashes: attempt_count covers it and no number has two outcomes.            *)
THEOREM LedgerIsCovered == Spec => []CountCoversLedger
<1>1. Init => LedgerInv
  BY RecoveryAssumption, InitialExecution DEF Init, LedgerInv, TypeOK, Row, NoRow, ReplayState, IdleReplay,
     ReapState, IdleReap, Outcome,
     NumbersInRange, CountCoversLedger, Holds, InFlight
<1>2. LedgerInv /\ [Next]_vars => LedgerInv'
  BY TypeStep, NumbersStep, LedgerStep DEF LedgerInv
<1>3. LedgerInv => CountCoversLedger
  BY DEF LedgerInv
<1> QED BY <1>1, <1>2, <1>3, PTL DEF Spec

-----------------------------------------------------------------------------
(* Who owns the next attempt number.                                         *)

OwnerInv == TypeOK /\ NumbersInRange /\ OnlyOwnerIsNext /\ AttemptNumbersDistinct

(* A move by hand is never forgotten; one of a case outside byHand takes none of *)
(* the edges of REPLAY_IN_PROGRESS.                                              *)
LEMMA ByHandGrows ==
  ASSUME [Next]_vars
  PROVE  byHand \subseteq byHand'
<1>1. ASSUME NEW c \in Cases, NEW to \in CaseStatus, Transition(c, to)
      PROVE  byHand \subseteq byHand'
  BY <1>1 DEF Transition
<1>2. ASSUME NEW r \in Replayers, NEW c \in Cases, ReplayStep(r, c) PROVE byHand' = byHand
  BY <1>2 DEF ReplayStep, Load, Acquire, LoseRace, Submit, CoaAnswers, CallFails, Finalize,
     FinalizeRefused
<1>3. ASSUME NEW p \in Reapers, NEW i \in reap[p].todo \cup reap[p].claimed,
             ReapStep(p, i)
      PROVE  byHand' = byHand
  BY <1>3 DEF ReapStep, Reclaim, Skip, RecordTimeout, RecordRefused
<1>4. CASE \/ \E c \in Cases : Intake(c) \/ CoaMoves(c)
           \/ \E r \in Replayers : ReplayCrash(r)
           \/ \E p \in Reapers : Scan(p) \/ ReapCrash(p)
           \/ UNCHANGED vars
  BY <1>4 DEF Intake, CoaMoves, ReplayCrash, Scan, ReapCrash, vars
<1> QED BY <1>1, <1>2, <1>3, <1>4 DEF Next

LEMMA HandMove ==
  ASSUME NEW c \in Cases, NEW to \in CaseStatus, Transition(c, to), c \notin byHand'
  PROVE  dlq[c].status # "REPLAY_IN_PROGRESS" /\ to # "RESOLVED"
<1>1. <<dlq[c].status, to>> \in AllowedTransitions \ ReplayEdges
  BY DEF Transition
<1>2. dlq[c].status # "REPLAY_IN_PROGRESS"
  BY <1>1 DEF ReplayEdges
<1>3. to # "RESOLVED"
  BY <1>1, <1>2 DEF AllowedTransitions
<1> QED BY <1>2, <1>3

(* A case in flight changes its count or leaves REPLAY_IN_PROGRESS only with    *)
(* the other, unless by hand: nobody else becomes next while the owner runs.    *)
LEMMA StatusStep ==
  ASSUME TypeOK, [Next]_vars, NEW c \in Cases, c \notin byHand',
         dlq[c].status = "REPLAY_IN_PROGRESS"
  PROVE  dlq'[c] = dlq[c] \/ dlq'[c].attemptCount = dlq[c].attemptCount + 1
<1>0. dlq \in [Cases -> Row]
  BY DEF TypeOK
<1>1. CASE UNCHANGED dlq
  BY <1>1
<1>2. ASSUME NEW d \in Cases, Intake(d) PROVE dlq'[c] = dlq[c]
  BY <1>0, <1>2 DEF Intake, NoRow
<1>3. ASSUME NEW d \in Cases, NEW to \in CaseStatus, Transition(d, to)
      PROVE  dlq'[c] = dlq[c]
  <2>1. CASE d = c
    BY <1>3, <2>1, HandMove
  <2>2. CASE d # c
    BY <1>0, <1>3, <2>2 DEF Transition
  <2> QED BY <2>1, <2>2
<1>4. ASSUME NEW r \in Replayers, NEW d \in Cases, ReplayStep(r, d)
      PROVE  dlq'[c] = dlq[c] \/ dlq'[c].attemptCount = dlq[c].attemptCount + 1
  <2>1. CASE Acquire(r, d)
    BY <1>0, <2>1 DEF Acquire, CanAcquire, Row
  <2>2. CASE Finalize(r, d)
    <3>1. dlq' = [dlq EXCEPT ![d] = Finalized(@, replay[r].outcome)]
      BY <2>2 DEF Finalize
    <3>2. replay[r].outcome \in Outcome
      BY DEF TypeOK, ReplayState
    <3> QED BY <1>0, <3>1, <3>2, FinalizedType
  <2>3. CASE ~Acquire(r, d) /\ ~Finalize(r, d)
    BY <1>1, <1>4, <2>3 DEF ReplayStep, Load, LoseRace, Submit, CoaAnswers, CallFails,
       FinalizeRefused
  <2> QED BY <2>1, <2>2, <2>3
<1>5. ASSUME NEW p \in Reapers, NEW i \in reap[p].todo \cup reap[p].claimed,
             ReapStep(p, i)
      PROVE  dlq'[c] = dlq[c] \/ dlq'[c].attemptCount = dlq[c].attemptCount + 1
  <2>1. CASE Reclaim(p, i)
    <3>1. i.case \in Cases
      BY DEF TypeOK, ReapState, Stale
    <3> QED BY <1>0, <2>1, <3>1, ReclaimedType DEF Reclaim
  <2>2. CASE ~Reclaim(p, i)
    BY <1>1, <1>5, <2>2 DEF ReapStep, Skip, RecordTimeout, RecordRefused
  <2> QED BY <2>1, <2>2
<1>6. CASE \/ \E d \in Cases : CoaMoves(d)
           \/ \E r \in Replayers : ReplayCrash(r)
           \/ \E p \in Reapers : Scan(p) \/ ReapCrash(p)
           \/ UNCHANGED vars
  BY <1>1, <1>6 DEF CoaMoves, ReplayCrash, Scan, ReapCrash, vars
<1> QED BY <1>2, <1>3, <1>4, <1>5, <1>6 DEF Next

\* A request in flight after a step was in flight before it, or took the lock
\* by that very step.
LEMMA InFlightStep ==
  ASSUME TypeOK, [Next]_vars, NEW r \in Replayers, NEW c \in Cases, InFlight(r, c)'
  PROVE  /\ replay'[r].number = replay[r].number
         /\ InFlight(r, c) \/ Acquire(r, c)
<1>1. /\ replay'[r].case = c /\ replay'[r].pc \in {"locked", "waiting", "answered"}
  BY DEF InFlight, Holds
<1>2. ~Load(r, c)
  BY <1>1 DEF Load, TypeOK
<1>3. replay[r] \in ReplayState
  BY DEF TypeOK
<1> QED BY <1>1, <1>2, <1>3, RequestsKeepTheirNumber DEF InFlight, Holds, ReplayState

LEMMA OwnerStep ==
  ASSUME OwnerInv, [Next]_vars
  PROVE  OnlyOwnerIsNext' /\ AttemptNumbersDistinct'
<1> USE DEF OwnerInv
<1>0. ASSUME NEW c \in Cases
      PROVE  /\ dlq[c] \in Row /\ dlq[c].version \in Nat /\ dlq[c].attemptCount \in Nat
             /\ dlq'[c] = dlq[c] \/ dlq'[c].version = dlq[c].version + 1
             /\ dlq'[c].attemptCount \in {dlq[c].attemptCount, dlq[c].attemptCount + 1}
  BY RowsMoveOn DEF TypeOK, Row
<1>1. ASSUME NEW r \in Replayers, NEW c \in Cases, Holds(r, c, {"loaded"})',
             replay'[r].version = dlq'[c].version
      PROVE  replay'[r].number = dlq'[c].attemptCount + 1
  <2>1. CASE Load(r, c)
    BY <2>1 DEF Load, TypeOK
  <2>2. CASE ~Load(r, c)
    <3>1. /\ Holds(r, c, {"loaded"}) /\ replay'[r].number = replay[r].number
          /\ replay'[r].version = replay[r].version
      BY <1>1, <2>2, RequestsKeepTheirNumber DEF Holds
    <3>2. replay[r].version <= dlq[c].version /\ replay[r].version \in Nat
      BY <3>1 DEF NumbersInRange, TypeOK, ReplayState
    <3>3. dlq'[c] = dlq[c]
      <4>1. dlq[c].version \in Nat
        BY <1>0
      <4>2. dlq'[c].version <= dlq[c].version
        BY <1>1, <3>1, <3>2
      <4>3. dlq'[c].version # dlq[c].version + 1
        BY <4>1, <4>2
      <4> QED BY <1>0, <4>3
    <3>4. replay[r].version = dlq[c].version
      BY <1>1, <3>1, <3>3
    <3>5. replay[r].number = dlq[c].attemptCount + 1
      BY <3>1, <3>4 DEF OnlyOwnerIsNext
    <3> QED BY <3>1, <3>3, <3>5
  <2> QED BY <2>1, <2>2
<1>2. ASSUME NEW r \in Replayers, NEW c \in Cases, Acquire(r, c)
      PROVE  /\ replay[r].number = dlq[c].attemptCount + 1
             /\ dlq[c].status # "REPLAY_IN_PROGRESS"
             /\ dlq'[c].status = "REPLAY_IN_PROGRESS"
             /\ dlq'[c].attemptCount = dlq[c].attemptCount
             /\ \A s \in Replayers : s # r => replay'[s] = replay[s]
  <2>1. dlq \in [Cases -> Row] /\ replay \in [Replayers -> ReplayState]
    BY DEF TypeOK
  <2>2. Holds(r, c, {"loaded"}) /\ CanAcquire(r, c)
    BY <1>2 DEF Acquire
  <2>3. replay[r].number = dlq[c].attemptCount + 1 /\ dlq[c].status # "REPLAY_IN_PROGRESS"
    BY <2>2 DEF CanAcquire, OnlyOwnerIsNext
  <2>4. /\ dlq'[c].status = "REPLAY_IN_PROGRESS"
        /\ dlq'[c].attemptCount = dlq[c].attemptCount
    BY <1>2, <2>1 DEF Acquire, Row
  <2>5. \A s \in Replayers : s # r => replay'[s] = replay[s]
    BY <1>2, <2>1 DEF Acquire
  <2> QED BY <2>3, <2>4, <2>5
<1>3. ASSUME NEW r \in Replayers, NEW c \in Cases, InFlight(r, c)
      PROVE  replay[r].number \in 1 .. dlq[c].attemptCount + 1
  BY <1>3 DEF NumbersInRange
<1>4. ASSUME NEW r \in Replayers, NEW c \in Cases, InFlight(r, c)', c \notin byHand',
             replay'[r].number = dlq'[c].attemptCount + 1
      PROVE  dlq'[c].status = "REPLAY_IN_PROGRESS"
  <2>1. CASE Acquire(r, c)
    BY <1>2, <2>1
  <2>2. CASE InFlight(r, c)
    <3>1. replay[r].number = dlq'[c].attemptCount + 1
      BY <1>4, InFlightStep
    <3>2. replay[r].number = dlq[c].attemptCount + 1
          /\ dlq'[c].attemptCount = dlq[c].attemptCount
      BY <1>0, <1>3, <2>2, <3>1
    <3>3. dlq[c].status = "REPLAY_IN_PROGRESS"
      BY <1>4, <2>2, <3>2, ByHandGrows DEF OnlyOwnerIsNext
    <3>4. dlq'[c] = dlq[c]
      BY <1>0, <1>4, <3>2, <3>3, StatusStep
    <3> QED BY <3>3, <3>4
  <2> QED BY <1>4, <2>1, <2>2, InFlightStep
<1>5. ASSUME NEW c \in Cases, c \notin byHand', NEW r \in Replayers, NEW s \in Replayers,
             r # s, InFlight(r, c)', InFlight(s, c)'
      PROVE  replay'[r].number # replay'[s].number
  <2>1. /\ replay'[r].number = replay[r].number /\ replay'[s].number = replay[s].number
        /\ InFlight(r, c) \/ Acquire(r, c)
        /\ InFlight(s, c) \/ Acquire(s, c)
    BY <1>5, InFlightStep
  <2>2. CASE InFlight(r, c) /\ InFlight(s, c)
    BY <1>5, <2>1, <2>2, ByHandGrows DEF AttemptNumbersDistinct
  <2>3. ASSUME NEW x \in Replayers, NEW y \in Replayers, Acquire(x, c), InFlight(y, c)
        PROVE  replay[x].number # replay[y].number
    BY <1>2, <1>5, <2>3, ByHandGrows DEF OnlyOwnerIsNext
  <2>4. ~(Acquire(r, c) /\ Acquire(s, c))
    <3>1. SUFFICES ASSUME Acquire(r, c), Acquire(s, c) PROVE FALSE
      OBVIOUS
    <3>2. replay'[s] = replay[s] /\ replay[s].pc = "loaded"
      BY <1>2, <1>5, <3>1 DEF Acquire, Holds
    <3> QED BY <1>5, <3>2 DEF InFlight, Holds
  <2> QED BY <2>1, <2>2, <2>3, <2>4
<1> QED BY <1>1, <1>4, <1>5 DEF OnlyOwnerIsNext, AttemptNumbersDistinct

(* No two requests for one case ever run under the same attempt number, however   *)
(* many of them the reaper has let run at once, as long as nobody has moved that  *)
(* case into or out of REPLAY_IN_PROGRESS by hand; other cases may be moved.      *)
THEOREM NumbersAreOwned == Spec => []AttemptNumbersDistinct
<1>1. Init => OwnerInv
  BY RecoveryAssumption, InitialExecution DEF Init, OwnerInv, TypeOK, Row, NoRow, ReplayState, IdleReplay,
     ReapState, IdleReap, Outcome, NumbersInRange, OnlyOwnerIsNext,
     AttemptNumbersDistinct, Holds, InFlight
<1>2. OwnerInv /\ [Next]_vars => OwnerInv'
  BY TypeStep, NumbersStep, OwnerStep DEF OwnerInv
<1>3. OwnerInv => AttemptNumbersDistinct
  BY DEF OwnerInv
<1> QED BY <1>1, <1>2, <1>3, PTL DEF Spec

-----------------------------------------------------------------------------
(* Whom the reaper's TIMED_OUT row fences.                                   *)

\* The request in flight with the next number is the one that the lock names.
HolderHasLock ==
  \A r \in Replayers, c \in Cases :
    InFlight(r, c) /\ replay[r].number = dlq[c].attemptCount + 1 /\ c \notin byHand
      => dlq[c].lock = replay[r].version + 1

LocksAreOld == \A c \in Cases : dlq[c].lock <= dlq[c].version

\* A row that the reaper has found carries the next number for as long as the lock
\* it was found with is held.
FoundIsNext ==
  \A p \in Reapers : \A i \in reap[p].todo :
    /\ i.lock # 0 /\ i.lock <= dlq[i.case].version
    /\ dlq[i.case].lock = i.lock => i.number = dlq[i.case].attemptCount + 1

FenceInv ==
  OwnerInv /\ HolderHasLock /\ LocksAreOld /\ FoundIsNext /\ ReaperFencesOnlyTheReaped

(* What a step does to a lock: it goes with the attempt it was for, is taken    *)
(* under a name that is new, or stays.                                          *)
LEMMA LockStep ==
  ASSUME TypeOK, [Next]_vars, NEW c \in Cases
  PROVE  \/ dlq'[c] = dlq[c]
         \/ /\ dlq'[c].version = dlq[c].version + 1
            /\ \/ dlq'[c].attemptCount = dlq[c].attemptCount + 1 /\ dlq'[c].lock = 0
               \/ /\ dlq'[c].attemptCount = dlq[c].attemptCount
                  /\ dlq'[c].lock \in {dlq[c].lock, dlq[c].version + 1}
<1> DEFINE Moved(d) ==
      /\ dlq'[d].version = dlq[d].version + 1
      /\ \/ dlq'[d].attemptCount = dlq[d].attemptCount + 1 /\ dlq'[d].lock = 0
         \/ /\ dlq'[d].attemptCount = dlq[d].attemptCount
            /\ dlq'[d].lock \in {dlq[d].lock, dlq[d].version + 1}
<1>0. dlq \in [Cases -> Row]
  BY DEF TypeOK
<1>1. CASE UNCHANGED dlq
  BY <1>1
<1>2. ASSUME NEW d \in Cases, Intake(d) PROVE dlq'[c] = dlq[c] \/ Moved(c)
  BY <1>0, <1>2 DEF Intake, NoRow
<1>3. ASSUME NEW d \in Cases, NEW to \in CaseStatus, Transition(d, to)
      PROVE  dlq'[c] = dlq[c] \/ Moved(c)
  BY <1>0, <1>3 DEF Transition, Row
<1>4. ASSUME NEW r \in Replayers, NEW d \in Cases, ReplayStep(r, d)
      PROVE  dlq'[c] = dlq[c] \/ Moved(c)
  <2>1. CASE Acquire(r, d)
    BY <1>0, <2>1 DEF Acquire, CanAcquire, Row
  <2>2. CASE Finalize(r, d)
    <3>1. dlq' = [dlq EXCEPT ![d] = Finalized(@, replay[r].outcome)]
      BY <2>2 DEF Finalize
    <3>2. replay[r].outcome \in Outcome
      BY DEF TypeOK, ReplayState
    <3>3. Finalized(dlq[d], replay[r].outcome).lock = 0
      BY DEF Finalized
    <3> QED BY <1>0, <3>1, <3>2, <3>3, FinalizedType
  <2>3. CASE ~Acquire(r, d) /\ ~Finalize(r, d)
    BY <1>1, <1>4, <2>3 DEF ReplayStep, Load, LoseRace, Submit, CoaAnswers, CallFails,
       FinalizeRefused
  <2> QED BY <2>1, <2>2, <2>3
<1>5. ASSUME NEW p \in Reapers, NEW i \in reap[p].todo \cup reap[p].claimed,
             ReapStep(p, i)
      PROVE  dlq'[c] = dlq[c] \/ Moved(c)
  <2>1. CASE Reclaim(p, i)
    <3>1. i.case \in Cases
      BY DEF TypeOK, ReapState, Stale
    <3>2. Reclaimed(dlq[i.case]).lock = 0
      BY DEF Reclaimed
    <3> QED BY <1>0, <2>1, <3>1, <3>2, ReclaimedType DEF Reclaim
  <2>2. CASE ~Reclaim(p, i)
    BY <1>1, <1>5, <2>2 DEF ReapStep, Skip, RecordTimeout, RecordRefused
  <2> QED BY <2>1, <2>2
<1>6. CASE \/ \E d \in Cases : CoaMoves(d)
           \/ \E r \in Replayers : ReplayCrash(r)
           \/ \E p \in Reapers : Scan(p) \/ ReapCrash(p)
           \/ UNCHANGED vars
  BY <1>1, <1>6 DEF CoaMoves, ReplayCrash, Scan, ReapCrash, vars
<1> QED BY <1>2, <1>3, <1>4, <1>5, <1>6 DEF Next

(* Where the rows come from that a reaper has found or claimed.               *)
LEMMA ReaperKeeps ==
  ASSUME TypeOK, [Next]_vars, NEW p \in Reapers
  PROVE  /\ \A i \in reap'[p].todo :
              \/ i \in reap[p].todo
              \/ /\ i.case \in Cases /\ i.lock = dlq[i.case].lock /\ i.lock # 0
                 /\ i.number = dlq[i.case].attemptCount + 1
                 /\ UNCHANGED dlq
         /\ \A i \in reap'[p].claimed : i \in reap[p].claimed \/ Reclaim(p, i)
<1> DEFINE Found(i) == \/ i \in reap[p].todo
                       \/ /\ i.case \in Cases /\ i.lock = dlq[i.case].lock /\ i.lock # 0
                          /\ i.number = dlq[i.case].attemptCount + 1
                          /\ UNCHANGED dlq
           Claimed(i) == i \in reap[p].claimed \/ Reclaim(p, i)
<1>0. reap \in [Reapers -> ReapState]
  BY DEF TypeOK
<1>1. CASE reap'[p] = reap[p]
  BY <1>1
<1>2. ASSUME NEW q \in Reapers, Scan(q)
      PROVE  (\A i \in reap'[p].todo : Found(i)) /\ reap'[p].claimed = reap[p].claimed
  <2>1. CASE q # p
    BY <1>0, <1>2, <2>1 DEF Scan
  <2>2. CASE q = p
    <3>1. PICK S \in SUBSET Held :
            reap' = [reap EXCEPT ![p].todo =
              {[case |-> c, number |-> dlq[c].attemptCount + 1,
                lock |-> dlq[c].lock] : c \in S}]
      BY <1>2, <2>2 DEF Scan
    <3>2. reap'[p].todo = {[case |-> c, number |-> dlq[c].attemptCount + 1,
                            lock |-> dlq[c].lock] : c \in S}
          /\ reap'[p].claimed = reap[p].claimed
      BY <1>0, <3>1 DEF ReapState
    <3>3. UNCHANGED dlq
      BY <1>2 DEF Scan
    <3> QED BY <3>1, <3>2, <3>3 DEF Held
  <2> QED BY <2>1, <2>2
<1>3. ASSUME NEW q \in Reapers, NEW j \in reap[q].todo \cup reap[q].claimed,
             ReapStep(q, j)
      PROVE  (\A i \in reap'[p].todo : Found(i)) /\ \A i \in reap'[p].claimed : Claimed(i)
  <2>1. CASE q # p
    BY <1>0, <1>1, <1>3, <2>1
       DEF ReapStep, Reclaim, Skip, RecordTimeout, RecordRefused
  <2>2. CASE q = p /\ Reclaim(p, j)
    <3>1. reap'[p].todo = reap[p].todo \ {j} /\ reap'[p].claimed = {j}
      BY <1>0, <2>2 DEF Reclaim
    <3> QED BY <2>2, <3>1
  <2>3. CASE q = p /\ (Skip(p, j) \/ RecordTimeout(p, j) \/ RecordRefused(p, j))
    <3>1. reap'[p].todo \subseteq reap[p].todo /\ reap'[p].claimed \subseteq reap[p].claimed
      BY <1>0, <2>3 DEF Skip, RecordTimeout, RecordRefused, IdleReap, ReapState
    <3> QED BY <3>1
  <2> QED BY <1>3, <2>1, <2>2, <2>3 DEF ReapStep
<1>4. ASSUME NEW q \in Reapers, ReapCrash(q)
      PROVE  reap'[p] = reap[p] \/ (reap'[p].todo = {} /\ reap'[p].claimed = {})
  BY <1>0, <1>4 DEF ReapCrash, IdleReap
<1>5. ASSUME NEW r \in Replayers, NEW c \in Cases, ReplayStep(r, c) PROVE UNCHANGED reap
  BY <1>5 DEF ReplayStep, Load, Acquire, LoseRace, Submit, CoaAnswers, CallFails, Finalize,
     FinalizeRefused
<1>6. CASE \/ \E c \in Cases : Intake(c) \/ CoaMoves(c)
           \/ \E c \in Cases, to \in CaseStatus : Transition(c, to)
           \/ \E r \in Replayers : ReplayCrash(r)
           \/ UNCHANGED vars
  BY <1>1, <1>6 DEF Intake, CoaMoves, Transition, ReplayCrash, vars
<1> QED BY <1>1, <1>2, <1>3, <1>4, <1>5, <1>6 DEF Next

LEMMA FenceStep ==
  ASSUME FenceInv, [Next]_vars
  PROVE  HolderHasLock' /\ LocksAreOld' /\ FoundIsNext' /\ ReaperFencesOnlyTheReaped'
<1>0. /\ TypeOK /\ NumbersInRange /\ OnlyOwnerIsNext /\ HolderHasLock /\ LocksAreOld
      /\ FoundIsNext /\ ReaperFencesOnlyTheReaped
  BY DEF FenceInv, OwnerInv
<1>1. ASSUME NEW c \in Cases
      PROVE  /\ dlq[c].version \in Nat /\ dlq[c].attemptCount \in Nat /\ dlq[c].lock \in Nat
             /\ dlq[c].lock <= dlq[c].version
  BY <1>0 DEF TypeOK, Row, LocksAreOld
<1>2. LocksAreOld'
  <2> SUFFICES ASSUME NEW c \in Cases PROVE dlq'[c].lock <= dlq'[c].version
    BY DEF LocksAreOld
  <2> QED
    BY <1>0, <1>1, LockStep
\* A request in flight keeps what it carries.
<1>3. ASSUME NEW r \in Replayers, NEW c \in Cases, InFlight(r, c)'
      PROVE  /\ replay'[r].number = replay[r].number
             /\ replay'[r].version = replay[r].version /\ replay[r].version \in Nat
             /\ InFlight(r, c) \/ Acquire(r, c)
  <2>1. replay[r] \in ReplayState /\ replay'[r].pc # "idle" /\ replay'[r].pc # "loaded"
    BY <1>0, <1>3 DEF TypeOK, InFlight, Holds
  <2>2. replay'[r].version = replay[r].version
    BY <1>0, <2>1, RequestsKeepTheirNumber DEF Load, TypeOK
  <2> QED
    BY <1>0, <1>3, <2>1, <2>2, InFlightStep DEF ReplayState
<1>4. ASSUME NEW r \in Replayers, NEW c \in Cases, Acquire(r, c)
      PROVE  /\ replay[r].number = dlq[c].attemptCount + 1
             /\ dlq'[c].lock = replay[r].version + 1
  <2>1. Holds(r, c, {"loaded"}) /\ CanAcquire(r, c)
    BY <1>4 DEF Acquire
  <2>2. replay[r].number = dlq[c].attemptCount + 1
    BY <1>0, <2>1 DEF CanAcquire, OnlyOwnerIsNext
  <2>3. dlq'[c].lock = replay[r].version + 1
    BY <1>0, <1>4 DEF Acquire, TypeOK, Row
  <2> QED
    BY <2>2, <2>3
<1>5. ASSUME NEW r \in Replayers, NEW c \in Cases, InFlight(r, c)', c \notin byHand',
             replay'[r].number = dlq'[c].attemptCount + 1
      PROVE  dlq'[c].lock = replay'[r].version + 1
  <2>1. CASE Acquire(r, c)
    BY <1>3, <1>4, <1>5, <2>1
  <2>2. CASE InFlight(r, c)
    <3>1. replay[r].number \in 1 .. dlq[c].attemptCount + 1
      BY <1>0, <2>2 DEF NumbersInRange
    <3>2. dlq'[c].attemptCount \in {dlq[c].attemptCount, dlq[c].attemptCount + 1}
      BY <1>0, RowsMoveOn
    <3>3. /\ replay[r].number = dlq[c].attemptCount + 1
          /\ dlq'[c].attemptCount = dlq[c].attemptCount
      BY <1>1, <1>3, <1>5, <3>1, <3>2
    <3>4. dlq[c].status = "REPLAY_IN_PROGRESS" /\ dlq[c].lock = replay[r].version + 1
      BY <1>0, <1>5, <2>2, <3>3, ByHandGrows DEF OnlyOwnerIsNext, HolderHasLock
    <3>5. dlq'[c] = dlq[c]
      BY <1>0, <1>1, <1>5, <3>3, <3>4, StatusStep
    <3> QED
      BY <1>3, <1>5, <3>4, <3>5
  <2> QED
    BY <1>3, <1>5, <2>1, <2>2
<1>6. ASSUME NEW p \in Reapers, NEW i \in reap'[p].todo
      PROVE  /\ i.lock # 0 /\ i.lock <= dlq'[i.case].version
             /\ dlq'[i.case].lock = i.lock => i.number = dlq'[i.case].attemptCount + 1
  <2>1. CASE i \in reap[p].todo
    <3>1. i.case \in Cases /\ i.lock \in Nat /\ i.number \in Nat
      BY <1>0, <2>1 DEF TypeOK, ReapState, Stale
    <3>2. /\ i.lock # 0 /\ i.lock <= dlq[i.case].version
          /\ dlq[i.case].lock = i.lock => i.number = dlq[i.case].attemptCount + 1
      BY <1>0, <2>1 DEF FoundIsNext
    <3> QED
      BY <1>0, <1>1, <3>1, <3>2, LockStep
  <2>2. CASE /\ i.case \in Cases /\ i.lock = dlq[i.case].lock /\ i.lock # 0
             /\ i.number = dlq[i.case].attemptCount + 1
             /\ UNCHANGED dlq
    BY <1>1, <2>2
  <2> QED
    BY <1>0, <1>6, <2>1, <2>2, ReaperKeeps
<1>7. ASSUME NEW p \in Reapers, NEW i \in reap'[p].claimed, i.case \notin byHand',
             NEW r \in Replayers, InFlight(r, i.case)', replay'[r].number = i.number
      PROVE  replay'[r].version + 1 = i.lock
  <2>1. i \in reap[p].claimed \/ Reclaim(p, i)
    BY <1>0, <1>7, ReaperKeeps
  <2>2. i.case \in Cases /\ i.number \in Nat
    <3>1. i \in Stale
      BY <1>0, <2>1 DEF Reclaim, TypeOK, ReapState
    <3> QED
      BY <3>1 DEF Stale
  <2>3. CASE i \in reap[p].claimed
    <3>1. i.number <= dlq[i.case].attemptCount
      BY <1>0, <2>2, <2>3 DEF NumbersInRange
    <3>2. InFlight(r, i.case)
      BY <1>1, <1>3, <1>4, <1>7, <2>2, <3>1
    <3> QED
      BY <1>0, <1>3, <1>7, <2>2, <2>3, <3>2, ByHandGrows DEF ReaperFencesOnlyTheReaped
  <2>4. CASE Reclaim(p, i)
    <3>1. UNCHANGED replay /\ i \in reap[p].todo /\ dlq[i.case].lock = i.lock
      BY <2>4 DEF Reclaim, StillStale
    <3>2. InFlight(r, i.case)
      BY <1>7, <3>1 DEF InFlight, Holds
    <3>3. i.number = dlq[i.case].attemptCount + 1
      BY <1>0, <3>1 DEF FoundIsNext
    <3> QED
      BY <1>0, <1>7, <2>2, <3>1, <3>2, <3>3, ByHandGrows DEF HolderHasLock
  <2> QED
    BY <2>1, <2>3, <2>4
<1> QED
  BY <1>2, <1>5, <1>6, <1>7 DEF HolderHasLock, FoundIsNext, ReaperFencesOnlyTheReaped

(* The attempt number that a reaper claims is never that of a request which took   *)
(* the lock later, for every case that nobody has moved into or out of             *)
(* REPLAY_IN_PROGRESS by hand, whatever is done to the other cases.                *)
THEOREM FencesOnlyTheReaped == Spec => []ReaperFencesOnlyTheReaped
<1>1. Init => FenceInv
  BY RecoveryAssumption, InitialExecution DEF Init, FenceInv, OwnerInv, TypeOK, Row, NoRow,
     ReplayState, IdleReplay, ReapState, IdleReap, Outcome, NumbersInRange,
     OnlyOwnerIsNext, AttemptNumbersDistinct, Holds, InFlight, HolderHasLock,
     LocksAreOld, FoundIsNext, ReaperFencesOnlyTheReaped
<1>2. FenceInv /\ [Next]_vars => FenceInv'
  BY TypeStep, NumbersStep, OwnerStep, FenceStep DEF FenceInv, OwnerInv
<1>3. FenceInv => ReaperFencesOnlyTheReaped
  BY DEF FenceInv
<1> QED BY <1>1, <1>2, <1>3, PTL DEF Spec

-----------------------------------------------------------------------------
(* The evidence: an answer of success that a request carries is true of the       *)
(* ledger, and stays so until the finalize transaction writes it.                *)

Success == {"POSTED", "NOOP_ALREADY_POSTED"}

AnswersAreTrue ==
  \A r \in Replayers, c \in Cases :
    Holds(r, c, {"answered"}) /\ replay[r].outcome \in Success => exec[c].journal = "JE"

EvidenceInv == TypeOK /\ PostedHasJournal /\ AnswersAreTrue /\ JournalEvidence

Succeeded(S) == \E a \in S : a.status \in {"SUCCEEDED", "NOOP_ALREADY_POSTED"}

LEMMA EvidenceIs ==
  /\ JournalEvidence <=> \A c \in Cases :
       /\ dlq[c].journal = "JE" <=> Succeeded(attempts[c])
       /\ dlq[c].journal = "JE" => exec[c].journal = "JE"
       /\ dlq[c].status = "RESOLVED" /\ c \notin byHand => dlq[c].journal = "JE"
  /\ JournalEvidence' <=> \A c \in Cases :
       /\ dlq'[c].journal = "JE" <=> Succeeded(attempts'[c])
       /\ dlq'[c].journal = "JE" => exec'[c].journal = "JE"
       /\ dlq'[c].status = "RESOLVED" /\ c \notin byHand' => dlq'[c].journal = "JE"
  BY DEF JournalEvidence, Succeeded

(* A step that moves no evidence.                                               *)
LEMMA EvidenceKept ==
  ASSUME JournalEvidence, JournalsStay, byHand \subseteq byHand',
         \A c \in Cases : /\ dlq'[c].journal = dlq[c].journal
                          /\ Succeeded(attempts'[c]) <=> Succeeded(attempts[c])
                          /\ dlq'[c].status = "RESOLVED" /\ c \notin byHand'
                               => dlq[c].status = "RESOLVED"
  PROVE  JournalEvidence'
  BY EvidenceIs DEF JournalsStay

(* A step by which no request comes to hold an answer.                           *)
LEMMA TruthKept ==
  ASSUME AnswersAreTrue, JournalsStay,
         \A r \in Replayers : replay'[r] = replay[r] \/ replay'[r].pc # "answered"
  PROVE  AnswersAreTrue'
  BY DEF AnswersAreTrue, JournalsStay, Holds

LEMMA FinalizeEvidence ==
  ASSUME EvidenceInv, NEW r \in Replayers, NEW c \in Cases, Finalize(r, c)
  PROVE  JournalEvidence'
<1> DEFINE o == replay[r].outcome
           new == [number |-> replay[r].number, status |-> OutcomeToAttemptStatus(o)]
<1>1. /\ attempts' = [attempts EXCEPT ![c] = @ \cup {new}]
      /\ dlq' = [dlq EXCEPT ![c] = Finalized(@, o)]
      /\ exec' = exec /\ byHand' = byHand /\ Holds(r, c, {"answered"})
  BY DEF Finalize
<1>2. o \in Outcome /\ dlq \in [Cases -> Row] /\ attempts \in [Cases -> SUBSET Attempt]
  BY DEF EvidenceInv, TypeOK, ReplayState
<1>3. /\ new.status \in {"SUCCEEDED", "NOOP_ALREADY_POSTED"} <=> o \in Success
      /\ OutcomeToCaseStatus(o) = "RESOLVED" <=> o \in Success
  BY <1>2 DEF OutcomeToAttemptStatus, OutcomeToCaseStatus, Success, Outcome
<1>4. o \in Success => exec[c].journal = "JE"
  BY <1>1 DEF EvidenceInv, AnswersAreTrue
<1>5. \A d \in Cases : /\ dlq[d].journal = "JE" <=> Succeeded(attempts[d])
                       /\ dlq[d].journal = "JE" => exec[d].journal = "JE"
                       /\ dlq[d].status = "RESOLVED" /\ d \notin byHand => dlq[d].journal = "JE"
  BY EvidenceIs DEF EvidenceInv
<1>6. Succeeded(attempts'[c]) <=> Succeeded(attempts[c]) \/ o \in Success
  <2>1. attempts'[c] = attempts[c] \cup {new}
    BY <1>1, <1>2
  <2> HIDE DEF new
  <2> QED
    BY <1>3, <2>1 DEF Succeeded
<1>7. /\ dlq'[c].status = OutcomeToCaseStatus(o)
      /\ dlq'[c].journal = IF o \in Success THEN "JE" ELSE dlq[c].journal
  BY <1>1, <1>2, <1>3 DEF Finalized
<1>8. \A d \in Cases \ {c} : dlq'[d] = dlq[d] /\ attempts'[d] = attempts[d]
  BY <1>1, <1>2
<1> HIDE DEF o, new
<1> QED
  BY <1>1, <1>3, <1>4, <1>5, <1>6, <1>7, <1>8, EvidenceIs

LEMMA ReplayEvidence ==
  ASSUME EvidenceInv, NEW r \in Replayers, NEW c \in Cases, ReplayStep(r, c)
  PROVE  PostedHasJournal' /\ AnswersAreTrue' /\ JournalEvidence'
<1>0. /\ TypeOK /\ PostedHasJournal /\ AnswersAreTrue /\ JournalEvidence
      /\ replay \in [Replayers -> ReplayState] /\ dlq \in [Cases -> Row]
      /\ byHand' = byHand
  BY DEF EvidenceInv, TypeOK, ReplayStep, Load, Acquire, LoseRace, Submit, CoaAnswers, CallFails,
     Finalize, FinalizeRefused
<1>1. CASE Submit(r, c) \/ CallFails(r, c) \/ CoaAnswers(r, c)
  <2>1. /\ JournalsStay /\ PostedHasJournal'
        /\ \/ replay' = [replay EXCEPT ![r].pc = "waiting"]
           \/ \E o \in Outcome : Answered(r, o) /\ AnswerIsTrue(o, c)
    BY <1>0, <1>1, CallOfEngine
  <2>2. dlq' = dlq /\ attempts' = attempts /\ replay[r].case = c
    BY <1>1 DEF Submit, CallFails, CoaAnswers, Holds
  <2>3. JournalEvidence'
    BY <1>0, <2>1, <2>2, EvidenceKept
  <2>4. CASE replay' = [replay EXCEPT ![r].pc = "waiting"]
    BY <1>0, <2>1, <2>3, <2>4, TruthKept
  <2>5. ASSUME NEW o \in Outcome, Answered(r, o), AnswerIsTrue(o, c) PROVE AnswersAreTrue'
    <3>1. /\ replay'[r].case = c /\ replay'[r].outcome = o
          /\ \A q \in Replayers \ {r} : replay'[q] = replay[q]
      BY <1>0, <2>2, <2>5 DEF Answered, ReplayState
    <3> QED
      BY <1>0, <2>1, <2>5, <3>1
         DEF AnswersAreTrue, AnswerIsTrue, JournalsStay, Holds, Success
  <2> QED
    BY <2>1, <2>3, <2>4, <2>5
<1>2. CASE Load(r, c) \/ Acquire(r, c) \/ LoseRace(r, c) \/ FinalizeRefused(r, c)
  <2>1. /\ \A q \in Replayers : replay'[q] = replay[q] \/ replay'[q].pc # "answered"
        /\ exec' = exec /\ attempts' = attempts
    <3>1. CASE Load(r, c)
      BY <1>0, <3>1 DEF Load
    <3>2. CASE Acquire(r, c)
      BY <1>0, <3>2 DEF Acquire, ReplayState
    <3>3. CASE LoseRace(r, c) \/ FinalizeRefused(r, c)
      BY <1>0, <3>3 DEF LoseRace, FinalizeRefused, IdleReplay
    <3> QED
      BY <1>2, <3>1, <3>2, <3>3
  <2>2. \A d \in Cases : /\ dlq'[d].journal = dlq[d].journal
                         /\ dlq'[d].status = "RESOLVED" => dlq[d].status = "RESOLVED"
    BY <1>0, <1>2 DEF Load, Acquire, LoseRace, FinalizeRefused, Row
  <2> QED
    BY <1>0, <2>1, <2>2, EvidenceKept, TruthKept DEF JournalsStay, PostedHasJournal
<1>3. CASE Finalize(r, c)
  <2>1. /\ \A q \in Replayers : replay'[q] = replay[q] \/ replay'[q].pc # "answered"
        /\ exec' = exec
    BY <1>0, <1>3 DEF Finalize, IdleReplay
  <2> QED
    BY <1>0, <1>3, <2>1, FinalizeEvidence, TruthKept DEF JournalsStay, PostedHasJournal
<1> QED
  BY <1>1, <1>2, <1>3 DEF ReplayStep

LEMMA ReapEvidence ==
  ASSUME EvidenceInv, NEW p \in Reapers, NEW i \in reap[p].todo \cup reap[p].claimed,
         ReapStep(p, i)
  PROVE  JournalEvidence' /\ UNCHANGED <<exec, replay, byHand>>
<1>0. /\ JournalEvidence /\ dlq \in [Cases -> Row] /\ i.case \in Cases
      /\ attempts \in [Cases -> SUBSET Attempt]
  BY DEF EvidenceInv, TypeOK, ReapState, Stale
<1>1. UNCHANGED <<exec, replay, byHand>>
  BY DEF ReapStep, Reclaim, Skip, RecordTimeout, RecordRefused
<1>2. \A d \in Cases : /\ dlq'[d].journal = dlq[d].journal
                       /\ dlq'[d].status = "RESOLVED" => dlq[d].status = "RESOLVED"
  BY <1>0 DEF ReapStep, Reclaim, Reclaimed, Skip, RecordTimeout, RecordRefused
<1>3. \A d \in Cases : Succeeded(attempts'[d]) <=> Succeeded(attempts[d])
  <2>1. CASE RecordTimeout(p, i)
    <3> DEFINE new == [number |-> i.number, status |-> "TIMED_OUT"]
    <3>1. attempts' = [attempts EXCEPT ![i.case] = @ \cup {new}] /\ new.status = "TIMED_OUT"
      BY <2>1 DEF RecordTimeout
    <3> HIDE DEF new
    <3> QED
      BY <1>0, <3>1 DEF Succeeded
  <2>2. CASE ~RecordTimeout(p, i)
    BY <2>2 DEF ReapStep, Reclaim, Skip, RecordRefused
  <2> QED
    BY <2>1, <2>2
<1> QED
  BY <1>0, <1>1, <1>2, <1>3, EvidenceKept DEF JournalsStay

LEMMA EvidenceStep ==
  ASSUME EvidenceInv, [Next]_vars
  PROVE  PostedHasJournal' /\ AnswersAreTrue' /\ JournalEvidence'
<1>0. /\ PostedHasJournal /\ AnswersAreTrue /\ JournalEvidence
      /\ replay \in [Replayers -> ReplayState] /\ dlq \in [Cases -> Row]
      /\ exec \in [Cases -> Engine!Execution] /\ byHand \subseteq byHand'
  BY ByHandGrows DEF EvidenceInv, TypeOK
<1>1. ASSUME UNCHANGED <<exec, attempts>>,
             \A q \in Replayers : replay'[q] = replay[q] \/ replay'[q].pc # "answered",
             \A d \in Cases : /\ dlq'[d].journal = dlq[d].journal
                              /\ dlq'[d].status = "RESOLVED" /\ d \notin byHand'
                                   => dlq[d].status = "RESOLVED"
      PROVE  PostedHasJournal' /\ AnswersAreTrue' /\ JournalEvidence'
  <2>1. JournalsStay /\ PostedHasJournal' /\ attempts' = attempts
    BY <1>0, <1>1 DEF JournalsStay, PostedHasJournal
  <2>2. JournalEvidence'
    <3>1. \A c \in Cases :
            /\ dlq'[c].journal = dlq[c].journal
            /\ Succeeded(attempts'[c]) <=> Succeeded(attempts[c])
            /\ dlq'[c].status = "RESOLVED" /\ c \notin byHand' => dlq[c].status = "RESOLVED"
      BY <1>1, <2>1
    <3> QED
      BY <1>0, <2>1, <3>1, EvidenceKept
  <2>3. AnswersAreTrue'
    BY <1>0, <1>1, <2>1, TruthKept
  <2> QED
    BY <2>1, <2>2, <2>3
<1>2. ASSUME NEW c \in Cases, Intake(c)
      PROVE  PostedHasJournal' /\ AnswersAreTrue' /\ JournalEvidence'
  BY <1>0, <1>1, <1>2 DEF Intake, NoRow
<1>3. ASSUME NEW c \in Cases, CoaMoves(c)
      PROVE  PostedHasJournal' /\ AnswersAreTrue' /\ JournalEvidence'
  <2>1. JournalsStay /\ PostedHasJournal'
    <3>1. CASE Engine!Opens(c)
      BY <1>0, <3>1, OpensType DEF JournalsStay, PostedHasJournal
    <3>2. CASE ~Engine!Opens(c)
      BY <1>0, <1>3, <3>2 DEF CoaMoves, Engine!Rewrites, JournalsStay, PostedHasJournal
    <3> QED
      BY <3>1, <3>2
  <2> QED
    BY <1>0, <1>3, <2>1, EvidenceKept, TruthKept DEF CoaMoves
<1>4. ASSUME NEW c \in Cases, NEW to \in CaseStatus, Transition(c, to)
      PROVE  PostedHasJournal' /\ AnswersAreTrue' /\ JournalEvidence'
  <2>1. c \notin byHand' => to # "RESOLVED"
    BY <1>4, HandMove
  <2> QED
    BY <1>0, <1>1, <1>4, <2>1 DEF Transition, Row
<1>5. ASSUME NEW r \in Replayers, ReplayCrash(r)
      PROVE  PostedHasJournal' /\ AnswersAreTrue' /\ JournalEvidence'
  BY <1>0, <1>1, <1>5 DEF ReplayCrash, IdleReplay
<1>6. ASSUME NEW p \in Reapers, NEW i \in reap[p].todo \cup reap[p].claimed,
             ReapStep(p, i)
      PROVE  PostedHasJournal' /\ AnswersAreTrue' /\ JournalEvidence'
  BY <1>0, <1>6, ReapEvidence, TruthKept DEF JournalsStay, PostedHasJournal
<1>7. CASE (\E p \in Reapers : Scan(p) \/ ReapCrash(p)) \/ UNCHANGED vars
  BY <1>1, <1>7 DEF Scan, ReapCrash, vars
<1> QED
  BY <1>2, <1>3, <1>4, <1>5, <1>6, <1>7, ReplayEvidence DEF Next

(* A journal reference is on a case exactly when an attempt succeeded, and then the *)
(* ledger of gl-service has the journal, whatever CH01's answers lost, repeated or   *)
(* overtook and whatever was moved by hand; and no case is RESOLVED without one but  *)
(* those that somebody took from a replay by hand.                                   *)
THEOREM EvidenceIsTrue == Spec => []JournalEvidence
<1>1. Init => EvidenceInv
  <2> SUFFICES ASSUME Init PROVE EvidenceInv
    OBVIOUS
  <2>1. TypeOK
    BY RecoveryAssumption, InitialExecution DEF Init, TypeOK, Row, NoRow, ReplayState,
       IdleReplay, ReapState, IdleReap, Outcome
  <2>2. PostedHasJournal /\ AnswersAreTrue
    BY InitialExecution DEF Init, PostedHasJournal, AnswersAreTrue, Holds, IdleReplay
  <2>3. JournalEvidence
    BY DEF Init, JournalEvidence, NoRow
  <2> QED
    BY <2>1, <2>2, <2>3 DEF EvidenceInv
<1>2. EvidenceInv /\ [Next]_vars => EvidenceInv'
  BY TypeStep, EvidenceStep DEF EvidenceInv
<1>3. EvidenceInv => JournalEvidence
  BY DEF EvidenceInv
<1> QED BY <1>1, <1>2, <1>3, PTL DEF Spec
=============================================================================
