# A verification project for AMACC

TLA+ models of the parts of AMACC where money and evidence meet concurrency: the door
through which a journal enters the ledger and the desk in front of it, the posting engine
and the recovery of the events it rejects, the operational ledger, two of the subledgers
(open items and vehicles), the audit trail, the delivery of domain events, and the circuit
breaker between two services. TLC checks the models on small instances; TLAPS proves the
most important invariants for instances of any size.

Paths below are relative to the root of the repository.

## 1. The system

AMACC is a set of Node services, each with PostgreSQL tables of its own, that call one
another over HTTP, and exchange domain events over RabbitMQ through outbox tables. Its
accounting core is a few of them.

| Part | State | Operations | Talks to |
|---|---|---|---|
| `coa-service`: posting door (`posting-service.ts`, `sequence-service.ts`, `serializable-retry.ts`) | `journal_entry` and its lines, `balance_snapshot`, `gl_account.balance`, `journal_sequence`, `sequence_gap_log` | `post()`: read, claim a number, write everything in one SERIALIZABLE transaction with retries, log a gap | drafts, reversals, posting engine call it; audit and event rows in its transaction |
| `coa-service`: periods (`period-service.ts`, triggers) | `fiscal_period` | open, soft close, hard close, lock, reopen | the posting door reads and marks the row |
| `coa-service`: posting engine (`posting-engine-service.ts`, `gl-posting-bridge.ts`) | `posting_execution`, rule packs and their versions | create, validate, activate a version; submission of a source event; replay | calls gl-service through a bridge; reports failures to posting recovery |
| `coa-service`: drafts, recurring templates, reversals | `manual_je_draft`, `recurring_template_generation`, links between journals | create, update, validate, post, void; generate, reverse automatically; reverse and link | the posting door |
| `posting-recovery-service` | `posting_dead_letter`, `posting_replay_attempt`, histories | intake of a failure, operator transitions, replay, reaping of stale replays | calls the posting engine over HTTP |
| `shared-kernel`: audit drainer and client; `audit-service` | `audit_outbox` of each service; `audit_logs`, `audit_chain_anchors` | periodic passes; `log()`, `verifyChain()` | HTTP with a timeout |
| `shared-kernel`: outbox; RabbitMQ publisher of each service | `outbox_events`; exchange, queues, dead-letter queues | periodic batches; publish; consume with retries | broker |
| `shared-kernel`: circuit breaker | one object of a process | `execute()` | connector-service wraps its calls of gl-service |
| `gl-service` | a second, operational ledger: entries, history rows, period balances | create, submit, discard, approve, reverse; timeout of a review | called by the posting engine, by schedule-service, by people and agents; outbox |
| `schedule-service` | open items, applications, unapplied receipts, ceremonies | process a posted line; apply, reverse, split, transfer, write off | fed by gl-service's events; calls gl-service for a write-off |
| `vehicle-accounting-service` | units with their book value, cost components, event rows | stock in, add a cost, write down, trade | the posting engine |
| other subledgers (deals, parts, AP/AR, cash, payroll, ...), month end, close, statements | documents of their own | turn documents into posting events or journals; reports | posting engine, gl-service |
| approval, tenants, authorization, onboarding, connectors, migration, automation, agents, gateway, web | reference data, adapters, user interface | | |

What is hard in this system, and what the properties are for:

- **Races on one row.** Many handlers read, decide, and then write by id. Some take a row
  lock or compare a version; some do not.
- **Transactions that conflict.** The posting door runs at SERIALIZABLE and retries; what
  it did before the transaction (the idempotency check, the evaluation, the number) may be
  stale or must not be undone.
- **Lost answers.** A commit whose acknowledgement is lost, a request that times out and is
  served all the same, a publish without a confirm.
- **Overlapping timers.** Both pollers start a pass whether or not the last one has ended,
  and every replica of a service has its own.
- **Crashes between two statements**, which leave locks, claimed numbers and half-finished
  cases behind.
- **Two databases and no transaction over both.** A subledger and the posting engine, the
  engine and gl-service, a schedule and gl-service: one of them commits first, and its answer
  may be lost, late, or taken back by a replay.

What makes each part correct:

- *Posting door*: one journal for a key; a number never used twice; balances equal to the
  sum of the journals; nothing enters a closed period; a claimed number ends in a journal or
  in the gap log (but for a lost race on a key and a crash, section 5); answers name what is
  in the ledger.
- *Recovery*: unless somebody moves the case by hand out of or into a replay: attempts of a
  case are numbered apart, a case is resolved only with a booked journal, and a reclaimed
  replay cannot harm; a dead replay's lock is reclaimed when the reaper is called.
- *Engine*: one submission of an event at the bridge; a POSTED row names a journal that was
  made for it; only activated versions make journals.
- *Desk*: links between drafts, journals, generations and reversals tell the truth.
- *Operational ledger*: what is POSTED is in the books, once; the balances are the history.
- *Subledgers*: what an item or a unit is worth follows from its rows; what moved it is in
  the general ledger.
- *Audit*: nothing lost, nothing recorded twice, a chain that neither forks nor alarms
  falsely.
- *Events*: an event leaves the outbox only when it is safe; every event settles; a poison
  message ends in a dead-letter queue.
- *Breaker*: it opens in time, and an open breaker tries again. That it closes when the service
  is back is not claimed: it may be locked in HALF_OPEN (section 5).

`PROJECT.json` lists the components with their status and every hazard at its line.

## 2. The modules

| Module | Models | Proofs |
|---|---|---|
| `LedgerContract` | what the ledger promises: atomic posts and period moves | |
| `PostingLedger` | posting door, numbers, periods and their triggers; implements `LedgerContract` | `PostingLedger_proofs` |
| `JournalDesk` | drafts, recurring templates and reversals, with the posting door as one step | `JournalDesk_proofs` |
| `EngineContract` | what the posting engine promises the services that submit events | |
| `PostingEngine` | rule pack versions, submissions, replays, the bridge; implements `EngineContract` | `PostingEngine_proofs` |
| `PostingRecovery` | cases, attempts, replays, reapers, operators, over `EngineContract` | `PostingRecovery_proofs` |
| `VehicleUnits` | units, costs, write-downs and trades, over `EngineContract` | `Subledgers_proofs` |
| `GeneralLedger` | the life of an entry of gl-service, the review timeout, intercompany counterparts | `LedgerTraffic_proofs` |
| `OpenItems` | open items of a schedule, posted lines, operators' ceremonies | `Subledgers_proofs` |
| `AuditTrail` | audit outbox, drainer, HTTP client, `log()`, `verifyChain()` | `AuditTrail_proofs` |
| `EventDelivery` | outbox poller, publisher, exchange, queues, retries, dead letters | `LedgerTraffic_proofs` |
| `CircuitBreaker` | the breaker and the calls it lets through | `LedgerTraffic_proofs` |
| `Sums` | no part of the system: lemmas about sums over finite sets | itself |

Each has an `MC` module with the instances and one `.cfg` for each run, but the two contracts
and `Sums`. Where the theorems of several models stand in one module, the models' top-level
definitions carry names of their own (`BreakerSpec`, `DeliverySpec`, `ItemsSpec` besides
`Spec`).

`EngineContract` is where the modules compose. Posting recovery and the vehicle subledger both
send events to the engine and act on its answers. They are modelled against the contract
(`Engine == INSTANCE EngineContract`, whose actions `Opens` and `Rewrites` are conjuncts of
theirs), and `PostingEngine` is proved and checked to implement it, so what they assume of the
engine is discharged. The contract is weaker than one might expect because the code is: a row
may stay in progress for ever, and POSTED is not final.

In all of them a step is one database statement, one transaction that nothing can observe in
the middle, one message or one remote call: what other processes can interleave with is a step
of its own, and what they cannot is not. Local variables of a request or pass are records in a
function over the requests that may run at once; a request that ends becomes available again,
so a small number of them stands for any number that come one after the other. A crash throws
the local variables away and rolls an open transaction back.

### PostingLedger

A post goes through `Check` (the idempotency short cut and everything `evaluate()` reads),
`ClaimNumber` (its own transaction), `BeginTx`, the locking of period, accounts and index
entries, the commit or the abort with its retry, and `LogGap`. PostgreSQL's rules are part of
the model: a transaction sees the rows as of its start; a row it has written stays locked
until it ends; wanting a row that someone changed since the start is a serialization failure
(the set of such rows is kept for each transaction); a cycle of waiting transactions is broken
by the deadlock detector; the unique index makes an insert wait for another insert of the same
key, and fails when that one commits. Each post marks its period as having postings, so two
posts of one period always conflict; two posts of different periods do not, which is what the
instance with two periods is for.

The two triggers (one on journals of a period, one on updates of a period) are guards of the
statements they watch. Every transition of a period is one step but `open()`, whose check of
`fiscal.max_open_periods` and whose write are two.

Left out: the rules of the evaluator on accounts, sources and dimensions, which are functions
of their input; the search for open drafts in `hardClose`; the skip-open confirmation; the routes that allocate a number or log a gap by hand; audit, event
and line rows, which are written and rolled back with the journal.

### PostingRecovery

`Intake` creates a case, or reports another failure of it. A replay takes its case with a
compare-and-set on status and version (`Acquire`), calls the posting engine (`CallCh01`),
receives or loses the answer, and writes attempt and case in one transaction (`Finalize`),
where a unique index on (case, attempt number) fences a replay whose attempt a reaper has
recorded as timed out. The reaper scans for stale locks, reclaims each with a compare-and-set,
then writes the timed-out row in a second transaction.

The engine is `EngineContract`. One more assumption on the environment: a lock that is taken
after a reaper's scan is not older than its threshold (the code takes `lockAcquiredAt` before
the update; a threshold of milliseconds or a skew of clocks between replicas could break
this). `replay_lock_acquired_at` is named by the version of the row with which the lock was taken,
0 for NULL, which no reaper's query matches (`Held`).

An operator's move (`Transition`) is `transitionFixture`, whose route is mounted only with
`POSTING_RECOVERY_FIXTURES_ENABLED`, outside production; it is also the only way to
READY_FOR_REPLAY, so no case is replayed without it. It takes every transition that the
domain allows, also one out of REPLAY_IN_PROGRESS under a replay in flight, or into it with no
replay at all, and leaves the lock's time as it is. The history variable `byHand` remembers the
cases for which that has happened; section 5 says what is lost for them. The two fixtures that
insert attempts and corrections are left out: they write what tests ask for.

### PostingEngine

A submission (`Submit`, `Conclude`, `Claim`) selects the version of the latest effective day
among the active ones, evaluates its rules, and either concludes without a journal or claims
the event by inserting its row. A replay reads the row, claims it with an update that matches
the status it read, and evaluates again. The one that holds the claim goes over the bridge
(`BridgeCreate`, `BridgeSubmit`): gl-service creates a draft for the idempotency key or finds
the journal of it; a journal past DRAFT is taken as it is. `RecordPosted`, `Finish` and
`RecordRejected` are the updates after it, all by id; one `catch` makes REJECTED of everything
that fails after the claim, before or after the journal was booked.

A validation or an activation reads a version's status and writes later, so what it has read
is any status the version has had (`past`). The activation is two steps, because at READ
COMMITTED its `updateMany` takes the versions it sees as ACTIVE when it starts. The trigger on
versions guards each write. What the rules say of an event, whether its accounts resolve and
whether a version passes validation are left open; attempt, exception and audit rows are left
out but for the failure of their writes.

### JournalDesk

Drafts, templates and reversals in one module, because they meet in the journals and in each
other's drafts. A request is one of a few short programs: update, validate, post (validate,
reload, door, link, hook), void, generate (draft, row), reverse (post, link), and may die
between any two of its steps. Every write names its row by id and checks nothing again, as
in the code. The posting door is one step that returns the journal of the key, makes one, or
refuses; `PostingLedger` says why that is sound. DRAFT and VALIDATED are one status, because
every operation treats them alike.

### GeneralLedger

`Begin` is the read of an entry's status, and `Submit`, `Discard`, `Approve` and `Reverse` are
the transactions after it, which write the status whatever it has become. The unique key of
the history rows stands between an entry and a second booking: a reversal's reference is its
original's with a prefix, and `dupeSequence` is always 0, so the key is reference, number of
prefixes and date. The timeout's poller (`Job`) approves like anyone else. It takes
entries with `agentReviewed: false` only (`agent-timeout.ts:51-57`), a flag that every submit writes
and that is therefore left out. One account stands
for all: each line of an entry moves its own, in one transaction.

### OpenItems

Every operation is one SERIALIZABLE transaction with retries and so one step; the write-off
alone calls gl-service in the middle, so it is two: the entry is created there in the first,
and the second commits or rolls back. A line may be an item, an application to an item or a
payment on account, debit or credit, and comes as an event in any order and more than once.
A sweep gives each item what the older ones leave (`Portion`), and lists its applications from
the oldest item to the newest (`InOrder`), as the loop of `sweepFifo` does.

### VehicleUnits

A request looks for the row of its key, reads the unit, submits the event to the engine, and
applies the answer. `kind` fixes what each event is; reconditioning costs are costs. An event's
own id is its default key. Write-downs and dealer trades take a key of the caller's, so one event
may come under several keys (`EventOf` is the event of each), each with a row of its own; that one
key comes with two events is not modelled.

Costs, write-downs and trades out apply their answer in one transaction that looks for the row
again, and `withP2002Retry` runs it again when it meets a concurrent one, so they are one step
(`Apply`). A stock-in and a trade in are not: they write unit, component and event row by
three upserts, each of which makes its own row or leaves the one it finds (`WriteBirth`). The
stock-in looks first (`LookUp`) and writes what another may have written since, unless an upsert
collides after all and the transaction begins again (`Collides`); the trade in does not look.

### AuditTrail

A pass reads unpublished rows oldest first, sends each and waits, and marks it published or
counts a failure. A request in `audit-service` makes its anchor row, locks it, inserts the
entry under the unique index on the source event, writes the new tail and commits; a
duplicate is rolled back and answered with the row found. A client that times out leaves its
request running. SHA-256 is modelled as a hash without collisions. One tenant; the queries, the
cut-off for legacy rows in `verifyChain` and the periodic verification are left out.

### EventDelivery

A batch publishes its rows one after the other. `publish()` without a channel succeeds after
the handlers of the process have run; with a closed channel it throws; with an open one it
hands the message to a socket, without a confirm. Each process has one channel for publishing
and consuming, which is opened by `connect()` at its start and never again: a consumer whose
channel has closed receives nothing until the process restarts.

Two classes of publisher are modelled. Most services have the one of gl-service, copied word for
word into 22 of them: a failing handler acknowledges the message and publishes it again to the
exchange with the next attempt number, so that the queue of every service gets a copy, and the
last attempt ends in the dead-letter queue. Every dead-letter queue is bound to the dead-letter
exchange by the same event types, so a dead letter is copied to all of them. schedule-service has
a class of its own (`NackOnly`): it gives a message up at the first failure, to the same
exchange, and has no dead-letter queue, so what it gives up is kept only by the dead-letter queues
of other subscribers. gl-service's wiring (batch of 50, `retryCount < 10`, 5 delivery attempts)
is the one mapped. A process's crash and restart are one action; the broker keeps what it has,
the queues of a service that is down included.

Left out: the publishers of automation-service and migration-service, and that of
deal-accounting-service, which only publishes; and gl-service's direct publish after
a submit, an approval or a void (`gl-service.ts:586-596, 650-660, 836-846`), which sends the event
at once and marks the rows of its correlation id as published. It is like a batch of one row
whose failure is not counted, and leaves the row to the poller when it fails.

### CircuitBreaker

The time stamps are kept as ages that stop counting at the window and at the reset time, so
time needs no bound. Calls overlap; each ends in success or failure whatever the state of the
breaker has become. gl-service is either up (every call succeeds) or failing (a call may).

## 3. The runs

Every run finishes within three minutes; `PROJECT.json` gives the exact properties. A
type invariant that is proved is not checked again in a run, but it was before it was proved.

| Run | Result | What it shows |
|---|---|---|
| `ledger` | holds | keys, numbers, answers, balances, periods, and the refinement of `LedgerContract`, under conflicts, a crash and a lost acknowledgement; a number that a post carries ends in a journal or in the gap log, unless the post loses its key's race or a process dies |
| `engine` | holds | one submission at the bridge, true evidence in POSTED rows, activated versions only, and the refinement of `EngineContract` |
| `engine_replay_claim` | violated | two replays of one event are at the bridge together |
| `recovery` | holds | distinct attempt numbers, fencing and evidence of resolution where nobody interferes by hand; attempts counted always; a lock of a crashed replay is reclaimed by a reaper that is called |
| `vehicle` | holds | the book value is what the posted rows say under duplicate and overlapping events and a second key; what moved it has a journal |
| `vehicle_duplicate_birth` | violated | duplicates of a unit's first event leave a component that the book value lacks |
| `general_ledger` | holds | balances are the history, POSTED is booked, reversals follow their originals; a review ends |
| `open_items` | holds | balances within bounds and conserved through every ceremony; cash on account is accounted for; write-offs are in the ledger |
| `journal_desk` | holds | links, reversals and generations are true |
| `audit` | holds | no loss, no duplicate, no fork; verification raises no false alarm and finds an altered or missing record; delivery past a row that is refused for ever |
| `events` | holds | with a broker, what leaves the outbox has reached every service or is in its queues; events settle; a queue whose consumer keeps its channel drains, and a poison message ends in a dead-letter queue |
| `breaker` | holds | the breaker opens in time and tries again |

Three more instances are kept beside them, and run in the same way (section 7).
`MCPostingLedger_two_periods.cfg` checks the properties of `ledger` for posts to two periods, which
meet only at the account rows and the key, and so can deadlock there; TLC finds them to hold.
`MCPostingLedger_key_race.cfg` and `MCPostingRecovery_lock_time.cfg` each check one sentence of the
documentation that the code does not keep (`NumbersAccountedFor` and `LockOnlyInProgress`, section
5), and TLC refutes it in a few steps.

### Bounds, and why they are enough

- *Two of everything that races*: two posts, passes, batches or replays are enough for each
  pairwise race in the code; waiting cycles and overtaking need two of them and the rows they
  share. `ledger` uses one period, which every pair of posts meets in; the instance with two
  periods and two accounts that the two keys touch in opposite order adds the deadlock.
- *Tries*: `MaxTries = 2` is one retry, after which a post fails: the code's value only repeats
  the retry. `MaxNumber` stops the claiming of numbers; 2 lets both posts claim, or one of them twice.
- *Faults*: `MaxCrashes`, `MaxLostAcks`, `MaxFaults` and `MaxLosses` count the faults of a
  behaviour: one or two, where two allow a fault during the recovery from the first.
- *Versions*: `MaxVersion` bounds how often a case moves. Operators and new replays leave it
  alone from there on; reapers do not, so a lock that is held is still reclaimed.
- *Retry counts* of audit rows, which no decision reads, are not told apart in the run
  (`MaxRetryCount = 0`); an event is not taken any more at `MaxRetries`, as in the code.
- *Limits*: an audit pass takes 2 of 3 rows, so that one is left for the next pass and the
  refused one does not fill a pass.
- *Chains*: the partitions of `audit` have up to two records, so the record that is altered or
  removed is a genesis row; the theorem has it anywhere in a chain of any length.
- *Cases*: one, because nothing in the code joins two cases but the reaper's pass, which turns
  to them one after the other.
- *Engine*: one event, because events meet only in the versions; two versions of one day, which
  is what makes a choice ambiguous and a replay's key differ; two requests, one activation at
  a time (stale validations need no process of their own). `engine_replay_claim` needs no crash.
- *Operational ledger*: two entries of one reference on two dates, so that keys may or may not
  collide, which also leaves room for a reversal or a counterpart; two people and the poller.
- *Desk*: three drafts (two sides of a generation race and a reversal), two journals, two
  requests, and a generation with a period before and after it.
- *Open items*: two lines that may be any of the kinds, two more for write-off entries, so that
  a retried write-off makes two; `MaxItems = 5` and `MaxApps = 4` leave room for a split
  of a transferred item and for a reversal of a reversal's neighbour.
- *Vehicle*: an event that brings the unit in, by stock or by trade, and two of any other kind, one of
  which may come under a second key; two requests, so that any two deliveries overlap; units
  meet nowhere. A write-down to 1 of a cost of 3 makes the stale amounts differ. That a
  unit has one birth is a premise of `BookFollowsRows`; a second one is refused by its stock
  number unless both were under way together.
- *Events*: one event, two batches, and two subscribers, one of each class, which is what the copies of
  a retry need to meet; events meet only in the limit of a batch. Two attempts are one
  retry.
- *Breaker*: a window of 4 ticks and a reset time of 2 keep the ratio of 60 to 30 seconds, with
  a tick in between; threshold 3 is connector-service's. `breaker` allows two probes and
  three calls, so that an earlier call can end between them.

Symmetry is used only in runs without liveness, over the posts, requests, drafts, versions, keys
and events that the specification treats alike.

`CHECK_DEADLOCK FALSE` stands in those runs where the bounds make every behaviour stop: all
rows delivered, all faults used.

### Fairness, and why the code justifies it

- *Ledger*: a post that has begun goes on (a process that does not crash runs its promise to
  the end), and PostgreSQL breaks deadlocks. Nothing makes a new post begin.
- *Recovery*: a pass of the reaper that has begun goes on unless it crashes. No code calls the
  reaper on a schedule: there is a route, and comments speak of "an operator or scheduler
  polling" (`replay-reaper-service.ts:50-53, 62-65`) and of a section of the service's README
  that does not exist. That a reaper is called until a pass finds the case is therefore no
  fairness of the model but the premise of `StuckReplayIsReclaimed`. Nothing makes a replay
  finish or the engine answer.
- *Operational ledger*: `setInterval` polls for entries under review again and again, and each
  one found is approved in turn whatever became of the one before (each has its own `try`), so
  the poller's start on an entry is strongly fair: it is at other entries in between. Nothing
  makes people act.
- *Audit*: `setInterval` starts pass after pass, passes go on, and `audit-service` serves the
  requests it has.
- *Events*: the poller ticks, a batch goes on, and the consumer of an open channel is given what
  waits. Nothing is assumed of a closed channel: no code opens it again, and a restart is not
  fair. `QueuesDrain` and `PoisonIsDeadLettered` say so.
- *Breaker*: time passes, requests keep coming, and `fetch` ends each call in the end.

## 4. What is proved

TLAPS checks, for every number of posts, periods, keys, accounts, cases, requests, passes,
rows, versions, entries, drafts and units:

- `PostingLedger_proofs`: `TypeCorrect`, `KeysAreUnique`, `NumbersAreUnique`,
  `PeriodsAreRespected`, `LockedStaysSealed`, `BalancesAreKept`, `AnswersAreTrue` and
  `LedgerImplementsContract`.
- `PostingEngine_proofs`: `TypeCorrect`, `OneSubmission`, `PostedNames`, `UsedWereActivated`
  and `Refinement` (of `EngineContract`).
- `PostingRecovery_proofs`: `TypeCorrect`, `LedgerIsCovered`, `NumbersAreOwned`,
  `FencesOnlyTheReaped` and `EvidenceIsTrue`, for any transitions by hand; what the last three say
  of a case ends when somebody moves it by hand into or out of REPLAY_IN_PROGRESS.
- `Subledgers_proofs`: `TypeCorrect`, `AppliedBooked` and `BookFollows` of the vehicles;
  `ItemsTypeCorrect`, `NoCentIsLost`, `CashIsAccountedFor` and `WriteOffsAreBooked` of the open
  items.
- `LedgerTraffic_proofs`: `TypeCorrect`, `PostedBooked`, `ReversalsFollow` and
  `BalancesFollow` of the operational ledger; `DeliveryTypeCorrect` and `NothingIsDropped` of
  the events; `BreakerTypeCorrect` and `BreakerTrips` of the circuit breaker.
- `JournalDesk_proofs`: `TypeCorrect`, `LinksTrue`, `ReversalsOnce`, `GenerationsTrue`.
- `AuditTrail_proofs`: `TypeCorrect`, `ChainsNeverFork`, `RowsAreRecordedOnce`,
  `NothingIsLost`, `NoFalseAlarm`, `VerifiedIsWhole`, `NoAlterationPasses` and,
  from these, `VerdictTrue`.

With these every invariant that a run checks is a theorem, and so are the two refinements.

None of the invariants is inductive as it stands. The strengthenings, and why they are needed:

- *Ledger.* `TypeInv` adds to `TypeOK` what the fields of a post hold at each of its places
  (`PosterShape`). `LocksExclude` says that two transactions never hold one row, or wait with
  one key, together: from it `InsertedIsLegal`, that the period of an inserted journal still
  takes it, because no one else can move a period that is locked. Together they are
  `LockInv`, which gives the theorems on keys and periods. `AfterFollows` says that the
  balances which a transaction is about to write follow from the committed ones unless it
  has become stale, in which case it must abort: with it the balances are inductive
  (`BalanceInv`). `NumbersAreClaimed` says that a number a post holds is at most the last one
  claimed, held by no other post and used by no journal (`NumberInv`).
  The refinement maps a commit to the contract's `Post` and a period's update to its `Move`;
  every other step is a stutter.
- *Engine.* A request writes by id what it learned some steps ago, so each invariant needs
  what requests know. `Informed` says that it is still true, and `Evolves` why: rows are never
  deleted, a journal never becomes a draft again, and a version that was activated keeps the
  fact. `RowsAgree` relates each row to its journals, and `OneSubmissionPosts` is inductive only
  together with it. The refinement maps a row, and whether it has a booked journal, to the
  contract; the choice of version, the evaluation and the bridge are stutters until the
  journal is booked.
- *Recovery.* `NumbersInRange` relates the number each request carries to the count of its
  case; `OnlyOwnerIsNext` says that only the current owner of the lock carries the number
  after the count. Both relate locals of a request to the row, because the row changes under
  a replay that has been reclaimed. `EvidenceInv` adds that an answer of the engine which is
  still in a request's hands is true (`AnswersAreTrue`): the engine's row may lose its POSTED
  status to a replay, but a journal that was made stays, so an old answer cannot lie.
  `FenceInv` is what fencing needs: a holder with the next number has the lock it took
  (`HolderHasLock`), locks are named by versions that never come back (`LocksAreOld`), and what
  a reaper has found carries the next number for as long as that lock is held (`FoundIsNext`).
- *Vehicle.* `AnswersHold` and `PostedHasJournal`, for the same reason. The book value
  (`BookInv`) needs that components and rows are of units that exist, a cost's component under a
  row and a posted birth with a component (`RowsHold`), that a unit exists since the row of a birth,
  and is worth nothing before (`BirthsHold`), and that a request which does not bring its unit
  in has seen it (`RequestsHold`). That one row brought the unit in is the theorem's premise
  (`OneBirth`), because the second of two births changes nothing of the unit.
- *General ledger.* `DesksHold`: what a request read as POSTED is in the books when it writes,
  because the history only grows. `ReversalsHold` does the same for a reversal whose original
  is read in one step and written in another. The balances need that the history is finite and
  names only entries that exist, whose amounts and dates no step changes (`BooksHold`).
- *Open items.* What refers to an item refers to one that exists, and parts come after the whole
  (`RefersOK`). Every operation has an `Effect`: the two tables grow, and for each item that was
  there, what remains, what was written off, the net of its applications and what its parts carry
  have the sum they had (`Balanced`); `Conserved` follows once for all operations. A sweep is
  handled by `GivenInAll`: what the items take together is the lesser of the amount and of what
  they can take. For a smallest set of oldest items for which this failed, it would fail
  without the newest of them. `AccountInv` adds that a line leaves no traces before its event
  is processed. `LedgerInv` counts the write-offs that have their entry and are not committed
  besides those that took place: the entries of an item cover both, so that an abort only widens
  the margin.
- *Events.* `RetriesHold` counts: the retries of a row and the batches that hold it are at
  most `MaxRetries` and the number of batches less one, because a batch that takes a row has
  found it below the limit, and each that holds it adds one. `DurableInv` adds that a batch
  which is about to mark an event has sent it (`SentIsPresent`), and that a process which
  found a broker keeps a channel, open or closed, but never none, and, being a subscriber, its
  queues. A service of schedule-service's class needs another subscriber, of the other class, to
  keep what it gives up; that there is one is an assumption of the model (`DeliveryAssumption`).
- *Breaker.* The time stamps stand in the order of the failures (`OldestFirst`), so the filter
  of the window removes a prefix of them (`RecentIsFilter`), and a failure that does not trip the
  breaker leaves fewer than the threshold.
- *Desk.* `Holds` states for each request what it may rely on at its next step;
  `JournalsTrue` and `GenerationsHold` say what journals and generation rows name; `Evolves`
  says that journals, the `reverses` of a draft and the draft of a generation are set once.
- *Audit.* `WritersExclude` and `HoldsTail` (one writer for each partition, whose `prev` is the
  tail) for the chain; `InsertsAreNew` (an insert in progress is of a row that no partition and no other
  insert has) for the duplicates; `CallsAreHeld` and `SuccessIsRecorded` (a pass that was
  told of success was told so of a row that is recorded) for the loss. `NoFalseAlarm` needs
  nothing more of the state: a chain as `ChainIsLinked` describes it has hashes of all lengths
  below its own, so none is the predecessor of two records (no fork), and a walk that follows the
  links from the genesis row visits every record. `Reached` is the least set that the walk
  may end with, which is what the loop of `verifyChain` computes and needs no recursion.
  For `NoAlterationPasses` the same definition is read the other way: in records that pass, each
  but the genesis row follows another one (`ReachedFollows`), and its `prev` is a hash that fixes
  that record and its contents (`HashTellsRecord`). `VerifiedIsWhole` goes backwards along the
  chain from a last record that stands: records that pass and hold it are the whole chain.

The sums of the books, the vehicles and the open items are `SumFunctionOnSet` of the community
modules. `Sums` has the lemmas on them, for any finite set: a sum splits off any of its terms
(`SumRemove`), changes by what one term changes (`SumChange`), ignores zeros (`SumSupport`), and
is the same along a one-to-one map (`SumAlong`). An induction theorem would take the statement as
an operator, which the provers cannot instantiate; the lemmas look at a smallest counterexample
instead (`MinimalSubset`, from the finiteness of the set).

The assumptions are those named in the modules: constants have their types, bounds are
natural numbers, and the values that stand for nothing are outside the sets. Where something is
summed or counted, it is finite (`EventKeys` of `VehicleUnits`, `Lines` and `WriteOffs` of
`OpenItems`, the batches of `EventDelivery`), which holds of rows in a table; a line is no operator's key, and what a line is
before the first event was not made by a write-off.

### Only model-checked

- Every liveness property, which is beyond TLAPS: `NumberSettles`, `StuckReplayIsReclaimed`,
  `ReviewEnds`, `AcceptableIsDelivered`, `EventSettles`, `QueuesDrain`, `PoisonIsDeadLettered`,
  `OpenIsLeft`.
- What the models leave open: no theorem says more than its model does, and the bounds of a
  model (`MaxNumber`, `MaxItems`, `MaxCrashes` and the like) are arbitrary in a theorem but are
  still there.

## 5. Where the code and its documents part

`engine_replay_claim` is a run that TLC refutes: a comment in `posting-engine-service.ts`
(lines 695-699) says that the claim keeps two replays of one execution from both calling the
bridge. The claim matches the status that was read, and the read refuses POSTED only; a replay
that reads REPLAY_IN_PROGRESS claims it again.

`vehicle_duplicate_birth` is another. `schema.prisma:40-42` of the vehicle subledger says that the
book value always equals the sum of the components. Where duplicates bring a unit in, the one that
the engine answers in progress may make the unit, with nothing, and the one answered POSTED then
adds the component alone; `dealer-trade-service.ts:205-209` says that no guard is needed.

Two more instances (section 3) are refuted in the same way. `sequence-service.ts:140-141` says of
a failed or aborted post: "Record the gap with a reason". A post that loses the race on its key
returns the winner's journal before it comes to the gap log, and its number is in neither. And
`schema.prisma:105-107` of posting recovery says that the lock's time is set only while the case is
REPLAY_IN_PROGRESS; `transitionFixture` writes the status alone, so a case moved by hand keeps its
lock's time, or has none.

The models also show the following, which no run states as a property of its own.

*Ledger and numbers (`services/coa-service`)*

- A commit whose acknowledgement is lost is logged as a gap although its number is in use. A
  process that dies between claiming a number and logging it leaves the number in neither place.
- Two concurrent `open()` calls exceed `fiscal.max_open_periods`; reopening does not count.

*Desk (`draft-service.ts`, `recurring-template-service.ts`, `reversal-service.ts`)*

- An update or a validation that began before a post or a void turns POSTED_LINKED or VOIDED
  back to DRAFT; a void that races a post leaves a VOIDED draft with a journal.
- Two concurrent generations, or one that dies between its two writes, leave a draft that no
  generation names, and it can be posted; `recurring-template-service.ts:367-368` says that a
  repeated call never makes a duplicate.
- Two posts of one draft with an automatic reversal can make two reversal drafts. The reversal
  mirrors the template, not the draft as edited, and posting it does not set `reversedBy`.
- A reversal that was posted but not linked can be retried only while its period is OPEN.

*Recovery (`services/posting-recovery-service`)*

- A case that is moved by hand out of REPLAY_IN_PROGRESS (to AWAITING_CORRECTION and back to
  READY_FOR_REPLAY, say) while its replay is in flight gives the next replay the same attempt
  number, since no attempt has been counted: one of the two is then refused by the index although no
  reaper fenced it, and a reaper's row may fence a replay that was never reaped. A move from
  REPLAY_IN_PROGRESS to RESOLVED leaves a resolved case without a journal. A case moved by hand into
  REPLAY_IN_PROGRESS has a NULL lock time, or an old one, and with NULL no reaper ever finds it.
  The route is for tests (section 2), but it is the only one that makes a case ready for replay.
- A replay that was reaped can still move a case an operator has since resolved or
  dispositioned, because the finalize transaction names the case by id only
  (`lifecycle.ts:21-24` calls those states terminal).

*Operational ledger (`services/gl-service`)*

- Two concurrent reversals of one entry make two reversal drafts, of which the history's key
  lets only one be approved when the dates agree.
- A submit that began before an approval sets a POSTED entry back to PENDING_REVIEW; since
  `dupeSequence` is always 0 it can never be approved again. A discard that races submit and
  approval leaves a VOIDED entry in the books. Two entries with one source, reference and date
  can never both be approved.
- An intercompany counterpart is POSTED without history or balances. Approval does not check
  the period again, and `AutoPostJob` approves entries that are still DRAFT, which always fails.

*Schedules (`services/schedule-service`)*

- `OnAccountIsAccountedFor` speaks of credits on account. A debit on account, on a schedule of credit
  items, is sent through the same sweep with its sign turned (`open-item-service.ts:203-206,
  485-514`) and is not in the property.
- A credit item is never relieved by a posted application, and an application that arrives
  before its item stays UNRESOLVED.
- The source of a write-off's entry, `SCHEDULE_WRITEOFF`, is longer than the service's own column
  for it (10 characters), so the event of its posting fails and is dead-lettered, where
  `gl-posting-client.ts:9-24` expects a guard to reject it; `postWriteOff` sends no idempotency
  key from within a transaction that is retried, so one write-off may leave two drafts under review. A handler that fails is not retried. A manual
  application, or its reversal, can bring a WRITTEN_OFF item back.

*Vehicle (`services/vehicle-accounting-service`)*

- An event that the engine refused and later posted through a replay never reaches the unit, so
  its book value and the ledger part, against the same comment in `schema.prisma:40-43`.
- One event under two keys, which a write-down or a trade takes, is answered twice from one
  journal, and takes its amount off the unit twice.
- Two events that bring in one stock number, both under way before either has written, are both
  booked; the unit has the book value of the first, and the components of both.

*Audit, events, breaker (`packages/shared-kernel`)*

- Two overlapping passes of the audit drainer can lower the count of failed deliveries, because
  each writes the count it has read plus one.
- `verifyChain` does not compare the last record of a partition with the tail in its anchor, so it
  does not notice that the newest records are missing: `AlterationIsFound` speaks of
  records that another one follows.
- Two overlapping batches of the outbox publish one event twice. Without a channel to the
  broker, or with a message lost in the buffer of a connection, an event is marked published and
  no queue has it: `DurableWithBroker` therefore has the broker, and a connection that loses
  nothing, as its premise.
- A consumer's channel that has closed is never opened again: what waits in its queue, retries
  from other services included, waits for a restart of the process.
- schedule-service's publisher has no dead-letter queue and no retry
  (`schedule-service/src/infrastructure/event-publisher.ts:26-30, 63-91`): what it gives up is kept only
  if a subscriber of the other class has bound its dead-letter queue to the same event type, and a
  message that another service publishes again for a retry may be given up although its first
  copy was handled.
- The retry of a failed handling is published to the exchange, so that a service which has
  handled the event handles it again.
- The breaker can be locked in HALF_OPEN: a probe that fails after the older failures left the
  window counts alone, so the breaker does not open again, and the probes are used up
  (`circuit-breaker.ts:60`).

## 6. Not modelled, and the plan

The order is by how much an error would cost, and by what the modules before already offer.

1. Action properties next to the invariants that are now proved: journals, history rows,
   applications and audit records are only added to, and an item's identity never changes. The
   lemmas on what a step does (`Evolves`, `Grows`) already say most of it.
2. `hardClose`'s search for open drafts, which needs the desk and the periods in one module.
3. Approval workflows: several decisions on one workflow row.
4. gl-service's chains of cost and inventory accounts, and year end.
5. Batch computations worth checking against a reference: allocation, consolidation, matching.
6. The other subledgers. Those that turn a document into a posting event through the engine
   follow the pattern of `VehicleUnits`; their documents and amounts are their own. AP/AR and
   cash keep ledgers of their own and come first.

Not planned: reports and read-only queries; stateless guards (authorization, separation of
duties); maintenance of reference data by single versioned rows; adapters to other systems;
language-model agents; gateway, web application and archived services.

The repository is large and most of it is screens, routes, reports and single-row maintenance.
The share of its lines that the modules stand for is small for that reason: what is modelled
is where several actors write the same rows, or two databases have to agree.

## 7. Running it

    tlc -config MCPostingLedger.cfg MCPostingLedger
    tlapm PostingLedger_proofs.tla

A name of the form `Op_Something` directly before `Op` is a mutated form of it: a plausible
slip in the code, which the run named in `PROJECT.json` under "mutants" must notice.
