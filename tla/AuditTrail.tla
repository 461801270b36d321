----------------------------- MODULE AuditTrail -----------------------------
(***************************************************************************)
(* The way of an audit record: a service writes it to its audit_outbox in   *)
(* the transaction of the change it tells of; AuditOutboxDrainer            *)
(* (packages/shared-kernel) sends it over HTTP to services/audit-service,   *)
(* whose AuditService.log appends it to a chain of hashes, one chain for    *)
(* each month of a tenant.                                                  *)
(*                                                                         *)
(* The drainer polls on an interval and starts a pass whether or not the    *)
(* last one has ended, so passes overlap; so do the passes of the replicas  *)
(* of a service.  The client gives up after a timeout, and the request it   *)
(* gave up goes on.  One step is one statement of a database or one message.*)
(* A lost answer is a call that fails just before its request ends.         *)
(*                                                                         *)
(* One tenant; records that other callers post without a source event id,   *)
(* and the content of a record, are left out.                               *)
(***************************************************************************)
EXTENDS Naturals, Sequences, FiniteSets

CONSTANTS
  MaxRows,        \* the audit_outbox rows, 1 .. MaxRows, in createdAt order
  Unacceptable,   \* the rows that fail CreateAuditSchema, on every delivery
  Drains,         \* the passes (drainOnce) that may run at once
  Requests,       \* the POST /audit/log requests that may run at once
  NoRequest,
  Limit,          \* how many rows a pass takes
  MaxMonths,      \* bound on the months
  MaxRetryCount,  \* bound: the model stops counting retries there
  MaxFaults       \* bound on crashes, timeouts and failed statements

VARIABLES
  outbox,    \* audit_outbox of one service
  drain,     \* the local variables of each pass
  request,   \* the transaction of each request in audit-service
  trail,     \* audit_logs: the rows of each partition, in commit order
  anchor,    \* audit_chain_anchors.tail_hash of each partition
  month,     \* the clock of audit-service
  faults

vars == <<outbox, drain, request, trail, anchor, month, faults>>

Rows == 1 .. MaxRows

Months == 1 .. MaxMonths

ASSUME AuditAssumption ==
  /\ MaxRows \in Nat /\ MaxMonths \in Nat \ {0}
  /\ NoRequest \notin Requests
  /\ Limit \in Nat /\ MaxRetryCount \in Nat /\ MaxFaults \in Nat

\* SHA-256 as a hash without collisions: it is what was hashed.
NoHash == <<>>

Hash(prev, r) == Append(prev, r)

-----------------------------------------------------------------------------
OutboxRow == [state : {"absent", "pending", "published"},
              retryCount : 0 .. MaxRetryCount]

\* A row as a pass has read it, with the retry count of that moment.
Found == [row : Rows, retryCount : 0 .. MaxRetryCount]

\* hand: the row that the pass delivers now; batch: those that come after it.
IdleDrain == [pc |-> "idle", hand |-> [row |-> 0, retryCount |-> 0],
              batch |-> {}, call |-> NoRequest]

Drain(pc, f, S, q) == [pc |-> pc, hand |-> f, batch |-> S, call |-> q]

DrainState ==
  [pc : {"next", "waiting", "delivered", "failed"}, hand : Found,
   batch : SUBSET Found, call : Requests \cup {NoRequest}]

FreeRequest == [pc |-> "free", row |-> 0, month |-> 1, prev |-> NoHash]

RequestState == [pc : {"free", "arrived", "locked", "inserted", "duplicate"},
                 row : Nat, month : Months, prev : Seq(Nat)]

Entry == [row : Rows, prev : Seq(Nat), self : Seq(Nat)]

TypeOK ==
  /\ outbox \in [Rows -> OutboxRow]
  /\ drain \in [Drains -> DrainState \cup {IdleDrain}]
  /\ \A d \in Drains : drain[d].call # NoRequest <=> drain[d].pc = "waiting"
  /\ request \in [Requests -> RequestState]
  /\ trail \in [Months -> Seq(Entry)]
  /\ anchor \in [Months -> Seq(Nat)]
  /\ month \in Months
  /\ faults \in Nat

Init ==
  /\ outbox = [r \in Rows |-> [state |-> "absent", retryCount |-> 0]]
  /\ drain = [d \in Drains |-> IdleDrain]
  /\ request = [q \in Requests |-> FreeRequest]
  /\ trail = [m \in Months |-> <<>>]
  /\ anchor = [m \in Months |-> NoHash]
  /\ month = 1
  /\ faults = 0

Fault ==
  /\ faults < MaxFaults
  /\ faults' = faults + 1

\* appendAuditRows, in the transaction of a business change.  Transactions may
\* commit in another order than that of createdAt.
Create(r) ==
  /\ outbox[r].state = "absent"
  /\ outbox' = [outbox EXCEPT ![r].state = "pending"]
  /\ UNCHANGED <<drain, request, trail, anchor, month, faults>>

NextMonth ==
  /\ month < MaxMonths
  /\ month' = month + 1
  /\ UNCHANGED <<outbox, drain, request, trail, anchor, faults>>

-----------------------------------------------------------------------------
(* AuditOutboxDrainer.drainOnce                                              *)

Unpublished == {r \in Rows : outbox[r].state = "pending"}

\* Mutated form: one row too few.
Oldest_OffByOne(S) == {r \in S : Cardinality({q \in S : q < r}) + 1 < Limit}

\* ORDER BY created_at LIMIT.
Oldest(S) == {r \in S : Cardinality({q \in S : q < r}) < Limit}

\* The pass turns to the first of the rows S, or ends.
TakeNext(d, S) ==
  \/ S = {} /\ drain' = [drain EXCEPT ![d] = IdleDrain]
  \/ \E f \in S :
       /\ \A g \in S : f.row <= g.row
       /\ drain' = [drain EXCEPT ![d] = Drain("next", f, S \ {f}, NoRequest)]

FindUnpublished(d) ==
  /\ drain[d].pc = "idle"
  /\ Oldest(Unpublished) # {}
  /\ TakeNext(d, {[row |-> r, retryCount |-> outbox[r].retryCount] :
                     r \in Oldest(Unpublished)})
  /\ UNCHANGED <<outbox, request, trail, anchor, month, faults>>

\* The pass goes on with the row in hand.
Goes(d, pc, q) == Drain(pc, drain[d].hand, drain[d].batch, q)

\* HttpAuditClient.log: the request reaches log(), which reads the clock.
Call(d, q) ==
  /\ drain[d].pc = "next"
  /\ drain[d].hand.row \notin Unacceptable
  /\ request[q].pc = "free"
  /\ request' = [request EXCEPT ![q] =
        [pc |-> "arrived", row |-> drain[d].hand.row, month |-> month, prev |-> NoHash]]
  /\ drain' = [drain EXCEPT ![d] = Goes(d, "waiting", q)]
  /\ UNCHANGED <<outbox, trail, anchor, month, faults>>

\* The schema of POST /log refuses the record.
Rejected(d) ==
  /\ drain[d].pc = "next"
  /\ drain[d].hand.row \in Unacceptable
  /\ drain' = [drain EXCEPT ![d] = Goes(d, "failed", NoRequest)]
  /\ UNCHANGED <<outbox, request, trail, anchor, month, faults>>

\* audit-service unreachable, or no answer in time.
CallFails(d) ==
  /\ drain[d].pc \in {"next", "waiting"}
  /\ Fault
  /\ drain' = [drain EXCEPT ![d] = Goes(d, "failed", NoRequest)]
  /\ UNCHANGED <<outbox, request, trail, anchor, month>>

MarkPublished(d) ==
  /\ drain[d].pc = "delivered"
  /\ outbox' = [outbox EXCEPT ![drain[d].hand.row].state = "published"]
  /\ TakeNext(d, drain[d].batch)
  /\ UNCHANGED <<request, trail, anchor, month, faults>>

\* The catch of a delivered row whose update failed.
MarkPublishedFails(d) ==
  /\ drain[d].pc = "delivered"
  /\ Fault
  /\ drain' = [drain EXCEPT ![d] = Goes(d, "failed", NoRequest)]
  /\ UNCHANGED <<outbox, request, trail, anchor, month>>

Counted(n) == IF n < MaxRetryCount THEN n + 1 ELSE n

\* The count is the one the pass has read, plus one.
MarkFailed(d) ==
  /\ drain[d].pc = "failed"
  /\ outbox' = [outbox EXCEPT ![drain[d].hand.row].retryCount =
                                Counted(drain[d].hand.retryCount)]
  /\ TakeNext(d, drain[d].batch)
  /\ UNCHANGED <<request, trail, anchor, month, faults>>

\* The process dies, or markFailed throws out of drainOnce: the rest of the batch
\* waits for a later pass.
Abandon(d) ==
  /\ drain[d].pc # "idle"
  /\ Fault
  /\ drain' = [drain EXCEPT ![d] = IdleDrain]
  /\ UNCHANGED <<outbox, request, trail, anchor, month>>

-----------------------------------------------------------------------------
(* AuditService.log                                                          *)

\* Mutated form: the tail is read without FOR UPDATE.
AnchorFree_NoLock(m) == m \in Months

\* FOR UPDATE: the row of the partition is locked until the transaction ends.
AnchorFree(m) ==
  \A q \in Requests :
    request[q].pc \in {"locked", "inserted"} => request[q].month # m

\* The anchor row is created if it is missing, locked, and its tail read.
LockAnchor(q) ==
  /\ request[q].pc = "arrived"
  /\ AnchorFree(request[q].month)
  /\ request' = [request EXCEPT ![q] =
        [pc |-> "locked", row |-> request[q].row, month |-> request[q].month,
         prev |-> anchor[request[q].month]]]
  /\ UNCHANGED <<outbox, drain, trail, anchor, month, faults>>

RecordedIn(r, m) == \E i \in DOMAIN trail[m] : trail[m][i].row = r

\* Mutated form: the index is local to the partition.
Recorded_InPartition(r) == RecordedIn(r, month)

\* The unique index on source_event_id.
Recorded(r) == \E m \in Months : RecordedIn(r, m)

\* auditLog.create: waits for an insert of the same source event to end.
CreateEntry(q) ==
  /\ request[q].pc = "locked"
  /\ \A p \in Requests :
       request[p].pc = "inserted" => request[p].row # request[q].row
  /\ request' = [request EXCEPT ![q].pc =
                   IF Recorded(request[q].row) THEN "duplicate" ELSE "inserted"]
  /\ UNCHANGED <<outbox, drain, trail, anchor, month, faults>>

\* The passes after request q was answered; one that gave it up no longer listens.
Answered(q, pc) ==
  [d \in Drains |-> IF drain[d].call = q THEN Goes(d, pc, NoRequest) ELSE drain[d]]

\* The tail_hash that the transaction of q writes, its own hashSelf.
NewTail(q) == Hash(request[q].prev, request[q].row)

Commit(q) ==
  LET m == request[q].month IN
  /\ request[q].pc = "inserted"
  /\ trail' = [trail EXCEPT ![m] = Append(@,
        [row |-> request[q].row, prev |-> request[q].prev,
         self |-> Hash(request[q].prev, request[q].row)])]
  /\ anchor' = [anchor EXCEPT ![m] = NewTail(q)]
  /\ request' = [request EXCEPT ![q] = FreeRequest]
  /\ drain' = Answered(q, "delivered")
  /\ UNCHANGED <<outbox, month, faults>>

\* P2002 has rolled the transaction back; the row found is the answer.
FindExisting(q) ==
  /\ request[q].pc = "duplicate"
  /\ request' = [request EXCEPT ![q] = FreeRequest]
  /\ drain' = Answered(q, "delivered")
  /\ UNCHANGED <<outbox, trail, anchor, month, faults>>

\* Mutated form: an error is answered like a success.
AnswerOfRollBack_Delivered == "delivered"

AnswerOfRollBack == "failed"

\* Any other error: the transaction's timeout, a crash of audit-service.
RollBack(q) ==
  /\ request[q].pc \in {"arrived", "locked", "inserted", "duplicate"}
  /\ Fault
  /\ request' = [request EXCEPT ![q] = FreeRequest]
  /\ drain' = Answered(q, AnswerOfRollBack)
  /\ UNCHANGED <<outbox, trail, anchor, month>>

-----------------------------------------------------------------------------
DrainStep(d) ==
  \/ \E q \in Requests : Call(d, q)
  \/ Rejected(d) \/ MarkPublished(d) \/ MarkFailed(d)

RequestStep(q) == LockAnchor(q) \/ CreateEntry(q) \/ Commit(q) \/ FindExisting(q)

Next ==
  \/ NextMonth
  \/ \E r \in Rows : Create(r)
  \/ \E d \in Drains : \/ FindUnpublished(d) \/ DrainStep(d) \/ CallFails(d)
                       \/ MarkPublishedFails(d) \/ Abandon(d)
  \/ \E q \in Requests : RequestStep(q) \/ RollBack(q)

Spec == Init /\ [][Next]_vars

\* The interval starts pass after pass, a pass goes on, and audit-service serves
\* the requests it has.
Fairness ==
  /\ \A d \in Drains : WF_vars(FindUnpublished(d)) /\ WF_vars(DrainStep(d))
  /\ \A q \in Requests : WF_vars(RequestStep(q))

FairSpec == Spec /\ Fairness
-----------------------------------------------------------------------------
(* Properties                                                                *)

(* What the idempotency key promises: a row of the outbox is recorded at most     *)
(* once, in one partition, however often it is sent, by whichever pass, and       *)
(* although a late delivery may fall into another month.                          *)
RecordedOnce ==
  \A m, n \in Months : \A i \in DOMAIN trail[m], j \in DOMAIN trail[n] :
    trail[m][i].row = trail[n][j].row => m = n /\ i = j

(* audit-outbox-drainer.ts: "a failure can never be silently lost".  A row leaves *)
(* the outbox only when audit-service has recorded it.                            *)
PublishedIsRecorded ==
  \A r \in Rows : outbox[r].state = "published" => Recorded(r)

(* BR7-2: concurrent writers extend a chain and never fork it: every record       *)
(* commits to the one before it in its partition, and the anchor to the last.     *)
ChainIsLinked ==
  \A m \in Months :
    /\ \A i \in DOMAIN trail[m] :
         /\ trail[m][i].prev = IF i = 1 THEN NoHash ELSE trail[m][i - 1].self
         /\ trail[m][i].self = Hash(trail[m][i].prev, trail[m][i].row)
    /\ anchor[m] = IF trail[m] = <<>> THEN NoHash ELSE trail[m][Len(trail[m])].self

(* A record that audit-service would accept is delivered in the end, through       *)
(* crashes, timeouts and failed statements, and past rows that it never accepts,   *)
(* as long as those are fewer than a pass takes.                                   *)
AcceptableIsDelivered ==
  \A r \in Rows \ Unacceptable :
    outbox[r].state = "pending" ~> outbox[r].state = "published"

-----------------------------------------------------------------------------
(* AuditService.verifyChain over the rows of one partition.                       *)

Forked(S) == \E e, f \in S : e # f /\ e.prev = f.prev

\* The walk has left no row behind: it starts at the genesis row and goes on from
\* a row to the one that claims its hash.
WalkedTo(R, S) ==
  \A e \in S : e.prev = NoHash \/ (\E f \in R : e.prev = f.self) => e \in R

\* The rows that the walk visits.
Reached(S) == {e \in S : \A R \in SUBSET S : WalkedTo(R, S) => e \in R}

\* Mutated form: rows that the walk does not reach are not counted.
VerifyChain_NoCount(S) ==
  \/ S = {}
  \/ /\ ~Forked(S)
     /\ \E e \in S : e.prev = NoHash
     /\ \A e \in Reached(S) : e.self = Hash(e.prev, e.row)

VerifyChain(S) ==
  \/ S = {}
  \/ /\ ~Forked(S)
     /\ \E e \in S : e.prev = NoHash
     /\ \A e \in Reached(S) : e.self = Hash(e.prev, e.row)
     /\ Reached(S) = S

Records(m) == {trail[m][i] : i \in DOMAIN trail[m]}

(* No false alarm (BR7-4): verification, run at any moment, passes on chains that  *)
(* only AuditService.log has written.                                              *)
UntamperedVerifies ==
  \A m \in Months : VerifyChain(Records(m))

\* What a record may be altered to: other contents, with its hash or with theirs.
Altered(e) ==
  {f \in {[row |-> r, prev |-> e.prev, self |-> h] :
            r \in Rows, h \in {e.self} \cup {Hash(e.prev, q) : q \in Rows}} :
     f.row # e.row}

(* BR7-2, "a mismatch means the row (or the chain) was altered after the fact":    *)
(* verification fails if a record that another one follows is missing or altered.  *)
(* Nothing follows the last one, which verifyChain does not compare with the tail. *)
AlterationIsFound ==
  \A m \in Months : \A i \in 1 .. Len(trail[m]) - 1 :
    LET others == Records(m) \ {trail[m][i]}
    IN  /\ ~VerifyChain(others)
        /\ \A f \in Altered(trail[m][i]) : ~VerifyChain(others \cup {f})

(* The verdict of verifyChain is right both ways, while writers go on: chains that *)
(* only log() wrote pass (BR7-4), and what someone altered or removed is found.    *)
VerdictIsTrue == UntamperedVerifies /\ AlterationIsFound
=============================================================================
