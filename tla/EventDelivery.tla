---------------------------- MODULE EventDelivery ----------------------------
(***************************************************************************)
(* The way of a domain event: a service writes it to its outbox_events in   *)
(* the transaction of the change; OutboxProcessor (packages/shared-kernel)  *)
(* polls the table and hands the event to RabbitMQEventPublisher, which     *)
(* sends it to a topic exchange; every subscribed service has a queue of    *)
(* its own.  Most have the retries and the dead-letter queue of one class,  *)
(* copied from service to service; schedule-service, with a class of its    *)
(* own, gives a message up at the first failure and has no dead-letter      *)
(* queue.                                                                   *)
(*                                                                         *)
(* The poller starts a batch on every tick, whether or not the last one has *)
(* ended.  A message is published without a confirm, and a consumer retries *)
(* by acknowledging the message and publishing it again, to the exchange,   *)
(* with its attempt number in a header.  Every process publishes and        *)
(* consumes on one channel, and a channel that closes stays closed until    *)
(* the process restarts; a process that is down has a closed channel.  The  *)
(* broker itself loses nothing it has accepted, keeps the queues that were  *)
(* declared, and delivers in any order.                                     *)
(***************************************************************************)
EXTENDS Naturals, FiniteSets

CONSTANTS
  MaxEvents,    \* the events, 1 .. MaxEvents, in createdAt order
  Batches,      \* the batches (processNextBatch) that may run at once
  Publisher,    \* the process with the outbox; it subscribes to no event of its own
  Services,     \* the services subscribed to the events
  NackOnly,     \* those of schedule-service's class: no retry, no dead-letter queue
  Failing,      \* the <<event, service>> pairs whose handler always throws
  Flaky,        \* the pairs whose handler may throw and may not
  Channels,     \* what connect() may leave: "open", or "none" without a broker
  Limit,        \* how many events a batch takes
  MaxRetries,   \* retryCount from which on an event is not taken any more
  MaxAttempts,  \* MAX_DELIVERY_ATTEMPTS
  MaxFaults,    \* bound on crashes, restarts and failed statements
  MaxLosses     \* bound on messages lost in the buffer of a broken connection

VARIABLES
  outbox,    \* outbox_events
  batch,     \* the local variables of each batch
  channel,   \* the AMQP channel of every process
  bound,     \* the services whose queues are declared and bound
  queue,     \* per service, how many copies of an event wait at each attempt
  handled,   \* per service, the events its handler has run to the end for
  dead,      \* per service, the events with a copy in its dead-letter queue
  brokerless, \* whether some process has started without a broker, for a property
  faults, losses

deliveryVars == <<outbox, batch, channel, bound, queue, handled, dead, brokerless,
                  faults, losses>>

Processes == Services \cup {Publisher}

Events == 1 .. MaxEvents

Attempts == 1 .. MaxAttempts

ASSUME DeliveryAssumption ==
  /\ MaxEvents \in Nat /\ Limit \in Nat /\ MaxRetries \in Nat
  /\ MaxAttempts \in Nat \ {0}
  /\ IsFiniteSet(Batches) /\ Batches # {}
  /\ Publisher \notin Services
  /\ NackOnly \subseteq Services /\ (Services # {} => NackOnly # Services)
  /\ Failing \cap Flaky = {}
  /\ Channels \in SUBSET {"open", "none"} /\ Channels # {}
  /\ MaxFaults \in Nat /\ MaxLosses \in Nat

-----------------------------------------------------------------------------
OutboxRow == [state : {"absent", "pending", "published"},
              retryCount : 0 .. MaxRetries + Cardinality(Batches) - 1]

IdleBatch == [pc |-> "idle", hand |-> 0, rest |-> {}]

BatchState == [pc : {"next", "sent", "failed"}, hand : Events, rest : SUBSET Events]

\* A row is taken while its retryCount is below MaxRetries, and each batch that
\* has taken it then adds at most one.
DeliveryTypeOK ==
  /\ outbox \in [Events -> OutboxRow]
  /\ batch \in [Batches -> BatchState \cup {IdleBatch}]
  /\ channel \in [Processes -> {"open", "closed", "none"}]
  /\ bound \in SUBSET Services
  /\ queue \in [Services -> [Events \X Attempts -> Nat]]
  /\ handled \in [Services -> SUBSET Events]
  /\ dead \in [Services -> SUBSET Events]
  /\ brokerless \in BOOLEAN
  /\ faults \in Nat /\ losses \in Nat

DeliveryInit ==
  /\ outbox = [e \in Events |-> [state |-> "absent", retryCount |-> 0]]
  /\ batch = [b \in Batches |-> IdleBatch]
  /\ channel \in [Processes -> Channels]
  /\ bound = {s \in Services : channel[s] = "open"}
  /\ brokerless = (\E p \in Processes : channel[p] = "none")
  /\ queue = [s \in Services |-> [m \in Events \X Attempts |-> 0]]
  /\ handled = [s \in Services |-> {}]
  /\ dead = [s \in Services |-> {}]
  /\ faults = 0 /\ losses = 0

broker == <<queue, dead>>
link == <<channel, bound, brokerless>>

Fault == faults < MaxFaults /\ faults' = faults + 1

Loss == losses < MaxLosses /\ losses' = losses + 1

\* The transaction of a business change writes the event with it.
CreateEvent(e) ==
  /\ outbox[e].state = "absent"
  /\ outbox' = [outbox EXCEPT ![e].state = "pending"]
  /\ UNCHANGED <<batch, link, broker, handled, faults, losses>>

-----------------------------------------------------------------------------
(* OutboxProcessor.processNextBatch                                          *)

Unpublished ==
  {e \in Events : outbox[e].state = "pending" /\ outbox[e].retryCount < MaxRetries}

Oldest(S) == {e \in S : Cardinality({f \in S : f < e}) < Limit}

\* The batch turns to the first of the events S, or ends.
TakeNext(b, S) ==
  \/ S = {} /\ batch' = [batch EXCEPT ![b] = IdleBatch]
  \/ \E e \in S :
       /\ \A f \in S : e <= f
       /\ batch' = [batch EXCEPT ![b] = [pc |-> "next", hand |-> e, rest |-> S \ {e}]]

FindUnpublished(b) ==
  /\ batch[b].pc = "idle"
  /\ Unpublished # {}
  /\ TakeNext(b, Oldest(Unpublished))
  /\ UNCHANGED <<outbox, link, broker, handled, faults, losses>>

\* The queues q when a message has reached the exchange.
Routed(q, e, attempt) ==
  [s \in Services |->
     IF s \in bound THEN [q[s] EXCEPT ![<<e, attempt>>] = @ + 1] ELSE q[s]]

\* Without a channel publish() sends nothing and succeeds all the same.
Publish(b) ==
  /\ batch[b].pc = "next" /\ channel[Publisher] # "closed"
  /\ queue' = IF channel[Publisher] = "open" THEN Routed(queue, batch[b].hand, 1)
                                             ELSE queue
  /\ batch' = [batch EXCEPT ![b].pc = "sent"]
  /\ UNCHANGED <<outbox, link, dead, handled, faults, losses>>

\* The connection has broken, and process p has noticed or has not yet.
Broken(p) == channel' \in {channel, [channel EXCEPT ![p] = "closed"]}

\* The connection breaks with the message in its buffer; nothing waits for a confirm.
PublishLost(b) ==
  /\ batch[b].pc = "next" /\ channel[Publisher] = "open"
  /\ Loss
  /\ batch' = [batch EXCEPT ![b].pc = "sent"]
  /\ Broken(Publisher)
  /\ UNCHANGED <<outbox, bound, brokerless, broker, handled, faults>>

\* The channel of a process closes; nothing listens for it, and nothing opens another.
Close(p) ==
  /\ channel[p] = "open"
  /\ Fault
  /\ channel' = [channel EXCEPT ![p] = "closed"]
  /\ UNCHANGED <<outbox, batch, bound, broker, handled, brokerless, losses>>

\* A closed channel throws.
PublishFails(b) ==
  /\ batch[b].pc = "next" /\ channel[Publisher] = "closed"
  /\ batch' = [batch EXCEPT ![b].pc = "failed"]
  /\ UNCHANGED <<outbox, link, broker, handled, faults, losses>>

MarkPublished(b) ==
  /\ batch[b].pc = "sent"
  /\ outbox' = [outbox EXCEPT ![batch[b].hand].state = "published"]
  /\ TakeNext(b, batch[b].rest)
  /\ UNCHANGED <<link, broker, handled, faults, losses>>

\* The catch of an event that was sent and whose update failed.
MarkPublishedFails(b) ==
  /\ batch[b].pc = "sent"
  /\ Fault
  /\ batch' = [batch EXCEPT ![b].pc = "failed"]
  /\ UNCHANGED <<outbox, link, broker, handled, losses>>

\* Mutated form: a failed publish is not counted.
Counted_Not(n) == n

Counted(n) == n + 1

IncrementRetry(b) ==
  /\ batch[b].pc = "failed"
  /\ outbox' = [outbox EXCEPT ![batch[b].hand].retryCount = Counted(@)]
  /\ TakeNext(b, batch[b].rest)
  /\ UNCHANGED <<link, broker, handled, faults, losses>>

\* incrementRetry throws out of the batch.
Abandon(b) ==
  /\ batch[b].pc = "failed"
  /\ Fault
  /\ batch' = [batch EXCEPT ![b] = IdleBatch]
  /\ UNCHANGED <<outbox, link, broker, handled, losses>>

\* A process dies and starts again; connect() may find no broker.  With one, a
\* service declares and binds its queues.
Restart(p) ==
  /\ Fault
  /\ batch' = IF p = Publisher THEN [b \in Batches |-> IdleBatch] ELSE batch
  /\ \E c \in Channels :
       /\ channel' = [channel EXCEPT ![p] = c]
       /\ bound' = IF c = "open" THEN bound \cup ({p} \cap Services) ELSE bound
       /\ brokerless' = (brokerless \/ c = "none")
  /\ UNCHANGED <<outbox, broker, handled, losses>>

-----------------------------------------------------------------------------
(* RabbitMQEventPublisher.subscribe, in each service: the consumer runs on     *)
(* the channel that connect() left.                                           *)

Waiting(s, e, n) == queue[s][<<e, n>>] > 0

Received(s, e, n) == channel[s] = "open" /\ Waiting(s, e, n)

\* The handler of service s may run to the end, or throw.
MayEnd(s, e) == <<e, s>> \notin Failing

MayThrow(s, e) == <<e, s>> \in Failing \cup Flaky

\* The queues when service s has taken a copy of event e at attempt n.
Taken(s, e, n) == [queue EXCEPT ![s][<<e, n>>] = @ - 1]

Handle(s, e, n) ==
  /\ Received(s, e, n) /\ MayEnd(s, e)
  /\ handled' = [handled EXCEPT ![s] = @ \cup {e}]
  /\ queue' = Taken(s, e, n)
  /\ UNCHANGED <<outbox, batch, link, dead, faults, losses>>

\* The channel closes, or the process dies, between the handler and the ack: the
\* copy is delivered again.
HandleUnacked(s, e, n) ==
  /\ Received(s, e, n) /\ MayEnd(s, e)
  /\ Fault
  /\ handled' = [handled EXCEPT ![s] = @ \cup {e}]
  /\ channel' = [channel EXCEPT ![s] = "closed"]
  /\ UNCHANGED <<outbox, batch, bound, brokerless, broker, losses>>

NextAttempt(n) == n + 1

\* A service tries again until MAX_DELIVERY_ATTEMPTS; schedule-service does not.
TriesAgain(s, n) == s \notin NackOnly /\ n < MaxAttempts

\* The handler throws: the copy is acknowledged and published to the exchange
\* again, and so to the queue of every service.
Requeue(s, e, n) ==
  /\ Received(s, e, n) /\ MayThrow(s, e)
  /\ TriesAgain(s, n)
  /\ queue' = Routed(Taken(s, e, n), e, NextAttempt(n))
  /\ UNCHANGED <<outbox, batch, link, handled, dead, faults, losses>>

\* Acknowledged, and the second publish lost with the connection.
RequeueLost(s, e, n) ==
  /\ Received(s, e, n) /\ MayThrow(s, e)
  /\ TriesAgain(s, n)
  /\ Loss
  /\ queue' = Taken(s, e, n)
  /\ Broken(s)
  /\ UNCHANGED <<outbox, batch, bound, brokerless, handled, dead, faults>>

\* Mutated form: the queue has no dead-letter exchange.
DeadLettered_NoExchange(e) == dead

\* The dead-letter queues are bound to the one dead-letter exchange by the event
\* type: each gets a copy of what any service gives up.
DeadLettered(e) ==
  [s \in Services |-> IF s \in bound \ NackOnly THEN dead[s] \cup {e} ELSE dead[s]]

\* Mutated form: the nack asks for a requeue.
DeadLetter_Requeued(s, e, n) ==
  /\ Received(s, e, n) /\ MayThrow(s, e)
  /\ ~TriesAgain(s, n)
  /\ UNCHANGED deliveryVars

DeadLetter(s, e, n) ==
  /\ Received(s, e, n) /\ MayThrow(s, e)
  /\ ~TriesAgain(s, n)
  /\ queue' = Taken(s, e, n)
  /\ dead' = DeadLettered(e)
  /\ UNCHANGED <<outbox, batch, link, handled, faults, losses>>

-----------------------------------------------------------------------------
BatchStep(b) ==
  Publish(b) \/ PublishFails(b) \/ MarkPublished(b) \/ IncrementRetry(b)

Receive(s) ==
  \E e \in Events, n \in Attempts :
    Handle(s, e, n) \/ Requeue(s, e, n) \/ DeadLetter(s, e, n)

DeliveryNext ==
  \/ \E e \in Events : CreateEvent(e)
  \/ \E b \in Batches : \/ FindUnpublished(b) \/ BatchStep(b) \/ PublishLost(b)
                        \/ MarkPublishedFails(b) \/ Abandon(b)
  \/ \E p \in Processes : Close(p) \/ Restart(p)
  \/ \E s \in Services : Receive(s)
  \/ \E s \in Services, e \in Events, n \in Attempts :
       HandleUnacked(s, e, n) \/ RequeueLost(s, e, n)

DeliverySpec == DeliveryInit /\ [][DeliveryNext]_deliveryVars

\* The poller ticks, a batch goes on, and the consumer of an open channel is given
\* what waits in its queue.  Nothing is assumed of a closed channel.
DeliveryFairness ==
  /\ \A b \in Batches : WF_deliveryVars(FindUnpublished(b)) /\ WF_deliveryVars(BatchStep(b))
  /\ \A s \in Services : WF_deliveryVars(Receive(s))

FairDeliverySpec == DeliverySpec /\ DeliveryFairness
-----------------------------------------------------------------------------
(* Properties                                                                *)

\* The services whose dead-letter queues hold what service s has given up.
KeepersOf(s) == IF s \in NackOnly THEN Services \ NackOnly ELSE {s}

Kept(s, e) == \E t \in KeepersOf(s) : e \in dead[t]

Present(s, e) ==
  \/ e \in handled[s] \/ Kept(s, e)
  \/ \E n \in Attempts : Waiting(s, e, n)

(* event-publisher.ts: "Domain-event durability is provided by the outbox       *)
(* table": an event the outbox is done with has been handled by every service,  *)
(* waits in its queue, or lies in a dead-letter queue: the service's own, or,   *)
(* for schedule-service, that of another subscriber, for it has none.           *)
PublishedIsDurable ==
  \A e \in Events, s \in Services : outbox[e].state = "published" => Present(s, e)

(* The same while every process has started with a broker and no message was lost *)
(* in a buffer: crashes, closed channels, retries and poison messages drop nothing.*)
DurableWithBroker == ~brokerless /\ losses = 0 => PublishedIsDurable

(* An event does not stay in the outbox for ever: it is published, or its        *)
(* retries are used up and it shows.                                            *)
EventSettles ==
  \A e \in Events :
    outbox[e].state = "pending" ~>
      outbox[e].state = "published" \/ outbox[e].retryCount >= MaxRetries

(* A poison message does not circle for ever, although each failed handling      *)
(* puts a copy into every queue: a queue drains, unless its consumer's channel   *)
(* closes, which nothing but a restart opens again.                             *)
QueuesDrain ==
  \A s \in Services :
    (\E m \in DOMAIN queue[s] : queue[s][m] > 0) ~>
      (\A m \in DOMAIN queue[s] : queue[s][m] = 0) \/ channel[s] # "open"

(* An event that waits is handled in the end, or, its handler never succeeding,  *)
(* lies in a dead-letter queue; unless the copy for another attempt is lost in a *)
(* buffer, or the consumer's channel closes, or no service with a dead-letter    *)
(* queue has ever seen a broker.                                                *)
PoisonIsDeadLettered ==
  \A s \in Services, e \in Events :
    (\E n \in Attempts : Waiting(s, e, n)) ~>
      \/ e \in handled[s] \/ Kept(s, e)
      \/ losses > 0 \/ channel[s] # "open" \/ bound \subseteq NackOnly
=============================================================================
