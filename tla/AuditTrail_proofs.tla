------------------------- MODULE AuditTrail_proofs -------------------------
(* TLAPS proofs about AuditTrail: any number of rows, passes, requests and   *)
(* months, any crash, any lost or late answer.                               *)
EXTENDS AuditTrail, SequenceTheorems, WellFoundedInduction, TLAPS

\* A request in use carries a row of the outbox.
RequestShape == \A q \in Requests : request[q].pc # "free" => request[q].row \in Rows

TypeInv == TypeOK /\ RequestShape

-----------------------------------------------------------------------------
(* Type correctness.                                                         *)

LEMMA DrainType ==
  ASSUME NEW pc \in {"next", "waiting", "delivered", "failed"}, NEW f \in Found,
         NEW S \in SUBSET Found, NEW q \in Requests \cup {NoRequest}
  PROVE  /\ Drain(pc, f, S, q) \in DrainState
         /\ Drain(pc, f, S, q).pc = pc /\ Drain(pc, f, S, q).hand = f
         /\ Drain(pc, f, S, q).batch = S /\ Drain(pc, f, S, q).call = q
BY DEF Drain, DrainState

\* A pass that is not idle has a row in hand.
LEMMA BusyType ==
  ASSUME TypeOK, NEW d \in Drains, drain[d].pc # "idle"
  PROVE  /\ drain[d] \in DrainState
         /\ drain[d].hand \in Found /\ drain[d].batch \in SUBSET Found
         /\ drain[d].hand.row \in Rows
         /\ drain[d].hand.retryCount \in 0 .. MaxRetryCount
<1>1. drain[d] \in DrainState \cup {IdleDrain} /\ drain[d] # IdleDrain
  BY DEF TypeOK, IdleDrain
<1>2. drain[d] \in DrainState
  BY <1>1
<1>3. drain[d].hand \in Found /\ drain[d].batch \in SUBSET Found
  BY <1>2 DEF DrainState
<1> QED BY <1>2, <1>3 DEF Found

LEMMA GoesType ==
  ASSUME TypeOK, NEW d \in Drains, drain[d].pc # "idle",
         NEW pc \in {"next", "waiting", "delivered", "failed"},
         NEW q \in Requests \cup {NoRequest}
  PROVE  /\ Goes(d, pc, q) \in DrainState
         /\ Goes(d, pc, q).pc = pc /\ Goes(d, pc, q).call = q
         /\ Goes(d, pc, q).hand = drain[d].hand
<1>1. drain[d].hand \in Found /\ drain[d].batch \in SUBSET Found
  BY BusyType
<1> QED BY <1>1, DrainType DEF Goes

LEMMA IdleType == IdleDrain.pc = "idle" /\ IdleDrain.call = NoRequest
BY DEF IdleDrain

\* What TakeNext leaves: another row in hand, or the end of the pass.
LEMMA TakeNextType ==
  ASSUME TypeOK, NEW d \in Drains, NEW S \in SUBSET Found, TakeNext(d, S)
  PROVE  /\ drain' \in [Drains -> DrainState \cup {IdleDrain}]
         /\ drain'[d].call = NoRequest /\ drain'[d].pc \in {"idle", "next"}
         /\ \A e \in Drains \ {d} : drain'[e] = drain[e]
<1>1. drain \in [Drains -> DrainState \cup {IdleDrain}]
  BY DEF TypeOK
<1>2. CASE drain' = [drain EXCEPT ![d] = IdleDrain]
  BY <1>1, <1>2, IdleType
<1>3. ASSUME NEW f \in S, drain' = [drain EXCEPT ![d] = Drain("next", f, S \ {f}, NoRequest)]
      PROVE  /\ drain' \in [Drains -> DrainState \cup {IdleDrain}]
             /\ drain'[d].call = NoRequest /\ drain'[d].pc \in {"idle", "next"}
             /\ \A e \in Drains \ {d} : drain'[e] = drain[e]
  <2>1. /\ Drain("next", f, S \ {f}, NoRequest) \in DrainState
        /\ Drain("next", f, S \ {f}, NoRequest).pc = "next"
        /\ Drain("next", f, S \ {f}, NoRequest).call = NoRequest
    BY DrainType
  <2> QED BY <1>1, <1>3, <2>1
<1> QED BY <1>2, <1>3 DEF TakeNext

LEMMA AnsweredType ==
  ASSUME TypeOK, NEW q \in Requests, NEW pc \in {"delivered", "failed"},
         drain' = Answered(q, pc)
  PROVE  /\ drain' \in [Drains -> DrainState \cup {IdleDrain}]
         /\ \A d \in Drains :
              \/ drain[d].call # q /\ drain'[d] = drain[d]
              \/ /\ drain[d].call = q /\ drain[d].pc = "waiting"
                 /\ drain'[d].call = NoRequest /\ drain'[d].pc = pc
                 /\ drain'[d].hand = drain[d].hand
<1>1. ASSUME NEW d \in Drains
      PROVE  /\ drain'[d] \in DrainState \cup {IdleDrain}
             /\ \/ drain[d].call # q /\ drain'[d] = drain[d]
                \/ /\ drain[d].call = q /\ drain[d].pc = "waiting"
                   /\ drain'[d].call = NoRequest /\ drain'[d].pc = pc
                   /\ drain'[d].hand = drain[d].hand
  <2>1. CASE drain[d].call = q
    <3>1. drain[d].pc = "waiting"
      BY <2>1, AuditAssumption DEF TypeOK
    <3>2. drain'[d] = Goes(d, pc, NoRequest)
      BY <2>1 DEF Answered
    <3> QED BY <2>1, <3>1, <3>2, GoesType
  <2>2. CASE drain[d].call # q
    BY <2>2 DEF Answered, TypeOK
  <2> QED BY <2>1, <2>2
<1>2. drain' = [d \in Drains |-> drain'[d]]
  BY DEF Answered
<1> QED BY <1>1, <1>2

\* One pass goes on to pc.
LEMMA GoneType ==
  ASSUME TypeOK, NEW d \in Drains, drain[d].pc # "idle",
         NEW pc \in {"waiting", "failed"}, NEW q \in Requests \cup {NoRequest},
         drain' = [drain EXCEPT ![d] = Goes(d, pc, q)]
  PROVE  /\ drain' \in [Drains -> DrainState \cup {IdleDrain}]
         /\ drain'[d].pc = pc /\ drain'[d].call = q
         /\ drain'[d].hand = drain[d].hand
         /\ \A e \in Drains \ {d} : drain'[e] = drain[e]
<1>1. drain \in [Drains -> DrainState \cup {IdleDrain}]
  BY DEF TypeOK
<1> QED BY <1>1, GoesType

LEMMA FreeType == FreeRequest \in RequestState /\ FreeRequest.pc = "free"
BY AuditAssumption DEF FreeRequest, RequestState, Months, NoHash

LEMMA HashType ==
  ASSUME NEW h \in Seq(Nat), NEW r \in Rows PROVE Hash(h, r) \in Seq(Nat)
BY DEF Hash, Rows

LEMMA RequestType ==
  ASSUME TypeInv, NEW q \in Requests
  PROVE  /\ request[q].month \in Months /\ request[q].prev \in Seq(Nat)
         /\ request[q].pc # "free" => request[q].row \in Rows
BY DEF TypeInv, TypeOK, RequestShape, RequestState

\* A request that moves on keeps its row and month.
LEMMA RequestMoved ==
  ASSUME TypeInv, NEW q \in Requests, NEW x \in RequestState,
         x.pc # "free" => x.row \in Rows,
         request' = [request EXCEPT ![q] = x]
  PROVE  request' \in [Requests -> RequestState] /\ RequestShape'
BY DEF TypeInv, TypeOK, RequestShape

LEMMA CallsOf ==
  ASSUME TypeOK, NEW d \in Drains,
         \A e \in Drains \ {d} : drain'[e] = drain[e],
         drain'[d].call # NoRequest <=> drain'[d].pc = "waiting"
  PROVE  \A e \in Drains : drain'[e].call # NoRequest <=> drain'[e].pc = "waiting"
BY DEF TypeOK

LEMMA CallsAnswered ==
  ASSUME TypeOK, NEW q \in Requests, NEW pc \in {"delivered", "failed"},
         drain' = Answered(q, pc)
  PROVE  \A d \in Drains : drain'[d].call # NoRequest <=> drain'[d].pc = "waiting"
BY AnsweredType DEF TypeOK

LEMMA EntryType ==
  ASSUME TypeInv, NEW q \in Requests, Commit(q)
  PROVE  trail' \in [Months -> Seq(Entry)] /\ anchor' \in [Months -> Seq(Nat)]
<1> DEFINE m == request[q].month
           h == Hash(request[q].prev, request[q].row)
           e == [row |-> request[q].row, prev |-> request[q].prev, self |-> h]
<1>1. request[q].row \in Rows /\ request[q].prev \in Seq(Nat) /\ m \in Months
  BY RequestType DEF Commit
<1>2. h \in Seq(Nat)
  BY <1>1, HashType
<1>3. e \in Entry
  BY <1>1, <1>2 DEF Entry
<1>4. trail' = [trail EXCEPT ![m] = Append(@, e)] /\ anchor' = [anchor EXCEPT ![m] = h]
  BY DEF Commit, NewTail
<1>5. trail \in [Months -> Seq(Entry)] /\ anchor \in [Months -> Seq(Nat)]
  BY DEF TypeInv, TypeOK
<1> HIDE DEF e, m, h
<1>6. Append(trail[m], e) \in Seq(Entry)
  BY <1>1, <1>3, <1>5
<1> QED BY <1>1, <1>2, <1>4, <1>5, <1>6

LEMMA CountedType ==
  ASSUME NEW n \in 0 .. MaxRetryCount PROVE Counted(n) \in 0 .. MaxRetryCount
BY AuditAssumption DEF Counted

LEMMA FoundType ==
  ASSUME TypeInv
  PROVE  {[row |-> r, retryCount |-> outbox[r].retryCount] : r \in Oldest(Unpublished)}
           \in SUBSET Found
<1>1. ASSUME NEW r \in Rows
      PROVE  [row |-> r, retryCount |-> outbox[r].retryCount] \in Found
  BY DEF TypeInv, TypeOK, OutboxRow, Found
<1>2. Oldest(Unpublished) \subseteq Rows
  BY DEF Oldest, Unpublished
<1> HIDE DEF Found
<1> QED BY <1>1, <1>2

\* The steps of a pass.
LEMMA DrainStepType ==
  ASSUME TypeInv, NEW d \in Drains,
         \/ FindUnpublished(d) \/ DrainStep(d) \/ CallFails(d)
         \/ MarkPublishedFails(d) \/ Abandon(d)
  PROVE  TypeInv'
<1> USE DEF TypeInv
<1>f. ASSUME Fault PROVE faults' \in Nat
  BY <1>f DEF Fault, TypeOK
<1>1. CASE FindUnpublished(d)
  <2>1. TakeNext(d, {[row |-> r, retryCount |-> outbox[r].retryCount] :
                       r \in Oldest(Unpublished)})
    BY <1>1 DEF FindUnpublished
  <2>2. /\ drain' \in [Drains -> DrainState \cup {IdleDrain}]
        /\ drain'[d].call = NoRequest /\ drain'[d].pc \in {"idle", "next"}
        /\ \A e \in Drains \ {d} : drain'[e] = drain[e]
    BY <2>1, FoundType, TakeNextType
  <2>3. \A e \in Drains : drain'[e].call # NoRequest <=> drain'[e].pc = "waiting"
    BY <2>2, CallsOf
  <2> QED BY <1>1, <2>2, <2>3 DEF FindUnpublished, TypeOK, RequestShape
<1>2. ASSUME NEW q \in Requests, Call(d, q) PROVE TypeInv'
  <2> DEFINE x == [pc |-> "arrived", row |-> drain[d].hand.row, month |-> month,
                   prev |-> NoHash]
  <2>1. drain[d].pc = "next" /\ drain[d].pc # "idle"
    BY <1>2 DEF Call
  <2>2. drain[d].hand.row \in Rows /\ drain[d].hand.row \in Nat
    BY <2>1, BusyType DEF Rows
  <2>3. x \in RequestState /\ x.pc = "arrived" /\ x.row \in Rows
    BY <2>2 DEF RequestState, NoHash, TypeOK
  <2>4. request' = [request EXCEPT ![q] = x]
    BY <1>2 DEF Call
  <2> HIDE DEF x
  <2>5. request' \in [Requests -> RequestState] /\ RequestShape'
    BY <2>3, <2>4, RequestMoved
  <2>6. /\ drain' \in [Drains -> DrainState \cup {IdleDrain}]
        /\ drain'[d].pc = "waiting" /\ drain'[d].call = q
        /\ \A e \in Drains \ {d} : drain'[e] = drain[e]
    BY <1>2, <2>1, GoneType DEF Call
  <2>7. \A e \in Drains : drain'[e].call # NoRequest <=> drain'[e].pc = "waiting"
    BY <2>6, CallsOf, AuditAssumption
  <2> QED BY <1>2, <2>5, <2>6, <2>7 DEF Call, TypeOK
<1>3. CASE Rejected(d) \/ CallFails(d) \/ MarkPublishedFails(d)
  <2>1. /\ drain[d].pc # "idle" /\ drain' = [drain EXCEPT ![d] = Goes(d, "failed", NoRequest)]
        /\ UNCHANGED <<outbox, request, trail, anchor, month>>
        /\ faults' \in Nat
    BY <1>3, <1>f DEF Rejected, CallFails, MarkPublishedFails, TypeOK
  <2>2. /\ drain' \in [Drains -> DrainState \cup {IdleDrain}]
        /\ drain'[d].pc = "failed" /\ drain'[d].call = NoRequest
        /\ \A e \in Drains \ {d} : drain'[e] = drain[e]
    BY <2>1, GoneType
  <2>3. \A e \in Drains : drain'[e].call # NoRequest <=> drain'[e].pc = "waiting"
    BY <2>2, CallsOf
  <2> QED BY <2>1, <2>2, <2>3 DEF TypeOK, RequestShape
<1>4. CASE MarkPublished(d) \/ MarkFailed(d)
  <2>1. drain[d].pc # "idle" /\ TakeNext(d, drain[d].batch)
    BY <1>4 DEF MarkPublished, MarkFailed
  <2>2. /\ drain[d].hand.row \in Rows /\ drain[d].batch \in SUBSET Found
        /\ Counted(drain[d].hand.retryCount) \in 0 .. MaxRetryCount
    BY <2>1, BusyType, CountedType
  <2>3. /\ drain' \in [Drains -> DrainState \cup {IdleDrain}]
        /\ drain'[d].call = NoRequest /\ drain'[d].pc \in {"idle", "next"}
        /\ \A e \in Drains \ {d} : drain'[e] = drain[e]
    BY <2>1, <2>2, TakeNextType
  <2>4. \A e \in Drains : drain'[e].call # NoRequest <=> drain'[e].pc = "waiting"
    BY <2>3, CallsOf
  <2>5. outbox' \in [Rows -> OutboxRow]
    <3>1. outbox[drain[d].hand.row] \in OutboxRow
      BY <2>2 DEF TypeOK
    <3>2. [outbox[drain[d].hand.row] EXCEPT !.state = "published"] \in OutboxRow
      BY <3>1 DEF OutboxRow
    <3>3. [outbox[drain[d].hand.row] EXCEPT !.retryCount =
             Counted(drain[d].hand.retryCount)] \in OutboxRow
      BY <2>2, <3>1 DEF OutboxRow
    <3> QED BY <1>4, <2>2, <3>2, <3>3 DEF MarkPublished, MarkFailed, TypeOK
  <2> QED BY <1>4, <2>3, <2>4, <2>5 DEF MarkPublished, MarkFailed, TypeOK, RequestShape
<1>5. CASE Abandon(d)
  <2>1. /\ drain' \in [Drains -> DrainState \cup {IdleDrain}]
        /\ drain'[d].pc = "idle" /\ drain'[d].call = NoRequest
        /\ \A e \in Drains \ {d} : drain'[e] = drain[e]
    BY <1>5, IdleType DEF Abandon, TypeOK
  <2>2. \A e \in Drains : drain'[e].call # NoRequest <=> drain'[e].pc = "waiting"
    BY <2>1, CallsOf
  <2> QED BY <1>5, <1>f, <2>1, <2>2 DEF Abandon, TypeOK, RequestShape
<1> QED BY <1>1, <1>2, <1>3, <1>4, <1>5 DEF DrainStep

\* The steps of a request.
LEMMA RequestStepType ==
  ASSUME TypeInv, NEW q \in Requests, RequestStep(q) \/ RollBack(q)
  PROVE  TypeInv'
<1>1. CASE LockAnchor(q) \/ CreateEntry(q)
  <2>1. PICK x \in RequestState :
          /\ request' = [request EXCEPT ![q] = x]
          /\ x.row = request[q].row
    <3>1. request[q] \in RequestState /\ anchor \in [Months -> Seq(Nat)]
      BY DEF TypeInv, TypeOK
    <3>2. CASE LockAnchor(q)
      BY <3>1, <3>2 DEF LockAnchor, RequestState
    <3>3. CASE CreateEntry(q)
      <4> DEFINE x(pc) == [request[q] EXCEPT !.pc = pc]
      <4>1. x("duplicate") \in RequestState /\ x("inserted") \in RequestState
        BY <3>1 DEF RequestState
      <4>2. \/ request' = [request EXCEPT ![q] = x("duplicate")]
            \/ request' = [request EXCEPT ![q] = x("inserted")]
        BY <3>3 DEF CreateEntry
      <4>3. x("duplicate").row = request[q].row /\ x("inserted").row = request[q].row
        BY <3>1 DEF RequestState
      <4> QED BY <4>1, <4>2, <4>3
    <3> QED BY <1>1, <3>2, <3>3
  <2>2. request[q].row \in Rows
    BY <1>1, RequestType DEF LockAnchor, CreateEntry
  <2>3. request' \in [Requests -> RequestState] /\ RequestShape'
    BY <2>1, <2>2, RequestMoved
  <2>4. UNCHANGED <<outbox, drain, trail, anchor, month, faults>>
    BY <1>1 DEF LockAnchor, CreateEntry
  <2> QED BY <2>3, <2>4 DEF TypeInv, TypeOK
<1>2. ASSUME request' = [request EXCEPT ![q] = FreeRequest]
      PROVE  request' \in [Requests -> RequestState] /\ RequestShape'
  BY <1>2, FreeType, RequestMoved
<1>3. ASSUME NEW pc \in {"delivered", "failed"}, drain' = Answered(q, pc)
      PROVE  /\ drain' \in [Drains -> DrainState \cup {IdleDrain}]
             /\ \A d \in Drains : drain'[d].call # NoRequest <=> drain'[d].pc = "waiting"
  BY <1>3, AnsweredType, CallsAnswered DEF TypeInv
<1>4. CASE Commit(q)
  <2>1. trail' \in [Months -> Seq(Entry)] /\ anchor' \in [Months -> Seq(Nat)]
    BY <1>4, EntryType
  <2>2. /\ request' = [request EXCEPT ![q] = FreeRequest]
        /\ drain' = Answered(q, "delivered") /\ UNCHANGED <<outbox, month, faults>>
    BY <1>4 DEF Commit
  <2> QED BY <1>2, <1>3, <2>1, <2>2 DEF TypeInv, TypeOK
<1>5. CASE FindExisting(q)
  <2>1. /\ request' = [request EXCEPT ![q] = FreeRequest]
        /\ drain' = Answered(q, "delivered")
        /\ UNCHANGED <<outbox, trail, anchor, month, faults>>
    BY <1>5 DEF FindExisting
  <2> QED BY <1>2, <1>3, <2>1 DEF TypeInv, TypeOK
<1>6. CASE RollBack(q)
  <2>1. /\ request' = [request EXCEPT ![q] = FreeRequest]
        /\ drain' = Answered(q, "failed")
        /\ UNCHANGED <<outbox, trail, anchor, month>> /\ faults' \in Nat
    BY <1>6 DEF RollBack, AnswerOfRollBack, Fault, TypeInv, TypeOK
  <2> QED BY <1>2, <1>3, <2>1 DEF TypeInv, TypeOK
<1> QED BY <1>1, <1>4, <1>5, <1>6 DEF RequestStep

LEMMA TypeStep == TypeInv /\ [Next]_vars => TypeInv'
<1> SUFFICES ASSUME TypeInv, [Next]_vars PROVE TypeInv'
  OBVIOUS
<1>1. CASE NextMonth
  <2>1. month' \in Months
    BY <1>1, AuditAssumption DEF NextMonth, TypeInv, TypeOK, Months
  <2> QED BY <1>1, <2>1 DEF NextMonth, TypeInv, TypeOK, RequestShape
<1>2. ASSUME NEW r \in Rows, Create(r) PROVE TypeInv'
  BY <1>2 DEF Create, TypeInv, TypeOK, RequestShape, OutboxRow
<1>3. ASSUME NEW d \in Drains,
             \/ FindUnpublished(d) \/ DrainStep(d) \/ CallFails(d)
             \/ MarkPublishedFails(d) \/ Abandon(d)
      PROVE  TypeInv'
  BY <1>3, DrainStepType
<1>4. ASSUME NEW q \in Requests, RequestStep(q) \/ RollBack(q) PROVE TypeInv'
  BY <1>4, RequestStepType
<1>5. CASE UNCHANGED vars
  BY <1>5 DEF vars, TypeInv, TypeOK, RequestShape
<1> QED BY <1>1, <1>2, <1>3, <1>4, <1>5 DEF Next

LEMMA TypeInit == Init => TypeInv
<1> SUFFICES ASSUME Init PROVE TypeInv
  OBVIOUS
<1>1. [state |-> "absent", retryCount |-> 0] \in OutboxRow
  BY AuditAssumption DEF OutboxRow
<1>2. 1 \in Months
  BY AuditAssumption DEF Months
<1>3. outbox \in [Rows -> OutboxRow]
  BY <1>1 DEF Init
<1> QED BY <1>2, <1>3, FreeType, IdleType, AuditAssumption
        DEF Init, TypeInv, TypeOK, RequestShape, NoHash

(* Every variable keeps its type, and a pass waits exactly while a call of its   *)
(* own is open.                                                                  *)
THEOREM TypeCorrect == Spec => []TypeOK
<1>1. Spec => []TypeInv
  BY TypeInit, TypeStep, PTL DEF Spec
<1> QED BY <1>1, PTL DEF TypeInv

-----------------------------------------------------------------------------
(* The chains.                                                               *)

Writes(q) == request[q].pc \in {"locked", "inserted"}

\* One transaction at a time holds the anchor of a partition.
WritersExclude ==
  \A p, q \in Requests :
    p # q /\ Writes(p) /\ Writes(q) => request[p].month # request[q].month

\* The tail that a transaction has read is still the tail.
HoldsTail ==
  \A q \in Requests : Writes(q) => request[q].prev = anchor[request[q].month]

ChainInv == TypeInv /\ WritersExclude /\ HoldsTail /\ ChainIsLinked

\* Request q starts, or is over without having written anything.
Started(q) ==
  \E r \in Rows : request' = [request EXCEPT ![q] =
     [pc |-> "arrived", row |-> r, month |-> month, prev |-> NoHash]]

Freed(q) == request' = [request EXCEPT ![q] = FreeRequest]

LEMMA Kinds ==
  ASSUME TypeInv, [Next]_vars
  PROVE  \/ UNCHANGED <<request, trail, anchor>>
         \/ \E q \in Requests : LockAnchor(q) \/ CreateEntry(q) \/ Commit(q)
         \/ \E q \in Requests : Started(q) /\ UNCHANGED <<trail, anchor>>
         \/ \E q \in Requests : Freed(q) /\ UNCHANGED <<trail, anchor>>
<1>1. ASSUME NEW d \in Drains, NEW q \in Requests, Call(d, q)
      PROVE  Started(q) /\ UNCHANGED <<trail, anchor>>
  <2>1. drain[d].pc # "idle"
    BY <1>1 DEF Call
  <2>2. drain[d].hand.row \in Rows
    BY <2>1, BusyType DEF TypeInv
  <2> QED BY <1>1, <2>2 DEF Call, Started
<1>2. ASSUME NEW d \in Drains,
             \/ FindUnpublished(d) \/ Rejected(d) \/ MarkPublished(d) \/ MarkFailed(d)
             \/ CallFails(d) \/ MarkPublishedFails(d) \/ Abandon(d)
      PROVE  UNCHANGED <<request, trail, anchor>>
  BY <1>2 DEF FindUnpublished, Rejected, MarkPublished, MarkFailed, CallFails,
              MarkPublishedFails, Abandon
<1>3. ASSUME NEW q \in Requests, FindExisting(q) \/ RollBack(q)
      PROVE  Freed(q) /\ UNCHANGED <<trail, anchor>>
  BY <1>3 DEF FindExisting, RollBack, Freed
<1>4. CASE NextMonth \/ (\E r \in Rows : Create(r)) \/ UNCHANGED vars
  BY <1>4 DEF NextMonth, Create, vars
<1> QED BY <1>1, <1>2, <1>3, <1>4 DEF Next, DrainStep, RequestStep

\* What a commit leaves behind.
LEMMA Appended ==
  ASSUME TypeInv, NEW q \in Requests, Commit(q), NEW m \in Months, m = request[q].month
  PROVE  /\ Len(trail[m]) \in Nat /\ DOMAIN trail[m] = 1 .. Len(trail[m])
         /\ Len(trail'[m]) = Len(trail[m]) + 1 /\ trail'[m] # <<>>
         /\ DOMAIN trail'[m] = 1 .. Len(trail[m]) + 1
         /\ \A i \in DOMAIN trail[m] : trail'[m][i] = trail[m][i]
         /\ trail'[m][Len(trail[m]) + 1].row = request[q].row
         /\ trail'[m][Len(trail[m]) + 1].prev = request[q].prev
         /\ trail'[m][Len(trail[m]) + 1].self = Hash(request[q].prev, request[q].row)
         /\ anchor'[m] = Hash(request[q].prev, request[q].row)
         /\ \A n \in Months \ {m} : trail'[n] = trail[n] /\ anchor'[n] = anchor[n]
<1> DEFINE e == [row |-> request[q].row, prev |-> request[q].prev,
                 self |-> Hash(request[q].prev, request[q].row)]
<1>1. /\ trail' = [trail EXCEPT ![m] = Append(@, e)]
      /\ anchor' = [anchor EXCEPT ![m] = Hash(request[q].prev, request[q].row)]
  BY DEF Commit, NewTail
<1>2. trail \in [Months -> Seq(Entry)] /\ anchor \in [Months -> Seq(Nat)]
  BY DEF TypeInv, TypeOK
<1>3. /\ e.row = request[q].row /\ e.prev = request[q].prev
      /\ e.self = Hash(request[q].prev, request[q].row)
  OBVIOUS
<1>4. trail[m] \in Seq(Entry)
  BY <1>2
<1> HIDE DEF e
<1>5. /\ Append(trail[m], e)[Len(trail[m]) + 1] = e
      /\ Len(trail[m]) \in Nat /\ DOMAIN trail[m] = 1 .. Len(trail[m])
      /\ Len(Append(trail[m], e)) = Len(trail[m]) + 1
      /\ DOMAIN Append(trail[m], e) = 1 .. Len(trail[m]) + 1
      /\ \A i \in DOMAIN trail[m] : Append(trail[m], e)[i] = trail[m][i]
      /\ Append(trail[m], e) # <<>>
  BY <1>4
<1>6. trail'[m] = Append(trail[m], e)
  BY <1>1, <1>2
<1> QED BY <1>1, <1>2, <1>3, <1>5, <1>6

LEMMA WritersStep == ChainInv /\ [Next]_vars => WritersExclude' /\ HoldsTail'
<1> SUFFICES ASSUME ChainInv, [Next]_vars PROVE WritersExclude' /\ HoldsTail'
  OBVIOUS
<1> USE DEF Writes
<1>t. /\ request \in [Requests -> RequestState] /\ WritersExclude /\ HoldsTail /\ TypeInv
      /\ \A q \in Requests : request[q].month \in Months
  BY RequestType DEF ChainInv, TypeInv, TypeOK
<1>1. CASE UNCHANGED <<request, trail, anchor>>
  BY <1>1, <1>t DEF WritersExclude, HoldsTail
<1>2. ASSUME NEW q \in Requests, LockAnchor(q) PROVE WritersExclude' /\ HoldsTail'
  <2>1. /\ request'[q].pc = "locked" /\ request'[q].month = request[q].month
        /\ request'[q].prev = anchor[request[q].month]
        /\ \A p \in Requests \ {q} : request'[p] = request[p]
        /\ anchor' = anchor
    BY <1>2, <1>t DEF LockAnchor
  <2>2. \A p \in Requests \ {q} : Writes(p) => request[p].month # request[q].month
    BY <1>2 DEF LockAnchor, AnchorFree
  <2> QED BY <1>t, <2>1, <2>2 DEF WritersExclude, HoldsTail
<1>3. ASSUME NEW q \in Requests, CreateEntry(q) PROVE WritersExclude' /\ HoldsTail'
  <2>1. /\ request[q].pc = "locked" /\ request'[q].month = request[q].month
        /\ request'[q].prev = request[q].prev
        /\ \A p \in Requests \ {q} : request'[p] = request[p]
        /\ anchor' = anchor
    BY <1>3, <1>t DEF CreateEntry, RequestState
  <2> QED BY <1>t, <2>1 DEF WritersExclude, HoldsTail
<1>4. ASSUME NEW q \in Requests, Commit(q) PROVE WritersExclude' /\ HoldsTail'
  <2>1. /\ request[q].pc = "inserted" /\ request'[q].pc = "free"
        /\ \A p \in Requests \ {q} : request'[p] = request[p]
    BY <1>4, <1>t, FreeType DEF Commit
  <2>2. \A n \in Months \ {request[q].month} : anchor'[n] = anchor[n]
    BY <1>4, <1>t, Appended
  <2>3. \A p \in Requests \ {q} : Writes(p) => request[p].month # request[q].month
    BY <1>t, <2>1 DEF WritersExclude
  <2> QED BY <1>t, <2>1, <2>2, <2>3 DEF WritersExclude, HoldsTail
<1>5. ASSUME NEW q \in Requests, Started(q) \/ Freed(q), UNCHANGED <<trail, anchor>>
      PROVE  WritersExclude' /\ HoldsTail'
  <2>1. /\ request'[q].pc \in {"arrived", "free"}
        /\ \A p \in Requests \ {q} : request'[p] = request[p]
    BY <1>5, <1>t, FreeType DEF Started, Freed
  <2> QED BY <1>5, <1>t, <2>1 DEF WritersExclude, HoldsTail
<1> QED BY <1>t, <1>1, <1>2, <1>3, <1>4, <1>5, Kinds

LEMMA LinkStep == ChainInv /\ [Next]_vars => ChainIsLinked'
<1> SUFFICES ASSUME ChainInv, [Next]_vars PROVE ChainIsLinked'
  OBVIOUS
<1>1. CASE UNCHANGED <<trail, anchor>>
  BY <1>1 DEF ChainInv, ChainIsLinked
<1>2. ASSUME NEW q \in Requests, Commit(q) PROVE ChainIsLinked'
  <2>1. /\ TypeInv /\ request[q].month \in Months
        /\ request[q].prev = anchor[request[q].month]
    BY <1>2, RequestType DEF ChainInv, HoldsTail, Writes, Commit
  <2> DEFINE Linked(m) ==
        /\ \A i \in DOMAIN trail[m] :
             /\ trail[m][i].prev = IF i = 1 THEN NoHash ELSE trail[m][i - 1].self
             /\ trail[m][i].self = Hash(trail[m][i].prev, trail[m][i].row)
        /\ anchor[m] = IF trail[m] = <<>> THEN NoHash ELSE trail[m][Len(trail[m])].self
  <2>2. SUFFICES ASSUME NEW m \in Months PROVE Linked(m)'
    BY DEF ChainIsLinked
  <2>3. Linked(m)
    BY DEF ChainInv, ChainIsLinked
  <2>4. CASE m # request[q].month
    <3>1. trail'[m] = trail[m] /\ anchor'[m] = anchor[m]
      BY <1>2, <2>1, <2>4, Appended
    <3> QED BY <2>3, <3>1
  <2>5. CASE m = request[q].month
    <3> DEFINE n == Len(trail[m])
    <3>1. /\ n \in Nat /\ DOMAIN trail[m] = 1 .. n
          /\ Len(trail'[m]) = n + 1 /\ trail'[m] # <<>>
          /\ DOMAIN trail'[m] = 1 .. n + 1
          /\ \A i \in DOMAIN trail[m] : trail'[m][i] = trail[m][i]
          /\ trail'[m][n + 1].row = request[q].row
          /\ trail'[m][n + 1].prev = request[q].prev
          /\ trail'[m][n + 1].self = Hash(request[q].prev, request[q].row)
          /\ anchor'[m] = Hash(request[q].prev, request[q].row)
      BY <1>2, <2>1, <2>5, Appended
    <3>2. trail[m] \in Seq(Entry)
      BY <2>1 DEF TypeInv, TypeOK
    <3>3. trail[m] = <<>> <=> n = 0
      BY <3>2
    <3>4. request[q].prev = IF n = 0 THEN NoHash ELSE trail[m][n].self
      BY <2>1, <2>3, <2>5, <3>3
    <3> HIDE DEF n
    <3>5. ASSUME NEW i \in 1 .. n
          PROVE  /\ trail'[m][i].prev = IF i = 1 THEN NoHash ELSE trail'[m][i - 1].self
                 /\ trail'[m][i].self = Hash(trail'[m][i].prev, trail'[m][i].row)
      <4>1. trail'[m][i] = trail[m][i] /\ (i # 1 => trail'[m][i - 1] = trail[m][i - 1])
        BY <3>1
      <4> QED BY <2>3, <3>1, <4>1
    <3>6. /\ trail'[m][n + 1].prev = IF n + 1 = 1 THEN NoHash ELSE trail'[m][n + 1 - 1].self
          /\ trail'[m][n + 1].self = Hash(trail'[m][n + 1].prev, trail'[m][n + 1].row)
      <4>1. n # 0 => trail'[m][n] = trail[m][n]
        BY <3>1
      <4> QED BY <3>1, <3>4, <4>1
    <3>7. \A i \in 1 .. n + 1 : i \in 1 .. n \/ i = n + 1
      BY <3>1
    <3> QED BY <3>1, <3>5, <3>6, <3>7
  <2> QED BY <2>4, <2>5
<1> QED BY <1>1, <1>2, Kinds DEF ChainInv, LockAnchor, CreateEntry

LEMMA ChainInit == Init => ChainInv
<1> SUFFICES ASSUME Init PROVE ChainInv
  OBVIOUS
<1>1. \A q \in Requests : request[q].pc = "free"
  BY FreeType DEF Init
<1>2. \A m \in Months : trail[m] = <<>> /\ anchor[m] = NoHash
  BY DEF Init
<1> QED BY <1>1, <1>2, TypeInit
        DEF ChainInv, WritersExclude, HoldsTail, Writes, ChainIsLinked

(* BR7-2: in every partition each record commits to the one before it and the    *)
(* anchor to the last, so the concurrent writers of audit-service never fork a   *)
(* chain: the row lock on the anchor lasts from the read of the tail to the      *)
(* commit.                                                                       *)
THEOREM ChainsNeverFork == Spec => []ChainIsLinked
<1>1. ChainInv /\ [Next]_vars => ChainInv'
  BY WritersStep, LinkStep, TypeStep DEF ChainInv
<1>2. Spec => []ChainInv
  BY <1>1, ChainInit, PTL DEF Spec
<1> QED BY <1>2, PTL DEF ChainInv

-----------------------------------------------------------------------------
(* One record for a row of the outbox.                                       *)

\* An insert that has passed the unique index is the only one of its row.
InsertsAreNew ==
  /\ \A q \in Requests : request[q].pc = "inserted" => ~Recorded(request[q].row)
  /\ \A p, q \in Requests :
       p # q /\ request[p].pc = "inserted" /\ request[q].pc = "inserted"
         => request[p].row # request[q].row

RecordInv == TypeInv /\ InsertsAreNew /\ RecordedOnce

\* A commit records the row of its request and no other.
LEMMA CommitRecords ==
  ASSUME TypeInv, NEW q \in Requests, Commit(q), NEW r
  PROVE  Recorded(r)' <=> Recorded(r) \/ r = request[q].row
<1>1. PICK c \in Months : c = request[q].month
  BY RequestType
<1> DEFINE n == Len(trail[c])
<1>2. /\ n \in Nat /\ DOMAIN trail[c] = 1 .. n /\ DOMAIN trail'[c] = 1 .. n + 1
      /\ \A i \in DOMAIN trail[c] : trail'[c][i] = trail[c][i]
      /\ trail'[c][n + 1].row = request[q].row
      /\ \A m \in Months \ {c} : trail'[m] = trail[m]
  BY <1>1, Appended
<1> HIDE DEF n
<1>3. ASSUME NEW m \in Months, m # c PROVE RecordedIn(r, m)' <=> RecordedIn(r, m)
  BY <1>2, <1>3 DEF RecordedIn
<1>4. RecordedIn(r, c)' <=> RecordedIn(r, c) \/ r = request[q].row
  <2>1. \A i \in DOMAIN trail'[c] : i \in DOMAIN trail[c] \/ i = n + 1
    BY <1>2
  <2>2. n + 1 \in DOMAIN trail'[c] /\ \A i \in DOMAIN trail[c] : i \in DOMAIN trail'[c]
    BY <1>2
  <2> QED BY <1>2, <2>1, <2>2 DEF RecordedIn
<1> QED BY <1>1, <1>3, <1>4 DEF Recorded

LEMMA StaysRecorded ==
  ASSUME TypeInv, [Next]_vars, NEW r
  PROVE  Recorded(r) => Recorded(r)'
<1>1. CASE UNCHANGED trail
  BY <1>1 DEF Recorded, RecordedIn
<1>2. ASSUME NEW q \in Requests, Commit(q) PROVE Recorded(r) => Recorded(r)'
  BY <1>2, CommitRecords
<1> QED BY <1>1, <1>2, Kinds DEF LockAnchor, CreateEntry

LEMMA InsertsStep == RecordInv /\ [Next]_vars => InsertsAreNew'
<1> SUFFICES ASSUME RecordInv, [Next]_vars PROVE InsertsAreNew'
  OBVIOUS
<1>t. /\ request \in [Requests -> RequestState] /\ InsertsAreNew /\ TypeInv
  BY DEF RecordInv, TypeInv, TypeOK
\* A step that records nothing and lets no request pass the index.
<1>0. ASSUME UNCHANGED trail,
             \A q \in Requests : request'[q].pc = "inserted" => request'[q] = request[q]
      PROVE  InsertsAreNew'
  <2>1. \A r : Recorded(r)' <=> Recorded(r)
    BY <1>0 DEF Recorded, RecordedIn
  <2> QED BY <1>0, <1>t, <2>1 DEF InsertsAreNew
<1>1. CASE UNCHANGED <<request, trail, anchor>>
  BY <1>0, <1>1
<1>2. ASSUME NEW q \in Requests,
             LockAnchor(q) \/ ((Started(q) \/ Freed(q)) /\ UNCHANGED <<trail, anchor>>)
      PROVE  InsertsAreNew'
  BY <1>0, <1>2, <1>t, FreeType DEF LockAnchor, Started, Freed
<1>3. ASSUME NEW q \in Requests, CreateEntry(q) PROVE InsertsAreNew'
  <2>1. /\ request'[q].row = request[q].row
        /\ request'[q].pc = "inserted" => ~Recorded(request[q].row)
        /\ \A p \in Requests \ {q} : request'[p] = request[p]
        /\ \A p \in Requests :
             request[p].pc = "inserted" => request[p].row # request[q].row
        /\ UNCHANGED trail
    BY <1>3, <1>t DEF CreateEntry, RequestState
  <2>2. \A r : Recorded(r)' <=> Recorded(r)
    BY <2>1 DEF Recorded, RecordedIn
  <2> QED BY <1>t, <2>1, <2>2 DEF InsertsAreNew
<1>4. ASSUME NEW q \in Requests, Commit(q) PROVE InsertsAreNew'
  <2>1. /\ request[q].pc = "inserted" /\ request'[q].pc = "free"
        /\ \A p \in Requests \ {q} : request'[p] = request[p]
    BY <1>4, <1>t, FreeType DEF Commit
  <2>2. \A r : Recorded(r)' <=> Recorded(r) \/ r = request[q].row
    BY <1>4, <1>t, CommitRecords
  <2> QED BY <1>t, <2>1, <2>2 DEF InsertsAreNew
<1> QED BY <1>t, <1>1, <1>2, <1>3, <1>4, Kinds

LEMMA OnceStep == RecordInv /\ [Next]_vars => RecordedOnce'
<1> SUFFICES ASSUME RecordInv, [Next]_vars PROVE RecordedOnce'
  OBVIOUS
<1>1. CASE UNCHANGED trail
  BY <1>1 DEF RecordInv, RecordedOnce
<1>2. ASSUME NEW q \in Requests, Commit(q) PROVE RecordedOnce'
  <2> DEFINE c == request[q].month
             n == Len(trail[c])
  <2>1. TypeInv /\ c \in Months /\ ~Recorded(request[q].row)
    BY <1>2, RequestType DEF RecordInv, InsertsAreNew, Commit
  <2>2. /\ n \in Nat /\ DOMAIN trail[c] = 1 .. n /\ DOMAIN trail'[c] = 1 .. n + 1
        /\ \A i \in DOMAIN trail[c] : trail'[c][i] = trail[c][i]
        /\ trail'[c][n + 1].row = request[q].row
        /\ \A m \in Months \ {c} : trail'[m] = trail[m]
    BY <1>2, <2>1, Appended
  <2>3. \A m \in Months : \A i \in DOMAIN trail[m] : trail[m][i].row # request[q].row
    BY <2>1 DEF Recorded, RecordedIn
  <2> HIDE DEF c, n
  <2>4. \A m \in Months : \A i \in DOMAIN trail'[m] :
          \/ i \in DOMAIN trail[m] /\ trail'[m][i] = trail[m][i]
          \/ m = c /\ i = n + 1 /\ trail'[m][i].row = request[q].row
    BY <2>2
  <2>5. RecordedOnce
    BY DEF RecordInv
  <2> QED BY <2>3, <2>4, <2>5 DEF RecordedOnce
<1> QED BY <1>1, <1>2, Kinds DEF RecordInv, LockAnchor, CreateEntry

LEMMA RecordInit == Init => RecordInv
<1> SUFFICES ASSUME Init PROVE RecordInv
  OBVIOUS
<1>1. \A q \in Requests : request[q].pc = "free"
  BY FreeType DEF Init
<1>2. \A m \in Months : DOMAIN trail[m] = {}
  BY DEF Init
<1> QED BY <1>1, <1>2, TypeInit DEF RecordInv, InsertsAreNew, RecordedOnce

LEMMA RecordStep == RecordInv /\ [Next]_vars => RecordInv'
BY InsertsStep, OnceStep, TypeStep DEF RecordInv

(* A row of the outbox has at most one record, in one partition, however many    *)
(* passes send it how often, and although a late delivery lands in another month.*)
THEOREM RowsAreRecordedOnce == Spec => []RecordedOnce
<1>1. Spec => []RecordInv
  BY RecordInit, RecordStep, PTL DEF Spec
<1> QED BY <1>1, PTL DEF RecordInv

-----------------------------------------------------------------------------
(* Nothing is lost.                                                          *)

\* An open call is held by a request for the row in hand.
CallsAreHeld ==
  \A d \in Drains : drain[d].call # NoRequest =>
    /\ request[drain[d].call].pc # "free"
    /\ request[drain[d].call].row = drain[d].hand.row

\* A success that is on its way has a record behind it.
SuccessIsRecorded ==
  /\ \A q \in Requests : request[q].pc = "duplicate" => Recorded(request[q].row)
  /\ \A d \in Drains : drain[d].pc = "delivered" => Recorded(drain[d].hand.row)

DeliveryInv == TypeInv /\ CallsAreHeld /\ SuccessIsRecorded /\ PublishedIsRecorded

\* The steps of a pass that neither open a call nor hear of a success.
LEMMA PassMoves ==
  ASSUME TypeInv, NEW d \in Drains,
         \/ FindUnpublished(d) \/ Rejected(d) \/ MarkPublished(d) \/ MarkFailed(d)
         \/ CallFails(d) \/ MarkPublishedFails(d) \/ Abandon(d)
  PROVE  /\ drain'[d].call = NoRequest /\ drain'[d].pc # "delivered"
         /\ \A e \in Drains \ {d} : drain'[e] = drain[e]
         /\ UNCHANGED <<request, trail>>
<1> USE DEF TypeInv
<1>1. CASE FindUnpublished(d)
  BY <1>1, FoundType, TakeNextType DEF FindUnpublished
<1>2. CASE Rejected(d) \/ CallFails(d) \/ MarkPublishedFails(d)
  <2>1. /\ drain[d].pc # "idle" /\ UNCHANGED <<request, trail>>
        /\ drain' = [drain EXCEPT ![d] = Goes(d, "failed", NoRequest)]
    BY <1>2 DEF Rejected, CallFails, MarkPublishedFails
  <2> QED BY <2>1, GoneType
<1>3. CASE MarkPublished(d) \/ MarkFailed(d)
  <2>1. /\ drain[d].pc # "idle" /\ TakeNext(d, drain[d].batch)
        /\ UNCHANGED <<request, trail>>
    BY <1>3 DEF MarkPublished, MarkFailed
  <2>2. drain[d].batch \in SUBSET Found
    BY <2>1, BusyType
  <2> QED BY <2>1, <2>2, TakeNextType
<1>4. CASE Abandon(d)
  BY <1>4, IdleType DEF Abandon, TypeOK
<1> QED BY <1>1, <1>2, <1>3, <1>4

LEMMA CallsStep == DeliveryInv /\ [Next]_vars => CallsAreHeld'
<1> SUFFICES ASSUME DeliveryInv, [Next]_vars PROVE CallsAreHeld'
  OBVIOUS
<1>t. /\ TypeInv /\ CallsAreHeld /\ request \in [Requests -> RequestState]
      /\ drain \in [Drains -> DrainState \cup {IdleDrain}]
      /\ \A d \in Drains : drain[d].call \in Requests \cup {NoRequest}
  <2>1. ASSUME NEW d \in Drains PROVE drain[d].call \in Requests \cup {NoRequest}
    <3>1. drain[d] \in DrainState \cup {IdleDrain}
      BY DEF DeliveryInv, TypeInv, TypeOK
    <3> QED BY <3>1, IdleType DEF DrainState
  <2> QED BY <2>1 DEF DeliveryInv, TypeInv, TypeOK
<1>1. ASSUME NEW d \in Drains,
             \/ FindUnpublished(d) \/ Rejected(d) \/ MarkPublished(d) \/ MarkFailed(d)
             \/ CallFails(d) \/ MarkPublishedFails(d) \/ Abandon(d)
      PROVE  CallsAreHeld'
  BY <1>1, <1>t, PassMoves DEF CallsAreHeld
<1>2. ASSUME NEW d \in Drains, NEW q \in Requests, Call(d, q) PROVE CallsAreHeld'
  <2>1. /\ drain[d].pc # "idle" /\ request[q].pc = "free"
        /\ drain' = [drain EXCEPT ![d] = Goes(d, "waiting", q)]
    BY <1>2 DEF Call
  <2>2. /\ drain'[d].call = q /\ drain'[d].hand = drain[d].hand
        /\ \A e \in Drains \ {d} : drain'[e] = drain[e]
    BY <1>t, <2>1, GoneType DEF TypeInv
  <2>3. /\ request'[q].pc = "arrived" /\ request'[q].row = drain[d].hand.row
        /\ \A p \in Requests \ {q} : request'[p] = request[p]
    BY <1>2, <1>t DEF Call
  <2>4. \A e \in Drains : drain[e].call # q
    BY <1>t, <2>1, AuditAssumption DEF CallsAreHeld
  <2> QED BY <1>t, <2>2, <2>3, <2>4 DEF CallsAreHeld
<1>3. ASSUME NEW q \in Requests, LockAnchor(q) \/ CreateEntry(q) PROVE CallsAreHeld'
  <2>1. /\ request'[q].pc # "free" /\ request'[q].row = request[q].row
        /\ \A p \in Requests \ {q} : request'[p] = request[p]
        /\ drain' = drain
    BY <1>3, <1>t DEF LockAnchor, CreateEntry, RequestState
  <2> QED BY <1>t, <2>1 DEF CallsAreHeld
<1>4. ASSUME NEW q \in Requests, Commit(q) \/ FindExisting(q) \/ RollBack(q)
      PROVE  CallsAreHeld'
  <2>1. PICK pc \in {"delivered", "failed"} : drain' = Answered(q, pc)
    BY <1>4 DEF Commit, FindExisting, RollBack, AnswerOfRollBack
  <2>2. \A d \in Drains : \/ drain[d].call # q /\ drain'[d] = drain[d]
                          \/ drain'[d].call = NoRequest
    BY <1>t, <2>1, AnsweredType DEF TypeInv
  <2>3. \A p \in Requests \ {q} : request'[p] = request[p]
    BY <1>4, <1>t DEF Commit, FindExisting, RollBack
  <2> QED BY <1>t, <2>2, <2>3 DEF CallsAreHeld
<1>5. CASE NextMonth \/ (\E r \in Rows : Create(r)) \/ UNCHANGED vars
  BY <1>5, <1>t DEF NextMonth, Create, vars, CallsAreHeld
<1> QED BY <1>1, <1>2, <1>3, <1>4, <1>5 DEF Next, DrainStep, RequestStep

LEMMA SuccessStep == DeliveryInv /\ [Next]_vars => SuccessIsRecorded'
<1> SUFFICES ASSUME DeliveryInv, [Next]_vars PROVE SuccessIsRecorded'
  OBVIOUS
<1>t. /\ TypeInv /\ SuccessIsRecorded /\ request \in [Requests -> RequestState]
      /\ drain \in [Drains -> DrainState \cup {IdleDrain}]
  BY DEF DeliveryInv, TypeInv, TypeOK
<1>s. \A r : Recorded(r) => Recorded(r)'
  BY <1>t, StaysRecorded
\* A step in which nothing new is said to be recorded.
<1>0. ASSUME \A q \in Requests : request'[q].pc = "duplicate" => request'[q] = request[q],
             \A d \in Drains : drain'[d].pc = "delivered" =>
               drain[d].pc = "delivered" /\ drain'[d].hand = drain[d].hand
      PROVE  SuccessIsRecorded'
  BY <1>0, <1>s, <1>t DEF SuccessIsRecorded
<1>1. ASSUME NEW d \in Drains,
             \/ FindUnpublished(d) \/ Rejected(d) \/ MarkPublished(d) \/ MarkFailed(d)
             \/ CallFails(d) \/ MarkPublishedFails(d) \/ Abandon(d)
      PROVE  SuccessIsRecorded'
  BY <1>0, <1>1, <1>t, PassMoves
<1>2. ASSUME NEW d \in Drains, NEW q \in Requests, Call(d, q) PROVE SuccessIsRecorded'
  <2>1. /\ drain[d].pc # "idle"
        /\ drain' = [drain EXCEPT ![d] = Goes(d, "waiting", q)]
    BY <1>2 DEF Call
  <2>2. /\ drain'[d].pc = "waiting"
        /\ \A e \in Drains \ {d} : drain'[e] = drain[e]
    BY <1>t, <2>1, GoneType DEF TypeInv
  <2>3. /\ request'[q].pc = "arrived"
        /\ \A p \in Requests \ {q} : request'[p] = request[p]
    BY <1>2, <1>t DEF Call
  <2> QED BY <1>0, <2>2, <2>3
<1>3. ASSUME NEW q \in Requests, LockAnchor(q) \/ CreateEntry(q) PROVE SuccessIsRecorded'
  <2>1. /\ request'[q].row = request[q].row
        /\ request'[q].pc = "duplicate" => Recorded(request[q].row)
        /\ \A p \in Requests \ {q} : request'[p] = request[p]
        /\ drain' = drain
    BY <1>3, <1>t DEF LockAnchor, CreateEntry, RequestState
  <2> QED BY <1>s, <1>t, <2>1 DEF SuccessIsRecorded
<1>4. ASSUME NEW q \in Requests, Commit(q) \/ FindExisting(q) PROVE SuccessIsRecorded'
  <2>1. drain' = Answered(q, "delivered") /\ request' = [request EXCEPT ![q] = FreeRequest]
    BY <1>4 DEF Commit, FindExisting
  <2>2. \A r : r = request[q].row => Recorded(r)'
    BY <1>4, <1>s, <1>t, CommitRecords DEF FindExisting, SuccessIsRecorded
  <2>3. \A d \in Drains :
          \/ drain'[d] = drain[d]
          \/ drain[d].call = q /\ drain'[d].hand = drain[d].hand
    BY <1>t, <2>1, AnsweredType DEF TypeInv
  <2>4. \A d \in Drains : drain[d].call = q => request[q].row = drain[d].hand.row
    BY AuditAssumption DEF DeliveryInv, CallsAreHeld
  <2>5. /\ request'[q].pc = "free"
        /\ \A p \in Requests \ {q} : request'[p] = request[p]
    BY <1>t, <2>1, FreeType
  <2>6. \A d \in Drains : drain'[d].pc = "delivered" =>
          \A r : r = drain'[d].hand.row => Recorded(r)'
    BY <1>s, <1>t, <2>2, <2>3, <2>4 DEF SuccessIsRecorded
  <2>7. \A p \in Requests : request'[p].pc = "duplicate" =>
          \A r : r = request'[p].row => Recorded(r)'
    BY <1>s, <1>t, <2>5 DEF SuccessIsRecorded
  <2> QED BY <2>6, <2>7 DEF SuccessIsRecorded
<1>5. ASSUME NEW q \in Requests, RollBack(q) PROVE SuccessIsRecorded'
  <2>1. drain' = Answered(q, "failed") /\ request' = [request EXCEPT ![q] = FreeRequest]
    BY <1>5 DEF RollBack, AnswerOfRollBack
  <2>2. \A d \in Drains : drain'[d] = drain[d] \/ drain'[d].pc = "failed"
    BY <1>t, <2>1, AnsweredType DEF TypeInv
  <2>3. /\ request'[q].pc = "free"
        /\ \A p \in Requests \ {q} : request'[p] = request[p]
    BY <1>t, <2>1, FreeType
  <2> QED BY <1>0, <2>2, <2>3
<1>6. CASE NextMonth \/ (\E r \in Rows : Create(r)) \/ UNCHANGED vars
  BY <1>0, <1>6 DEF NextMonth, Create, vars
<1> QED BY <1>1, <1>2, <1>3, <1>4, <1>5, <1>6 DEF Next, DrainStep, RequestStep

LEMMA PublishedStep == DeliveryInv /\ [Next]_vars => PublishedIsRecorded'
<1> SUFFICES ASSUME DeliveryInv, [Next]_vars, NEW r \in Rows, outbox'[r].state = "published"
             PROVE  Recorded(r)'
  BY DEF PublishedIsRecorded
<1>1. CASE outbox[r].state = "published"
  BY <1>1, StaysRecorded DEF DeliveryInv, PublishedIsRecorded
<1>2. CASE outbox[r].state # "published"
  <2>1. PICK d \in Drains : MarkPublished(d) /\ drain[d].hand.row = r
    <3>1. outbox \in [Rows -> OutboxRow]
      BY DEF DeliveryInv, TypeInv, TypeOK
    <3>2. outbox' # outbox
      BY <1>2
    <3>3. ASSUME NEW d \in Drains, MarkFailed(d) PROVE FALSE
      <4>1. outbox' = [outbox EXCEPT ![drain[d].hand.row].retryCount =
                                       Counted(drain[d].hand.retryCount)]
        BY <3>3 DEF MarkFailed
      <4>2. outbox'[r].state = outbox[r].state
        BY <3>1, <4>1 DEF OutboxRow
      <4> QED BY <1>2, <4>2
    <3>4. ASSUME NEW q \in Rows, Create(q) PROVE FALSE
      BY <1>2, <3>1, <3>4 DEF Create, OutboxRow
    <3>5. ASSUME NEW d \in Drains, MarkPublished(d) PROVE drain[d].hand.row = r
      BY <1>2, <3>1, <3>5 DEF MarkPublished, OutboxRow
    <3> QED BY <3>2, <3>3, <3>4, <3>5
            DEF Next, vars, NextMonth, FindUnpublished, DrainStep, Call, Rejected,
                CallFails, MarkPublishedFails, Abandon, RequestStep, LockAnchor,
                CreateEntry, Commit, FindExisting, RollBack
  <2>2. Recorded(r)
    BY <2>1 DEF DeliveryInv, SuccessIsRecorded, MarkPublished
  <2> QED BY <2>2, StaysRecorded DEF DeliveryInv
<1> QED BY <1>1, <1>2

LEMMA DeliveryInit == Init => DeliveryInv
<1> SUFFICES ASSUME Init PROVE DeliveryInv
  OBVIOUS
<1>1. \A q \in Requests : request[q].pc = "free"
  BY FreeType DEF Init
<1>2. \A d \in Drains : drain[d].call = NoRequest /\ drain[d].pc = "idle"
  BY IdleType DEF Init
<1>3. \A r \in Rows : outbox[r].state = "absent"
  BY DEF Init
<1> QED BY <1>1, <1>2, <1>3, TypeInit
        DEF DeliveryInv, CallsAreHeld, SuccessIsRecorded, PublishedIsRecorded

(* audit-outbox-drainer.ts, "a failure can never be silently lost": whatever      *)
(* crashes, times out or answers late, a row is marked published only after its   *)
(* record is in the trail.                                                        *)
THEOREM NothingIsLost == Spec => []PublishedIsRecorded
<1>1. DeliveryInv /\ [Next]_vars => DeliveryInv'
  BY CallsStep, SuccessStep, PublishedStep, TypeStep DEF DeliveryInv
<1>2. Spec => []DeliveryInv
  BY <1>1, DeliveryInit, PTL DEF Spec
<1> QED BY <1>2, PTL DEF DeliveryInv
-----------------------------------------------------------------------------
(* Verification of a chain that only log() has written.  What holds of every   *)
(* record of a chain is shown of the first one for which it would not.         *)

LEMMA LeastIndex ==
  ASSUME NEW T \in SUBSET Nat, T # {}
  PROVE  \E n \in T : \A k \in T : n <= k
<1>1. \E n \in T : \A k \in T : ~ (<<k, n>> \in OpToRel(<, Nat))
  BY NatLessThanWellFounded, WFMin
<1>2. PICK n \in T : \A k \in T : ~ (<<k, n>> \in OpToRel(<, Nat))
  BY <1>1
<1>3. ASSUME NEW k \in T PROVE n <= k
  <2>1. <<k, n>> \in Nat \X Nat /\ <<k, n>>[1] = k /\ <<k, n>>[2] = n
    OBVIOUS
  <2>2. ~(k < n)
    BY <1>2, <2>1 DEF OpToRel
  <2> QED
    BY <2>2
<1> QED
  BY <1>3

\* The records t form one chain from the genesis row on.
IsChain(t) ==
  \A i \in DOMAIN t :
    /\ t[i].prev = IF i = 1 THEN NoHash ELSE t[i - 1].self
    /\ t[i].self = Hash(t[i].prev, t[i].row)

\* A hash tells how many records are before it.
LEMMA HashTellsPlace ==
  ASSUME NEW t \in Seq(Entry), IsChain(t)
  PROVE  \A i \in DOMAIN t : Len(t[i].prev) = i - 1
<1> DEFINE Bad == {i \in DOMAIN t : Len(t[i].prev) # i - 1}
<1>1. SUFFICES ASSUME Bad # {} PROVE FALSE
  OBVIOUS
<1>2. DOMAIN t = 1 .. Len(t) /\ Len(t) \in Nat
  OBVIOUS
<1>3. PICK n \in Bad : \A k \in Bad : n <= k
  <2>1. Bad \in SUBSET Nat
    BY <1>2
  <2> HIDE DEF Bad
  <2> QED
    BY <1>1, <2>1, LeastIndex
<1>4. n \in 1 .. Len(t) /\ Len(t[n].prev) # n - 1
  BY <1>2, <1>3
<1>5. CASE n = 1
  BY <1>2, <1>4, <1>5 DEF IsChain, NoHash
<1>6. CASE n # 1
  <2>1. n - 1 \in 1 .. Len(t) /\ n - 1 \notin Bad
    BY <1>2, <1>3, <1>4, <1>6
  <2>2. Len(t[n - 1].prev) = n - 2
    BY <1>2, <2>1
  <2>3. t[n].prev = Append(t[n - 1].prev, t[n - 1].row)
    BY <1>2, <1>4, <1>6, <2>1 DEF IsChain, Hash
  <2>4. t[n - 1].prev \in Seq(Nat) /\ t[n - 1].row \in Nat
    <3>1. t[n - 1] \in Entry
      BY <1>2, <2>1
    <3> QED
      BY <3>1 DEF Entry, Rows
  <2>5. Len(Append(t[n - 1].prev, t[n - 1].row)) = Len(t[n - 1].prev) + 1
    BY <2>4
  <2> QED
    BY <1>4, <2>2, <2>3, <2>5
<1> QED
  BY <1>5, <1>6

\* The walk visits every record.
LEMMA WalkVisitsAll ==
  ASSUME NEW t \in Seq(Entry), IsChain(t),
         NEW S, S = {t[i] : i \in DOMAIN t}
  PROVE  Reached(S) = S
<1>1. SUFFICES ASSUME NEW R \in SUBSET S, WalkedTo(R, S) PROVE S \subseteq R
  BY DEF Reached
<1> DEFINE Bad == {i \in DOMAIN t : t[i] \notin R}
<1>2. SUFFICES ASSUME Bad # {} PROVE FALSE
  OBVIOUS
<1>3. DOMAIN t = 1 .. Len(t) /\ Len(t) \in Nat
  OBVIOUS
<1>4. PICK n \in Bad : \A k \in Bad : n <= k
  <2>1. Bad \in SUBSET Nat
    BY <1>3
  <2> HIDE DEF Bad
  <2> QED
    BY <1>2, <2>1, LeastIndex
<1>5. n \in 1 .. Len(t) /\ t[n] \in S /\ t[n] \notin R
  BY <1>3, <1>4
<1>6. CASE n = 1
  <2>1. t[n].prev = NoHash
    BY <1>3, <1>5, <1>6 DEF IsChain
  <2> QED
    BY <1>1, <1>5, <2>1 DEF WalkedTo
<1>7. CASE n # 1
  <2>1. n - 1 \in 1 .. Len(t) /\ n - 1 \notin Bad
    BY <1>3, <1>4, <1>5, <1>7
  <2>2. t[n - 1] \in R /\ t[n].prev = t[n - 1].self
    BY <1>3, <1>5, <1>7, <2>1 DEF IsChain
  <2> QED
    BY <1>1, <1>5, <2>2 DEF WalkedTo
<1> QED
  BY <1>6, <1>7

LEMMA LinkedVerifies ==
  ASSUME NEW t \in Seq(Entry), IsChain(t)
  PROVE  VerifyChain({t[i] : i \in DOMAIN t})
<1> DEFINE S == {t[i] : i \in DOMAIN t}
<1>1. DOMAIN t = 1 .. Len(t) /\ Len(t) \in Nat
  OBVIOUS
<1>2. SUFFICES ASSUME S # {} PROVE VerifyChain(S)
  BY DEF VerifyChain
<1>3. ~Forked(S)
  <2>1. SUFFICES ASSUME NEW i \in DOMAIN t, NEW j \in DOMAIN t, t[i].prev = t[j].prev
                 PROVE  t[i] = t[j]
    BY DEF Forked
  <2>2. Len(t[i].prev) = i - 1 /\ Len(t[j].prev) = j - 1
    BY HashTellsPlace
  <2>3. i = j
    BY <1>1, <2>1, <2>2
  <2> QED
    BY <2>3
<1>4. \E e \in S : e.prev = NoHash
  <2>1. 1 \in DOMAIN t
    BY <1>1, <1>2
  <2> QED
    BY <2>1 DEF IsChain
<1>5. Reached(S) = S
  BY WalkVisitsAll
<1>6. \A e \in S : e.self = Hash(e.prev, e.row)
  BY DEF IsChain
<1> QED
  BY <1>3, <1>4, <1>5, <1>6 DEF VerifyChain

(* Chains that only log() has written pass verification at any moment (BR7-4). *)
THEOREM NoFalseAlarm == Spec => []UntamperedVerifies
<1>1. TypeOK /\ ChainIsLinked => UntamperedVerifies
  <2> SUFFICES ASSUME TypeOK, ChainIsLinked, NEW m \in Months
               PROVE  VerifyChain(Records(m))
    BY DEF UntamperedVerifies
  <2>1. trail[m] \in Seq(Entry)
    BY DEF TypeOK
  <2>2. IsChain(trail[m])
    BY DEF ChainIsLinked, IsChain
  <2> QED
    BY <2>1, <2>2, LinkedVerifies DEF Records
<1> QED
  BY <1>1, TypeCorrect, ChainsNeverFork, PTL
-----------------------------------------------------------------------------
(* What verification finds.  Records that pass it are those of one chain: each *)
(* one follows another, and the hash of a record fixes all that come before.   *)

\* The walk reaches a record other than the first from the one before it.
LEMMA ReachedFollows ==
  ASSUME NEW S, Reached(S) = S, NEW e \in S, e.prev # NoHash
  PROVE  \E f \in S : f.self = e.prev
<1> SUFFICES ASSUME ~\E f \in S : f.self = e.prev PROVE FALSE
  OBVIOUS
<1>1. WalkedTo(S \ {e}, S)
  BY DEF WalkedTo
<1>2. S \ {e} \in SUBSET S
  OBVIOUS
<1>3. e \in S \ {e}
  BY <1>1, <1>2 DEF Reached
<1> QED
  BY <1>3

\* A hash fixes the record it belongs to.
LEMMA HashTellsRecord ==
  ASSUME NEW e \in Entry, NEW f \in Entry, e.self = f.self,
         e.self = Hash(e.prev, e.row), f.self = Hash(f.prev, f.row)
  PROVE  e = f
<1>1. /\ e.prev \in Seq(Nat) /\ e.row \in Nat
      /\ f.prev \in Seq(Nat) /\ f.row \in Nat
  BY DEF Entry, Rows
<1>2. e.prev = f.prev /\ e.row = f.row
  <2> DEFINE s == e.prev
             a == e.row
             u == f.prev
             b == f.row
  <2>1. /\ s \in Seq(Nat) /\ a \in Nat /\ u \in Seq(Nat) /\ b \in Nat
        /\ Append(s, a) = Append(u, b)
    BY <1>1 DEF Hash
  <2> HIDE DEF s, a, u, b
  <2>2. s = u /\ a = b
    BY <2>1, AppendInjective
  <2> QED
    BY <2>2 DEF s, a, u, b
<1>3. /\ e = [row |-> e.row, prev |-> e.prev, self |-> e.self]
      /\ f = [row |-> f.row, prev |-> f.prev, self |-> f.self]
  BY DEF Entry
<1> QED
  BY <1>2, <1>3

\* The hash of a record is one that could be stored, and not the genesis value.
LEMMA HashIsProper ==
  ASSUME NEW e \in Entry, NEW r \in Rows
  PROVE  Hash(e.prev, r) \in Seq(Nat) /\ Hash(e.prev, r) # NoHash
<1>1. e.prev \in Seq(Nat) /\ r \in Nat
  BY DEF Entry, Rows
<1>2. Append(e.prev, r) \in Seq(Nat) /\ Append(e.prev, r) # <<>>
  <2>1. \A s \in Seq(Nat) : \A a \in Nat :
          Append(s, a) \in Seq(Nat) /\ Append(s, a) # <<>>
    BY AppendProperties
  <2> QED
    BY <1>1, <2>1
<1> QED
  BY <1>2 DEF Hash, NoHash

(* A set of records that passes verification and has the last record of a chain     *)
(* has every record of it, unaltered (BR7-2): whatever was changed or removed        *)
(* before a record that stands is found.                                             *)
THEOREM VerifiedIsWhole ==
  ASSUME NEW t \in Seq(Entry), IsChain(t), t # <<>>,
         NEW S \in SUBSET Entry, VerifyChain(S), t[Len(t)] \in S
  PROVE  \A i \in DOMAIN t : t[i] \in S
<1> DEFINE Missing == {k \in 0 .. Len(t) - 1 : t[Len(t) - k] \notin S}
<1>1. Len(t) \in Nat \ {0} /\ DOMAIN t = 1 .. Len(t)
  BY EmptySeq
<1>2. SUFFICES ASSUME Missing # {} PROVE FALSE
  <2> SUFFICES ASSUME NEW i \in DOMAIN t, Missing = {} PROVE t[i] \in S
    OBVIOUS
  <2>1. Len(t) - i \in 0 .. Len(t) - 1 /\ Len(t) - (Len(t) - i) = i
    BY <1>1
  <2> QED
    BY <2>1
<1>3. PICK k \in Missing : \A j \in Missing : k <= j
  <2>1. Missing \in SUBSET Nat
    BY <1>1
  <2> HIDE DEF Missing
  <2> QED
    BY <1>2, <2>1, LeastIndex
<1> DEFINE n == Len(t) - k
<1>4. k \in 0 .. Len(t) - 1 /\ n \in 1 .. Len(t) /\ t[n] \notin S
  BY <1>1, <1>3
<1>5. k # 0
  <2>1. Len(t) - 0 = Len(t)
    BY <1>1
  <2> QED
    BY <1>4, <2>1
<1>6. n + 1 \in 1 .. Len(t) /\ t[n + 1] \in S
  <2>1. k - 1 \in 0 .. Len(t) - 1 /\ ~(k <= k - 1) /\ Len(t) - (k - 1) = n + 1
    BY <1>1, <1>4, <1>5
  <2>2. k - 1 \notin Missing
    BY <1>3, <2>1
  <2>3. t[Len(t) - (k - 1)] \in S
    BY <2>1, <2>2
  <2> QED
    BY <1>1, <1>4, <1>5, <2>1, <2>3
<1> HIDE DEF n, Missing
<1>7. t[n + 1].prev = t[n].self /\ t[n].self = Hash(t[n].prev, t[n].row)
  <2>1. n + 1 # 1 /\ (n + 1) - 1 = n
    BY <1>4
  <2> QED
    BY <1>1, <1>4, <1>6, <2>1 DEF IsChain
<1>8. t[n] \in Entry /\ t[n].row \in Rows
  <2>1. t[n] \in Entry
    BY <1>1, <1>4
  <2> QED
    BY <2>1 DEF Entry
<1>9. Reached(S) = S /\ \A e \in S : e.self = Hash(e.prev, e.row)
  BY <1>6 DEF VerifyChain
<1>10. t[n + 1].prev # NoHash
  BY <1>7, <1>8, HashIsProper
<1>11. PICK f \in S : f.self = t[n].self
  <2> DEFINE e == t[n + 1]
  <2>1. e \in S /\ e.prev # NoHash /\ e.prev = t[n].self
    BY <1>6, <1>7, <1>10
  <2> HIDE DEF e
  <2> QED
    BY <1>9, <2>1, ReachedFollows
<1>12. f = t[n]
  <2>1. f \in Entry /\ f.self = Hash(f.prev, f.row)
    BY <1>9
  <2> QED
    BY <1>7, <1>8, <1>11, <2>1, HashTellsRecord
<1> QED
  BY <1>4, <1>11, <1>12

\* A record of a chain that another one follows cannot be taken out or altered.
LEMMA FollowedStands ==
  ASSUME NEW t \in Seq(Entry), IsChain(t), NEW i \in 1 .. Len(t) - 1,
         NEW T \in SUBSET Altered(t[i])
  PROVE  ~VerifyChain(({t[j] : j \in DOMAIN t} \ {t[i]}) \cup T)
<1> DEFINE S == ({t[j] : j \in DOMAIN t} \ {t[i]}) \cup T
<1>1. SUFFICES ASSUME VerifyChain(S) PROVE FALSE
  OBVIOUS
<1>2. /\ Len(t) \in Nat /\ DOMAIN t = 1 .. Len(t) /\ i \in DOMAIN t /\ Len(t) \in DOMAIN t
      /\ t # <<>> /\ i # Len(t) /\ \A j \in DOMAIN t : t[j] \in Entry
  OBVIOUS
<1>3. \A f \in T : f \in Entry /\ f # t[i]
  <2> SUFFICES ASSUME NEW f \in T PROVE f \in Entry /\ f # t[i]
    OBVIOUS
  <2>1. PICK r \in Rows, h \in {t[i].self} \cup {Hash(t[i].prev, q) : q \in Rows} :
          f = [row |-> r, prev |-> t[i].prev, self |-> h]
    BY DEF Altered
  <2>2. f.row # t[i].row
    BY DEF Altered
  <2>3. t[i].prev \in Seq(Nat) /\ t[i].self \in Seq(Nat)
    BY <1>2 DEF Entry
  <2>4. h \in Seq(Nat)
    BY <1>2, <2>1, <2>3, HashIsProper
  <2> QED
    BY <2>1, <2>2, <2>3, <2>4 DEF Entry
<1>4. t[Len(t)] # t[i]
  BY <1>2, HashTellsPlace
<1>5. S \in SUBSET Entry /\ t[Len(t)] \in S
  BY <1>2, <1>3, <1>4
<1>6. t[i] \notin S
  BY <1>3
<1> HIDE DEF S
<1>7. t[i] \in S
  BY <1>1, <1>2, <1>5, VerifiedIsWhole
<1> QED
  BY <1>6, <1>7

(* Verification, run at any moment, fails if a record that another one follows is   *)
(* missing or has other contents (BR7-2), in partitions of any length.              *)
THEOREM NoAlterationPasses == Spec => []AlterationIsFound
<1>1. TypeOK /\ ChainIsLinked => AlterationIsFound
  <2> SUFFICES ASSUME TypeOK, ChainIsLinked, NEW m \in Months,
                      NEW i \in 1 .. Len(trail[m]) - 1
               PROVE  /\ ~VerifyChain(Records(m) \ {trail[m][i]})
                      /\ \A f \in Altered(trail[m][i]) :
                           ~VerifyChain((Records(m) \ {trail[m][i]}) \cup {f})
    BY DEF AlterationIsFound
  <2>1. trail[m] \in Seq(Entry) /\ IsChain(trail[m])
    BY DEF TypeOK, ChainIsLinked, IsChain
  <2>2. \A T \in SUBSET Altered(trail[m][i]) :
          ~VerifyChain((Records(m) \ {trail[m][i]}) \cup T)
    BY <2>1, FollowedStands DEF Records
  <2>3. ~VerifyChain(Records(m) \ {trail[m][i]})
    <3>1. (Records(m) \ {trail[m][i]}) \cup {} = Records(m) \ {trail[m][i]}
      OBVIOUS
    <3>2. ~VerifyChain((Records(m) \ {trail[m][i]}) \cup {})
      BY <2>2
    <3> QED
      BY <3>1, <3>2
  <2> QED
    BY <2>2, <2>3
<1> QED
  BY <1>1, TypeCorrect, ChainsNeverFork, PTL

(* The verdict of verifyChain, run at any moment, is right both ways (BR7-2, BR7-4). *)
THEOREM VerdictTrue == Spec => []VerdictIsTrue
BY NoFalseAlarm, NoAlterationPasses, PTL DEF VerdictIsTrue
=============================================================================
