--------------------------- MODULE EngineContract ---------------------------
(***************************************************************************)
(* What the posting engine of services/coa-service promises the services     *)
(* that submit source events to it: one execution row per event, which is    *)
(* never taken back; a row that says POSTED has a journal behind it in       *)
(* gl-service; a journal once created for an event stays.  POSTED itself is  *)
(* not final, and a row may stay in progress for ever.                       *)
(***************************************************************************)
CONSTANT Events

VARIABLE exec    \* per event: the status of its row, and whether gl-service
                 \* holds a journal for it

\* NO_RULE_MATCH, which is answered like REJECTED, is counted as that.
ExecutionStatus ==
  {"NONE", "POSTING_IN_PROGRESS", "REPLAY_IN_PROGRESS", "POSTED", "REJECTED"}

Execution == [status : ExecutionStatus, journal : {"NULL", "JE"}]

NoExecution == [status |-> "NONE", journal |-> "NULL"]

Init == exec = [e \in Events |-> NoExecution]

\* The claim of a new event, or its refusal by the rules.
Opens(e) ==
  /\ exec[e] = NoExecution
  /\ \E s \in {"POSTING_IN_PROGRESS", "REJECTED"} :
       exec' = [exec EXCEPT ![e].status = s]

Rewrites(e, x) ==
  /\ exec[e].status # "NONE" /\ x.status # "NONE"
  /\ x.status = "POSTED" => x.journal = "JE"
  /\ exec[e].journal = "JE" => x.journal = "JE"
  /\ exec' = [exec EXCEPT ![e] = x]

Next == \E e \in Events : Opens(e) \/ \E x \in Execution : Rewrites(e, x)

Spec == Init /\ [][Next]_exec
=============================================================================
