--------------------------- MODULE CircuitBreaker ---------------------------
(***************************************************************************)
(* CircuitBreaker of packages/shared-kernel, as connector-service wraps its *)
(* calls of gl-service in it: one breaker for the process, shared by all    *)
(* requests, whose calls overlap and end in any order.                      *)
(*                                                                         *)
(* The code compares time stamps with the clock; the model keeps their      *)
(* ages, which stop counting where no comparison can tell them apart.       *)
(***************************************************************************)
EXTENDS Naturals, Sequences, FiniteSets

CONSTANTS
  Calls,             \* the calls of execute() that may be in flight at once
  FailureThreshold,
  ResetTime,         \* in ticks
  HalfOpenMaxCalls,
  Window             \* how long a failure counts: 60 seconds, in ticks

VARIABLES
  state,
  failures,       \* the ages of the failures, oldest first
  lastOpened,     \* the age of lastOpenedAt
  halfOpenCalls,
  call,           \* whether each call runs
  service         \* gl-service, external: up, every call succeeds; else some fail

breakerVars == <<state, failures, lastOpened, halfOpenCalls, call, service>>

ASSUME BreakerAssumption ==
  /\ FailureThreshold \in Nat \ {0} /\ HalfOpenMaxCalls \in Nat \ {0}
  /\ ResetTime \in Nat /\ Window \in Nat \ {0}

BreakerTypeOK ==
  /\ state \in {"CLOSED", "OPEN", "HALF_OPEN"}
  /\ failures \in Seq(0 .. Window)
  /\ lastOpened \in 0 .. ResetTime
  /\ halfOpenCalls \in 0 .. HalfOpenMaxCalls
  /\ call \in [Calls -> {"idle", "running"}]
  /\ service \in {"up", "failing"}

BreakerInit ==
  /\ state = "CLOSED"
  /\ failures = <<>>
  /\ lastOpened = ResetTime
  /\ halfOpenCalls = 0
  /\ call = [c \in Calls |-> "idle"]
  /\ service = "up"

Older(age, limit) == IF age < limit THEN age + 1 ELSE age

Tick ==
  /\ failures' = [i \in DOMAIN failures |-> Older(failures[i], Window)]
  /\ lastOpened' = Older(lastOpened, ResetTime)
  /\ UNCHANGED <<state, halfOpenCalls, call, service>>

\* gl-service fails or refuses requests for a time, or is well again.
Outage ==
  /\ service' = IF service = "up" THEN "failing" ELSE "up"
  /\ UNCHANGED <<state, failures, lastOpened, halfOpenCalls, call>>

-----------------------------------------------------------------------------
(* execute, up to the await of the call                                     *)

Pass(c) ==
  /\ call[c] = "idle"
  /\ state = "CLOSED"
  /\ call' = [call EXCEPT ![c] = "running"]
  /\ UNCHANGED <<state, failures, lastOpened, halfOpenCalls, service>>

MayTry == state = "OPEN" /\ lastOpened >= ResetTime

\* The first call after the reset time makes the breaker HALF_OPEN and is its
\* first probe.
TryAgain(c) ==
  /\ call[c] = "idle"
  /\ MayTry
  /\ state' = "HALF_OPEN"
  /\ halfOpenCalls' = 1
  /\ call' = [call EXCEPT ![c] = "running"]
  /\ UNCHANGED <<failures, lastOpened, service>>

MayProbe == state = "HALF_OPEN" /\ halfOpenCalls < HalfOpenMaxCalls

Probe(c) ==
  /\ call[c] = "idle"
  /\ MayProbe
  /\ halfOpenCalls' = halfOpenCalls + 1
  /\ call' = [call EXCEPT ![c] = "running"]
  /\ UNCHANGED <<state, failures, lastOpened, service>>

-----------------------------------------------------------------------------
(* execute, after the call has ended; another call may have moved the breaker *)
(* meanwhile.                                                                *)

OnSuccess(c) ==
  /\ call[c] # "idle"
  /\ call' = [call EXCEPT ![c] = "idle"]
  /\ failures' = <<>>
  /\ state' = "CLOSED"
  /\ halfOpenCalls' = 0
  /\ UNCHANGED <<lastOpened, service>>

TooOld(s) == {i \in DOMAIN s : s[i] >= Window}

\* filter: what falls out of the window stands at the front, oldest first.
Recent(s) == SubSeq(s, Cardinality(TooOld(s)) + 1, Len(s))

\* Mutated form: the threshold is compared before the failure is counted.
Trips_BeforePush(s) == Len(s) > FailureThreshold

Trips(s) == Len(s) >= FailureThreshold

OnFailure(c) ==
  /\ call[c] # "idle" /\ service = "failing"
  /\ call' = [call EXCEPT ![c] = "idle"]
  /\ failures' = Recent(Append(failures, 0))
  /\ IF Trips(failures') THEN state' = "OPEN" /\ lastOpened' = 0
                         ELSE UNCHANGED <<state, lastOpened>>
  /\ UNCHANGED <<halfOpenCalls, service>>

\* Mutated form: CircuitOpenError is thrown inside the try and counted.
Reject_Counted(c) ==
  /\ call[c] = "idle"
  /\ state = "OPEN" /\ ~MayTry
  /\ failures' = Recent(Append(failures, 0))
  /\ lastOpened' = IF Trips(failures') THEN 0 ELSE lastOpened
  /\ UNCHANGED <<state, halfOpenCalls, call, service>>

\* CircuitOpenError: the call ends at once and leaves the breaker as it is.
Reject(c) ==
  /\ call[c] = "idle"
  /\ state # "CLOSED" /\ ~MayTry /\ ~MayProbe
  /\ UNCHANGED breakerVars

Arrive(c) == Pass(c) \/ TryAgain(c) \/ Probe(c)

End(c) == OnSuccess(c) \/ OnFailure(c)

BreakerNext ==
  \/ Tick
  \/ Outage
  \/ \E c \in Calls : Arrive(c) \/ End(c) \/ Reject(c)

BreakerSpec == BreakerInit /\ [][BreakerNext]_breakerVars

\* Time passes, requests keep coming, and fetch ends every call in the end, by an
\* answer or by its own timeout.
BreakerFairness ==
  /\ WF_breakerVars(Tick)
  /\ \A c \in Calls : WF_breakerVars(Arrive(c)) /\ WF_breakerVars(End(c))

FairBreakerSpec == BreakerSpec /\ BreakerFairness
-----------------------------------------------------------------------------
(* Properties                                                                *)

\* How many failures still count.
RecentFailures == Cardinality({i \in DOMAIN failures : failures[i] < Window})

(* The breaker trips whatever the order in which overlapping calls end: as long    *)
(* as it lets every call pass, fewer than failureThreshold failures lie within     *)
(* the window since the last success.                                              *)
ClosedMeansFewFailures ==
  state = "CLOSED" => RecentFailures < FailureThreshold

(* An open breaker does not stay open: as long as requests come it lets one try    *)
(* again, although calls that began before it opened may still fail and put the    *)
(* reset time off.                                                                 *)
OpenIsLeft == state = "OPEN" ~> state # "OPEN"
=============================================================================
