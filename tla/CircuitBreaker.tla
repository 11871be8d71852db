--------------------------- MODULE CircuitBreaker ---------------------------
(***************************************************************************)
(* The circuit breaker in front of the NVIDIA API                          *)
(* (util/circuit_breaker.py) with its two kinds of callers in              *)
(* routes/messages.py:                                                     *)
(*                                                                         *)
(*   - a non-streaming request goes through call(): admission, the         *)
(*     upstream call, then _on_success or _on_failure;                     *)
(*   - a streaming request only runs _before_call(); nothing reports that  *)
(*     it went well, and only an error met after the first item of the     *)
(*     stream is reported, by record_failure().                            *)
(*                                                                         *)
(* Every critical section of the breaker runs without a suspension point,  *)
(* so each of them is one action.  Time is the age of last_failure_time:   *)
(* the code only ever compares time.time() - last_failure_time with        *)
(* recovery_timeout, so ages past the timeout are one value.               *)
(***************************************************************************)
EXTENDS Naturals

CONSTANTS
  Calls,               \* non-streaming requests
  Streams,             \* streaming requests
  FailureThreshold,    \* CircuitBreakerConfig.failure_threshold
  SuccessThreshold,    \* CircuitBreakerConfig.success_threshold
  RecoveryTimeout,     \* CircuitBreakerConfig.recovery_timeout, in ticks
  HalfOpenMaxCalls,    \* CircuitBreakerConfig.half_open_max_calls
  CallsMayBeCancelled, \* may the task running call() be cancelled?
  OperatorControl,     \* are force_open() and force_close() used?
  None                 \* Python's None

ASSUME BreakerAssumption ==
  /\ Calls \cap Streams = {}
  /\ FailureThreshold \in Nat \ {0}
  /\ SuccessThreshold \in Nat \ {0}
  /\ RecoveryTimeout \in Nat
  /\ HalfOpenMaxCalls \in Nat \ {0}
  /\ CallsMayBeCancelled \in BOOLEAN
  /\ OperatorControl \in BOOLEAN
  /\ None \notin Nat

VARIABLES
  state,           \* CircuitState
  failures,        \* failures, saturated at FailureThreshold
  lastFailureAge,  \* now - last_failure_time, or None; saturated past the timeout
  halfOpenCalls,   \* half_open_calls
  successCalls,    \* _success_calls, saturated at SuccessThreshold
  pc,              \* what each request is doing
  upstream         \* is the NVIDIA API up?

breakerVars == <<state, failures, lastFailureAge, halfOpenCalls, successCalls>>

(***************************************************************************)
(* History variables.  No guard reads them.                                *)
(***************************************************************************)
VARIABLES
  failRun,  \* requests that failed in a row, reported to the breaker or not
  probesOk, \* successes reported since the circuit last changed state
  trialsOk, \* requests that went well since the circuit last changed state
  trials,   \* requests admitted in the current HALF_OPEN period
  quiet,    \* ticks since a failure was last reported (or force_open)
  unheard   \* how the requests ended that the breaker was not told of

historyVars == <<failRun, probesOk, trialsOk, trials, quiet, unheard>>
vars == <<breakerVars, pc, upstream, historyVars>>

Requests == Calls \cup Streams
CircuitState == {"CLOSED", "OPEN", "HALF_OPEN"}

\* Counting up to a cap: only comparisons with the cap are ever made.
Count(n, cap) == IF n < cap THEN n + 1 ELSE cap
Expired == RecoveryTimeout + 1

TypeOK ==
  /\ state \in CircuitState
  /\ failures \in 0..FailureThreshold
  /\ lastFailureAge \in 0..Expired \cup {None}
  /\ halfOpenCalls \in 0..HalfOpenMaxCalls
  /\ successCalls \in 0..SuccessThreshold
  /\ pc \in [Requests -> {"idle", "inflight"}]
  /\ upstream \in {"up", "down"}
  /\ failRun \in 0..FailureThreshold
  /\ probesOk \in 0..SuccessThreshold
  /\ trialsOk \in 0..SuccessThreshold
  /\ trials \in Nat
  /\ quiet \in 0..Expired
  /\ unheard \subseteq {"ok", "failed", "unknown"}

Init ==
  /\ state = "CLOSED"
  /\ failures = 0
  /\ lastFailureAge = None
  /\ halfOpenCalls = 0
  /\ successCalls = 0
  /\ pc = [r \in Requests |-> "idle"]
  /\ upstream = "up"
  /\ failRun = 0
  /\ probesOk = 0
  /\ trialsOk = 0
  /\ trials = 0
  /\ quiet = Expired
  /\ unheard = {}

-----------------------------------------------------------------------------
(***************************************************************************)
(* History bookkeeping.  went is how a request ended ("ok", "failed",      *)
(* "unknown") and told whether the breaker was told.                       *)
(***************************************************************************)
SinceStateChange(n, more) ==
  IF state' # state THEN 0 ELSE IF more THEN Count(n, SuccessThreshold) ELSE n

Observe(went, told) ==
  /\ failRun' = CASE went = "failed" -> Count(failRun, FailureThreshold)
                  [] went = "ok" -> 0
                  [] OTHER -> failRun
  /\ probesOk' = SinceStateChange(probesOk, went = "ok" /\ told)
  /\ trialsOk' = SinceStateChange(trialsOk, went = "ok")
  /\ quiet' = IF went = "failed" /\ told THEN 0 ELSE quiet
  /\ trials' = IF state' = "HALF_OPEN" THEN trials ELSE 0
  /\ unheard' = IF told THEN unheard ELSE unheard \cup {went}

-----------------------------------------------------------------------------
(***************************************************************************)
(* _before_call.  A refused request (CircuitBreakerOpenError) changes      *)
(* nothing, so refusal is the action not being enabled.                    *)
(***************************************************************************)
RecoveryDue ==
  \/ lastFailureAge = None
  \/ lastFailureAge > RecoveryTimeout

\* Mutant: the successes of the last half-open period still count.
BeginHalfOpenKeeping ==
  /\ state' = "HALF_OPEN"
  /\ halfOpenCalls' = 1
  /\ UNCHANGED successCalls

BeginHalfOpen ==
  /\ state' = "HALF_OPEN"
  /\ halfOpenCalls' = 1
  /\ successCalls' = 0

AdmitClosed ==
  /\ state = "CLOSED"
  /\ UNCHANGED <<state, halfOpenCalls, successCalls>>

AdmitHalfOpening ==
  /\ state = "OPEN"
  /\ RecoveryDue
  /\ BeginHalfOpen

\* Mutant: one probe too many.
AdmitHalfOpenOneMore ==
  /\ state = "HALF_OPEN"
  /\ halfOpenCalls <= HalfOpenMaxCalls
  /\ halfOpenCalls' = halfOpenCalls + 1
  /\ UNCHANGED <<state, successCalls>>

AdmitHalfOpen ==
  /\ state = "HALF_OPEN"
  /\ halfOpenCalls < HalfOpenMaxCalls
  /\ halfOpenCalls' = halfOpenCalls + 1
  /\ UNCHANGED <<state, successCalls>>

BeforeCall ==
  /\ AdmitClosed \/ AdmitHalfOpening \/ AdmitHalfOpen
  /\ UNCHANGED <<failures, lastFailureAge>>

\* call(): lines 83-85, and the stream's bare _before_call().
Admit(r) ==
  /\ pc[r] = "idle"
  /\ BeforeCall
  /\ pc' = [pc EXCEPT ![r] = "inflight"]
  /\ failRun' = failRun
  /\ probesOk' = SinceStateChange(probesOk, FALSE)
  /\ trialsOk' = SinceStateChange(trialsOk, FALSE)
  /\ trials' = CASE state' # "HALF_OPEN" -> 0
                 [] state = "HALF_OPEN" -> trials + 1
                 [] OTHER -> 1
  /\ UNCHANGED <<upstream, quiet, unheard>>

-----------------------------------------------------------------------------
CloseCircuit ==
  /\ state' = "CLOSED"
  /\ halfOpenCalls' = 0

\* Mutant: a success does not reset the failures of a closed circuit.
OnSuccessKeepingFailures ==
  /\ successCalls' = Count(successCalls, SuccessThreshold)
  /\ failures' = IF state = "HALF_OPEN" THEN 0 ELSE failures
  /\ IF state = "HALF_OPEN" /\ successCalls + 1 >= SuccessThreshold
       THEN CloseCircuit
       ELSE UNCHANGED <<state, halfOpenCalls>>
  /\ UNCHANGED lastFailureAge

\* Mutant: the state is not looked at, so a success that arrives while the
\* circuit is open may close it.
OnSuccessInAnyState ==
  /\ successCalls' = Count(successCalls, SuccessThreshold)
  /\ failures' = 0
  /\ IF successCalls + 1 >= SuccessThreshold
       THEN CloseCircuit
       ELSE UNCHANGED <<state, halfOpenCalls>>
  /\ UNCHANGED lastFailureAge

\* _on_success
OnSuccess ==
  /\ successCalls' = Count(successCalls, SuccessThreshold)
  /\ failures' = IF state = "OPEN" THEN failures ELSE 0
  /\ IF state = "HALF_OPEN" /\ successCalls + 1 >= SuccessThreshold
       THEN CloseCircuit
       ELSE UNCHANGED <<state, halfOpenCalls>>
  /\ UNCHANGED lastFailureAge

OpenCircuit ==
  /\ state' = "OPEN"
  /\ halfOpenCalls' = 0
  /\ successCalls' = 0

\* Mutant: the threshold is compared with the count before this failure.
OnFailureOneLate ==
  /\ failures' = Count(failures, FailureThreshold)
  /\ lastFailureAge' = 0
  /\ IF state = "HALF_OPEN" \/ failures >= FailureThreshold
       THEN OpenCircuit
       ELSE UNCHANGED <<state, halfOpenCalls, successCalls>>

\* Mutant: a failure that arrives while the circuit is open does not prolong
\* the pause.
OnFailureUnlessOpen ==
  /\ failures' = Count(failures, FailureThreshold)
  /\ lastFailureAge' = IF state = "OPEN" THEN lastFailureAge ELSE 0
  /\ IF state = "HALF_OPEN" \/ failures + 1 >= FailureThreshold
       THEN OpenCircuit
       ELSE UNCHANGED <<state, halfOpenCalls, successCalls>>

\* Mutant: a failed probe counts like any failure, so the circuit stays half
\* open with its slots used up.
OnFailureByCount ==
  /\ failures' = Count(IF state = "HALF_OPEN" THEN 0 ELSE failures, FailureThreshold)
  /\ lastFailureAge' = 0
  /\ IF failures' >= FailureThreshold
       THEN OpenCircuit
       ELSE UNCHANGED <<state, halfOpenCalls, successCalls>>

\* _on_failure, and record_failure, which only calls it
OnFailure ==
  /\ failures' = Count(failures, FailureThreshold)
  /\ lastFailureAge' = 0
  /\ IF state = "HALF_OPEN" \/ failures + 1 >= FailureThreshold
       THEN OpenCircuit
       ELSE UNCHANGED <<state, halfOpenCalls, successCalls>>

Finish(r) ==
  /\ pc[r] = "inflight"
  /\ pc' = [pc EXCEPT ![r] = "idle"]
  /\ UNCHANGED upstream

\* The upstream call returned with a status below 500.
CallSucceeds(r) ==
  /\ Finish(r)
  /\ upstream = "up"
  /\ OnSuccess
  /\ Observe("ok", TRUE)

\* The upstream call raised, or returned a status of 500 or more.
CallFails(r) ==
  /\ Finish(r)
  /\ upstream = "down"
  /\ OnFailure
  /\ Observe("failed", TRUE)

\* CancelledError is not an Exception: neither handler of call() runs.
CallCancelled(r) ==
  /\ CallsMayBeCancelled
  /\ Finish(r)
  /\ UNCHANGED breakerVars
  /\ Observe("unknown", FALSE)

\* gen() reaches "success - stop iterating the failover chain": nothing is
\* reported to the breaker.
StreamSucceeds(r) ==
  /\ Finish(r)
  /\ upstream = "up"
  /\ UNCHANGED breakerVars
  /\ Observe("ok", FALSE)

\* The error is the first item of the stream: an error event, no report.
StreamFailsFirst(r) ==
  /\ Finish(r)
  /\ upstream = "down"
  /\ UNCHANGED breakerVars
  /\ Observe("failed", FALSE)

\* A transport error or a status of 500 or more after the first item.
StreamFailsLater(r) ==
  /\ Finish(r)
  /\ upstream = "down"
  /\ OnFailure
  /\ Observe("failed", TRUE)

\* The client goes away while the stream is running.
StreamCancelled(r) ==
  /\ Finish(r)
  /\ UNCHANGED breakerVars
  /\ Observe("unknown", FALSE)

-----------------------------------------------------------------------------
ForceOpen ==
  /\ OperatorControl
  /\ OpenCircuit
  /\ lastFailureAge' = 0
  /\ UNCHANGED <<failures, pc, upstream, failRun, unheard>>
  /\ probesOk' = SinceStateChange(probesOk, FALSE)
  /\ trialsOk' = SinceStateChange(trialsOk, FALSE)
  /\ trials' = 0
  /\ quiet' = 0

ForceClose ==
  /\ OperatorControl
  /\ CloseCircuit
  /\ failures' = 0
  /\ lastFailureAge' = None
  /\ successCalls' = 0
  /\ UNCHANGED <<pc, upstream, quiet, unheard>>
  /\ failRun' = 0
  /\ probesOk' = SinceStateChange(probesOk, FALSE)
  /\ trialsOk' = SinceStateChange(trialsOk, FALSE)
  /\ trials' = 0

\* Time passes.
Tick ==
  /\ lastFailureAge' = IF lastFailureAge = None THEN None
                       ELSE Count(lastFailureAge, Expired)
  /\ quiet' = Count(quiet, Expired)
  /\ UNCHANGED <<state, failures, halfOpenCalls, successCalls, pc, upstream,
                 failRun, probesOk, trialsOk, trials, unheard>>

\* The NVIDIA API breaks down or comes back.
UpstreamDown ==
  /\ upstream = "up"
  /\ upstream' = "down"
  /\ UNCHANGED <<breakerVars, pc, historyVars>>

UpstreamUp ==
  /\ upstream = "down"
  /\ upstream' = "up"
  /\ UNCHANGED <<breakerVars, pc, historyVars>>

CallStep(r) == Admit(r) \/ CallSucceeds(r) \/ CallFails(r) \/ CallCancelled(r)

StreamStep(r) ==
  \/ Admit(r)
  \/ StreamSucceeds(r) \/ StreamFailsFirst(r) \/ StreamFailsLater(r)
  \/ StreamCancelled(r)

Next ==
  \/ \E r \in Calls : CallStep(r)
  \/ \E r \in Streams : StreamStep(r)
  \/ ForceOpen \/ ForceClose
  \/ Tick \/ UpstreamDown \/ UpstreamUp

Spec == Init /\ [][Next]_vars

(***************************************************************************)
(* Fairness: time passes; non-streaming clients keep coming back, so an    *)
(* admissible call is admitted (nothing says that a streaming client ever  *)
(* comes); and an admitted request ends, which is an assumption on the     *)
(* NVIDIA API: no timeout of the client bounds its answers (NvidiaClient   *)
(* sets read=None).                                                        *)
(***************************************************************************)
Fairness ==
  /\ WF_vars(Tick)
  /\ \A r \in Calls : /\ WF_vars(Admit(r))
                      /\ WF_vars(CallSucceeds(r) \/ CallFails(r))
  /\ \A r \in Streams : WF_vars(StreamSucceeds(r) \/ StreamFailsFirst(r)
                                   \/ StreamFailsLater(r))

FairSpec == Spec /\ Fairness

-----------------------------------------------------------------------------
(***************************************************************************)
(* Properties                                                              *)
(***************************************************************************)

\* The breaker was told of every request that went well or failed.
ResultsHeard == unheard \subseteq {"unknown"}

\* An outage opens the circuit: as many requests in a row as
\* failure_threshold cannot fail while the circuit stays closed, if the
\* breaker hears of the results (_on_failure and its callers).
OutageOpens == ResultsHeard /\ failRun >= FailureThreshold => state # "CLOSED"

\* Probing is bounded: between two changes of state, no more requests are
\* let through a half-open circuit than half_open_max_calls, whatever is
\* still running from an earlier period (_before_call).
ProbingIsBounded == state = "HALF_OPEN" => trials <= HalfOpenMaxCalls

\* Enough successes in half-open close the circuit: a circuit that is still
\* half open has seen fewer successful requests than success_threshold, if it
\* hears of the results.
EnoughSuccessesClose ==
  ResultsHeard /\ state = "HALF_OPEN" => trialsOk < SuccessThreshold

\* A closed circuit opens only when failure_threshold requests in a row have
\* failed, if it hears of the results, or an operator opens it.
OpensOnlyOnConsecutiveFailures ==
  [][ResultsHeard /\ state = "CLOSED" /\ state' = "OPEN"
       => failRun' >= FailureThreshold \/ ForceOpen]_vars

\* A circuit that tripped is closed again only after success_threshold
\* successes were reported during one uninterrupted half-open period; results
\* that arrived while it was open do not count (_on_success).
ClosesOnlyAfterProbes ==
  [][state # "CLOSED" /\ state' = "CLOSED"
       => ForceClose \/ (state = "HALF_OPEN" /\ probesOk + 1 >= SuccessThreshold)]_vars

\* An open circuit admits its first probe only after more than
\* recovery_timeout without a reported failure: a late failure of a request
\* admitted earlier prolongs the pause (_on_failure, _before_call).
ProbesOnlyAfterQuiet ==
  [][state = "OPEN" /\ state' = "HALF_OPEN" => quiet > RecoveryTimeout]_vars

\* The breaker's counters mean what their names say: while it is open the age
\* of the last failure is the length of the quiet period; while it is half
\* open half_open_calls counts the probes and _success_calls the probes that
\* went well; while it is closed the failures are below the threshold, and,
\* when it hears of every result, they are the consecutive ones.  This is the
\* strengthening the proofs use.
CountersAreAccurate ==
  /\ state = "OPEN" => lastFailureAge = quiet
  /\ trials = halfOpenCalls
  /\ state # "HALF_OPEN" => halfOpenCalls = 0
  /\ state = "HALF_OPEN" => successCalls = probesOk /\ probesOk < SuccessThreshold
  /\ state = "CLOSED" => failures < FailureThreshold
  /\ ResultsHeard => /\ state = "CLOSED" => failures = failRun
                     /\ state = "HALF_OPEN" => probesOk = trialsOk

\* A circuit that tripped closes again once the upstream stays up, if the
\* breaker is told how every request ended and no operator keeps it open.
\* Only calls that are not cancelled, and streams that fail after their first
\* item, tell it; a stream that goes well never does.  The fairness lets the
\* streaming clients stay away for good and cancels nothing, so behaviours
\* that recover meet the premise.
Recovers ==
  [](unheard = {}) /\ <>[](upstream = "up") /\ <>[][~ForceOpen]_vars
    => []<>(state = "CLOSED")

\* The same, whether the breaker is told or not.
AlwaysRecovers == <>[](upstream = "up") => []<>(state = "CLOSED")

=============================================================================
