--------------------------- MODULE UpstreamProofs ---------------------------
(***************************************************************************)
(* Proofs about what stands between the proxy and the upstream, for every  *)
(* configuration: the circuit breaker, and the client with its retries and *)
(* its decoder of server-sent events.                                      *)
(*                                                                         *)
(* The circuit breaker, for every set of requests: the type invariant, the *)
(* accuracy of its counters, and the safety properties that rest on it.    *)
(*                                                                         *)
(* The retries: the answers so far count the attempts (Posting).           *)
(*                                                                         *)
(* The decoder, for every payload, any number of lines and every cut of    *)
(* the bytes.  Reader and decoder do not go in step: the one takes a byte, *)
(* the other an event.  They meet right after a separator, where the       *)
(* reader has neither a line nor data lines begun; the invariant           *)
(* (Streaming) says that the buffer starts at such a point of all that the *)
(* upstream sends, and how far the generator is with the events before it. *)
(* From there to the next separator both see the same lines (ScanRaw), and *)
(* a blank line in between can only be the first (BlankIsFirst).           *)
(*                                                                         *)
(* The reference definitions are recursive functions.  That there are such *)
(* functions, and what they have at each point, is shown once and for all  *)
(* by least counterexample (Recursion, Climb).                             *)
(***************************************************************************)
EXTENDS CircuitBreaker, UpstreamClient, SequenceTheorems, NaturalsInduction,
        WellFoundedInduction, TLAPS

\* Count stays within its cap and, below the cap, adds one (the counters of
\* CircuitBreaker as far as its comparisons can tell them apart).
LEMMA CountType ==
  ASSUME NEW cap \in Nat, NEW n \in 0..cap
  PROVE  /\ Count(n, cap) \in 0..cap
         /\ n < cap => Count(n, cap) = n + 1
         /\ n = cap => Count(n, cap) = cap
  BY DEF Count

\* A history counter kept since the last change of state stays in range.
LEMMA SinceType ==
  ASSUME BreakerAssumption, NEW n \in 0..SuccessThreshold, NEW b \in BOOLEAN
  PROVE  SinceStateChange(n, b) \in 0..SuccessThreshold
  BY CountType DEF SinceStateChange, BreakerAssumption

\* The history of a finished request stays in range.
LEMMA ObserveType ==
  ASSUME TypeOK, NEW went \in {"ok", "failed", "unknown"}, NEW told \in BOOLEAN,
         Observe(went, told)
  PROVE  /\ failRun' \in 0..FailureThreshold
         /\ probesOk' \in 0..SuccessThreshold
         /\ trialsOk' \in 0..SuccessThreshold
         /\ trials' \in Nat
         /\ quiet' \in 0..Expired
         /\ unheard' \subseteq {"ok", "failed", "unknown"}
  <1> USE BreakerAssumption
  <1>1. failRun' \in 0..FailureThreshold
    BY CountType DEF Observe, TypeOK, BreakerAssumption
  <1>2. probesOk' \in 0..SuccessThreshold /\ trialsOk' \in 0..SuccessThreshold
    BY SinceType DEF Observe, TypeOK
  <1>3. trials' \in Nat
    BY DEF Observe, TypeOK
  <1>4. quiet' \in 0..Expired
    BY DEF Observe, TypeOK, Expired, BreakerAssumption
  <1>5. unheard' \subseteq {"ok", "failed", "unknown"}
    BY DEF Observe, TypeOK
  <1> QED BY <1>1, <1>2, <1>3, <1>4, <1>5

\* The breaker's own variables keep their types under _on_success.
LEMMA OnSuccessType ==
  ASSUME TypeOK, OnSuccess
  PROVE  /\ state' \in CircuitState
         /\ failures' \in 0..FailureThreshold
         /\ lastFailureAge' \in 0..Expired \cup {None}
         /\ halfOpenCalls' \in 0..HalfOpenMaxCalls
         /\ successCalls' \in 0..SuccessThreshold
  <1>1. successCalls' \in 0..SuccessThreshold
    BY BreakerAssumption, CountType DEF OnSuccess, TypeOK, BreakerAssumption
  <1>2. state' \in CircuitState /\ halfOpenCalls' \in 0..HalfOpenMaxCalls
    BY BreakerAssumption
       DEF OnSuccess, CloseCircuit, TypeOK, BreakerAssumption, CircuitState
  <1>3. failures' \in 0..FailureThreshold /\ lastFailureAge' \in 0..Expired \cup {None}
    BY BreakerAssumption DEF OnSuccess, TypeOK, BreakerAssumption
  <1> QED BY <1>1, <1>2, <1>3

\* The breaker's own variables keep their types under _on_failure.
LEMMA OnFailureType ==
  ASSUME TypeOK, OnFailure
  PROVE  /\ state' \in CircuitState
         /\ failures' \in 0..FailureThreshold
         /\ lastFailureAge' \in 0..Expired \cup {None}
         /\ halfOpenCalls' \in 0..HalfOpenMaxCalls
         /\ successCalls' \in 0..SuccessThreshold
  <1>1. failures' \in 0..FailureThreshold
    BY BreakerAssumption, CountType DEF OnFailure, TypeOK, BreakerAssumption
  <1>2. lastFailureAge' \in 0..Expired \cup {None}
    BY BreakerAssumption DEF OnFailure, Expired, BreakerAssumption
  <1>3. /\ state' \in CircuitState
        /\ halfOpenCalls' \in 0..HalfOpenMaxCalls
        /\ successCalls' \in 0..SuccessThreshold
    BY BreakerAssumption
       DEF OnFailure, OpenCircuit, TypeOK, BreakerAssumption, CircuitState
  <1> QED BY <1>1, <1>2, <1>3

\* Type correctness of the breaker (util/circuit_breaker.py) and of the
\* requests that use it.
THEOREM TypeCorrect == Spec => []TypeOK
  <1> USE BreakerAssumption
  <1>1. Init => TypeOK
    BY DEF Init, TypeOK, CircuitState, Expired, BreakerAssumption
  <1>2. TypeOK /\ [Next]_vars => TypeOK'
    <2> SUFFICES ASSUME TypeOK, [Next]_vars PROVE TypeOK'
      OBVIOUS
    <2>1. ASSUME NEW r \in Requests, Admit(r) PROVE TypeOK'
      <3>1. /\ state' \in CircuitState
            /\ halfOpenCalls' \in 0..HalfOpenMaxCalls
            /\ successCalls' \in 0..SuccessThreshold
        BY <2>1 DEF Admit, BeforeCall, AdmitClosed, AdmitHalfOpening, AdmitHalfOpen,
                    BeginHalfOpen, TypeOK, CircuitState, BreakerAssumption
      <3>2. /\ failures' \in 0..FailureThreshold
            /\ lastFailureAge' \in 0..Expired \cup {None}
            /\ pc' \in [Requests -> {"idle", "inflight"}]
            /\ upstream' \in {"up", "down"}
        BY <2>1 DEF Admit, BeforeCall, TypeOK
      <3>3. probesOk' \in 0..SuccessThreshold /\ trialsOk' \in 0..SuccessThreshold
        BY <2>1, SinceType DEF Admit, TypeOK
      <3>4. /\ failRun' \in 0..FailureThreshold /\ quiet' \in 0..Expired
            /\ trials' \in Nat /\ unheard' = unheard
        BY <2>1 DEF Admit, TypeOK
      <3> QED BY <3>1, <3>2, <3>3, <3>4 DEF TypeOK
    <2>2. ASSUME NEW r \in Requests, Finish(r), OnSuccess, Observe("ok", TRUE)
          PROVE  TypeOK'
      BY <2>2, OnSuccessType, ObserveType DEF Finish, TypeOK
    <2>3. ASSUME NEW r \in Requests, Finish(r), OnFailure, Observe("failed", TRUE)
          PROVE  TypeOK'
      BY <2>3, OnFailureType, ObserveType DEF Finish, TypeOK
    <2>4. ASSUME NEW r \in Requests, Finish(r), UNCHANGED breakerVars,
                 NEW went \in {"ok", "failed", "unknown"}, Observe(went, FALSE)
          PROVE  TypeOK'
      BY <2>4, ObserveType DEF Finish, TypeOK, breakerVars
    <2>5. CASE ForceOpen
      <3>1. probesOk' \in 0..SuccessThreshold /\ trialsOk' \in 0..SuccessThreshold
        BY <2>5, SinceType DEF ForceOpen, TypeOK
      <3>2. /\ state' \in CircuitState
            /\ halfOpenCalls' \in 0..HalfOpenMaxCalls
            /\ successCalls' \in 0..SuccessThreshold
            /\ lastFailureAge' \in 0..Expired
            /\ quiet' \in 0..Expired
            /\ trials' \in Nat
        BY <2>5 DEF ForceOpen, OpenCircuit, CircuitState, Expired, BreakerAssumption
      <3>3. UNCHANGED <<failures, pc, upstream, failRun, unheard>>
        BY <2>5 DEF ForceOpen
      <3> QED BY <3>1, <3>2, <3>3 DEF TypeOK
    <2>6. CASE ForceClose
      <3>1. probesOk' \in 0..SuccessThreshold /\ trialsOk' \in 0..SuccessThreshold
        BY <2>6, SinceType DEF ForceClose, TypeOK
      <3>2. /\ state' \in CircuitState
            /\ halfOpenCalls' \in 0..HalfOpenMaxCalls
            /\ successCalls' \in 0..SuccessThreshold
            /\ lastFailureAge' \in 0..Expired \cup {None}
            /\ failures' \in 0..FailureThreshold
            /\ failRun' \in 0..FailureThreshold
            /\ trials' \in Nat
        BY <2>6 DEF ForceClose, CloseCircuit, CircuitState, Expired, BreakerAssumption
      <3>3. UNCHANGED <<pc, upstream, quiet, unheard>>
        BY <2>6 DEF ForceClose
      <3> QED BY <3>1, <3>2, <3>3 DEF TypeOK
    <2>7. CASE Tick
      <3>1. lastFailureAge' \in 0..Expired \cup {None} /\ quiet' \in 0..Expired
        BY <2>7, CountType DEF Tick, TypeOK, Expired, BreakerAssumption
      <3> QED BY <2>7, <3>1 DEF Tick, TypeOK
    <2>8. CASE UpstreamDown \/ UpstreamUp
      BY <2>8 DEF UpstreamDown, UpstreamUp, TypeOK, breakerVars, historyVars
    <2>9. CASE UNCHANGED vars
      BY <2>9 DEF vars, TypeOK, breakerVars, historyVars
    <2> QED
      BY <2>1, <2>2, <2>3, <2>4, <2>5, <2>6, <2>7, <2>8, <2>9
         DEF Next, CallStep, StreamStep, CallSucceeds, CallFails, CallCancelled,
             StreamSucceeds, StreamFailsFirst, StreamFailsLater, StreamCancelled, Requests
  <1> QED BY <1>1, <1>2, PTL DEF Spec

-----------------------------------------------------------------------------
\* What a request's end does to the accuracy of the counters, when the breaker
\* hears of a success.
LEMMA SuccessAccurate ==
  ASSUME TypeOK, CountersAreAccurate, OnSuccess, Observe("ok", TRUE)
  PROVE  CountersAreAccurate'
  <1> USE BreakerAssumption
  <1> USE DEF BreakerAssumption
  <1>0. ResultsHeard' => ResultsHeard
    BY DEF Observe, ResultsHeard
  <1>1. CASE state = "HALF_OPEN" /\ successCalls + 1 >= SuccessThreshold
    <2>1. state' = "CLOSED" /\ failures' = 0 /\ halfOpenCalls' = 0
      BY <1>1 DEF OnSuccess, CloseCircuit
    <2>2. failRun' = 0 /\ trials' = 0
      BY <2>1 DEF Observe
    <2> QED BY <2>1, <2>2 DEF CountersAreAccurate
  <1>2. CASE state = "HALF_OPEN" /\ successCalls + 1 < SuccessThreshold
    <2>1. UNCHANGED <<state, halfOpenCalls>> /\ failures' = 0
      BY <1>2 DEF OnSuccess, TypeOK
    <2>2. successCalls' = successCalls + 1
      BY <1>2 DEF OnSuccess, TypeOK, Count
    <2>3. probesOk' = probesOk + 1 /\ (probesOk = trialsOk => trialsOk' = trialsOk + 1)
      BY <1>2, <2>1 DEF Observe, SinceStateChange, Count, CountersAreAccurate, TypeOK
    <2>4. trials' = trials
      BY <1>2, <2>1 DEF Observe
    <2> QED BY <1>0, <1>2, <2>1, <2>2, <2>3, <2>4 DEF CountersAreAccurate, TypeOK
  <1>3. CASE state # "HALF_OPEN"
    <2>1. /\ UNCHANGED <<state, halfOpenCalls, lastFailureAge>>
          /\ state = "CLOSED" => failures' = 0
      BY <1>3 DEF OnSuccess
    <2>2. failRun' = 0 /\ quiet' = quiet /\ trials' = 0
      BY <1>3, <2>1 DEF Observe
    <2> QED BY <1>0, <1>3, <2>1, <2>2 DEF CountersAreAccurate, TypeOK
  <1> QED BY <1>1, <1>2, <1>3 DEF TypeOK

\* The same when the breaker hears of a failure.
LEMMA FailureAccurate ==
  ASSUME TypeOK, CountersAreAccurate, OnFailure, Observe("failed", TRUE)
  PROVE  CountersAreAccurate'
  <1> USE BreakerAssumption
  <1> USE DEF BreakerAssumption
  <1>0. ResultsHeard' => ResultsHeard
    BY DEF Observe, ResultsHeard
  <1>1. CASE state = "HALF_OPEN" \/ failures + 1 >= FailureThreshold
    <2>1. state' = "OPEN" /\ halfOpenCalls' = 0 /\ lastFailureAge' = 0
      BY <1>1 DEF OnFailure, OpenCircuit
    <2>2. quiet' = 0 /\ trials' = 0
      BY <2>1 DEF Observe
    <2> QED BY <2>1, <2>2 DEF CountersAreAccurate
  <1>2. CASE ~(state = "HALF_OPEN" \/ failures + 1 >= FailureThreshold)
    <2>1. UNCHANGED <<state, halfOpenCalls>> /\ lastFailureAge' = 0
      BY <1>2 DEF OnFailure
    <2>2. failures' = failures + 1
      BY <1>2 DEF OnFailure, Count, TypeOK
    <2>3. failures = failRun => failRun' = failRun + 1
      BY <1>2 DEF Observe, Count, TypeOK
    <2>4. quiet' = 0 /\ trials' = 0
      BY <1>2, <2>1 DEF Observe
    <2> QED BY <1>0, <1>2, <2>1, <2>2, <2>3, <2>4 DEF CountersAreAccurate, TypeOK
  <1> QED BY <1>1, <1>2

\* The same when the breaker hears nothing: a cancelled request, or a stream
\* that ends without a report.
LEMMA SilenceAccurate ==
  ASSUME TypeOK, CountersAreAccurate, UNCHANGED breakerVars,
         NEW went \in {"ok", "failed", "unknown"}, Observe(went, FALSE)
  PROVE  CountersAreAccurate'
  <1>1. /\ UNCHANGED <<state, failures, lastFailureAge, halfOpenCalls, successCalls>>
        /\ UNCHANGED <<quiet, probesOk>>
        /\ trials' = IF state = "HALF_OPEN" THEN trials ELSE 0
    BY DEF breakerVars, Observe, SinceStateChange
  <1>2. ResultsHeard' => ResultsHeard /\ went = "unknown"
    BY DEF Observe, ResultsHeard
  <1>3. went = "unknown" => UNCHANGED <<failRun, trialsOk>>
    BY DEF breakerVars, Observe, SinceStateChange
  <1> QED BY <1>1, <1>2, <1>3 DEF CountersAreAccurate

\* The same when a request is admitted.
LEMMA AdmitAccurate ==
  ASSUME TypeOK, CountersAreAccurate, NEW r \in Requests, Admit(r)
  PROVE  CountersAreAccurate'
  <1> USE BreakerAssumption
  <1> USE DEF BreakerAssumption
  <1>0. ResultsHeard' <=> ResultsHeard
    BY DEF Admit, ResultsHeard
  <1>1. CASE AdmitClosed
    <2>1. /\ state = "CLOSED"
          /\ UNCHANGED <<state, halfOpenCalls, successCalls, failures, lastFailureAge>>
      BY <1>1 DEF AdmitClosed, Admit, BeforeCall
    <2>2. UNCHANGED <<failRun, quiet>> /\ trials' = 0
      BY <2>1 DEF Admit
    <2> QED BY <1>0, <2>1, <2>2 DEF CountersAreAccurate
  <1>2. CASE AdmitHalfOpening
    <2>1. state = "OPEN" /\ state' = "HALF_OPEN" /\ halfOpenCalls' = 1 /\ successCalls' = 0
      BY <1>2 DEF AdmitHalfOpening, BeginHalfOpen
    <2>2. probesOk' = 0 /\ trialsOk' = 0 /\ trials' = 1
      BY <2>1 DEF Admit, SinceStateChange
    <2> QED BY <1>0, <2>1, <2>2 DEF CountersAreAccurate
  <1>3. CASE AdmitHalfOpen
    <2>1. /\ state = "HALF_OPEN" /\ halfOpenCalls' = halfOpenCalls + 1
          /\ UNCHANGED <<state, successCalls>>
      BY <1>3 DEF AdmitHalfOpen
    <2>2. UNCHANGED <<probesOk, trialsOk>> /\ trials' = trials + 1
      BY <2>1 DEF Admit, SinceStateChange
    <2> QED BY <1>0, <2>1, <2>2 DEF CountersAreAccurate
  <1> QED BY <1>1, <1>2, <1>3 DEF Admit, BeforeCall

\* Every step of the system keeps the counters accurate.
LEMMA StepAccurate == TypeOK /\ CountersAreAccurate /\ [Next]_vars => CountersAreAccurate'
  <1> SUFFICES ASSUME TypeOK, CountersAreAccurate, [Next]_vars
               PROVE  CountersAreAccurate'
    OBVIOUS
  <1> USE BreakerAssumption
  <1>1. ASSUME NEW r \in Calls, CallStep(r) PROVE CountersAreAccurate'
    BY <1>1, AdmitAccurate, SuccessAccurate, FailureAccurate, SilenceAccurate
       DEF CallStep, CallSucceeds, CallFails, CallCancelled, Requests
  <1>2. ASSUME NEW r \in Streams, StreamStep(r) PROVE CountersAreAccurate'
    BY <1>2, AdmitAccurate, FailureAccurate, SilenceAccurate
       DEF StreamStep, StreamSucceeds, StreamFailsFirst, StreamFailsLater,
           StreamCancelled, Requests
  <1>3. CASE ForceOpen
    BY <1>3 DEF ForceOpen, OpenCircuit, CountersAreAccurate
  <1>4. CASE ForceClose
    BY <1>4 DEF ForceClose, CloseCircuit, CountersAreAccurate, BreakerAssumption
  <1>5. CASE Tick
    <2>1. UNCHANGED <<state, failures, halfOpenCalls, successCalls, failRun,
                      probesOk, trialsOk, trials, unheard>>
      BY <1>5 DEF Tick
    <2>2. lastFailureAge = quiet => lastFailureAge' = quiet'
      BY <1>5 DEF Tick, TypeOK, BreakerAssumption, Expired
    <2> QED BY <2>1, <2>2 DEF CountersAreAccurate, ResultsHeard
  <1>6. CASE UpstreamDown \/ UpstreamUp \/ UNCHANGED vars
    BY <1>6 DEF UpstreamDown, UpstreamUp, vars, breakerVars, historyVars,
               CountersAreAccurate, ResultsHeard
  <1> QED BY <1>1, <1>2, <1>3, <1>4, <1>5, <1>6 DEF Next

-----------------------------------------------------------------------------
\* The counters of the breaker are accurate in every reachable state
\* (_before_call, _on_success, _on_failure, force_open, force_close).
THEOREM CountersAccurate == Spec => []CountersAreAccurate
  <1>1. Init => CountersAreAccurate
    BY BreakerAssumption DEF Init, CountersAreAccurate, BreakerAssumption
  <1> QED BY <1>1, StepAccurate, TypeCorrect, PTL DEF Spec

\* A half-open circuit never lets more than half_open_max_calls requests
\* through, with any mix of callers, cancellations and late results.
THEOREM ProbingBounded == Spec => []ProbingIsBounded
  <1>1. TypeOK /\ CountersAreAccurate => ProbingIsBounded
    BY BreakerAssumption DEF TypeOK, CountersAreAccurate, ProbingIsBounded, BreakerAssumption
  <1> QED BY <1>1, TypeCorrect, CountersAccurate, PTL

\* An outage opens the circuit of a breaker that hears of every result, as
\* call() sees to.
THEOREM OutageOpensCircuit == Spec => []OutageOpens
  <1>1. TypeOK /\ CountersAreAccurate => OutageOpens
    BY BreakerAssumption
       DEF TypeOK, CountersAreAccurate, OutageOpens, BreakerAssumption
  <1> QED BY <1>1, TypeCorrect, CountersAccurate, PTL

\* Enough successes close the half-open circuit of a breaker that hears of
\* every result.
THEOREM SuccessesCloseCircuit == Spec => []EnoughSuccessesClose
  <1>1. TypeOK /\ CountersAreAccurate => EnoughSuccessesClose
    BY BreakerAssumption
       DEF TypeOK, CountersAreAccurate, EnoughSuccessesClose, BreakerAssumption
  <1> QED BY <1>1, TypeCorrect, CountersAccurate, PTL

\* A step from CLOSED to OPEN is a reported failure or force_open.
LEMMA OpeningSteps ==
  ASSUME TypeOK, Next, state = "CLOSED", state' = "OPEN"
  PROVE  ForceOpen \/ (OnFailure /\ Observe("failed", TRUE))
  <1>1. ASSUME NEW r \in Requests, Admit(r) PROVE FALSE
    BY <1>1 DEF Admit, BeforeCall, AdmitClosed, AdmitHalfOpening, AdmitHalfOpen, BeginHalfOpen
  <1>2. ASSUME OnSuccess PROVE FALSE
    BY <1>2 DEF OnSuccess, CloseCircuit
  <1> QED
    BY <1>1, <1>2
       DEF Next, CallStep, StreamStep, CallSucceeds, CallFails, CallCancelled,
           StreamSucceeds, StreamFailsFirst, StreamFailsLater, StreamCancelled,
           ForceClose, CloseCircuit, Tick, UpstreamDown, UpstreamUp, breakerVars, Requests

\* A breaker that hears of every result opens a closed circuit only when
\* failure_threshold requests in a row have failed, or an operator opens it.
THEOREM OpensOnConsecutiveFailures == Spec => OpensOnlyOnConsecutiveFailures
  <1>1. TypeOK /\ CountersAreAccurate /\ [Next]_vars
          => [ResultsHeard /\ state = "CLOSED" /\ state' = "OPEN"
                => failRun' >= FailureThreshold \/ ForceOpen]_vars
    <2> SUFFICES ASSUME TypeOK, CountersAreAccurate, Next,
                        ResultsHeard, state = "CLOSED", state' = "OPEN", ~ForceOpen
                 PROVE  failRun' >= FailureThreshold
      OBVIOUS
    <2>1. OnFailure /\ Observe("failed", TRUE)
      BY OpeningSteps
    <2>2. failures + 1 >= FailureThreshold
      BY <2>1 DEF OnFailure
    <2>3. failures = failRun
      BY DEF CountersAreAccurate
    <2> QED BY <2>1, <2>2, <2>3, BreakerAssumption
            DEF Observe, Count, TypeOK, BreakerAssumption
  <1> QED
    BY <1>1, TypeCorrect, CountersAccurate, PTL DEF Spec, OpensOnlyOnConsecutiveFailures

\* A step into CLOSED is force_close or the success that completes a
\* half-open period.
LEMMA ClosingSteps ==
  ASSUME TypeOK, Next, state # "CLOSED", state' = "CLOSED"
  PROVE  ForceClose \/ OnSuccess
  <1>1. ASSUME NEW r \in Requests, Admit(r) PROVE FALSE
    BY <1>1 DEF Admit, BeforeCall, AdmitClosed, AdmitHalfOpening, AdmitHalfOpen, BeginHalfOpen
  <1>2. ASSUME OnFailure PROVE FALSE
    BY <1>2 DEF OnFailure, OpenCircuit
  <1> QED
    BY <1>1, <1>2
       DEF Next, CallStep, StreamStep, CallSucceeds, CallFails, CallCancelled,
           StreamSucceeds, StreamFailsFirst, StreamFailsLater, StreamCancelled,
           ForceOpen, OpenCircuit, Tick, UpstreamDown, UpstreamUp, breakerVars, Requests

\* A tripped circuit closes only after success_threshold successes reported
\* in one half-open period, whatever late results arrive.
THEOREM ClosesAfterProbes == Spec => ClosesOnlyAfterProbes
  <1>1. TypeOK /\ CountersAreAccurate /\ [Next]_vars
          => [state # "CLOSED" /\ state' = "CLOSED"
                => ForceClose \/ (state = "HALF_OPEN" /\ probesOk + 1 >= SuccessThreshold)]_vars
    <2> SUFFICES ASSUME TypeOK, CountersAreAccurate, Next,
                        state # "CLOSED", state' = "CLOSED", ~ForceClose
                 PROVE  state = "HALF_OPEN" /\ probesOk + 1 >= SuccessThreshold
      OBVIOUS
    <2>1. OnSuccess
      BY ClosingSteps
    <2>2. state = "HALF_OPEN" /\ successCalls + 1 >= SuccessThreshold
      BY <2>1 DEF OnSuccess
    <2> QED BY <2>2 DEF CountersAreAccurate
  <1> QED
    BY <1>1, TypeCorrect, CountersAccurate, PTL DEF Spec, ClosesOnlyAfterProbes

\* A step from OPEN to HALF_OPEN is the admission of a request.
LEMMA HalfOpeningSteps ==
  ASSUME TypeOK, Next, state = "OPEN", state' = "HALF_OPEN"
  PROVE  RecoveryDue
  <1>1. ASSUME NEW r \in Requests, Admit(r) PROVE RecoveryDue
    BY <1>1 DEF Admit, BeforeCall, AdmitClosed, AdmitHalfOpening, AdmitHalfOpen
  <1>2. ASSUME OnFailure PROVE FALSE
    BY <1>2 DEF OnFailure, OpenCircuit
  <1>3. ASSUME OnSuccess PROVE FALSE
    BY <1>3 DEF OnSuccess, CloseCircuit
  <1> QED
    BY <1>1, <1>2, <1>3
       DEF Next, CallStep, StreamStep, CallSucceeds, CallFails, CallCancelled,
           StreamSucceeds, StreamFailsFirst, StreamFailsLater, StreamCancelled,
           ForceOpen, OpenCircuit, ForceClose, CloseCircuit, Tick, UpstreamDown,
           UpstreamUp, breakerVars, Requests

\* An open circuit starts probing only after more than recovery_timeout
\* without a reported failure.
THEOREM ProbesAfterQuiet == Spec => ProbesOnlyAfterQuiet
  <1>1. TypeOK /\ CountersAreAccurate /\ [Next]_vars
          => [state = "OPEN" /\ state' = "HALF_OPEN" => quiet > RecoveryTimeout]_vars
    <2> SUFFICES ASSUME TypeOK, CountersAreAccurate, Next,
                        state = "OPEN", state' = "HALF_OPEN"
                 PROVE  quiet > RecoveryTimeout
      OBVIOUS
    <2>1. RecoveryDue
      BY HalfOpeningSteps
    <2>2. lastFailureAge = quiet /\ quiet \in Nat
      BY BreakerAssumption DEF CountersAreAccurate, TypeOK, Expired, BreakerAssumption
    <2> QED BY <2>1, <2>2, BreakerAssumption DEF RecoveryDue, BreakerAssumption
  <1> QED
    BY <1>1, TypeCorrect, CountersAccurate, PTL DEF Spec, ProbesOnlyAfterQuiet
-----------------------------------------------------------------------------
\* How a call of chat_completions stands: every POST but the last was worth
\* another attempt, and attempt counts them.
Posting ==
  /\ mode = "post" => stage \in {"sending", "sleeping", "done"}
  /\ mode = "stream" => ends = <<>>
  /\ ends \in Seq(Statuses \cup RetryErrors \cup OtherErrors)
  /\ mode = "post" =>
       /\ attempt \in 1..(MaxRetries + 1)
       /\ stage = "sending" => Len(ends) = attempt - 1
       /\ stage \in {"sleeping", "done"} => Len(ends) = attempt
       /\ stage = "sleeping" => attempt <= MaxRetries
       /\ stage # "done" => \A i \in DOMAIN ends : ends[i] \in RetryErrors \cup RetryStatuses
  /\ mode \in {"post", "stream"}

PostingInv == Posting /\ RetriesAreJustified

\* No POST has ended yet.
LEMMA InitPosting == ClientInit => PostingInv
<1>. SUFFICES ASSUME ClientInit PROVE PostingInv OBVIOUS
<1>1. mode \in {"post", "stream"} /\ stage = "sending" /\ attempt = 1 /\ ends = <<>>
      /\ MaxRetries \in Nat
  BY ClientAssumption DEF ClientInit, ClientAssumption
<1>. QED BY <1>1 DEF PostingInv, Posting, RetriesAreJustified

\* The end of a POST is either worth another attempt, with one left, or the result.
LEMMA PostEndsPosting ==
  ASSUME PostingInv, NEW end \in Statuses \cup RetryErrors \cup OtherErrors, PostEnds(end)
  PROVE  PostingInv'
<1>. DEFINE Ends == Statuses \cup RetryErrors \cup OtherErrors
            Good == RetryErrors \cup RetryStatuses
<1>1. /\ mode = "post" /\ stage = "sending" /\ ends' = Append(ends, end)
      /\ mode' = mode /\ attempt' = attempt
      /\ \/ end \in Good /\ attempt <= MaxRetries /\ stage' = "sleeping"
         \/ ~(end \in Good /\ attempt <= MaxRetries) /\ stage' = "done" /\ result' = end
  BY DEF PostEnds, Retried, MayRetry
<1>2. /\ ends \in Seq(Ends) /\ attempt \in 1..(MaxRetries + 1) /\ Len(ends) = attempt - 1
      /\ \A i \in DOMAIN ends : ends[i] \in Good
      /\ MaxRetries \in Nat
  BY <1>1, ClientAssumption DEF PostingInv, Posting, ClientAssumption
<1>. HIDE DEF Ends, Good
<1>3. /\ ends' \in Seq(Ends) /\ Len(ends') = attempt /\ DOMAIN ends' = 1..attempt
      /\ ends'[attempt] = end /\ \A i \in 1..(attempt - 1) : ends'[i] \in Good
  <2>1. end \in Ends BY DEF Ends
  <2>. QED BY <1>1, <1>2, <2>1
<1>4. CASE end \in Good /\ attempt <= MaxRetries /\ stage' = "sleeping"
  <2>1. \A i \in DOMAIN ends' : ends'[i] \in Good BY <1>2, <1>3, <1>4
  <2>2. Posting' BY <1>1, <1>2, <1>3, <1>4, <2>1 DEF Posting, Ends, Good
  <2>3. RetriesAreJustified' BY <1>1, <1>2, <1>3, <1>4 DEF RetriesAreJustified, Good
  <2>. QED BY <2>2, <2>3 DEF PostingInv
<1>5. CASE ~(end \in Good /\ attempt <= MaxRetries) /\ stage' = "done" /\ result' = end
  <2>1. Posting' BY <1>1, <1>2, <1>3, <1>5 DEF Posting, Ends
  <2>2. Last(ends') = end BY <1>3 DEF Last
  <2>3. end \in Good => attempt = MaxRetries + 1 BY <1>2, <1>5
  <2>4. RetriesAreJustified' BY <1>1, <1>2, <1>3, <1>5, <2>2, <2>3 DEF RetriesAreJustified, Good
  <2>. QED BY <2>1, <2>4 DEF PostingInv
<1>. QED BY <1>1, <1>4, <1>5 

\* The back-off makes the next attempt the current one.
LEMMA BackoffEndsPosting == PostingInv /\ BackoffEnds => PostingInv'
<1>. SUFFICES ASSUME PostingInv, BackoffEnds PROVE PostingInv' OBVIOUS
<1>1. /\ stage = "sleeping" /\ attempt' = attempt + 1 /\ stage' = "sending"
      /\ UNCHANGED <<mode, ends>>
  BY DEF BackoffEnds
<1>2. MaxRetries \in Nat BY ClientAssumption DEF ClientAssumption
<1>. QED BY <1>1, <1>2 DEF PostingInv, Posting, RetriesAreJustified

\* Every other step leaves a retried call alone.
LEMMA OtherPosting ==
  ASSUME PostingInv, UNCHANGED <<mode, attempt, result, ends>>,
         mode = "stream" \/ UNCHANGED stage
  PROVE  PostingInv'
BY DEF PostingInv, Posting, RetriesAreJustified

\* Every step keeps the account of a retried call.
LEMMA NextPosting == PostingInv /\ [ClientNext]_clientVars => PostingInv'
<1>. SUFFICES ASSUME PostingInv, [ClientNext]_clientVars PROVE PostingInv' OBVIOUS
<1>1. CASE \E end \in Statuses \cup RetryErrors \cup OtherErrors : PostEnds(end)
  BY <1>1, PostEndsPosting
<1>2. CASE BackoffEnds BY <1>2, BackoffEndsPosting
<1>3. CASE StatusRaises \/ StreamBegins
  BY <1>3, OtherPosting DEF StatusRaises, StreamBegins, postVars
<1>4. CASE \/ \E n \in 1..Len(rest) : Receive(n)
           \/ DecodeEvent \/ DecodeReturns \/ TakeEvent \/ StreamCloses \/ StreamBreaks
  <2>1. mode = "stream"
    BY <1>4 DEF PostingInv, Posting, Receive, Reading, DecodeEvent, DecodeReturns, TakeEvent,
                StreamCloses, StreamBreaks
  <2>2. UNCHANGED <<mode, attempt, result, ends>>
    BY <1>4 DEF Receive, DecodeEvent, DecodeReturns, TakeEvent, StreamCloses, StreamBreaks, postVars
  <2>. QED BY <2>1, <2>2, OtherPosting
<1>5. CASE CallIsOver \/ UNCHANGED clientVars
  BY <1>5, OtherPosting DEF CallIsOver, clientVars, postVars
<1>. QED BY <1>1, <1>2, <1>3, <1>4, <1>5 DEF ClientNext

\* For any number of retries and any order of answers: a POST is repeated only
\* after an end worth it and within the budget, and the last end is the result.
THEOREM RetriesJustified == ClientSpec => []RetriesAreJustified
<1>1. PostingInv => RetriesAreJustified BY DEF PostingInv
<1>. QED BY <1>1, InitPosting, NextPosting, PTL DEF ClientSpec
-----------------------------------------------------------------------------
\* A set of natural numbers that is not empty has a least element.
LEMMA Least ==
  ASSUME NEW T, T \subseteq Nat, T # {}
  PROVE  \E x \in T : \A y \in T : x <= y
<1>. DEFINE R == {p \in Nat \X Nat : p[1] < p[2]}
<1>1. IsWellFoundedOn(R, Nat) BY NatLessThanWellFounded DEF OpToRel
<1>2. \A x, y \in T : ~ (<<y, x>> \in R) => x <= y OBVIOUS
<1>3. \E x \in T : \A y \in T : ~ (<<y, x>> \in R)
  <2>. HIDE DEF R
  <2>. QED BY <1>1, WFMin
<1>. HIDE DEF R
<1>. QED BY <1>2, <1>3

\* Induction up to n, for a set of good numbers.
LEMMA Climb ==
  ASSUME NEW n \in Nat, NEW T, 0 \in T, \A k \in 1..n : k - 1 \in T => k \in T
  PROVE  \A k \in 0..n : k \in T
<1>. DEFINE bad == (0..n) \ T
<1>. SUFFICES ASSUME bad # {} PROVE FALSE OBVIOUS
<1>1. PICK k \in bad : \A j \in bad : k <= j
  <2>1. bad \subseteq Nat OBVIOUS
  <2>. QED BY <2>1, Least
<1>2. k \in 1..n /\ k - 1 \in 0..n /\ ~(k <= k - 1) BY <1>1
<1>3. k - 1 \in T BY <1>1, <1>2
<1>. QED BY <1>1, <1>2, <1>3

\* The values of a function on 0..n, each the next step from the one before it.
IsRun(f, n, first, step) ==
  f[0] = first /\ \A k \in 1..n : f[k] = step[k][f[k - 1]]

\* A function may be defined step after step from a first value.
LEMMA Recursion ==
  ASSUME NEW n \in Nat, NEW A, NEW first \in A, NEW step \in [1..n -> [A -> A]]
  PROVE  \E f \in [0..n -> A] : IsRun(f, n, first, step)
<1>. DEFINE Upto(m) ==
       \E f \in [0..n -> A] : f[0] = first /\ \A k \in 1..m : f[k] = step[k][f[k - 1]]
<1>1. Upto(0)
  <2>. DEFINE f == [k \in 0..n |-> first]
  <2>1. f \in [0..n -> A] /\ f[0] = first OBVIOUS
  <2>2. \A k \in 1..0 : f[k] = step[k][f[k - 1]] OBVIOUS
  <2>. HIDE DEF f
  <2>. QED BY <2>1, <2>2
<1>2. ASSUME NEW k \in 1..n, Upto(k - 1) PROVE Upto(k)
  <2>1. PICK f \in [0..n -> A] :
          f[0] = first /\ \A j \in 1..(k - 1) : f[j] = step[j][f[j - 1]]
    BY <1>2
  <2>. DEFINE g == [f EXCEPT ![k] = step[k][f[k - 1]]]
  <2>2. k - 1 \in 0..n /\ f[k - 1] \in A OBVIOUS
  <2>3. step[k][f[k - 1]] \in A BY <2>2
  <2>4. g \in [0..n -> A] /\ g[k] = step[k][f[k - 1]] /\ \A j \in 0..n : j # k => g[j] = f[j]
    BY <2>3
  <2>. HIDE DEF g
  <2>5. g[0] = first BY <2>1, <2>4
  <2>6. ASSUME NEW j \in 1..k PROVE g[j] = step[j][g[j - 1]]
    <3>1. j - 1 \in 0..n /\ j - 1 # k /\ j \in 0..n OBVIOUS
    <3>2. g[j - 1] = f[j - 1] BY <2>4, <3>1
    <3>3. CASE j = k BY <2>4, <3>2, <3>3
    <3>4. CASE j # k
      <4>1. j \in 1..(k - 1) BY <3>4
      <4>. QED BY <2>1, <2>4, <3>1, <3>2, <3>4, <4>1
    <3>. QED BY <3>3, <3>4
  <2>. QED BY <2>4, <2>5, <2>6
<1>. DEFINE good == {m \in 0..n : Upto(m)}
<1>3. \A k \in 1..n : k - 1 \in good => k \in good
  <2>. HIDE DEF Upto
  <2>. QED BY <1>2
<1>4. 0 \in good
  <2>. HIDE DEF Upto
  <2>. QED BY <1>1
<1>5. n \in good
  <2>. HIDE DEF good
  <2>1. \A k \in 0..n : k \in good BY <1>3, <1>4, Climb
  <2>. QED BY <2>1
<1>. QED BY <1>5 DEF IsRun
-----------------------------------------------------------------------------
\* A prefix of a sequence is one of every longer sequence.
LEMMA PrefixOfAppend ==
  ASSUME NEW S, NEW a \in Seq(S), NEW s \in Seq(S), NEW x \in S, IsPrefix(a, s)
  PROVE  IsPrefix(a, Append(s, x))
<1>1. /\ Len(a) \in Nat /\ Len(s) \in Nat /\ Len(a) <= Len(s)
      /\ SubSeq(a, 1, Len(a)) = SubSeq(s, 1, Len(a))
  BY DEF IsPrefix
<1>. DEFINE b == Append(s, x)
<1>2. b \in Seq(S) /\ Len(b) = Len(s) + 1 /\ \A i \in 1..Len(s) : b[i] = s[i]
  BY AppendProperties
<1>. HIDE DEF b
<1>3. /\ SubSeq(b, 1, Len(a)) \in Seq(S) /\ Len(SubSeq(b, 1, Len(a))) = Len(a)
      /\ \A i \in 1..Len(a) : SubSeq(b, 1, Len(a))[i] = b[i]
  BY <1>1, <1>2
<1>4. /\ SubSeq(s, 1, Len(a)) \in Seq(S) /\ Len(SubSeq(s, 1, Len(a))) = Len(a)
      /\ \A i \in 1..Len(a) : SubSeq(s, 1, Len(a))[i] = s[i]
  BY <1>1
<1>5. \A i \in 1..Len(a) : b[i] = s[i] BY <1>1, <1>2
<1>6. SubSeq(b, 1, Len(a)) = SubSeq(s, 1, Len(a)) BY <1>3, <1>4, <1>5, SeqEqual
<1>7. Len(a) <= Len(b) BY <1>1, <1>2
<1>. QED BY <1>1, <1>6, <1>7 DEF IsPrefix, b

\* What is left of a sequence grows with it.
LEMMA RestOfAppend ==
  ASSUME NEW S, NEW s \in Seq(S), NEW x \in S, NEW t \in 0..Len(s)
  PROVE  SubSeq(Append(s, x), t + 1, Len(s) + 1) = Append(SubSeq(s, t + 1, Len(s)), x)
<1>. DEFINE n == Len(s) - t
            old == SubSeq(s, t + 1, Len(s))
            all == Append(s, x)
            new == SubSeq(all, t + 1, Len(s) + 1)
            more == Append(old, x)
<1>1. Len(s) \in Nat /\ n \in Nat OBVIOUS
<1>2. old \in Seq(S) /\ Len(old) = n /\ \A i \in 1..n : old[i] = s[t + i] BY <1>1
<1>3. /\ all \in Seq(S) /\ Len(all) = Len(s) + 1 /\ all[Len(s) + 1] = x
      /\ \A i \in 1..Len(s) : all[i] = s[i]
  BY AppendProperties
<1>. HIDE DEF old, all
<1>4. new \in Seq(S) /\ Len(new) = n + 1 /\ \A i \in 1..(n + 1) : new[i] = all[t + i]
  BY <1>1, <1>3
<1>5. /\ more \in Seq(S) /\ Len(more) = n + 1 /\ more[n + 1] = x
      /\ \A i \in 1..n : more[i] = old[i]
  BY <1>2, AppendProperties
<1>. HIDE DEF new, more
<1>6. ASSUME NEW i \in 1..(n + 1) PROVE new[i] = more[i]
  <2>1. CASE i = n + 1
    <3>1. t + i = Len(s) + 1 BY <1>1, <2>1
    <3>. QED BY <1>3, <1>4, <1>5, <2>1, <3>1
  <2>2. CASE i # n + 1
    <3>1. i \in 1..n /\ t + i \in 1..Len(s) BY <1>1, <2>2
    <3>. QED BY <1>2, <1>3, <1>4, <1>5, <3>1
  <2>. QED BY <2>1, <2>2
<1>7. new = more BY <1>4, <1>5, <1>6, SeqEqual
<1>. QED BY <1>7 DEF new, more, all, old

\* What has been read: a current line, the data lines of an event, and events.
Lines == Seq(Bytes)
Readings == [line : Lines, data : Seq(Lines), events : Seq(Seq(Lines))]

\* A line adds at most one data line, and a blank one none.
LEMMA WithLineType ==
  ASSUME NEW data \in Seq(Lines), NEW line \in Lines
  PROVE  /\ WithLine(data, line) \in Seq(Lines)
         /\ WithLine(data, <<>>) = data
BY DEF WithLine, Lines

\* What a byte makes of a reading, by kind of byte.
LEMMA ReadByteType ==
  ASSUME NEW r \in Readings, NEW b \in Bytes
  PROVE  /\ ReadByte(r, b) \in Readings
         /\ b # LF =>
              /\ ReadByte(r, b).data = r.data
              /\ ReadByte(r, b).events = r.events
              /\ ReadByte(r, b).line = IF b = CR THEN r.line ELSE Append(r.line, b)
         /\ b = LF =>
              /\ ReadByte(r, b).line = <<>>
              /\ r.line # <<>> =>
                   ReadByte(r, b).data = WithLine(r.data, r.line) /\ ReadByte(r, b).events = r.events
              /\ r.line = <<>> =>
                   /\ ReadByte(r, b).data = <<>>
                   /\ ReadByte(r, b).events =
                        IF r.data = <<>> THEN r.events ELSE Append(r.events, r.data)
<1>1. /\ r.line \in Lines /\ r.data \in Seq(Lines) /\ r.events \in Seq(Seq(Lines))
      /\ r = [line |-> r.line, data |-> r.data, events |-> r.events]
  BY DEF Readings
<1>2. <<>> \in Lines /\ Append(r.line, b) \in Lines BY <1>1 DEF Lines
<1>3. WithLine(r.data, r.line) \in Seq(Lines) BY <1>1, WithLineType
<1>4. <<>> \in Seq(Lines) /\ Append(r.events, r.data) \in Seq(Seq(Lines)) BY <1>1
<1>5. CASE b # LF
  <2>1. ReadByte(r, b) = [r EXCEPT !.line = IF b = CR THEN r.line ELSE Append(r.line, b)]
    BY <1>5 DEF ReadByte
  <2>2. ReadByte(r, b) = [line |-> IF b = CR THEN r.line ELSE Append(r.line, b),
                          data |-> r.data, events |-> r.events]
    BY <1>1, <2>1
  <2>. QED BY <1>1, <1>2, <1>5, <2>2 DEF Readings
<1>6. CASE b = LF /\ r.line # <<>>
  <2>1. ReadByte(r, b) = [r EXCEPT !.line = <<>>, !.data = WithLine(r.data, r.line)]
    BY <1>6 DEF ReadByte
  <2>2. ReadByte(r, b) = [line |-> <<>>, data |-> WithLine(r.data, r.line), events |-> r.events]
    BY <1>1, <2>1
  <2>. QED BY <1>1, <1>2, <1>3, <1>6, <2>2 DEF Readings
<1>7. CASE b = LF /\ r.line = <<>>
  <2>. DEFINE told == IF r.data = <<>> THEN r.events ELSE Append(r.events, r.data)
  <2>1. ReadByte(r, b) = [r EXCEPT !.data = <<>>, !.events = told]
    BY <1>7 DEF ReadByte
  <2>2. ReadByte(r, b) = [line |-> r.line, data |-> <<>>, events |-> told]
    BY <1>1, <2>1
  <2>3. told \in Seq(Seq(Lines)) BY <1>1, <1>4
  <2>. QED BY <1>1, <1>2, <1>4, <1>7, <2>2, <2>3 DEF Readings
<1>. QED BY <1>5, <1>6, <1>7

\* The recursive function of Events, by its equation.
IsReading(f, bytes) ==
  f = [n \in 0..Len(bytes) |-> IF n = 0 THEN Nothing ELSE ReadByte(f[n - 1], bytes[n])]

Read(bytes) == CHOOSE f : IsReading(f, bytes)

\* The reading of no bytes.
LEMMA NothingType ==
  Nothing \in Readings /\ Nothing.line = <<>> /\ Nothing.data = <<>> /\ Nothing.events = <<>>
BY DEF Nothing, Readings, Lines

\* The readings of a text: one for every prefix of it, byte after byte.
LEMMA ReadIs ==
  ASSUME NEW bytes \in Seq(Bytes)
  PROVE  /\ Read(bytes) \in [0..Len(bytes) -> Readings]
         /\ Read(bytes)[0] = Nothing
         /\ \A k \in 1..Len(bytes) : Read(bytes)[k] = ReadByte(Read(bytes)[k - 1], bytes[k])
         /\ Events(bytes) = Read(bytes)[Len(bytes)].events
<1>. DEFINE n == Len(bytes)
            step == [k \in 1..n |-> [r \in Readings |-> ReadByte(r, bytes[k])]]
<1>1. n \in Nat OBVIOUS
<1>2. step \in [1..n -> [Readings -> Readings]]
  <2>1. \A k \in 1..n, r \in Readings : ReadByte(r, bytes[k]) \in Readings
    BY ReadByteType
  <2>. QED BY <2>1
<1>3. PICK f \in [0..n -> Readings] :
        f[0] = Nothing /\ \A k \in 1..n : f[k] = step[k][f[k - 1]]
  <2>. HIDE DEF step, n
  <2>1. Nothing \in Readings BY NothingType
  <2>2. \E f \in [0..n -> Readings] : IsRun(f, n, Nothing, step) BY <1>1, <1>2, <2>1, Recursion
  <2>. QED BY <2>2 DEF IsRun
<1>4. \A k \in 1..n : f[k] = ReadByte(f[k - 1], bytes[k])
  <2>. SUFFICES ASSUME NEW k \in 1..n PROVE f[k] = ReadByte(f[k - 1], bytes[k]) OBVIOUS
  <2>1. k - 1 \in 0..n BY <1>1
  <2>2. f[k - 1] \in Readings BY <1>3, <2>1
  <2>3. step[k][f[k - 1]] = ReadByte(f[k - 1], bytes[k]) BY <2>2
  <2>. QED BY <1>3, <2>3
<1>. HIDE DEF step
<1>5. IsReading(f, bytes)
  <2>. DEFINE g == [k \in 0..n |-> IF k = 0 THEN Nothing ELSE ReadByte(f[k - 1], bytes[k])]
  <2>1. \A k \in 0..n : f[k] = g[k]
    <3>. SUFFICES ASSUME NEW k \in 0..n PROVE f[k] = g[k] OBVIOUS
    <3>1. k = 0 \/ k \in 1..n BY <1>1
    <3>. QED BY <1>3, <1>4, <3>1
  <2>2. f = [k \in 0..n |-> f[k]] /\ g = [k \in 0..n |-> g[k]] BY <1>3
  <2>3. f = g
    <3>. HIDE DEF g
    <3>. QED BY <2>1, <2>2
  <2>. QED BY <2>3 DEF IsReading
<1>6. IsReading(Read(bytes), bytes) BY <1>5 DEF Read
<1>. DEFINE g == Read(bytes)
<1>7. g = [k \in 0..n |-> IF k = 0 THEN Nothing ELSE ReadByte(g[k - 1], bytes[k])]
  BY <1>6 DEF IsReading
<1>. HIDE DEF g
<1>8. /\ g[0] = Nothing
      /\ \A k \in 1..n : g[k] = ReadByte(g[k - 1], bytes[k])
      /\ g = [k \in 0..n |-> g[k]]
  <2>1. 0 \in 0..n /\ \A k \in 1..n : k \in 0..n /\ k # 0 BY <1>1
  <2>. QED BY <1>7, <2>1
<1>. DEFINE same == {k \in 0..n : g[k] = f[k]}
<1>9. \A k \in 0..n : k \in same
  <2>1. 0 \in same BY <1>1, <1>3, <1>8
  <2>2. ASSUME NEW k \in 1..n, k - 1 \in same PROVE k \in same
    <3>1. k \in 0..n BY <1>1
    <3>. QED BY <1>4, <1>8, <2>2, <3>1
  <2>. HIDE DEF same
  <2>. QED BY <1>1, <2>1, <2>2, Climb
<1>10. g \in [0..n -> Readings] BY <1>3, <1>8, <1>9
<1>11. Events(bytes) = g[n].events BY DEF Events, g, Read, IsReading
<1>. QED BY <1>8, <1>10, <1>11 DEF g
-----------------------------------------------------------------------------
\* The line that ends before n starts at m.
IsLineStart(raw, n, m) ==
  (m = 1 \/ raw[m - 1] = LF) /\ \A i \in m..(n - 1) : raw[i] # LF

\* Every line of a raw event starts at one place.
LEMMA LineStartIs ==
  ASSUME NEW raw \in Seq(Bytes), NEW n \in 1..(Len(raw) + 1)
  PROVE  /\ LineStart(raw, n) \in 1..n /\ IsLineStart(raw, n, LineStart(raw, n))
         /\ \A m \in 1..n : IsLineStart(raw, n, m) => m = LineStart(raw, n)
<1>0. Len(raw) \in Nat OBVIOUS
<1>. DEFINE good == {k \in 0..Len(raw) : \E m \in 1..(k + 1) : IsLineStart(raw, k + 1, m)}
<1>1. 0 \in good
  <2>1. 1 \in 1..(0 + 1) /\ IsLineStart(raw, 0 + 1, 1) BY DEF IsLineStart
  <2>. QED BY <1>0, <2>1
<1>2. ASSUME NEW k \in 1..Len(raw), k - 1 \in good PROVE k \in good
  <2>1. PICK m \in 1..k : IsLineStart(raw, k, m)
    <3>1. (k - 1) + 1 = k BY <1>0
    <3>. QED BY <1>2, <3>1
  <2>2. CASE raw[k] = LF
    <3>1. IsLineStart(raw, k + 1, k + 1) BY <1>0, <2>2 DEF IsLineStart
    <3>. QED BY <1>0, <3>1
  <2>3. CASE raw[k] # LF
    <3>1. IsLineStart(raw, k + 1, m) BY <1>0, <2>1, <2>3 DEF IsLineStart
    <3>2. m \in 1..(k + 1) BY <1>0
    <3>. QED BY <1>0, <3>1, <3>2
  <2>. QED BY <2>2, <2>3
<1>3. n - 1 \in good
  <2>1. n - 1 \in 0..Len(raw) BY <1>0
  <2>. HIDE DEF good
  <2>. QED BY <1>0, <1>1, <1>2, <2>1, Climb
<1>4. \E m \in 1..n : IsLineStart(raw, n, m)
  <2>1. (n - 1) + 1 = n BY <1>0
  <2>. QED BY <1>3, <2>1
<1>5. LineStart(raw, n) = CHOOSE m \in 1..n : IsLineStart(raw, n, m)
  BY DEF LineStart, IsLineStart
<1>6. LineStart(raw, n) \in 1..n /\ IsLineStart(raw, n, LineStart(raw, n)) BY <1>4, <1>5
<1>7. ASSUME NEW m \in 1..n, NEW l \in 1..n, IsLineStart(raw, n, m), IsLineStart(raw, n, l)
      PROVE  ~(m < l)
  <2>. SUFFICES ASSUME m < l PROVE FALSE OBVIOUS
  <2>1. l # 1 /\ l - 1 \in m..(n - 1) BY <1>0
  <2>. QED BY <1>7, <2>1 DEF IsLineStart
<1>8. ASSUME NEW m \in 1..n, IsLineStart(raw, n, m) PROVE m = LineStart(raw, n)
  <2>. DEFINE l == LineStart(raw, n)
  <2>1. l \in 1..n /\ IsLineStart(raw, n, l) BY <1>6
  <2>. HIDE DEF l
  <2>2. m = l BY <1>0, <1>7, <1>8, <2>1
  <2>. QED BY <2>2 DEF l
<1>. QED BY <1>6, <1>8

\* The line grows with every byte that is not a line end.
LEMMA LineStartMoves ==
  ASSUME NEW raw \in Seq(Bytes), NEW n \in 1..Len(raw)
  PROVE  LineStart(raw, n + 1) = IF raw[n] = LF THEN n + 1 ELSE LineStart(raw, n)
<1>0. Len(raw) \in Nat /\ n \in 1..(Len(raw) + 1) /\ n + 1 \in 1..(Len(raw) + 1) OBVIOUS
<1>1. CASE raw[n] = LF
  <2>1. IsLineStart(raw, n + 1, n + 1) BY <1>0, <1>1 DEF IsLineStart
  <2>2. n + 1 \in 1..(n + 1) BY <1>0
  <2>. QED BY <1>0, <1>1, <2>1, <2>2, LineStartIs
<1>2. CASE raw[n] # LF
  <2>. DEFINE m == LineStart(raw, n)
  <2>1. m \in 1..n /\ IsLineStart(raw, n, m) BY <1>0, LineStartIs
  <2>. HIDE DEF m
  <2>2. m \in 1..(n + 1) /\ IsLineStart(raw, n + 1, m) BY <1>0, <1>2, <2>1 DEF IsLineStart
  <2>3. m = LineStart(raw, n + 1) BY <1>0, <2>2, LineStartIs
  <2>. QED BY <1>2, <2>3 DEF m
<1>. QED BY <1>1, <1>2

\* What removesuffix leaves.
LEMMA BareIs ==
  ASSUME NEW line \in Lines
  PROVE  /\ Bare(line) \in Lines
         /\ line = <<>> => Bare(line) = <<>>
         /\ line # <<>> /\ line[Len(line)] # CR => Bare(line) = line
         /\ line # <<>> /\ line[Len(line)] = CR => Bare(line) = SubSeq(line, 1, Len(line) - 1)
         /\ Bare(line) = <<>> => line = <<>> \/ (Len(line) = 1 /\ line[1] = CR)
<1>1. line \in Seq(Bytes) /\ Len(line) \in Nat BY DEF Lines
<1>2. CASE line # <<>> /\ line[Len(line)] = CR
  <2>1. Bare(line) = SubSeq(line, 1, Len(line) - 1) BY <1>2 DEF Bare, Last, Front
  <2>2. Len(line) >= 1 BY <1>1, <1>2, EmptySeq
  <2>. DEFINE k == Len(line) - 1
  <2>3. k \in Nat /\ \A i \in 1..k : line[i] \in Bytes
    <3>1. k \in Nat /\ \A i \in 1..k : i \in 1..Len(line) BY <1>1, <2>2
    <3>. QED BY <1>1, <3>1, ElementOfSeq
  <2>. HIDE DEF k
  <2>4. SubSeq(line, 1, k) \in Seq(Bytes) /\ Len(SubSeq(line, 1, k)) = k
    <3>1. SubSeq(line, 1, k) \in Seq(Bytes)
          /\ Len(SubSeq(line, 1, k)) = IF 1 <= k THEN k - 1 + 1 ELSE 0
      BY <2>3, SubSeqProperties
    <3>. QED BY <2>3, <3>1
  <2>5. Bare(line) = <<>> => Len(line) = 1 /\ line[1] = CR
    <3>0. Bare(line) = SubSeq(line, 1, k) BY <2>1 DEF k
    <3>1. Bare(line) = <<>> => k = 0
      <4>1. Bare(line) = <<>> => k = Len(<<>>) BY <2>4, <3>0
      <4>. QED BY <4>1
    <3>2. k = 0 => Len(line) = 1 BY <1>1 DEF k
    <3>. QED BY <1>2, <3>1, <3>2
  <2>. QED BY <1>2, <2>1, <2>4, <2>5 DEF Lines, k
<1>3. CASE ~(line # <<>> /\ line[Len(line)] = CR)
  <2>1. Bare(line) = line BY <1>3 DEF Bare, Last
  <2>. QED BY <1>3, <2>1
<1>. QED BY <1>2, <1>3

\* A line is blank if nothing, or only a carriage return, stands in it.
LEMMA LineBeforeType ==
  ASSUME NEW raw \in Seq(Bytes), NEW n \in 1..(Len(raw) + 1)
  PROVE  /\ LineBefore(raw, n) \in Lines
         /\ n = 1 => LineBefore(raw, n) = <<>>
         /\ LineBefore(raw, n) = <<>> =>
              \/ LineStart(raw, n) = n
              \/ n > 1 /\ LineStart(raw, n) = n - 1 /\ raw[n - 1] = CR
<1>. DEFINE m == LineStart(raw, n)
            line == SubSeq(raw, m, n - 1)
<1>1. m \in 1..n /\ Len(raw) \in Nat BY LineStartIs
<1>. HIDE DEF m
<1>2. /\ line \in Seq(Bytes) /\ Len(line) = n - m
      /\ \A i \in 1..(n - m) : line[i] = raw[m + i - 1]
  BY <1>1
<1>3. LineBefore(raw, n) = Bare(line) BY DEF LineBefore, m
<1>. HIDE DEF line
<1>4. line \in Lines BY <1>2 DEF Lines
<1>5. LineBefore(raw, n) \in Lines BY <1>3, <1>4, BareIs
<1>6. n = 1 => LineBefore(raw, n) = <<>>
  <2>1. n = 1 => line = <<>> BY <1>1, <1>2
  <2>. QED BY <1>3, <1>4, <2>1, BareIs
<1>7. ASSUME LineBefore(raw, n) = <<>>
      PROVE  m = n \/ (n > 1 /\ m = n - 1 /\ raw[n - 1] = CR)
  <2>1. line = <<>> \/ (Len(line) = 1 /\ line[1] = CR) BY <1>3, <1>4, <1>7, BareIs
  <2>2. CASE line = <<>> BY <1>1, <1>2, <2>2
  <2>3. CASE Len(line) = 1 /\ line[1] = CR
    <3>0. n - m = 1 BY <1>2, <2>3
    <3>1. m = n - 1 BY <1>1, <3>0
    <3>2. 1 \in 1..(n - m) /\ m + 1 - 1 = n - 1 BY <1>1, <3>1
    <3>3. line[1] = raw[n - 1] BY <1>2, <3>2
    <3>. QED BY <1>1, <2>3, <3>1, <3>3
  <2>. QED BY <2>1, <2>2, <2>3
<1>. QED BY <1>5, <1>6, <1>7 DEF m

\* The bare line after one more byte.
LEMMA LineGrows ==
  ASSUME NEW raw \in Seq(Bytes), NEW n \in 1..Len(raw)
  PROVE  /\ raw[n] = LF => LineBefore(raw, n + 1) = <<>>
         /\ raw[n] # LF /\ (n > 1 => raw[n - 1] # CR) =>
              LineBefore(raw, n + 1) =
                IF raw[n] = CR THEN LineBefore(raw, n) ELSE Append(LineBefore(raw, n), raw[n])
<1>. DEFINE m == LineStart(raw, n)
            old == SubSeq(raw, m, n - 1)
            new == SubSeq(raw, m, n)
<1>0. Len(raw) \in Nat /\ n \in 1..(Len(raw) + 1) /\ n + 1 \in 1..(Len(raw) + 1) OBVIOUS
<1>1. CASE raw[n] = LF
  <2>1. LineStart(raw, n + 1) = n + 1 BY <1>1, LineStartMoves
  <2>2. SubSeq(raw, n + 1, n) = <<>> /\ (n + 1) - 1 = n BY <1>0
  <2>3. <<>> \in Lines BY DEF Lines
  <2>4. LineBefore(raw, n + 1) = Bare(<<>>) BY <2>1, <2>2 DEF LineBefore
  <2>. QED BY <1>1, <2>3, <2>4, BareIs
<1>2. CASE raw[n] # LF /\ (n > 1 => raw[n - 1] # CR)
  <2>1. m \in 1..n BY <1>0, LineStartIs
  <2>2. LineStart(raw, n + 1) = m BY <1>2, LineStartMoves
  <2>. HIDE DEF m
  <2>3. /\ old \in Seq(Bytes) /\ Len(old) = n - m
        /\ \A i \in 1..(n - m) : old[i] = raw[m + i - 1]
    BY <1>0, <2>1
  <2>4. /\ new \in Seq(Bytes) /\ Len(new) = n - m + 1
        /\ \A i \in 1..(n - m + 1) : new[i] = raw[m + i - 1]
    BY <1>0, <2>1
  <2>5. LineBefore(raw, n) = Bare(old) BY DEF LineBefore, m
  <2>6. LineBefore(raw, n + 1) = Bare(new)
    <3>1. (n + 1) - 1 = n BY <1>0
    <3>. QED BY <2>2, <3>1 DEF LineBefore
  <2>. HIDE DEF old, new
  <2>7. Bare(old) = old
    <3>1. old # <<>> => n > 1 /\ n - m \in 1..(n - m) /\ m + (n - m) - 1 = n - 1 BY <1>0, <2>1, <2>3
    <3>2. old # <<>> => old[Len(old)] # CR BY <1>2, <2>3, <3>1
    <3>. QED BY <2>3, <3>2, BareIs DEF Lines
  <2>8. new # <<>> /\ new[Len(new)] = raw[n]
    <3>1. n - m + 1 \in 1..(n - m + 1) /\ m + (n - m + 1) - 1 = n BY <1>0, <2>1
    <3>. QED BY <2>4, <3>1
  <2>9. CASE raw[n] = CR
    <3>1. Bare(new) = SubSeq(new, 1, Len(new) - 1) BY <2>4, <2>8, <2>9, BareIs DEF Lines
    <3>2. /\ SubSeq(new, 1, Len(new) - 1) \in Seq(Bytes)
          /\ Len(SubSeq(new, 1, Len(new) - 1)) = n - m
          /\ \A i \in 1..(n - m) : SubSeq(new, 1, Len(new) - 1)[i] = new[i]
      BY <1>0, <2>1, <2>4
    <3>3. \A i \in 1..(n - m) : old[i] = new[i] BY <1>0, <2>1, <2>3, <2>4
    <3>4. SubSeq(new, 1, Len(new) - 1) = old BY <2>3, <3>2, <3>3, SeqEqual
    <3>. QED BY <1>2, <2>5, <2>6, <2>7, <2>9, <3>1, <3>4
  <2>10. CASE raw[n] # CR
    <3>1. Bare(new) = new BY <2>4, <2>8, <2>10, BareIs DEF Lines
    <3>2. /\ Append(old, raw[n]) \in Seq(Bytes) /\ Len(Append(old, raw[n])) = n - m + 1
          /\ \A i \in 1..(n - m) : Append(old, raw[n])[i] = old[i]
          /\ Append(old, raw[n])[n - m + 1] = raw[n]
      BY <1>0, <2>1, <2>3
    <3>3. \A i \in 1..(n - m + 1) : new[i] = Append(old, raw[n])[i]
      <4>. SUFFICES ASSUME NEW i \in 1..(n - m + 1) PROVE new[i] = Append(old, raw[n])[i] OBVIOUS
      <4>1. CASE i = n - m + 1 BY <2>4, <2>8, <3>2, <4>1
      <4>2. CASE i \in 1..(n - m) BY <2>3, <2>4, <3>2, <4>2
      <4>3. i = n - m + 1 \/ i \in 1..(n - m) BY <1>0, <2>1
      <4>. QED BY <4>1, <4>2, <4>3
    <3>4. new = Append(old, raw[n]) BY <2>4, <3>2, <3>3, SeqEqual
    <3>. QED BY <1>2, <2>5, <2>6, <2>7, <2>10, <3>1, <3>4
  <2>. QED BY <1>2, <2>9, <2>10
<1>. QED BY <1>1, <1>2

-----------------------------------------------------------------------------
\* The recursive function of DataOf, by its equation.
IsData(f, raw) ==
  f = [n \in 0..(Len(raw) + 1) |->
         IF n = 0 THEN <<>>
         ELSE IF n = Len(raw) + 1 \/ raw[n] = LF THEN WithLine(f[n - 1], LineBefore(raw, n))
         ELSE f[n - 1]]

Data(raw) == CHOOSE f : IsData(f, raw)

\* The data lines of a raw event: one value for every prefix of it.
LEMMA DataIs ==
  ASSUME NEW raw \in Seq(Bytes)
  PROVE  /\ Data(raw) \in [0..(Len(raw) + 1) -> Seq(Lines)]
         /\ Data(raw)[0] = <<>>
         /\ \A k \in 1..Len(raw) :
              Data(raw)[k] = IF raw[k] = LF THEN WithLine(Data(raw)[k - 1], LineBefore(raw, k))
                             ELSE Data(raw)[k - 1]
         /\ DataOf(raw) = WithLine(Data(raw)[Len(raw)], LineBefore(raw, Len(raw) + 1))
         /\ DataOf(raw) \in Seq(Lines)
<1>. DEFINE n == Len(raw) + 1
            Ends(k) == k = n \/ raw[k] = LF
            step == [k \in 1..n |-> [data \in Seq(Lines) |->
                       IF Ends(k) THEN WithLine(data, LineBefore(raw, k)) ELSE data]]
            After(data, k) == IF Ends(k) THEN WithLine(data, LineBefore(raw, k)) ELSE data
<1>1. Len(raw) \in Nat /\ n \in Nat OBVIOUS
<1>2. \A k \in 1..n : LineBefore(raw, k) \in Lines BY LineBeforeType
<1>3. step \in [1..n -> [Seq(Lines) -> Seq(Lines)]]
  <2>1. \A k \in 1..n, data \in Seq(Lines) : WithLine(data, LineBefore(raw, k)) \in Seq(Lines)
    BY <1>2, WithLineType
  <2>. HIDE DEF n
  <2>. QED BY <2>1
<1>4. <<>> \in Seq(Lines) OBVIOUS
<1>5. PICK f \in [0..n -> Seq(Lines)] :
        f[0] = <<>> /\ \A k \in 1..n : f[k] = step[k][f[k - 1]]
  <2>. HIDE DEF step, n
  <2>1. \E f \in [0..n -> Seq(Lines)] : IsRun(f, n, <<>>, step) BY <1>1, <1>3, <1>4, Recursion
  <2>. QED BY <2>1 DEF IsRun
<1>6. \A k \in 1..n : f[k] = After(f[k - 1], k)
  <2>. SUFFICES ASSUME NEW k \in 1..n PROVE f[k] = After(f[k - 1], k) OBVIOUS
  <2>. HIDE DEF Ends, n
  <2>1. k - 1 \in 0..n BY <1>1
  <2>2. f[k - 1] \in Seq(Lines) BY <1>5, <2>1
  <2>3. step[k][f[k - 1]] = After(f[k - 1], k) BY <2>2
  <2>. QED BY <1>5, <2>3
<1>. HIDE DEF step
<1>7. IsData(f, raw)
  <2>. DEFINE g == [k \in 0..n |-> IF k = 0 THEN <<>> ELSE After(f[k - 1], k)]
  <2>1. \A k \in 0..n : f[k] = g[k]
    <3>. HIDE DEF After
    <3>. SUFFICES ASSUME NEW k \in 0..n PROVE f[k] = g[k] OBVIOUS
    <3>1. k = 0 \/ k \in 1..n BY <1>1
    <3>. QED BY <1>5, <1>6, <3>1
  <2>2. f = [k \in 0..n |-> f[k]] /\ g = [k \in 0..n |-> g[k]] BY <1>5
  <2>3. f = g
    <3>. HIDE DEF g
    <3>. QED BY <2>1, <2>2
  <2>. QED BY <2>3 DEF IsData
<1>8. IsData(Data(raw), raw) BY <1>7 DEF Data
<1>. DEFINE g == Data(raw)
<1>9. g = [k \in 0..n |-> IF k = 0 THEN <<>> ELSE After(g[k - 1], k)] BY <1>8 DEF IsData
<1>. HIDE DEF g, After
<1>10. g[0] = <<>> /\ (\A k \in 1..n : g[k] = After(g[k - 1], k)) /\ g = [k \in 0..n |-> g[k]]
  <2>1. 0 \in 0..n /\ \A k \in 1..n : k \in 0..n /\ k # 0 BY <1>1
  <2>. QED BY <1>9, <2>1
<1>. DEFINE same == {k \in 0..n : g[k] = f[k]}
<1>11. \A k \in 0..n : k \in same
  <2>1. 0 \in same BY <1>1, <1>5, <1>10
  <2>2. ASSUME NEW k \in 1..n, k - 1 \in same PROVE k \in same
    <3>1. k \in 0..n BY <1>1
    <3>. QED BY <1>6, <1>10, <2>2, <3>1
  <2>. HIDE DEF same
  <2>. QED BY <1>1, <2>1, <2>2, Climb
<1>12. g \in [0..n -> Seq(Lines)] BY <1>5, <1>10, <1>11
<1>13. DataOf(raw) = g[n] BY DEF DataOf, g, Data, IsData
<1>14. \A k \in 1..Len(raw) :
         g[k] = IF raw[k] = LF THEN WithLine(g[k - 1], LineBefore(raw, k)) ELSE g[k - 1]
  <2>. SUFFICES ASSUME NEW k \in 1..Len(raw)
                PROVE  g[k] = IF raw[k] = LF THEN WithLine(g[k - 1], LineBefore(raw, k))
                              ELSE g[k - 1]
    OBVIOUS
  <2>1. k \in 1..n /\ k # n BY <1>1
  <2>. QED BY <1>10, <2>1 DEF After
<1>15. g[n] = WithLine(g[Len(raw)], LineBefore(raw, Len(raw) + 1))
  <2>1. n \in 1..n /\ n - 1 = Len(raw) BY <1>1
  <2>2. g[n] = After(g[Len(raw)], n) BY <1>10, <2>1
  <2>. QED BY <2>2 DEF After
<1>16. g[n] \in Seq(Lines)
  <2>1. n \in 0..n BY <1>1
  <2>. QED BY <1>12, <2>1
<1>. QED BY <1>10, <1>12, <1>13, <1>14, <1>15, <1>16 DEF g
-----------------------------------------------------------------------------
\* bytearray.find finds the first occurrence, if there is one.
LEMMA FindIs ==
  ASSUME NEW bytes \in Seq(Bytes), NEW pattern
  PROVE  /\ Find(bytes, pattern) \in 1..(Len(bytes) + 1)
         /\ Find(bytes, pattern) <= Len(bytes) => Found(bytes, Find(bytes, pattern), pattern)
         /\ \A j \in 1..(Find(bytes, pattern) - 1) : ~Found(bytes, j, pattern)
<1>. DEFINE n == Len(bytes)
            T == {i \in 1..(n + 1) : i <= n => Found(bytes, i, pattern)}
            IsFirst(i) == /\ i <= n => Found(bytes, i, pattern)
                          /\ \A j \in 1..(i - 1) : ~Found(bytes, j, pattern)
<1>1. n \in Nat OBVIOUS
<1>. HIDE DEF n
<1>2. T \subseteq Nat /\ n + 1 \in T BY <1>1
<1>3. PICK i \in T : \A j \in T : i <= j
  <2>. HIDE DEF T
  <2>. QED BY <1>2, Least
<1>4. i \in 1..(n + 1) /\ IsFirst(i)
  <2>1. ASSUME NEW j \in 1..(i - 1), Found(bytes, j, pattern) PROVE FALSE
    <3>1. j \in 1..(n + 1) /\ ~(i <= j) BY <1>1
    <3>2. j \in T BY <2>1, <3>1
    <3>. QED BY <1>3, <3>1, <3>2
  <2>. QED BY <2>1
<1>5. Find(bytes, pattern) = CHOOSE k \in 1..(n + 1) : IsFirst(k) BY DEF Find, n
<1>6. Find(bytes, pattern) \in 1..(n + 1) /\ IsFirst(Find(bytes, pattern))
  <2>. HIDE DEF IsFirst
  <2>. QED BY <1>4, <1>5
<1>. QED BY <1>6 DEF n

\* A separator of either kind at i.
DoubleLF(bytes, i) == i + 1 <= Len(bytes) /\ bytes[i] = LF /\ bytes[i + 1] = LF
DoubleCRLF(bytes, i) ==
  /\ i + 3 <= Len(bytes) /\ bytes[i] = CR /\ bytes[i + 1] = LF
  /\ bytes[i + 2] = CR /\ bytes[i + 3] = LF

\* The two separators, written out.
LEMMA FoundIs ==
  ASSUME NEW bytes \in Seq(Bytes), NEW i \in 1..Len(bytes)
  PROVE  /\ Found(bytes, i, <<LF, LF>>) <=> DoubleLF(bytes, i)
         /\ Found(bytes, i, <<CR, LF, CR, LF>>) <=> DoubleCRLF(bytes, i)
<1>1. Len(bytes) \in Nat /\ i \in Nat OBVIOUS
<1>2. Found(bytes, i, <<LF, LF>>) <=> DoubleLF(bytes, i)
  <2>. DEFINE p == <<LF, LF>>
  <2>1. Len(p) = 2 /\ DOMAIN p = {1, 2} /\ p[1] = LF /\ p[2] = LF OBVIOUS
  <2>2. i + 1 - 1 = i /\ i + 2 - 1 = i + 1 BY <1>1
  <2>. HIDE DEF p
  <2>3. Found(bytes, i, p) <=> DoubleLF(bytes, i) BY <2>1, <2>2 DEF Found, DoubleLF
  <2>. QED BY <2>3 DEF p
<1>3. Found(bytes, i, <<CR, LF, CR, LF>>) <=> DoubleCRLF(bytes, i)
  <2>. DEFINE p == <<CR, LF, CR, LF>>
  <2>1. /\ Len(p) = 4 /\ DOMAIN p = {1, 2, 3, 4}
        /\ p[1] = CR /\ p[2] = LF /\ p[3] = CR /\ p[4] = LF
    OBVIOUS
  <2>2. i + 1 - 1 = i /\ i + 2 - 1 = i + 1 /\ i + 3 - 1 = i + 2 /\ i + 4 - 1 = i + 3 BY <1>1
  <2>. HIDE DEF p
  <2>3. Found(bytes, i, p) <=> DoubleCRLF(bytes, i) BY <2>1, <2>2 DEF Found, DoubleCRLF
  <2>. QED BY <2>3 DEF p
<1>. QED BY <1>2, <1>3

\* No separator starts at one of the first n bytes.
Unseparated(bytes, n) == \A j \in 1..n : ~DoubleLF(bytes, j) /\ ~DoubleCRLF(bytes, j)

\* decode cuts at a separator before which there is none.
LEMMA SeparatorIs ==
  ASSUME NEW bytes \in Seq(Bytes)
  PROVE  LET cut == Separator(bytes)
         IN  /\ cut.at \in 1..(Len(bytes) + 1)
             /\ Unseparated(bytes, cut.at - 1)
             /\ cut.at <= Len(bytes) =>
                  \/ cut.length = 2 /\ DoubleLF(bytes, cut.at)
                  \/ cut.length = 4 /\ DoubleCRLF(bytes, cut.at)
<1>. DEFINE lf == Find(bytes, <<LF, LF>>)
            crlf == Find(bytes, <<CR, LF, CR, LF>>)
            cut == Separator(bytes)
<1>0. Len(bytes) \in Nat OBVIOUS
<1>1. lf \in 1..(Len(bytes) + 1) /\ crlf \in 1..(Len(bytes) + 1) BY FindIs
<1>2. /\ lf <= Len(bytes) => DoubleLF(bytes, lf)
      /\ \A j \in 1..(lf - 1) : ~DoubleLF(bytes, j)
  <2>1. lf <= Len(bytes) => Found(bytes, lf, <<LF, LF>>) BY FindIs
  <2>2. \A j \in 1..(lf - 1) : j \in 1..Len(bytes) /\ ~Found(bytes, j, <<LF, LF>>)
    BY <1>0, <1>1, FindIs
  <2>. HIDE DEF lf
  <2>3. lf <= Len(bytes) => lf \in 1..Len(bytes) BY <1>0, <1>1
  <2>. QED BY <2>1, <2>2, <2>3, FoundIs
<1>3. /\ crlf <= Len(bytes) => DoubleCRLF(bytes, crlf)
      /\ \A j \in 1..(crlf - 1) : ~DoubleCRLF(bytes, j)
  <2>1. crlf <= Len(bytes) => Found(bytes, crlf, <<CR, LF, CR, LF>>) BY FindIs
  <2>2. \A j \in 1..(crlf - 1) : j \in 1..Len(bytes) /\ ~Found(bytes, j, <<CR, LF, CR, LF>>)
    BY <1>0, <1>1, FindIs
  <2>. HIDE DEF crlf
  <2>3. crlf <= Len(bytes) => crlf \in 1..Len(bytes) BY <1>0, <1>1
  <2>. QED BY <2>1, <2>2, <2>3, FoundIs
<1>4. cut = IF lf < crlf THEN [at |-> lf, length |-> 2] ELSE [at |-> crlf, length |-> 4]
  BY DEF Separator
<1>. HIDE DEF lf, crlf, cut
<1>5. CASE lf < crlf
  <2>1. cut.at = lf /\ cut.length = 2 BY <1>4, <1>5
  <2>2. \A j \in 1..(lf - 1) : j \in 1..(crlf - 1) BY <1>0, <1>1, <1>5
  <2>3. Unseparated(bytes, lf - 1) BY <1>2, <1>3, <2>2 DEF Unseparated
  <2>4. \/ cut.length = 2 /\ DoubleLF(bytes, cut.at)
        \/ cut.length = 4 /\ DoubleCRLF(bytes, cut.at)
        \/ ~(cut.at <= Len(bytes))
    BY <1>2, <2>1
  <2>. QED BY <1>1, <2>1, <2>3, <2>4 DEF cut
<1>6. CASE ~(lf < crlf)
  <2>1. cut.at = crlf /\ cut.length = 4 BY <1>4, <1>6
  <2>2. \A j \in 1..(crlf - 1) : j \in 1..(lf - 1) BY <1>0, <1>1, <1>6
  <2>3. Unseparated(bytes, crlf - 1) BY <1>2, <1>3, <2>2 DEF Unseparated
  <2>4. \/ cut.length = 2 /\ DoubleLF(bytes, cut.at)
        \/ cut.length = 4 /\ DoubleCRLF(bytes, cut.at)
        \/ ~(cut.at <= Len(bytes))
    BY <1>3, <2>1
  <2>. QED BY <1>1, <2>1, <2>3, <2>4 DEF cut
<1>. QED BY <1>5, <1>6

-----------------------------------------------------------------------------
\* What a text with one kind of line end looks like at a byte.
LEMMA LineEnds ==
  ASSUME NEW bytes \in Seq(Bytes), HasOneLineEnd(bytes)
  PROVE  /\ \A i \in 1..Len(bytes) : bytes[i] = CR /\ i + 1 <= Len(bytes) => bytes[i + 1] = LF
         /\ \/ \A i \in 1..Len(bytes) : bytes[i] # CR
            \/ \A i \in 1..Len(bytes) : bytes[i] = LF => i > 1 /\ bytes[i - 1] = CR
<1>1. DOMAIN bytes = 1..Len(bytes) /\ Len(bytes) \in Nat OBVIOUS
<1>2. CASE \A i \in DOMAIN bytes : bytes[i] # CR BY <1>1, <1>2
<1>3. CASE \A i \in DOMAIN bytes : bytes[i] = LF <=> i > 1 /\ bytes[i - 1] = CR
  <2>1. ASSUME NEW i \in 1..Len(bytes), bytes[i] = CR, i + 1 <= Len(bytes)
        PROVE  bytes[i + 1] = LF
    <3>1. i + 1 \in DOMAIN bytes /\ i + 1 > 1 /\ (i + 1) - 1 = i BY <1>1, <2>1
    <3>. QED BY <1>3, <2>1, <3>1
  <2>2. \A i \in 1..Len(bytes) : bytes[i] = LF => i > 1 /\ bytes[i - 1] = CR BY <1>1, <1>3
  <2>. QED BY <2>1, <2>2
<1>. QED BY <1>2, <1>3 DEF HasOneLineEnd

\* The part of a text between two bytes.
LEMMA PartIs ==
  ASSUME NEW bytes \in Seq(Bytes), NEW n \in 0..Len(bytes)
  PROVE  /\ SubSeq(bytes, 1, n) \in Seq(Bytes) /\ Len(SubSeq(bytes, 1, n)) = n
         /\ \A i \in 1..n : SubSeq(bytes, 1, n)[i] = bytes[i]
<1>1. Len(bytes) \in Nat /\ n \in Nat /\ \A i \in 1..n : bytes[i] \in Bytes OBVIOUS
<1>2. /\ SubSeq(bytes, 1, n) \in Seq(Bytes)
      /\ Len(SubSeq(bytes, 1, n)) = IF 1 <= n THEN n - 1 + 1 ELSE 0
      /\ \A i \in 1..(n - 1 + 1) : SubSeq(bytes, 1, n)[i] = bytes[1 + i - 1]
  BY <1>1, SubSeqProperties
<1>3. n - 1 + 1 = n /\ \A i \in 1..n : 1 + i - 1 = i BY <1>1
<1>. QED BY <1>1, <1>2, <1>3

\* A blank line before the first separator is the first line.
LEMMA BlankIsFirst ==
  ASSUME NEW bytes \in Seq(Bytes), HasOneLineEnd(bytes), NEW n \in 0..Len(bytes),
         Unseparated(bytes, n), NEW k \in 1..(n + 1), k <= Len(bytes), bytes[k] = LF,
         LineBefore(SubSeq(bytes, 1, n), k) = <<>>
  PROVE  k = 1 \/ (k = 2 /\ bytes[1] = CR)
<1>. DEFINE raw == SubSeq(bytes, 1, n)
            m == LineStart(raw, k)
<1>0. Len(bytes) \in Nat /\ CR # LF BY ClientAssumption DEF ClientAssumption
<1>1. raw \in Seq(Bytes) /\ Len(raw) = n /\ \A i \in 1..n : raw[i] = bytes[i] BY PartIs
<1>. HIDE DEF raw
<1>2. k \in 1..(Len(raw) + 1) BY <1>1
<1>3. m \in 1..k /\ IsLineStart(raw, k, m) BY <1>1, <1>2, LineStartIs
<1>4. m = k \/ (k > 1 /\ m = k - 1 /\ raw[k - 1] = CR)
  BY <1>1, <1>2, LineBeforeType DEF raw
<1>5. m = 1 \/ raw[m - 1] = LF BY <1>3 DEF IsLineStart
<1>. HIDE DEF m
<1>6. \/ \A i \in 1..Len(bytes) : bytes[i] # CR
      \/ \A i \in 1..Len(bytes) : bytes[i] = LF => i > 1 /\ bytes[i - 1] = CR
  BY LineEnds
<1>7. CASE m = k /\ k # 1
  <2>1. k - 1 \in 1..n /\ (k - 1) + 1 = k /\ k - 1 \in 1..Len(bytes) /\ k \in 1..Len(bytes)
    BY <1>0, <1>7
  <2>2. bytes[k - 1] = LF BY <1>1, <1>5, <1>7, <2>1
  <2>3. DoubleLF(bytes, k - 1) BY <2>1, <2>2 DEF DoubleLF
  <2>. QED BY <2>1, <2>3 DEF Unseparated
<1>8. CASE k > 1 /\ m = k - 1 /\ raw[k - 1] = CR /\ m # 1
  <2>1. k - 1 \in 1..n /\ k - 2 \in 1..n /\ k - 2 \in 1..Len(bytes) /\ k - 1 \in 1..Len(bytes)
        /\ (k - 1) - 1 = k - 2
    BY <1>0, <1>8
  <2>2. bytes[k - 1] = CR /\ bytes[k - 2] = LF BY <1>1, <1>5, <1>8, <2>1
  <2>3. k - 2 > 1 /\ bytes[(k - 2) - 1] = CR BY <1>6, <2>1, <2>2
  <2>4. k - 3 \in 1..n /\ (k - 2) - 1 = k - 3 /\ (k - 3) + 1 = k - 2 /\ (k - 3) + 2 = k - 1
        /\ (k - 3) + 3 = k
    BY <1>0, <2>1, <2>3
  <2>5. DoubleCRLF(bytes, k - 3) BY <2>2, <2>3, <2>4 DEF DoubleCRLF
  <2>. QED BY <2>4, <2>5 DEF Unseparated
<1>9. CASE k > 1 /\ m = k - 1 /\ raw[k - 1] = CR /\ m = 1
  <2>1. k = 2 /\ k - 1 = 1 /\ 1 \in 1..n BY <1>9
  <2>. QED BY <1>1, <1>9, <2>1
<1>. QED BY <1>4, <1>7, <1>8, <1>9

\* The readings of a buffer, byte after byte, from one between two events.
IsScan(scan, bytes) ==
  /\ scan \in [0..Len(bytes) -> Readings]
  /\ scan[0].line = <<>> /\ scan[0].data = <<>>
  /\ \A k \in 1..Len(bytes) : scan[k] = ReadByte(scan[k - 1], bytes[k])

\* Up to the first separator a reader collects the lines that decode cuts out.
LEMMA ScanRaw ==
  ASSUME NEW bytes \in Seq(Bytes), HasOneLineEnd(bytes), NEW n \in 0..Len(bytes),
         Unseparated(bytes, n), NEW scan, IsScan(scan, bytes)
  PROVE  LET raw == SubSeq(bytes, 1, n)
         IN  \A k \in 0..n : scan[k] = [line |-> LineBefore(raw, k + 1),
                                        data |-> Data(raw)[k], events |-> scan[0].events]
<1>. DEFINE raw == SubSeq(bytes, 1, n)
            As(k) == [line |-> LineBefore(raw, k + 1), data |-> Data(raw)[k],
                      events |-> scan[0].events]
            good == {k \in 0..n : scan[k] = As(k)}
<1>0. Len(bytes) \in Nat /\ n \in Nat /\ CR # LF BY ClientAssumption DEF ClientAssumption
<1>1. raw \in Seq(Bytes) /\ Len(raw) = n /\ \A i \in 1..n : raw[i] = bytes[i] BY PartIs
<1>2. /\ Data(raw)[0] = <<>>
      /\ \A k \in 1..n : Data(raw)[k] = IF raw[k] = LF
                                       THEN WithLine(Data(raw)[k - 1], LineBefore(raw, k))
                                       ELSE Data(raw)[k - 1]
      /\ \A k \in 0..n : Data(raw)[k] \in Seq(Lines)
  <2>. HIDE DEF raw
  <2>1. Data(raw) \in [0..(n + 1) -> Seq(Lines)] BY <1>1, DataIs
  <2>2. \A k \in 0..n : Data(raw)[k] \in Seq(Lines)
    <3>1. \A k \in 0..n : k \in 0..(n + 1) BY <1>0
    <3>. QED BY <2>1, <3>1
  <2>. QED BY <1>1, <2>2, DataIs
<1>3. \A k \in 0..Len(bytes) : scan[k] \in Readings BY DEF IsScan
<1>4. 0 \in good
  <2>1. scan[0] = [line |-> scan[0].line, data |-> scan[0].data, events |-> scan[0].events]
    BY <1>0, <1>3 DEF Readings
  <2>2. LineBefore(raw, 0 + 1) = <<>>
    <3>. HIDE DEF raw
    <3>. QED BY <1>0, <1>1, LineBeforeType
  <2>3. scan[0].line = <<>> /\ scan[0].data = <<>> BY DEF IsScan
  <2>4. scan[0] = As(0) BY <1>2, <2>1, <2>2, <2>3
  <2>. HIDE DEF As
  <2>. QED BY <1>0, <2>4
<1>5. ASSUME NEW k \in 1..n, k - 1 \in good PROVE k \in good
  <2>. DEFINE line == LineBefore(raw, k)
              old == Data(raw)[k - 1]
              r == scan[k - 1]
  <2>1. k - 1 \in 0..n /\ (k - 1) + 1 = k /\ k \in 0..n /\ k \in 1..Len(bytes)
        /\ k - 1 \in 0..Len(bytes) /\ k \in 0..Len(bytes)
    BY <1>0
  <2>2. r.line = line /\ r.data = old /\ r.events = scan[0].events /\ r \in Readings
    BY <1>3, <1>5, <2>1
  <2>3. scan[k] = ReadByte(r, bytes[k]) /\ bytes[k] \in Bytes /\ bytes[k] = raw[k]
    BY <1>1, <2>1 DEF IsScan
  <2>4. scan[k] = [line |-> scan[k].line, data |-> scan[k].data, events |-> scan[k].events]
    BY <1>3, <2>1 DEF Readings
  <2>5. line \in Lines /\ old \in Seq(Lines) /\ k \in 1..Len(raw)
    <3>. HIDE DEF raw
    <3>1. k \in 1..(Len(raw) + 1) BY <1>0, <1>1
    <3>. QED BY <1>1, <1>2, <2>1, <3>1, LineBeforeType
  <2>. HIDE DEF r
  <2>6. CASE bytes[k] # LF
    <3>1. k > 1 => raw[k - 1] # CR
      <4>1. k > 1 => k - 1 \in 1..n /\ k - 1 \in 1..Len(bytes) /\ (k - 1) + 1 <= Len(bytes)
        BY <1>0
      <4>. QED BY <1>1, <2>1, <2>6, <4>1, LineEnds
    <3>2. LineBefore(raw, k + 1) = IF raw[k] = CR THEN line ELSE Append(line, raw[k])
      <4>. HIDE DEF raw
      <4>. QED BY <1>1, <2>3, <2>5, <2>6, <3>1, LineGrows
    <3>3. Data(raw)[k] = old BY <1>2, <2>3, <2>6
    <3>. HIDE DEF line, old, raw
    <3>4. /\ scan[k].data = old /\ scan[k].events = scan[0].events
          /\ scan[k].line = IF raw[k] = CR THEN line ELSE Append(line, raw[k])
      <4>1. /\ ReadByte(r, bytes[k]).data = r.data
            /\ ReadByte(r, bytes[k]).events = r.events
            /\ ReadByte(r, bytes[k]).line = IF bytes[k] = CR THEN r.line
                                            ELSE Append(r.line, bytes[k])
        BY <2>2, <2>3, <2>6, ReadByteType
      <4>. QED BY <2>2, <2>3, <4>1
    <3>. QED BY <2>1, <2>4, <3>2, <3>3, <3>4
  <2>7. CASE bytes[k] = LF
    <3>1. LineBefore(raw, k + 1) = <<>>
      <4>. HIDE DEF raw
      <4>. QED BY <1>1, <2>3, <2>5, <2>7, LineGrows
    <3>2. Data(raw)[k] = WithLine(old, line) BY <1>2, <2>3, <2>7
    <3>3. line = <<>> => old = <<>>
      <4>. SUFFICES ASSUME line = <<>> PROVE old = <<>> OBVIOUS
      <4>1. k \in 1..(n + 1) /\ k <= Len(bytes) BY <1>0
      <4>2. k = 1 \/ (k = 2 /\ bytes[1] = CR) BY <2>7, <4>1, BlankIsFirst
      <4>3. CASE k = 1 BY <1>2, <4>3
      <4>4. CASE k = 2 /\ bytes[1] = CR
        <5>1. 1 \in 1..n /\ k - 1 = 1 /\ 1 - 1 = 0 BY <4>4
        <5>2. raw[1] # LF BY <1>0, <1>1, <4>4, <5>1
        <5>3. Data(raw)[1] = Data(raw)[0] BY <1>2, <5>1, <5>2
        <5>. QED BY <1>2, <5>1, <5>3
      <4>. QED BY <4>2, <4>3, <4>4
    <3>. HIDE DEF line, old, raw
    <3>4. WithLine(old, <<>>) = old
      <4>1. <<>> \in Lines BY DEF Lines
      <4>. QED BY <2>5, <4>1, WithLineType
    <3>5. /\ scan[k].line = <<>> /\ scan[k].data = WithLine(old, line)
          /\ scan[k].events = scan[0].events
      <4>1. CASE line = <<>>
        <5>1. /\ scan[k].line = <<>> /\ scan[k].data = <<>> /\ scan[k].events = r.events
          BY <2>2, <2>3, <2>7, <3>3, <4>1, ReadByteType
        <5>. QED BY <2>2, <3>3, <3>4, <4>1, <5>1
      <4>2. CASE line # <<>>
        BY <2>2, <2>3, <2>7, <4>2, ReadByteType
      <4>. QED BY <4>1, <4>2
    <3>. QED BY <2>1, <2>4, <3>1, <3>2, <3>5
  <2>. QED BY <2>6, <2>7
<1>6. \A k \in 0..n : k \in good
  <2>. HIDE DEF good
  <2>. QED BY <1>0, <1>4, <1>5, Climb
<1>. QED BY <1>6

-----------------------------------------------------------------------------
\* A byte that is no line end does not change what a carriage return leaves.
LEMMA ReadCR ==
  ASSUME NEW r \in Readings, CR \in Bytes
  PROVE  ReadByte(r, CR) = r
<1>1. CR # LF BY ClientAssumption DEF ClientAssumption
<1>2. ReadByte(r, CR) \in Readings /\ ReadByte(r, CR).line = r.line
      /\ ReadByte(r, CR).data = r.data /\ ReadByte(r, CR).events = r.events
  BY <1>1, ReadByteType
<1>3. \A q \in Readings : q = [line |-> q.line, data |-> q.data, events |-> q.events]
  BY DEF Readings
<1>. QED BY <1>2, <1>3

\* Two line ends after a line, the first of which ends the line: an event.
LEMMA ReadTwice ==
  ASSUME NEW r \in Readings, LF \in Bytes, r.line = <<>> => r.data = <<>>
  PROVE  LET data == WithLine(r.data, r.line)
         IN  ReadByte(ReadByte(r, LF), LF) =
               [line |-> <<>>, data |-> <<>>,
                events |-> IF data = <<>> THEN r.events ELSE Append(r.events, data)]
<1>. DEFINE data == WithLine(r.data, r.line)
            once == ReadByte(r, LF)
            twice == ReadByte(once, LF)
<1>1. once \in Readings /\ once.line = <<>> BY ReadByteType
<1>2. once.data = data /\ once.events = r.events
  <2>1. CASE r.line = <<>>
    <3>1. once.data = <<>> /\ once.events = r.events BY <2>1, ReadByteType
    <3>2. data = r.data
      <4>1. r.data \in Seq(Lines) /\ <<>> \in Lines BY DEF Readings, Lines
      <4>. QED BY <2>1, <4>1, WithLineType
    <3>. QED BY <2>1, <3>1, <3>2
  <2>2. CASE r.line # <<>> BY <2>2, ReadByteType
  <2>. QED BY <2>1, <2>2
<1>. HIDE DEF once, data
<1>3. /\ twice \in Readings /\ twice.line = <<>> /\ twice.data = <<>>
      /\ twice.events = IF once.data = <<>> THEN once.events ELSE Append(once.events, once.data)
  BY <1>1, ReadByteType
<1>. HIDE DEF twice
<1>4. twice = [line |-> twice.line, data |-> twice.data, events |-> twice.events]
  BY <1>3 DEF Readings
<1>5. twice = [line |-> <<>>, data |-> <<>>,
               events |-> IF data = <<>> THEN r.events ELSE Append(r.events, data)]
  BY <1>2, <1>3, <1>4
<1>. QED BY <1>5 DEF twice, once, data

\* A last line that is blank, right before a separator, is the only one.
LEMMA BlankBeforeCRLF ==
  ASSUME NEW bytes \in Seq(Bytes), HasOneLineEnd(bytes), NEW n \in 0..Len(bytes),
         Unseparated(bytes, n), DoubleCRLF(bytes, n + 1),
         LineBefore(SubSeq(bytes, 1, n), n + 1) = <<>>
  PROVE  n = 0
<1>. DEFINE raw == SubSeq(bytes, 1, n)
            m == LineStart(raw, n + 1)
<1>0. Len(bytes) \in Nat /\ CR # LF /\ n \in Nat BY ClientAssumption DEF ClientAssumption
<1>1. raw \in Seq(Bytes) /\ Len(raw) = n /\ \A i \in 1..n : raw[i] = bytes[i] BY PartIs
<1>. HIDE DEF raw
<1>2. n + 1 \in 1..(Len(raw) + 1) /\ (n + 1) - 1 = n BY <1>0, <1>1
<1>3. m \in 1..(n + 1) /\ IsLineStart(raw, n + 1, m) BY <1>1, <1>2, LineStartIs
<1>4. m = n + 1 \/ (n + 1 > 1 /\ m = n /\ raw[n] = CR)
  BY <1>1, <1>2, LineBeforeType DEF raw
<1>5. m = 1 \/ raw[m - 1] = LF BY <1>3 DEF IsLineStart
<1>. HIDE DEF m
<1>6. /\ bytes[n + 1] = CR /\ bytes[n + 2] = LF /\ n + 1 \in 1..Len(bytes)
      /\ n + 1 <= Len(bytes)
  BY <1>0 DEF DoubleCRLF
<1>7. \A i \in 1..Len(bytes) : bytes[i] = LF => i > 1 /\ bytes[i - 1] = CR
  BY <1>6, LineEnds
<1>. SUFFICES ASSUME n # 0 PROVE FALSE OBVIOUS
<1>8. n \in 1..n /\ n \in 1..Len(bytes) BY <1>0
<1>9. bytes[n] # CR BY <1>0, <1>6, <1>8, LineEnds
<1>10. m = n + 1 /\ m # 1 /\ m - 1 = n BY <1>0, <1>1, <1>4, <1>8, <1>9
<1>11. bytes[n] = LF BY <1>1, <1>5, <1>8, <1>10
<1>12. n > 1 /\ bytes[n - 1] = CR BY <1>7, <1>8, <1>11
<1>13. n - 1 \in 1..n /\ (n - 1) + 1 = n /\ (n - 1) + 2 = n + 1 /\ (n - 1) + 3 = n + 2
       /\ n + 2 <= Len(bytes)
  BY <1>0, <1>12 DEF DoubleCRLF
<1>14. DoubleCRLF(bytes, n - 1) BY <1>6, <1>11, <1>12, <1>13 DEF DoubleCRLF
<1>. QED BY <1>13, <1>14 DEF Unseparated

\* Reading a buffer up to the end of its first separator gives the event that
\* decode makes of the bytes before it, and leaves nothing behind.
LEMMA ScanEvent ==
  ASSUME NEW bytes \in Seq(Bytes), HasOneLineEnd(bytes), NEW scan, IsScan(scan, bytes),
         Separator(bytes).at <= Len(bytes)
  PROVE  LET cut == Separator(bytes)
             data == DataOf(SubSeq(bytes, 1, cut.at - 1))
             end == cut.at + cut.length - 1
         IN  /\ end \in 1..Len(bytes) /\ end >= cut.at
             /\ bytes[end] = LF
             /\ data \in Seq(Lines)
             /\ scan[end] =
                  [line |-> <<>>, data |-> <<>>,
                   events |-> IF data = <<>> THEN scan[0].events
                              ELSE Append(scan[0].events, data)]
<1>. DEFINE cut == Separator(bytes)
            n == cut.at - 1
            raw == SubSeq(bytes, 1, n)
            r == scan[n]
            data == DataOf(raw)
            line == LineBefore(raw, n + 1)
<1>0. Len(bytes) \in Nat /\ CR # LF BY ClientAssumption DEF ClientAssumption
<1>1. /\ cut.at \in 1..(Len(bytes) + 1) /\ Unseparated(bytes, n)
      /\ cut.at <= Len(bytes) =>
           \/ cut.length = 2 /\ DoubleLF(bytes, cut.at)
           \/ cut.length = 4 /\ DoubleCRLF(bytes, cut.at)
  BY SeparatorIs
<1>. HIDE DEF cut
<1>2. /\ n \in 0..Len(bytes) /\ n \in Nat /\ n + 1 = cut.at /\ n + 1 \in 1..Len(bytes)
      /\ n + 1 <= Len(bytes)
      /\ \/ cut.length = 2 /\ DoubleLF(bytes, n + 1)
         \/ cut.length = 4 /\ DoubleCRLF(bytes, n + 1)
  BY <1>0, <1>1 DEF cut
<1>. HIDE DEF n
<1>3. raw \in Seq(Bytes) /\ Len(raw) = n /\ \A i \in 1..n : raw[i] = bytes[i] BY <1>2, PartIs
<1>4. r = [line |-> line, data |-> Data(raw)[n], events |-> scan[0].events]
  <2>1. n \in 0..n BY <1>2
  <2>. QED BY <1>1, <1>2, <2>1, ScanRaw DEF n
<1>5. r \in Readings BY <1>2 DEF IsScan
<1>. HIDE DEF raw
<1>6. Data(raw)[0] = <<>> /\ data = WithLine(Data(raw)[n], line) /\ data \in Seq(Lines)
  BY <1>3, DataIs
<1>7. r.line = line /\ r.data = Data(raw)[n] /\ r.events = scan[0].events BY <1>4
<1>8. r.line = <<>> => r.data = <<>>
  <2>. SUFFICES ASSUME line = <<>> PROVE Data(raw)[n] = <<>> BY <1>7
  <2>1. CASE DoubleLF(bytes, n + 1)
    <3>1. bytes[n + 1] = LF /\ n + 1 \in 1..(n + 1) BY <1>2, <2>1 DEF DoubleLF
    <3>2. n + 1 = 1 \/ (n + 1 = 2 /\ bytes[1] = CR)
      BY <1>1, <1>2, <3>1, BlankIsFirst DEF raw
    <3>3. CASE n + 1 = 2 /\ bytes[1] = CR
      <4>1. n = 1 /\ 1 \in 1..n /\ 1 - 1 = 0 BY <1>2, <3>3
      <4>2. raw[1] # LF BY <1>0, <1>3, <3>3, <4>1
      <4>3. Data(raw)[1] = IF raw[1] = LF THEN WithLine(Data(raw)[1 - 1], LineBefore(raw, 1))
                           ELSE Data(raw)[1 - 1]
        <5>1. 1 \in 1..Len(raw) BY <1>3, <4>1
        <5>. QED BY <1>3, <5>1, DataIs
      <4>. QED BY <1>6, <4>1, <4>2, <4>3
    <3>4. CASE n + 1 = 1
      <4>1. n = 0 BY <1>2, <3>4
      <4>. QED BY <1>6, <4>1
    <3>. QED BY <3>2, <3>3, <3>4
  <2>2. CASE DoubleCRLF(bytes, n + 1)
    <3>1. n = 0 BY <1>1, <1>2, <2>2, BlankBeforeCRLF DEF raw
    <3>. QED BY <1>6, <3>1
  <2>. QED BY <1>2, <2>1, <2>2
<1>. DEFINE after == [line |-> <<>>, data |-> <<>>,
                      events |-> IF data = <<>> THEN scan[0].events
                                 ELSE Append(scan[0].events, data)]
<1>9. LF \in Bytes => ReadByte(ReadByte(r, LF), LF) = after
  <2>. HIDE DEF data, line, r
  <2>. QED BY <1>5, <1>6, <1>7, <1>8, ReadTwice
<1>. HIDE DEF after, data
<1>10. \A k \in 1..Len(bytes) : scan[k] = ReadByte(scan[k - 1], bytes[k]) /\ bytes[k] \in Bytes
  BY DEF IsScan
<1>11. CASE cut.length = 2 /\ DoubleLF(bytes, n + 1)
  <2>1. /\ n + 1 \in 1..Len(bytes) /\ n + 2 \in 1..Len(bytes) /\ (n + 1) - 1 = n
        /\ (n + 2) - 1 = n + 1 /\ (n + 1) + 1 = n + 2
        /\ bytes[n + 1] = LF /\ bytes[n + 2] = LF
    BY <1>0, <1>2, <1>11 DEF DoubleLF
  <2>2. scan[n + 2] = ReadByte(ReadByte(r, LF), LF) /\ LF \in Bytes BY <1>10, <2>1
  <2>3. cut.at + cut.length - 1 = n + 2 /\ n + 2 >= cut.at
    BY <1>2, <1>11
  <2>. QED BY <1>6, <1>9, <2>1, <2>2, <2>3 DEF cut, n, data, after, raw
<1>12. CASE cut.length = 4 /\ DoubleCRLF(bytes, n + 1)
  <2>1. /\ n + 1 \in 1..Len(bytes) /\ n + 2 \in 1..Len(bytes) /\ n + 3 \in 1..Len(bytes)
        /\ n + 4 \in 1..Len(bytes) /\ (n + 1) - 1 = n /\ (n + 2) - 1 = n + 1
        /\ (n + 3) - 1 = n + 2 /\ (n + 4) - 1 = n + 3
        /\ (n + 1) + 1 = n + 2 /\ (n + 1) + 2 = n + 3 /\ (n + 1) + 3 = n + 4
        /\ bytes[n + 1] = CR /\ bytes[n + 2] = LF /\ bytes[n + 3] = CR /\ bytes[n + 4] = LF
    BY <1>0, <1>2, <1>12 DEF DoubleCRLF
  <2>2. LF \in Bytes /\ CR \in Bytes BY <1>10, <2>1
  <2>3. scan[n + 1] = r BY <1>5, <1>10, <2>1, <2>2, ReadCR
  <2>4. scan[n + 2] = ReadByte(r, LF) BY <1>10, <2>1, <2>3
  <2>5. scan[n + 3] = ReadByte(r, LF)
    <3>. DEFINE once == ReadByte(r, LF)
    <3>1. once \in Readings BY <1>5, <2>2, ReadByteType
    <3>2. ReadByte(once, CR) = once
      <4>. HIDE DEF once
      <4>. QED BY <2>2, <3>1, ReadCR
    <3>. QED BY <1>10, <2>1, <2>4, <3>2
  <2>6. scan[n + 4] = ReadByte(ReadByte(r, LF), LF) BY <1>10, <2>1, <2>5
  <2>7. cut.at + cut.length - 1 = n + 4 /\ n + 4 >= cut.at
    BY <1>2, <1>12
  <2>. QED BY <1>6, <1>9, <2>1, <2>2, <2>6, <2>7 DEF cut, n, data, after, raw
<1>. QED BY <1>2, <1>11, <1>12

\* Without a separator there is no event, however long the buffer is.
LEMMA ScanNone ==
  ASSUME NEW bytes \in Seq(Bytes), HasOneLineEnd(bytes), NEW scan, IsScan(scan, bytes),
         Separator(bytes).at > Len(bytes)
  PROVE  scan[Len(bytes)].events = scan[0].events
<1>. DEFINE n == Len(bytes)
            raw == SubSeq(bytes, 1, n)
<1>1. n \in 0..Len(bytes) /\ n \in 0..n /\ n \in Nat OBVIOUS
<1>2. Unseparated(bytes, n)
  <2>1. Separator(bytes).at \in 1..(n + 1) /\ Unseparated(bytes, Separator(bytes).at - 1)
    BY SeparatorIs
  <2>2. Separator(bytes).at - 1 = n BY <1>1, <2>1
  <2>. QED BY <2>1, <2>2
<1>3. scan[n] = [line |-> LineBefore(raw, n + 1), data |-> Data(raw)[n],
                 events |-> scan[0].events]
  <2>. HIDE DEF n
  <2>. QED BY <1>1, <1>2, ScanRaw
<1>. QED BY <1>3

-----------------------------------------------------------------------------
\* What has been read of a text does not depend on the bytes still to come.
LEMMA ReadPrefix ==
  ASSUME NEW early \in Seq(Bytes), NEW late \in Seq(Bytes)
  PROVE  \A k \in 0..Len(early) : Read(early)[k] = Read(early \o late)[k]
<1>. DEFINE all == early \o late
            n == Len(early)
            same == {k \in 0..n : Read(early)[k] = Read(all)[k]}
<1>1. /\ all \in Seq(Bytes) /\ n \in Nat /\ Len(all) \in Nat /\ n <= Len(all)
      /\ \A k \in 1..n : all[k] = early[k]
  BY ConcatProperties
<1>. HIDE DEF all
<1>2. 0 \in same BY <1>1, ReadIs
<1>3. ASSUME NEW k \in 1..n, k - 1 \in same PROVE k \in same
  <2>1. k \in 1..Len(all) /\ k \in 0..n BY <1>1
  <2>2. Read(early)[k] = ReadByte(Read(early)[k - 1], early[k]) BY ReadIs
  <2>3. Read(all)[k] = ReadByte(Read(all)[k - 1], all[k]) BY <1>1, <2>1, ReadIs
  <2>. QED BY <1>1, <1>3, <2>1, <2>2, <2>3
<1>4. \A k \in 0..n : k \in same
  <2>. HIDE DEF same, n
  <2>. QED BY <1>1, <1>2, <1>3, Climb
<1>. QED BY <1>4 DEF all
-----------------------------------------------------------------------------
\* The recursive function of Chunks, by its equation.
IsSeen(f, events) ==
  f = [n \in 0..Len(events) |->
         IF n = 0 THEN <<>>
         ELSE IF Done \in {events[i] : i \in 1..n} \/ events[n] \notin Json THEN f[n - 1]
         ELSE Append(f[n - 1], events[n])]

Seen(events) == CHOOSE f : IsSeen(f, events)

\* One more event, as a consumer sees it.
SeeEvent(events, k, seen) ==
  IF Done \in {events[i] : i \in 1..k} \/ events[k] \notin Json THEN seen
  ELSE Append(seen, events[k])

\* What a consumer sees of the first events, one more at a time.
LEMMA SeenIs ==
  ASSUME NEW events \in Seq(Seq(Lines))
  PROVE  /\ Seen(events) \in [0..Len(events) -> Seq(Seq(Lines))]
         /\ Seen(events)[0] = <<>>
         /\ \A k \in 1..Len(events) : Seen(events)[k] = SeeEvent(events, k, Seen(events)[k - 1])
         /\ Chunks(events) = Seen(events)[Len(events)]
<1>. DEFINE n == Len(events)
            A == Seq(Seq(Lines))
            step == [k \in 1..n |-> [seen \in A |-> SeeEvent(events, k, seen)]]
<1>1. n \in Nat OBVIOUS
<1>2. \A k \in 1..n, seen \in A : SeeEvent(events, k, seen) \in A BY DEF SeeEvent
<1>3. step \in [1..n -> [A -> A]]
  <2>. HIDE DEF n, A
  <2>. QED BY <1>2
<1>4. <<>> \in A OBVIOUS
<1>. HIDE DEF A
<1>5. PICK f \in [0..n -> A] : f[0] = <<>> /\ \A k \in 1..n : f[k] = step[k][f[k - 1]]
  <2>. HIDE DEF step, n
  <2>1. \E f \in [0..n -> A] : IsRun(f, n, <<>>, step) BY <1>1, <1>3, <1>4, Recursion
  <2>. QED BY <2>1 DEF IsRun
<1>6. \A k \in 1..n : f[k] = SeeEvent(events, k, f[k - 1])
  <2>. SUFFICES ASSUME NEW k \in 1..n PROVE f[k] = SeeEvent(events, k, f[k - 1]) OBVIOUS
  <2>. HIDE DEF n
  <2>1. k - 1 \in 0..n BY <1>1
  <2>2. f[k - 1] \in A BY <1>5, <2>1
  <2>3. step[k][f[k - 1]] = SeeEvent(events, k, f[k - 1]) BY <2>2
  <2>. QED BY <1>5, <2>3
<1>. HIDE DEF step
<1>7. IsSeen(f, events)
  <2>. DEFINE g == [k \in 0..n |-> IF k = 0 THEN <<>> ELSE SeeEvent(events, k, f[k - 1])]
  <2>1. \A k \in 0..n : f[k] = g[k]
    <3>. SUFFICES ASSUME NEW k \in 0..n PROVE f[k] = g[k] OBVIOUS
    <3>1. k = 0 \/ k \in 1..n BY <1>1
    <3>. QED BY <1>5, <1>6, <3>1
  <2>2. f = [k \in 0..n |-> f[k]] /\ g = [k \in 0..n |-> g[k]] BY <1>5
  <2>3. f = g
    <3>. HIDE DEF g
    <3>. QED BY <2>1, <2>2
  <2>. QED BY <2>3 DEF IsSeen, SeeEvent
<1>8. IsSeen(Seen(events), events) BY <1>7 DEF Seen
<1>. DEFINE g == Seen(events)
<1>9. g = [k \in 0..n |-> IF k = 0 THEN <<>> ELSE SeeEvent(events, k, g[k - 1])]
  BY <1>8 DEF IsSeen, SeeEvent
<1>. HIDE DEF g
<1>10. /\ g[0] = <<>> /\ \A k \in 1..n : g[k] = SeeEvent(events, k, g[k - 1])
       /\ g = [k \in 0..n |-> g[k]]
  <2>1. 0 \in 0..n /\ \A k \in 1..n : k \in 0..n /\ k # 0 BY <1>1
  <2>. QED BY <1>9, <2>1
<1>. DEFINE same == {k \in 0..n : g[k] = f[k]}
<1>11. \A k \in 0..n : k \in same
  <2>1. 0 \in same BY <1>1, <1>5, <1>10
  <2>2. ASSUME NEW k \in 1..n, k - 1 \in same PROVE k \in same
    <3>1. k \in 0..n BY <1>1
    <3>. QED BY <1>6, <1>10, <2>2, <3>1
  <2>. HIDE DEF same
  <2>. QED BY <1>1, <2>1, <2>2, Climb
<1>12. g \in [0..n -> A] BY <1>5, <1>10, <1>11
<1>13. Chunks(events) = g[n] BY DEF Chunks, g, Seen, IsSeen
<1>. QED BY <1>10, <1>12, <1>13 DEF g, A

\* What was seen of the first events stays when one more comes.
LEMMA SeenPrefix ==
  ASSUME NEW events \in Seq(Seq(Lines)), NEW data \in Seq(Lines)
  PROVE  \A k \in 0..Len(events) : Seen(Append(events, data))[k] = Seen(events)[k]
<1>. DEFINE all == Append(events, data)
            n == Len(events)
            same == {k \in 0..n : Seen(all)[k] = Seen(events)[k]}
<1>1. /\ all \in Seq(Seq(Lines)) /\ n \in Nat /\ Len(all) = n + 1
      /\ \A k \in 1..n : all[k] = events[k]
  BY AppendProperties
<1>. HIDE DEF all
<1>2. 0 \in same BY <1>1, SeenIs
<1>3. ASSUME NEW k \in 1..n, k - 1 \in same PROVE k \in same
  <2>1. k \in 1..Len(all) /\ k \in 0..n /\ \A i \in 1..k : i \in 1..n BY <1>1
  <2>2. Seen(events)[k] = SeeEvent(events, k, Seen(events)[k - 1]) BY SeenIs
  <2>3. Seen(all)[k] = SeeEvent(all, k, Seen(all)[k - 1]) BY <1>1, <2>1, SeenIs
  <2>4. {all[i] : i \in 1..k} = {events[i] : i \in 1..k} /\ all[k] = events[k] BY <1>1, <2>1
  <2>. QED BY <1>3, <2>1, <2>2, <2>3, <2>4 DEF SeeEvent
<1>4. \A k \in 0..n : k \in same
  <2>. HIDE DEF same, n
  <2>. QED BY <1>1, <1>2, <1>3, Climb
<1>. QED BY <1>4 DEF all

\* A consumer never takes back what it has seen.
LEMMA SeenGrows ==
  ASSUME NEW events \in Seq(Seq(Lines)), NEW t \in 0..Len(events)
  PROVE  IsPrefix(Seen(events)[t], Chunks(events))
<1>. DEFINE n == Len(events)
            s == Seen(events)
            good == {k \in 0..n : k >= t => IsPrefix(s[t], s[k])}
<1>1. /\ n \in Nat /\ s \in [0..n -> Seq(Seq(Lines))]
      /\ \A k \in 1..n : s[k] = SeeEvent(events, k, s[k - 1])
      /\ Chunks(events) = s[n]
  BY SeenIs
<1>. HIDE DEF s
<1>2. s[t] \in Seq(Seq(Lines)) /\ IsPrefix(s[t], s[t]) BY <1>1 DEF IsPrefix
<1>3. 0 \in good
  <2>1. 0 >= t => t = 0 OBVIOUS
  <2>2. 0 \in 0..n BY <1>1
  <2>. QED BY <1>2, <2>1, <2>2
<1>4. ASSUME NEW k \in 1..n, k - 1 \in good PROVE k \in good
  <2>. SUFFICES ASSUME k >= t PROVE IsPrefix(s[t], s[k]) BY <1>1
  <2>1. CASE k = t BY <1>2, <2>1
  <2>2. CASE k # t
    <3>1. k - 1 >= t /\ k - 1 \in 0..n BY <1>1, <2>2
    <3>2. IsPrefix(s[t], s[k - 1]) BY <1>4, <3>1
    <3>. DEFINE old == s[k - 1]
    <3>3. old \in Seq(Seq(Lines)) BY <1>1, <3>1
    <3>4. s[k] = old \/ s[k] = Append(old, events[k]) BY <1>1 DEF SeeEvent
    <3>5. events[k] \in Seq(Lines) BY ElementOfSeq
    <3>. HIDE DEF old
    <3>6. IsPrefix(s[t], old) => IsPrefix(s[t], Append(old, events[k]))
      BY <1>2, <3>3, <3>5, PrefixOfAppend
    <3>. QED BY <3>2, <3>4, <3>6 DEF old
  <2>. QED BY <2>1, <2>2
<1>5. n \in good
  <2>. HIDE DEF good
  <2>1. \A k \in 0..n : k \in good
    <3>. HIDE DEF n
    <3>. QED BY <1>1, <1>3, <1>4, Climb
  <2>. QED BY <1>1, <2>1
<1>. QED BY <1>1, <1>5 DEF s

\* After the sentinel a consumer sees nothing more.
LEMMA SeenStops ==
  ASSUME NEW events \in Seq(Seq(Lines)), NEW t \in 1..Len(events), events[t] = Done
  PROVE  Chunks(events) = Seen(events)[t - 1]
<1>. DEFINE n == Len(events)
            s == Seen(events)
            good == {k \in 0..n : k >= t - 1 => s[k] = s[t - 1]}
<1>1. /\ n \in Nat /\ \A k \in 1..n : s[k] = SeeEvent(events, k, s[k - 1])
      /\ Chunks(events) = s[n]
  BY SeenIs
<1>. HIDE DEF s
<1>2. 0 \in good
  <2>1. 0 \in 0..n /\ (0 >= t - 1 => t - 1 = 0) BY <1>1
  <2>. QED BY <2>1
<1>3. ASSUME NEW k \in 1..n, k - 1 \in good PROVE k \in good
  <2>. SUFFICES ASSUME k >= t - 1 PROVE s[k] = s[t - 1] BY <1>1
  <2>1. CASE k = t - 1 BY <2>1
  <2>2. CASE k # t - 1
    <3>1. k - 1 >= t - 1 /\ k - 1 \in 0..n /\ t \in 1..k BY <1>1, <2>2
    <3>2. s[k - 1] = s[t - 1] BY <1>3, <3>1
    <3>3. Done \in {events[i] : i \in 1..k} BY <3>1
    <3>. QED BY <1>1, <3>2, <3>3 DEF SeeEvent
  <2>. QED BY <2>1, <2>2
<1>4. n \in good
  <2>. HIDE DEF good
  <2>1. \A k \in 0..n : k \in good
    <3>. HIDE DEF n
    <3>. QED BY <1>1, <1>2, <1>3, Climb
  <2>. QED BY <1>1, <2>1
<1>5. n >= t - 1 BY <1>1
<1>. QED BY <1>1, <1>4, <1>5 DEF s

-----------------------------------------------------------------------------
\* All that the upstream has sent or will send.
Whole == wire \o rest

\* The decoder stands after the event or before the first, with no line begun.
Between(p) ==
  /\ p \in 0..Len(wire) /\ (p = 0 \/ Whole[p] = LF)
  /\ buffer = SubSeq(Whole, p + 1, Len(wire))
  /\ Read(Whole)[p].line = <<>> /\ Read(Whole)[p].data = <<>>

\* The generator has come to t of the events before that point.
Taken(p, t) ==
  LET told == Read(Whole)[p].events
  IN  /\ t \in 0..Len(told)
      /\ pending = SubSeq(told, t + 1, Len(told))
      /\ yielded = Seen(told)[t]
      /\ \A i \in 1..t : told[i] # Done

\* How a streaming call stands, at every stage of it.
Streaming ==
  mode = "stream" =>
    /\ stage \in {"sending", "reading", "decoding", "done", "raised"}
    /\ wire \in Seq(Bytes) /\ rest \in Seq(Bytes) /\ HasOneLineEnd(Whole)
    /\ stage \in {"sending", "reading", "decoding"} =>
         \E p, t \in Nat : Between(p) /\ Taken(p, t)
    /\ stage \in {"sending", "reading"} => Separator(buffer).at > Len(buffer)
    /\ stage = "sending" => pending = <<>>
    /\ stage \in {"done", "raised"} => pending = <<>> /\ yielded = Chunks(Events(wire))

\* Joining three sequences in either order.
LEMMA Regrouped ==
  ASSUME NEW a \in Seq(Bytes), NEW b \in Seq(Bytes), NEW c \in Seq(Bytes)
  PROVE  (a \o b) \o c = a \o (b \o c)
BY ConcatProperties, SeqEqual

\* The end of a stretch of a sequence is a stretch of it.
LEMMA EndOfStretch ==
  ASSUME NEW S, NEW s \in Seq(S), NEW i \in 1..Len(s), NEW j \in i..Len(s),
         NEW m \in 1..(j - i + 1)
  PROVE  SubSeq(SubSeq(s, i, j), m, j - i + 1) = SubSeq(s, i + m - 1, j)
<1>. DEFINE a == SubSeq(s, i, j)
            b == SubSeq(a, m, j - i + 1)
            c == SubSeq(s, i + m - 1, j)
<1>1. a \in Seq(S) /\ Len(a) = j - i + 1 /\ \A k \in 1..(j - i + 1) : a[k] = s[i + k - 1]
  OBVIOUS
<1>. HIDE DEF a
<1>2. /\ b \in Seq(S) /\ Len(b) = j - i + 2 - m
      /\ \A k \in 1..(j - i + 2 - m) : b[k] = a[m + k - 1]
  BY <1>1
<1>3. /\ c \in Seq(S) /\ Len(c) = j - i + 2 - m
      /\ \A k \in 1..(j - i + 2 - m) : c[k] = s[i + m - 1 + k - 1]
  BY <1>1
<1>. HIDE DEF b, c
<1>4. \A k \in 1..(j - i + 2 - m) : b[k] = c[k] BY <1>1, <1>2, <1>3
<1>5. b = c BY <1>2, <1>3, <1>4, SeqEqual
<1>. QED BY <1>5 DEF a, b, c

\* Any stretch of a text has one kind of line end, if it starts a line.
LEMMA StretchHasOneLineEnd ==
  ASSUME NEW text \in Seq(Bytes), HasOneLineEnd(text), NEW p \in 0..Len(text),
         NEW q \in p..Len(text), p = 0 \/ text[p] = LF
  PROVE  /\ SubSeq(text, p + 1, q) \in Seq(Bytes) /\ Len(SubSeq(text, p + 1, q)) = q - p
         /\ \A i \in 1..(q - p) : SubSeq(text, p + 1, q)[i] = text[p + i]
         /\ HasOneLineEnd(SubSeq(text, p + 1, q))
<1>. DEFINE part == SubSeq(text, p + 1, q)
<1>0. Len(text) \in Nat /\ CR # LF BY ClientAssumption DEF ClientAssumption
<1>1. /\ part \in Seq(Bytes) /\ Len(part) = q - p
      /\ \A i \in 1..(q - p) : part[i] = text[p + i]
  <2>1. p + 1 \in Int /\ q \in Int /\ \A i \in (p + 1)..q : text[i] \in Bytes BY <1>0
  <2>2. /\ part \in Seq(Bytes) /\ Len(part) = IF p + 1 <= q THEN q - (p + 1) + 1 ELSE 0
        /\ \A i \in 1..(q - (p + 1) + 1) : part[i] = text[(p + 1) + i - 1]
    BY <2>1, SubSeqProperties
  <2>3. q - (p + 1) + 1 = q - p /\ \A i \in 1..(q - p) : (p + 1) + i - 1 = p + i BY <1>0
  <2>. QED BY <1>0, <2>2, <2>3
<1>. HIDE DEF part
<1>2. DOMAIN part = 1..(q - p) /\ DOMAIN text = 1..Len(text)
      /\ \A i \in 1..(q - p) : p + i \in 1..Len(text)
  BY <1>0, <1>1
<1>3. HasOneLineEnd(part)
  <2>1. CASE \A i \in DOMAIN text : text[i] # CR
    BY <1>1, <1>2, <2>1 DEF HasOneLineEnd
  <2>2. CASE \A i \in DOMAIN text : text[i] = LF <=> i > 1 /\ text[i - 1] = CR
    <3>1. ASSUME NEW i \in 1..(q - p) PROVE part[i] = LF <=> i > 1 /\ part[i - 1] = CR
      <4>1. part[i] = LF <=> p + i > 1 /\ text[(p + i) - 1] = CR BY <1>1, <1>2, <2>2
      <4>2. CASE i = 1
        <5>1. (p + i) - 1 = p BY <1>0, <4>2
        <5>. QED BY <1>0, <4>1, <4>2, <5>1
      <4>3. CASE i # 1
        <5>1. i - 1 \in 1..(q - p) /\ p + (i - 1) = (p + i) - 1 /\ i > 1 /\ p + i > 1
          BY <1>0, <4>3
        <5>. QED BY <1>1, <4>1, <5>1
      <4>. QED BY <4>2, <4>3
    <3>. QED BY <1>2, <3>1 DEF HasOneLineEnd
  <2>. QED BY <2>1, <2>2 DEF HasOneLineEnd
<1>. QED BY <1>1, <1>3 DEF part

\* Reading on from a point between events is a scan of what is there.
LEMMA StretchIsScan ==
  ASSUME NEW text \in Seq(Bytes), HasOneLineEnd(text), NEW p \in 0..Len(text),
         NEW q \in p..Len(text), p = 0 \/ text[p] = LF,
         Read(text)[p].line = <<>>, Read(text)[p].data = <<>>
  PROVE  LET scan == [k \in 0..(q - p) |-> Read(text)[p + k]]
         IN  IsScan(scan, SubSeq(text, p + 1, q)) /\ scan[0] = Read(text)[p]
<1>. DEFINE part == SubSeq(text, p + 1, q)
            read == Read(text)
            scan == [k \in 0..(q - p) |-> read[p + k]]
<1>0. Len(text) \in Nat OBVIOUS
<1>1. Len(part) = q - p /\ \A i \in 1..(q - p) : part[i] = text[p + i]
  BY StretchHasOneLineEnd
<1>2. /\ read \in [0..Len(text) -> Readings]
      /\ \A k \in 1..Len(text) : read[k] = ReadByte(read[k - 1], text[k])
  BY ReadIs
<1>3. read[p].line = <<>> /\ read[p].data = <<>> OBVIOUS
<1>. HIDE DEF part, read
<1>4. scan \in [0..(q - p) -> Readings]
  <2>1. \A k \in 0..(q - p) : p + k \in 0..Len(text) BY <1>0
  <2>. QED BY <1>2, <2>1
<1>5. scan[0] = read[p]
  <2>1. 0 \in 0..(q - p) /\ p + 0 = p BY <1>0
  <2>. QED BY <2>1
<1>6. ASSUME NEW k \in 1..(q - p) PROVE scan[k] = ReadByte(scan[k - 1], part[k])
  <2>1. /\ k \in 0..(q - p) /\ k - 1 \in 0..(q - p) /\ p + k \in 1..Len(text)
        /\ p + (k - 1) = (p + k) - 1
    BY <1>0
  <2>2. scan[k] = read[p + k] /\ scan[k - 1] = read[(p + k) - 1] BY <2>1
  <2>. QED BY <1>1, <1>2, <2>1, <2>2
<1>. HIDE DEF scan
<1>7. IsScan(scan, part) BY <1>1, <1>3, <1>4, <1>5, <1>6 DEF IsScan
<1>. QED BY <1>5, <1>7 DEF scan, part, read

\* When no separator is left, what was read is what the decoder has found.
LEMMA Settled ==
  ASSUME wire \in Seq(Bytes), rest \in Seq(Bytes), HasOneLineEnd(Whole),
         NEW p, NEW t, Between(p), Taken(p, t), Separator(buffer).at > Len(buffer)
  PROVE  /\ Events(wire) = Read(Whole)[p].events
         /\ IsPrefix(yielded, Chunks(Events(wire)))
         /\ pending = <<>> => yielded = Chunks(Events(wire))
<1>. DEFINE q == Len(wire)
            told == Read(Whole)[p].events
            scan == [k \in 0..(q - p) |-> Read(Whole)[p + k]]
<1>1. /\ Whole \in Seq(Bytes) /\ q \in Nat /\ Len(Whole) \in Nat /\ q <= Len(Whole)
  BY ConcatProperties DEF Whole
<1>2. /\ p \in 0..q /\ (p = 0 \/ Whole[p] = LF) /\ buffer = SubSeq(Whole, p + 1, q)
      /\ Read(Whole)[p].line = <<>> /\ Read(Whole)[p].data = <<>>
  BY DEF Between
<1>3. p \in 0..Len(Whole) /\ q \in p..Len(Whole) BY <1>1, <1>2
<1>4. buffer \in Seq(Bytes) /\ Len(buffer) = q - p /\ HasOneLineEnd(buffer)
  <2>. HIDE DEF q
  <2>. QED BY <1>1, <1>2, <1>3, StretchHasOneLineEnd
<1>5. IsScan(scan, buffer) /\ scan[0] = Read(Whole)[p]
  <2>. HIDE DEF q
  <2>. QED BY <1>1, <1>2, <1>3, StretchIsScan
<1>6. scan[q - p] = Read(Whole)[q]
  <2>. HIDE DEF q
  <2>1. q - p \in 0..(q - p) /\ p + (q - p) = q BY <1>1, <1>3
  <2>. QED BY <2>1
<1>. HIDE DEF scan
<1>7. Read(Whole)[q].events = told BY <1>4, <1>5, <1>6, ScanNone
<1>8. Read(wire)[q] = Read(Whole)[q]
  <2>1. q \in 0..Len(wire) BY <1>1
  <2>. QED BY <2>1, ReadPrefix DEF Whole
<1>9. Events(wire) = told BY <1>7, <1>8, ReadIs
<1>10. told \in Seq(Seq(Lines))
  <2>1. Read(Whole)[p] \in Readings BY <1>1, <1>3, ReadIs
  <2>. QED BY <2>1 DEF Readings
<1>11. /\ t \in 0..Len(told) /\ pending = SubSeq(told, t + 1, Len(told)) /\ yielded = Seen(told)[t]
  BY DEF Taken
<1>. HIDE DEF told
<1>12. IsPrefix(yielded, Chunks(told)) BY <1>10, <1>11, SeenGrows
<1>13. pending = <<>> => t = Len(told)
  <2>1. Len(told) \in Nat /\ Len(pending) = Len(told) - t BY <1>10, <1>11
  <2>2. pending = <<>> => Len(pending) = 0 OBVIOUS
  <2>. QED BY <1>11, <2>1, <2>2
<1>14. Chunks(told) = Seen(told)[Len(told)] BY <1>10, SeenIs
<1>. QED BY <1>9, <1>11, <1>12, <1>13, <1>14 DEF told
-----------------------------------------------------------------------------
\* Nothing has been read.
LEMMA InitStreaming == ClientInit => Streaming
<1>. SUFFICES ASSUME ClientInit, mode = "stream"
              PROVE  /\ stage = "sending" /\ pending = <<>>
                     /\ wire \in Seq(Bytes) /\ rest \in Seq(Bytes) /\ HasOneLineEnd(Whole)
                     /\ \E p, t \in Nat : Between(p) /\ Taken(p, t)
                     /\ Separator(buffer).at > Len(buffer)
  BY DEF Streaming
<1>1. /\ stage = "sending" /\ pending = <<>> /\ wire = <<>> /\ buffer = <<>> /\ yielded = <<>>
      /\ rest \in Texts
  BY DEF ClientInit
<1>2. wire \in Seq(Bytes) /\ rest \in Seq(Bytes) /\ HasOneLineEnd(rest)
  BY <1>1, ClientAssumption DEF ClientAssumption
<1>3. Whole = rest /\ Len(wire) = 0 BY <1>1, <1>2 DEF Whole
<1>4. Read(Whole)[0] = Nothing BY <1>2, <1>3, ReadIs
<1>5. SubSeq(Whole, 1, 0) = <<>> BY SubSeqEmpty
<1>6. Between(0) BY <1>1, <1>3, <1>4, <1>5, NothingType DEF Between
<1>7. Taken(0, 0)
  <2>1. Read(Whole)[0].events = <<>> /\ Len(<<>>) = 0 BY <1>4, NothingType
  <2>2. SubSeq(<<>>, 1, 0) = <<>> BY SubSeqEmpty
  <2>3. Seen(<<>>)[0] = <<>>
    <3>1. <<>> \in Seq(Seq(Lines)) OBVIOUS
    <3>. QED BY <3>1, SeenIs
  <2>. QED BY <1>1, <2>1, <2>2, <2>3 DEF Taken
<1>8. Separator(buffer).at > Len(buffer)
  <2>1. buffer \in Seq(Bytes) /\ Len(buffer) = 0 BY <1>1
  <2>2. Separator(buffer).at \in 1..(0 + 1) BY <2>1, SeparatorIs
  <2>. QED BY <2>1, <2>2
<1>. QED BY <1>1, <1>2, <1>3, <1>6, <1>7, <1>8

\* A chunk goes to the end of the buffer.
LEMMA ReceiveStreaming ==
  ASSUME Streaming, mode = "stream", NEW n \in 1..Len(rest), Receive(n)
  PROVE  Streaming'
<1>. DEFINE chunk == SubSeq(rest, 1, n)
            left == SubSeq(rest, n + 1, Len(rest))
<1>1. /\ stage = "reading" /\ stage' = "decoding" /\ mode' = mode
      /\ wire' = wire \o chunk /\ rest' = left /\ buffer' = buffer \o chunk
      /\ pending' = pending /\ yielded' = yielded
  BY DEF Receive, Reading, postVars
<1>2. wire \in Seq(Bytes) /\ rest \in Seq(Bytes) /\ HasOneLineEnd(Whole)
  BY <1>1 DEF Streaming
<1>3. PICK p \in Nat, t \in Nat : Between(p) /\ Taken(p, t) BY <1>1 DEF Streaming
<1>4. /\ chunk \in Seq(Bytes) /\ Len(chunk) = n /\ left \in Seq(Bytes) /\ chunk \o left = rest
  <2>1. Len(rest) \in Nat /\ n \in 0..Len(rest) /\ 1 \in 1..(Len(rest) + 1)
        /\ n \in (1 - 1)..Len(rest) /\ Len(rest) \in n..Len(rest)
    BY <1>2
  <2>2. chunk \in Seq(Bytes) /\ Len(chunk) = n BY <1>2, <2>1, PartIs
  <2>3. left \in Seq(Bytes) BY <1>2, <2>1
  <2>4. chunk \o left = SubSeq(rest, 1, Len(rest)) BY <1>2, <2>1, ConcatAdjacentSubSeq
  <2>. QED BY <1>2, <2>2, <2>3, <2>4, SubSeqFull
<1>. HIDE DEF chunk, left
<1>5. Whole' = Whole
  <2>1. Whole' = (wire \o chunk) \o left BY <1>1 DEF Whole
  <2>2. wire \in Seq(Bytes) /\ chunk \in Seq(Bytes) /\ left \in Seq(Bytes) BY <1>2, <1>4
  <2>3. \A a, b, c \in Seq(Bytes) : (a \o b) \o c = a \o (b \o c) BY Regrouped
  <2>4. (wire \o chunk) \o left = wire \o (chunk \o left) BY ONLY <2>2, <2>3, Zenon
  <2>. QED BY <1>4, <2>1, <2>4 DEF Whole
<1>6. /\ Whole \in Seq(Bytes) /\ Len(wire) \in Nat /\ Len(Whole) = Len(wire) + Len(rest)
      /\ Len(rest) \in Nat /\ Len(wire') = Len(wire) + n /\ wire' \in Seq(Bytes)
      /\ rest' \in Seq(Bytes)
  <2>1. /\ Whole \in Seq(Bytes) /\ Len(wire) \in Nat /\ Len(rest) \in Nat
        /\ Len(Whole) = Len(wire) + Len(rest)
    BY <1>2, ConcatProperties DEF Whole
  <2>2. Len(wire \o chunk) = Len(wire) + n /\ wire \o chunk \in Seq(Bytes)
    BY <1>2, <1>4, ConcatProperties
  <2>. QED BY <1>1, <1>4, <2>1, <2>2
<1>7. SubSeq(Whole, Len(wire) + 1, Len(wire) + n) = chunk
  <2>1. /\ Len(wire) + 1 \in (Len(wire) + 1)..(Len(wire) + Len(rest))
        /\ Len(wire) + n \in (Len(wire) + 1)..(Len(wire) + Len(rest))
        /\ (Len(wire) + 1) - Len(wire) = 1 /\ (Len(wire) + n) - Len(wire) = n
    BY <1>6
  <2>. QED BY <1>2, <2>1, SubSeqOfConcat2 DEF Whole, chunk
<1>8. Between(p)'
  <2>1. p \in 0..Len(wire) /\ buffer = SubSeq(Whole, p + 1, Len(wire)) BY <1>3 DEF Between
  <2>2. /\ p + 1 \in 1..(Len(Whole) + 1) /\ Len(wire) \in ((p + 1) - 1)..Len(Whole)
        /\ Len(wire) + n \in Len(wire)..Len(Whole) /\ p \in 0..(Len(wire) + n)
    BY <1>6, <2>1
  <2>3. buffer' = SubSeq(Whole, p + 1, Len(wire) + n)
    BY <1>1, <1>6, <1>7, <2>1, <2>2, ConcatAdjacentSubSeq
  <2>. QED BY <1>3, <1>5, <1>6, <2>2, <2>3 DEF Between
<1>9. Taken(p, t)' BY <1>1, <1>3, <1>5 DEF Taken
<1>. QED BY <1>1, <1>2, <1>3, <1>5, <1>6, <1>8, <1>9 DEF Streaming

\* An event cut off is the next one that a reader of the bytes finds.
LEMMA DecodeEventStreaming ==
  ASSUME Streaming, mode = "stream", DecodeEvent
  PROVE  Streaming'
<1>. DEFINE cut == Separator(buffer)
            data == DataOf(SubSeq(buffer, 1, cut.at - 1))
            end == cut.at + cut.length - 1
            q == Len(wire)
<1>1. /\ stage = "decoding" /\ cut.at <= Len(buffer)
      /\ buffer' = SubSeq(buffer, cut.at + cut.length, Len(buffer))
      /\ pending' = IF data = <<>> THEN pending ELSE Append(pending, data)
      /\ mode' = mode /\ stage' = stage /\ wire' = wire /\ rest' = rest /\ yielded' = yielded
  BY DEF DecodeEvent, postVars
<1>2. wire \in Seq(Bytes) /\ rest \in Seq(Bytes) /\ HasOneLineEnd(Whole)
  BY <1>1 DEF Streaming
<1>3. PICK p \in Nat, t \in Nat : Between(p) /\ Taken(p, t) BY <1>1 DEF Streaming
<1>. DEFINE scan == [k \in 0..(q - p) |-> Read(Whole)[p + k]]
            told == Read(Whole)[p].events
<1>4. Whole' = Whole BY <1>1 DEF Whole
<1>5. /\ Whole \in Seq(Bytes) /\ q \in Nat /\ Len(Whole) \in Nat /\ q <= Len(Whole)
  BY <1>2, ConcatProperties DEF Whole
<1>6. /\ p \in 0..q /\ (p = 0 \/ Whole[p] = LF) /\ buffer = SubSeq(Whole, p + 1, q)
      /\ Read(Whole)[p].line = <<>> /\ Read(Whole)[p].data = <<>>
  BY <1>3 DEF Between
<1>7. p \in 0..Len(Whole) /\ q \in p..Len(Whole) BY <1>5, <1>6
<1>8. /\ buffer \in Seq(Bytes) /\ Len(buffer) = q - p /\ HasOneLineEnd(buffer)
      /\ \A i \in 1..(q - p) : buffer[i] = Whole[p + i]
  <2>. HIDE DEF q
  <2>. QED BY <1>2, <1>5, <1>6, <1>7, StretchHasOneLineEnd
<1>9. IsScan(scan, buffer) /\ scan[0] = Read(Whole)[p]
  <2>. HIDE DEF q
  <2>. QED BY <1>2, <1>5, <1>6, <1>7, StretchIsScan
<1>10. /\ end \in 1..(q - p) /\ end >= cut.at /\ buffer[end] = LF /\ data \in Seq(Lines)
       /\ scan[end] = [line |-> <<>>, data |-> <<>>,
                       events |-> IF data = <<>> THEN told ELSE Append(told, data)]
  <2>. HIDE DEF scan, q
  <2>. QED BY <1>1, <1>8, <1>9, ScanEvent
<1>11. cut.at + cut.length = end + 1
  <2>1. cut.at \in Nat /\ cut.length \in Nat
    <3>1. cut.length = 2 \/ cut.length = 4 BY <1>1, <1>8, SeparatorIs
    <3>2. cut.at \in 1..(Len(buffer) + 1) BY <1>8, SeparatorIs
    <3>. QED BY <3>1, <3>2
  <2>. QED BY <2>1
<1>. HIDE DEF end, data, cut
<1>11a. PICK e : e = end OBVIOUS
<1>12. /\ e \in 1..(q - p) /\ cut.at + cut.length = e + 1 /\ buffer[e] = LF
       /\ Read(Whole)[p + e].line = <<>> /\ Read(Whole)[p + e].data = <<>>
       /\ Read(Whole)[p + e].events = IF data = <<>> THEN told ELSE Append(told, data)
  <2>1. e \in 0..(q - p) BY <1>11a, <1>10
  <2>2. scan[e] = Read(Whole)[p + e] BY <2>1
  <2>. HIDE DEF scan, told, q
  <2>3. Read(Whole)[p + e] = [line |-> <<>>, data |-> <<>>,
                              events |-> IF data = <<>> THEN told ELSE Append(told, data)]
    BY <1>11a, <1>10, <2>2
  <2>. DEFINE r == Read(Whole)[p + e]
  <2>4. /\ r.line = <<>> /\ r.data = <<>>
        /\ r.events = IF data = <<>> THEN told ELSE Append(told, data)
    BY <2>3
  <2>5. e \in 1..(q - p) /\ cut.at + cut.length = e + 1 /\ buffer[e] = LF
    BY <1>11a, <1>10, <1>11
  <2>. QED BY <2>4, <2>5
<1>. HIDE DEF scan, q
<1>13. Between(p + e)'
  <2>1. p + e \in 0..q /\ Whole[p + e] = LF BY <1>5, <1>6, <1>8, <1>12
  <2>2. buffer' = SubSeq(Whole, (p + e) + 1, q)
    <3>1. buffer' = SubSeq(SubSeq(Whole, p + 1, q), e + 1, q - p) BY <1>1, <1>6, <1>8, <1>12
    <3>2. CASE e + 1 <= q - p
      <4>1. /\ p + 1 \in 1..Len(Whole) /\ q \in (p + 1)..Len(Whole)
            /\ q - (p + 1) + 1 = q - p /\ e + 1 \in 1..(q - (p + 1) + 1)
            /\ (p + 1) + (e + 1) - 1 = (p + e) + 1
        BY <1>5, <1>6, <1>12, <3>2
      <4>2. SubSeq(SubSeq(Whole, p + 1, q), e + 1, q - (p + 1) + 1)
              = SubSeq(Whole, (p + 1) + (e + 1) - 1, q)
        BY <1>5, <4>1, EndOfStretch
      <4>. QED BY <3>1, <4>1, <4>2
    <3>3. CASE ~(e + 1 <= q - p)
      <4>1. /\ e + 1 \in Int /\ q - p \in Int /\ q - p < e + 1
            /\ (p + e) + 1 \in Int /\ q \in Int /\ q < (p + e) + 1
        BY <1>5, <1>6, <1>12, <3>3
      <4>. QED BY <3>1, <4>1, SubSeqEmpty
    <3>. QED BY <3>2, <3>3
  <2>3. Read(Whole)[p + e].line = <<>> /\ Read(Whole)[p + e].data = <<>>
    BY <1>12
  <2>. QED BY <1>1, <1>4, <2>1, <2>2, <2>3 DEF Between, q
<1>14. Taken(p + e, t)'
  <2>1. told \in Seq(Seq(Lines))
    <3>1. Read(Whole)[p] \in Readings BY <1>5, <1>7, ReadIs
    <3>. QED BY <3>1 DEF Readings
  <2>2. /\ t \in 0..Len(told) /\ pending = SubSeq(told, t + 1, Len(told))
        /\ yielded = Seen(told)[t] /\ \A i \in 1..t : told[i] # Done
    BY <1>3 DEF Taken
  <2>. DEFINE new == Read(Whole)[p + e].events
  <2>3. new = IF data = <<>> THEN told ELSE Append(told, data) BY <1>12
  <2>. HIDE DEF told
  <2>4. CASE data = <<>>
    <3>1. new = told /\ pending' = pending BY <1>1, <2>3, <2>4 DEF data
    <3>. QED BY <1>1, <1>4, <2>2, <3>1 DEF Taken
  <2>5. CASE data # <<>>
    <3>1. new = Append(told, data) /\ pending' = Append(pending, data)
      BY <1>1, <2>3, <2>5 DEF data
    <3>2. /\ new \in Seq(Seq(Lines)) /\ Len(new) = Len(told) + 1 /\ Len(told) \in Nat
          /\ \A i \in 1..Len(told) : new[i] = told[i]
          /\ new[Len(told) + 1] = data
      <4>. HIDE DEF new
      <4>. QED BY <1>10, <2>1, <3>1, AppendProperties
    <3>3. pending' = SubSeq(new, t + 1, Len(new))
      <4>1. SubSeq(Append(told, data), t + 1, Len(told) + 1)
              = Append(SubSeq(told, t + 1, Len(told)), data)
        BY <1>10, <2>1, <2>2, RestOfAppend
      <4>. QED BY <2>2, <3>1, <3>2, <4>1
    <3>. HIDE DEF new
    <3>4. yielded = Seen(new)[t] BY <1>10, <2>1, <2>2, <3>1, SeenPrefix
    <3>5. t \in 0..Len(new) /\ \A i \in 1..t : i \in 1..Len(told) BY <2>2, <3>2
    <3>. QED BY <1>1, <1>4, <2>2, <3>2, <3>3, <3>4, <3>5 DEF Taken, new
  <2>. QED BY <2>4, <2>5
<1>15. p + e \in Nat BY <1>5, <1>6, <1>12
<1>. QED BY <1>1, <1>2, <1>4, <1>13, <1>14, <1>15 DEF Streaming

-----------------------------------------------------------------------------
\* A consumer's stream may end where no separator is left and nothing waits.
LEMMA EndStreaming ==
  ASSUME Streaming, mode = "stream", stage \in {"sending", "reading"}, pending = <<>>,
         stage' \in {"done", "raised"}, UNCHANGED <<mode, rest, buffer, pending, yielded, wire>>
  PROVE  Streaming'
<1>1. /\ wire \in Seq(Bytes) /\ rest \in Seq(Bytes) /\ HasOneLineEnd(Whole)
      /\ Separator(buffer).at > Len(buffer)
  BY DEF Streaming
<1>2. PICK p \in Nat, t \in Nat : Between(p) /\ Taken(p, t) BY DEF Streaming
<1>3. yielded = Chunks(Events(wire)) BY <1>1, <1>2, Settled
<1>. QED BY <1>1, <1>3 DEF Streaming, Whole

\* The response begins, or the decoder has gone through the buffer.
LEMMA ReadStreaming ==
  ASSUME Streaming, mode = "stream", stage \in {"sending", "decoding"}, stage' = "reading",
         stage = "decoding" => Separator(buffer).at > Len(buffer),
         UNCHANGED <<mode, rest, buffer, pending, yielded, wire>>
  PROVE  Streaming'
<1>1. /\ wire \in Seq(Bytes) /\ rest \in Seq(Bytes) /\ HasOneLineEnd(Whole)
      /\ Separator(buffer).at > Len(buffer)
  BY DEF Streaming
<1>2. PICK p \in Nat, t \in Nat : Between(p) /\ Taken(p, t) BY DEF Streaming
<1>3. Between(p)' /\ Taken(p, t)' BY <1>2 DEF Between, Taken, Whole
<1>. QED BY <1>1, <1>2, <1>3 DEF Streaming, Whole

\* The generator yields the next event, or ends with the sentinel.
LEMMA TakeEventStreaming ==
  ASSUME Streaming, mode = "stream", TakeEvent
  PROVE  Streaming'
<1>1. /\ stage = "reading" /\ pending # <<>>
      /\ UNCHANGED <<mode, rest, buffer, wire>>
      /\ \/ /\ Head(pending) = Done /\ stage' = "done" /\ pending' = <<>>
            /\ yielded' = yielded
         \/ /\ Head(pending) # Done /\ stage' = "reading" /\ pending' = Tail(pending)
            /\ yielded' = IF Head(pending) \in Json THEN Append(yielded, Head(pending))
                          ELSE yielded
  BY DEF TakeEvent, postVars
<1>2. /\ wire \in Seq(Bytes) /\ rest \in Seq(Bytes) /\ HasOneLineEnd(Whole)
      /\ Separator(buffer).at > Len(buffer)
  BY <1>1 DEF Streaming
<1>3. PICK p \in Nat, t \in Nat : Between(p) /\ Taken(p, t) BY <1>1 DEF Streaming
<1>4. Whole' = Whole BY <1>1 DEF Whole
<1>5. Between(p)' BY <1>1, <1>3, <1>4 DEF Between
<1>. DEFINE told == Read(Whole)[p].events
<1>6. told \in Seq(Seq(Lines))
  <2>1. Whole \in Seq(Bytes) /\ p \in 0..Len(Whole)
    BY <1>2, <1>3, ConcatProperties DEF Whole, Between
  <2>2. Read(Whole)[p] \in Readings BY <2>1, ReadIs
  <2>. QED BY <2>2 DEF Readings
<1>7. Events(wire) = told BY <1>2, <1>3, Settled
<1>8. /\ t \in 0..Len(told) /\ pending = SubSeq(told, t + 1, Len(told))
      /\ yielded = Seen(told)[t] /\ \A i \in 1..t : told[i] # Done
  BY <1>3 DEF Taken
<1>. HIDE DEF told
<1>9. Len(told) \in Nat /\ t + 1 \in 1..Len(told) /\ (t + 1) - 1 = t
  <2>1. Len(told) \in Nat BY <1>6
  <2>2. t # Len(told)
    <3>1. t = Len(told) => Len(told) < t + 1 /\ t + 1 \in Int /\ Len(told) \in Int BY <2>1
    <3>2. t = Len(told) => pending = <<>> BY <1>8, <3>1, SubSeqEmpty
    <3>. QED BY <1>1, <3>2
  <2>. QED BY <1>8, <2>1, <2>2
<1>10. Head(pending) = told[t + 1] /\ Tail(pending) = SubSeq(told, (t + 1) + 1, Len(told))
  <2>1. Len(told) \in (t + 1)..Len(told) BY <1>9
  <2>. QED BY <1>6, <1>8, <1>9, <2>1, HeadTailOfSubSeq
<1>11. CASE Head(pending) = Done /\ stage' = "done" /\ pending' = <<>> /\ yielded' = yielded
  <2>1. Chunks(told) = Seen(told)[t] BY <1>6, <1>9, <1>10, <1>11, SeenStops
  <2>. QED BY <1>1, <1>2, <1>4, <1>7, <1>8, <1>11, <2>1 DEF Streaming
<1>12. CASE /\ Head(pending) # Done /\ stage' = "reading" /\ pending' = Tail(pending)
            /\ yielded' = IF Head(pending) \in Json THEN Append(yielded, Head(pending))
                          ELSE yielded
  <2>1. \A i \in 1..(t + 1) : told[i] # Done
    <3>1. \A i \in 1..(t + 1) : i \in 1..t \/ i = t + 1 BY <1>8, <1>9
    <3>. QED BY <1>8, <1>10, <1>12, <3>1
  <2>2. Seen(told)[t + 1] = SeeEvent(told, t + 1, Seen(told)[t]) BY <1>6, <1>9, SeenIs
  <2>3. yielded' = Seen(told)[t + 1]
    <3>1. Done \notin {told[i] : i \in 1..(t + 1)} BY <2>1
    <3>. QED BY <1>8, <1>10, <1>12, <2>2, <3>1 DEF SeeEvent
  <2>4. t + 1 \in 0..Len(told) BY <1>9
  <2>5. Taken(p, t + 1)' BY <1>4, <1>10, <1>12, <2>1, <2>3, <2>4 DEF Taken, told
  <2>6. Separator(buffer').at > Len(buffer') BY <1>1, <1>2
  <2>. QED BY <1>1, <1>2, <1>4, <1>5, <1>12, <2>5, <2>6 DEF Streaming
<1>. QED BY <1>1, <1>11, <1>12

\* Every step keeps the account of a stream.
LEMMA NextStreaming == Streaming /\ [ClientNext]_clientVars => Streaming'
<1>. SUFFICES ASSUME Streaming, [ClientNext]_clientVars PROVE Streaming' OBVIOUS
<1>1. CASE mode # "stream"
  <2>1. mode' = mode
    BY DEF ClientNext, clientVars, PostEnds, BackoffEnds, StatusRaises, StreamBegins, Receive,
           DecodeEvent, DecodeReturns, TakeEvent, StreamCloses, StreamBreaks, CallIsOver
  <2>. QED BY <1>1, <2>1 DEF Streaming
<1>2. CASE mode = "stream"
  <2>1. stage # "sleeping" BY <1>2 DEF Streaming
  <2>2. CASE \E end \in Statuses \cup RetryErrors \cup OtherErrors : PostEnds(end)
    BY <1>2, <2>2 DEF PostEnds
  <2>3. CASE BackoffEnds BY <2>1, <2>3 DEF BackoffEnds
  <2>4. CASE StatusRaises
    <3>1. stage = "sending" /\ pending = <<>> /\ stage' = "raised"
      BY <1>2, <2>4 DEF StatusRaises, Streaming
    <3>2. UNCHANGED <<mode, rest, buffer, pending, yielded, wire>>
      BY <2>4 DEF StatusRaises, streamVars
    <3>. QED BY <1>2, <3>1, <3>2, EndStreaming
  <2>5. CASE StreamBegins
    <3>1. stage = "sending" /\ stage' = "reading" BY <2>5 DEF StreamBegins
    <3>2. UNCHANGED <<mode, rest, buffer, pending, yielded, wire>>
      BY <2>5 DEF StreamBegins, streamVars
    <3>. QED BY <1>2, <3>1, <3>2, ReadStreaming
  <2>6. CASE \E n \in 1..Len(rest) : Receive(n) BY <1>2, <2>6, ReceiveStreaming
  <2>7. CASE DecodeEvent BY <1>2, <2>7, DecodeEventStreaming
  <2>8. CASE DecodeReturns
    <3>1. stage = "decoding" /\ Separator(buffer).at > Len(buffer) /\ stage' = "reading"
      BY <2>8 DEF DecodeReturns
    <3>2. UNCHANGED <<mode, rest, buffer, pending, yielded, wire>>
      BY <2>8 DEF DecodeReturns, streamVars
    <3>. QED BY <1>2, <3>1, <3>2, ReadStreaming
  <2>9. CASE TakeEvent BY <1>2, <2>9, TakeEventStreaming
  <2>10. CASE StreamCloses \/ StreamBreaks
    <3>1. stage = "reading" /\ pending = <<>> /\ stage' \in {"done", "raised"}
      BY <2>10 DEF StreamCloses, StreamBreaks, Reading
    <3>2. UNCHANGED <<mode, rest, buffer, pending, yielded, wire>>
      BY <2>10 DEF StreamCloses, StreamBreaks, streamVars
    <3>. QED BY <1>2, <3>1, <3>2, EndStreaming
  <2>11. CASE CallIsOver \/ UNCHANGED clientVars
    <3>1. UNCHANGED <<mode, stage, rest, buffer, pending, yielded, wire>>
      BY <2>11 DEF CallIsOver, clientVars, streamVars
    <3>. QED BY <3>1 DEF Streaming, Between, Taken, Whole
  <2>. QED BY <2>2, <2>3, <2>4, <2>5, <2>6, <2>7, <2>8, <2>9, <2>10, <2>11 DEF ClientNext
<1>. QED BY <1>1, <1>2

\* The account says what the property asks for.
LEMMA StreamingSuffices == Streaming => ChunksAsSent
<1>. SUFFICES ASSUME Streaming, mode = "stream", stage # "decoding"
              PROVE  /\ IsPrefix(yielded, Chunks(Events(wire)))
                     /\ pending = <<>> => yielded = Chunks(Events(wire))
  BY DEF ChunksAsSent
<1>1. wire \in Seq(Bytes) /\ rest \in Seq(Bytes) /\ HasOneLineEnd(Whole) BY DEF Streaming
<1>2. CASE stage \in {"sending", "reading"}
  <2>1. PICK p \in Nat, t \in Nat : Between(p) /\ Taken(p, t) BY <1>2 DEF Streaming
  <2>2. Separator(buffer).at > Len(buffer) BY <1>2 DEF Streaming
  <2>. QED BY <1>1, <2>1, <2>2, Settled
<1>3. CASE stage \in {"done", "raised"}
  <2>1. yielded = Chunks(Events(wire)) BY <1>3 DEF Streaming
  <2>2. IsPrefix(yielded, yielded)
    <3>1. Read(wire)[Len(wire)] \in Readings
      <4>1. Len(wire) \in 0..Len(wire) BY <1>1
      <4>. QED BY <1>1, <4>1, ReadIs
    <3>2. Events(wire) \in Seq(Seq(Lines)) BY <1>1, <3>1, ReadIs DEF Readings
    <3>3. Len(Events(wire)) \in 0..Len(Events(wire)) BY <3>2
    <3>4. Chunks(Events(wire)) \in Seq(Seq(Lines)) BY <3>2, <3>3, SeenIs
    <3>. QED BY <2>1, <3>4 DEF IsPrefix
  <2>. QED BY <2>1, <2>2
<1>. QED BY <1>2, <1>3 DEF Streaming

\* For any payloads, any number of lines and any cut of the bytes: the chunks
\* that a stream yields are those of the bytes received, in their order.
THEOREM ChunksArriveAsSent == ClientSpec => []ChunksAsSent
<1>. QED BY InitStreaming, NextStreaming, StreamingSuffices, PTL DEF ClientSpec
=============================================================================
