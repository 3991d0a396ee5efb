--------------------------- MODULE CircuitBreaker ---------------------------
(***************************************************************************)
(* resilience.CircuitBreaker: callers run their operations outside the     *)
(* mutex, so between acquire and record of one call any number of other    *)
(* calls may be admitted and recorded and the breaker may change its state *)
(* several times.  The generation a call carries fences its result.        *)
(*                                                                         *)
(* Time is the number of ticks since open(), counted up to the timeout.    *)
(***************************************************************************)
EXTENDS Naturals, FiniteSets

CONSTANTS
    Callers,           \* goroutines that call Execute
    FailureThreshold,  \* failureThreshold
    OpenTimeout,       \* openTimeout, in ticks
    MaxGeneration      \* no call is made from this generation on (a bound)

ASSUME BreakerAssumption ==
    /\ FailureThreshold \in Nat \ {0}
    /\ OpenTimeout \in Nat \ {0}
    /\ MaxGeneration \in Nat

VARIABLES
    state,          \* closed, open, half-open
    generation,     \* generation
    failures,       \* failures
    age,            \* now() - openedAt, up to OpenTimeout
    probeInFlight,  \* probeInFlight
    call            \* what each caller does: idle, or running with a generation

breaker == <<state, generation, failures, age, probeInFlight>>
vars == <<state, generation, failures, age, probeInFlight, call>>

Call == [running : BOOLEAN, gen : Nat]

Idle == [running |-> FALSE, gen |-> 0]

TypeOK ==
    /\ state \in {"closed", "open", "half-open"}
    /\ generation \in Nat
    /\ failures \in Nat
    /\ age \in 0 .. OpenTimeout
    /\ probeInFlight \in BOOLEAN
    /\ call \in [Callers -> Call]

Init ==
    /\ state = "closed"
    /\ generation = 0
    /\ failures = 0
    /\ age = 0
    /\ probeInFlight = FALSE
    /\ call = [c \in Callers |-> Idle]

\* Faulty variant: the timeout is not waited for.
Elapsed_Early == state = "open"

\* advanceState takes an open breaker to half-open.
Elapsed == state = "open" /\ age >= OpenTimeout

\* advanceState as a step of its own, as State() takes it.
State ==
    /\ Elapsed
    /\ generation < MaxGeneration
    /\ state' = "half-open"
    /\ generation' = generation + 1
    /\ probeInFlight' = FALSE
    /\ UNCHANGED <<failures, age, call>>

\* acquire: a closed breaker admits everybody, a half-open one a single probe,
\* and a breaker that has been open long enough becomes half-open first.
\* (A refused call changes nothing.)
Acquire(c) ==
    /\ ~call[c].running
    /\ generation < MaxGeneration
    /\ \/ /\ state = "closed"
          /\ call' = [call EXCEPT ![c] = [running |-> TRUE, gen |-> generation]]
          /\ UNCHANGED breaker
       \/ /\ state = "half-open" /\ ~probeInFlight
          /\ probeInFlight' = TRUE
          /\ call' = [call EXCEPT ![c] = [running |-> TRUE, gen |-> generation]]
          /\ UNCHANGED <<state, generation, failures, age>>
       \/ /\ Elapsed
          /\ state' = "half-open"
          /\ generation' = generation + 1
          /\ probeInFlight' = TRUE
          /\ call' = [call EXCEPT ![c] = [running |-> TRUE, gen |-> generation + 1]]
          /\ UNCHANGED <<failures, age>>

\* Faulty variant: the old generation lives on.
Open_SameGeneration ==
    /\ state' = "open"
    /\ UNCHANGED generation
    /\ failures' = 0
    /\ age' = 0
    /\ probeInFlight' = FALSE

\* open().
Open ==
    /\ state' = "open"
    /\ generation' = generation + 1
    /\ failures' = 0
    /\ age' = 0
    /\ probeInFlight' = FALSE

\* Faulty variant: a cancelled probe keeps its place.
RecordProbe_Leak(outcome) ==
    \/ outcome = "cancelled" /\ UNCHANGED breaker
    \/ /\ outcome = "ok"
       /\ state' = "closed"
       /\ generation' = generation + 1
       /\ failures' = 0
       /\ probeInFlight' = FALSE
       /\ UNCHANGED age
    \/ outcome = "error" /\ Open

\* record, of a half-open breaker: a cancelled probe gives its place back, a
\* successful one closes the breaker, a failed one opens it again.
RecordProbe(outcome) ==
    \/ /\ outcome = "cancelled"
       /\ probeInFlight' = FALSE
       /\ UNCHANGED <<state, generation, failures, age>>
    \/ /\ outcome = "ok"
       /\ state' = "closed"
       /\ generation' = generation + 1
       /\ failures' = 0
       /\ probeInFlight' = FALSE
       /\ UNCHANGED age
    \/ outcome = "error" /\ Open

\* Faulty variant: the threshold is passed before the breaker opens.
RecordCall_OffByOne(outcome) ==
    \/ /\ outcome = "ok"
       /\ failures' = 0
       /\ UNCHANGED <<state, generation, age, probeInFlight>>
    \/ outcome = "cancelled" /\ UNCHANGED breaker
    \/ /\ outcome = "error" /\ failures < FailureThreshold
       /\ failures' = failures + 1
       /\ UNCHANGED <<state, generation, age, probeInFlight>>
    \/ outcome = "error" /\ failures >= FailureThreshold /\ Open

\* record, of a closed breaker: consecutive failures are counted.
RecordCall(outcome) ==
    \/ /\ outcome = "ok"
       /\ failures' = 0
       /\ UNCHANGED <<state, generation, age, probeInFlight>>
    \/ outcome = "cancelled" /\ UNCHANGED breaker
    \/ /\ outcome = "error" /\ failures + 1 < FailureThreshold
       /\ failures' = failures + 1
       /\ UNCHANGED <<state, generation, age, probeInFlight>>
    \/ outcome = "error" /\ failures + 1 >= FailureThreshold /\ Open

\* Faulty variant: results of earlier generations are counted.
Finish_Unfenced(c, outcome) ==
    /\ call[c].running
    /\ call' = [call EXCEPT ![c] = Idle]
    /\ IF state = "half-open" THEN RecordProbe(outcome) ELSE RecordCall(outcome)

\* The operation of c ends (a panic counts as an error) and record runs;
\* "cancelled" is the error of the caller's own context.
Finish(c, outcome) ==
    /\ call[c].running
    /\ call' = [call EXCEPT ![c] = Idle]
    /\ \/ call[c].gen # generation /\ UNCHANGED breaker
       \/ call[c].gen = generation /\ state = "half-open" /\ RecordProbe(outcome)
       \/ call[c].gen = generation /\ state # "half-open" /\ RecordCall(outcome)

\* The clock: now() - openedAt grows; past the timeout its value makes no
\* difference.
Tick ==
    /\ state = "open" /\ age < OpenTimeout
    /\ age' = age + 1
    /\ UNCHANGED <<state, generation, failures, probeInFlight, call>>

Outcomes == {"ok", "error", "cancelled"}

Next ==
    \/ State \/ Tick
    \/ \E c \in Callers : Acquire(c) \/ \E outcome \in Outcomes : Finish(c, outcome)

Spec == Init /\ [][Next]_vars

\* Operations end: the contexts they get are bounded, and Execute always
\* records (deferred).  Nothing is assumed of callers or of the clock.
Fairness == \A c \in Callers : WF_vars(\E outcome \in Outcomes : Finish(c, outcome))

FairSpec == Spec /\ Fairness

(***************************************************************************)
(* Properties                                                              *)
(***************************************************************************)
\* The calls whose result will count.
Current == {c \in Callers : call[c].running /\ call[c].gen = generation}

\* In half-open state at most one call is let through, and the flag that
\* refuses the others is set exactly while that call is running: a probe that
\* was cancelled, panicked or outlived its generation never leaves it behind.
ProbeAccounted ==
    state = "half-open" =>
        /\ \A c, d \in Current : c = d
        /\ probeInFlight <=> Current # {}

\* While the breaker is open no call of the current generation is running, so
\* nothing that was started before it opened can close it.
OpenIsQuiet == state = "open" => Current = {}

\* The breaker is open as soon as the threshold is reached: a closed breaker
\* has always counted fewer failures.
BelowThreshold == failures < FailureThreshold

\* The only way back to closed leads from half-open, where exactly one call
\* was admitted, and an open breaker stays open for the whole timeout, however
\* many late results of earlier calls arrive.
Recovery ==
    [][/\ state = "open" => state' \in {"open", "half-open"}
       /\ state = "open" /\ state' = "half-open" => age = OpenTimeout
       /\ state = "half-open" /\ state' = "closed" =>
            \E c \in Current : ~call'[c].running]_vars

\* A probe ends and gives its place back, whatever becomes of it.
ProbeEnds == state = "half-open" /\ probeInFlight ~> ~probeInFlight
=============================================================================
