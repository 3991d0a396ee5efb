-------------------------- MODULE ResilienceProofs --------------------------
(***************************************************************************)
(* Proofs about the two guards of shared resources: CircuitBreaker, for    *)
(* any set of callers, any threshold and any timeout, and RateLimiter, for *)
(* any requests, processes, limit and window, and any bound on the skew of *)
(* the clocks and the delay of the calls.                                  *)
(***************************************************************************)
EXTENDS CircuitBreaker, RateLimiter, FiniteSetTheorems, WellFoundedInduction, TLAPS

(***************************************************************************)
(* CircuitBreaker                                                          *)
(***************************************************************************)

\* The fields that count keep their types.
Numbers ==
    /\ state \in {"closed", "open", "half-open"}
    /\ generation \in Nat
    /\ failures \in Nat
    /\ age \in 0 .. OpenTimeout

\* A step of the breaker (acquire, advanceState, record or the clock) keeps
\* the numeric fields and the state in their types.
LEMMA NumbersStep == Numbers /\ [Next]_vars => Numbers'
<1> SUFFICES ASSUME Numbers, [Next]_vars PROVE Numbers'
  OBVIOUS
<1> USE BreakerAssumption
<1>1. CASE State
  BY <1>1 DEF State, Numbers
<1>2. CASE Tick
  BY <1>2 DEF Tick, Numbers
<1>3. ASSUME NEW c \in Callers, Acquire(c) PROVE Numbers'
  BY <1>3 DEF Acquire, Numbers, breaker
<1>4. ASSUME NEW c \in Callers, NEW o \in Outcomes, Finish(c, o) PROVE Numbers'
  <2>1. CASE UNCHANGED breaker
    BY <2>1 DEF Numbers, breaker
  <2>2. CASE Open
    BY <2>2 DEF Open, Numbers
  <2>3. CASE RecordProbe(o)
    BY <2>2, <2>3 DEF RecordProbe, Numbers
  <2>4. CASE RecordCall(o)
    BY <2>1, <2>2, <2>4 DEF RecordCall, Numbers
  <2> QED
    BY <1>4, <2>1, <2>3, <2>4 DEF Finish
<1>5. CASE UNCHANGED vars
  BY <1>5 DEF Numbers, vars
<1> QED
  BY <1>1, <1>2, <1>3, <1>4, <1>5 DEF Next

\* The probe flag stays Boolean.
LEMMA FlagStep == probeInFlight \in BOOLEAN /\ [Next]_vars => probeInFlight' \in BOOLEAN
<1> SUFFICES ASSUME probeInFlight \in BOOLEAN, [Next]_vars
             PROVE  probeInFlight' \in BOOLEAN
  OBVIOUS
<1>1. probeInFlight' \in {TRUE, FALSE, probeInFlight}
  <2>1. CASE State
    BY <2>1 DEF State
  <2>2. CASE Tick
    BY <2>2 DEF Tick
  <2>3. ASSUME NEW c \in Callers, Acquire(c)
        PROVE  probeInFlight' \in {TRUE, FALSE, probeInFlight}
    BY <2>3 DEF Acquire, breaker
  <2>4. ASSUME NEW c \in Callers, NEW o \in Outcomes, Finish(c, o)
        PROVE  probeInFlight' \in {TRUE, FALSE, probeInFlight}
    BY <2>4 DEF Finish, RecordProbe, RecordCall, Open, breaker
  <2>5. CASE UNCHANGED vars
    BY <2>5 DEF vars
  <2> QED
    BY <2>1, <2>2, <2>3, <2>4, <2>5 DEF Next
<1> QED
  BY <1>1

\* A caller is idle or runs a call that carries a generation.
LEMMA CallsStep ==
  generation \in Nat /\ call \in [Callers -> Call] /\ [Next]_vars
    => call' \in [Callers -> Call]
<1> SUFFICES ASSUME generation \in Nat, call \in [Callers -> Call], [Next]_vars
             PROVE  call' \in [Callers -> Call]
  OBVIOUS
<1>1. Idle \in Call
  BY DEF Idle, Call
<1>2. ASSUME NEW g \in Nat PROVE [running |-> TRUE, gen |-> g] \in Call
  BY DEF Call
<1>3. ASSUME NEW c \in Callers, NEW x \in Call
      PROVE  [call EXCEPT ![c] = x] \in [Callers -> Call]
  OBVIOUS
<1>4. ASSUME NEW c \in Callers, Acquire(c) PROVE call' \in [Callers -> Call]
  <2>1. PICK g \in Nat : call' = [call EXCEPT ![c] = [running |-> TRUE, gen |-> g]]
    BY <1>4 DEF Acquire
  <2> QED
    BY <1>2, <1>3, <2>1
<1>5. ASSUME NEW c \in Callers, NEW o \in Outcomes, Finish(c, o)
      PROVE  call' \in [Callers -> Call]
  BY <1>1, <1>3, <1>5 DEF Finish
<1> QED
  BY <1>4, <1>5 DEF Next, State, Tick, vars

\* Every field of the breaker keeps its type, whatever the interleaving of
\* acquire and record.
THEOREM TypeCorrect == Spec => []TypeOK
<1>1. Init => TypeOK
  <2> SUFFICES ASSUME Init PROVE TypeOK
    OBVIOUS
  <2>1. Idle \in Call
    BY DEF Idle, Call
  <2>2. age \in 0 .. OpenTimeout
    BY BreakerAssumption DEF Init
  <2>3. generation \in Nat /\ failures \in Nat
    BY DEF Init
  <2> QED
    BY <2>1, <2>2, <2>3, Zenon DEF Init, TypeOK
<1>2. TypeOK /\ [Next]_vars => TypeOK'
  BY NumbersStep, FlagStep, CallsStep, Zenon DEF TypeOK, Numbers
<1> QED
  BY <1>1, <1>2, PTL DEF Spec

(***************************************************************************)
(* The generation of a call never runs ahead of the breaker's, so a step   *)
(* that increments the generation leaves no call of the new one behind.    *)
(* With it the three safety invariants are inductive together: open and    *)
(* half-open states begin with a new generation, and while the breaker is  *)
(* open no running call can be the current one that record would listen to.*)
(***************************************************************************)
NotAhead == \A c \in Callers : call[c].running => call[c].gen <= generation

BreakerInv ==
    TypeOK /\ NotAhead /\ ProbeAccounted /\ OpenIsQuiet /\ BelowThreshold

\* Which calls are running and current after the caller c has changed its
\* record to x and the generation has become g.
LEMMA CurrentAfter ==
  ASSUME TypeOK, NEW c \in Callers, NEW x, call' = [call EXCEPT ![c] = x]
  PROVE  /\ call'[c] = x
         /\ \A d \in Callers \ {c} : call'[d] = call[d]
BY DEF TypeOK

\* A caller that has finished is not running.
LEMMA FinishedIdle ==
  ASSUME TypeOK, NEW c \in Callers, call' = [call EXCEPT ![c] = Idle]
  PROVE  ~call'[c].running
<1>1. call'[c] = Idle
  BY CurrentAfter
<1>2. Idle.running = FALSE
  BY DEF Idle
<1> QED
  BY <1>1, <1>2, Zenon

\* The clauses of the invariant that a new generation establishes by itself:
\* open() and advanceState leave no current call.
LEMMA NewGeneration ==
  ASSUME TypeOK, NotAhead, generation' = generation + 1,
         \A d \in Callers : call'[d] = call[d] \/ call'[d] = Idle
  PROVE  NotAhead' /\ Current' = {}
<1>1. ASSUME NEW d \in Callers, call'[d].running
      PROVE  call'[d].gen <= generation' /\ call'[d].gen # generation'
  <2>1. call'[d] = call[d]
    BY <1>1 DEF Idle
  <2>2. call[d].gen \in Nat /\ generation \in Nat
    BY DEF TypeOK, Call
  <2> QED
    BY <1>1, <2>1, <2>2 DEF NotAhead
<1> QED
  BY <1>1, Zenon DEF NotAhead, Current

\* A caller that is admitted carries the generation of the breaker it leaves
\* behind, a caller that has finished carries none: nobody runs ahead.
LEMMA NotAheadStep == TypeOK /\ NotAhead /\ [Next]_vars => NotAhead'
<1> SUFFICES ASSUME TypeOK, NotAhead, [Next]_vars PROVE NotAhead'
  OBVIOUS
<1>1. generation \in Nat /\ generation' \in Nat /\ generation <= generation'
  <2>1. generation \in Nat
    BY DEF TypeOK
  <2>2. generation' = generation \/ generation' = generation + 1
    BY DEF Next, vars, State, Tick, Acquire, Finish, RecordProbe, RecordCall, Open, breaker
  <2> QED
    BY <2>1, <2>2
<1>2. ASSUME NEW d \in Callers, call'[d].running
      PROVE  call'[d] = call[d] \/ call'[d].gen = generation'
  <2>1. ASSUME NEW c \in Callers, Acquire(c) PROVE call'[d] = call[d] \/ call'[d].gen = generation'
    <3>1. call' = [call EXCEPT ![c] = [running |-> TRUE, gen |-> generation']]
      BY <2>1 DEF Acquire, breaker
    <3> QED
      BY <3>1, CurrentAfter
  <2>2. ASSUME NEW c \in Callers, NEW o \in Outcomes, Finish(c, o) PROVE call'[d] = call[d]
    <3>1. call' = [call EXCEPT ![c] = Idle]
      BY <2>2 DEF Finish
    <3> QED
      BY <1>2, <3>1, CurrentAfter DEF Idle
  <2> QED
    BY <2>1, <2>2 DEF Next, State, Tick, vars
<1>3. ASSUME NEW d \in Callers, call'[d].running PROVE call'[d].gen <= generation'
  <2>1. call[d].gen \in Nat
    BY DEF TypeOK, Call
  <2>2. CASE call'[d] = call[d]
    BY <1>1, <1>3, <2>1, <2>2 DEF NotAhead
  <2>3. CASE call'[d].gen = generation'
    BY <1>1, <2>3
  <2> QED
    BY <1>2, <1>3, <2>2, <2>3
<1> QED
  BY <1>3 DEF NotAhead

\* open() establishes the clauses about open and half-open.
LEMMA OpenEstablishes ==
  ASSUME TypeOK, NotAhead, Open,
         \A d \in Callers : call'[d] = call[d] \/ call'[d] = Idle
  PROVE  ProbeAccounted' /\ OpenIsQuiet' /\ BelowThreshold'
<1>1. Current' = {}
  BY NewGeneration DEF Open
<1>2. BelowThreshold'
  BY BreakerAssumption DEF Open, BelowThreshold
<1> QED
  BY <1>1, <1>2 DEF Open, ProbeAccounted, OpenIsQuiet

\* The clauses about open and half-open are kept by every step: a new
\* generation leaves no current call behind, the calls of a half-open breaker
\* are its one probe, and a result is only counted when its call is current.
LEMMA QuietStep == BreakerInv /\ [Next]_vars => ProbeAccounted' /\ OpenIsQuiet' /\ BelowThreshold'
<1> SUFFICES ASSUME BreakerInv, [Next]_vars
             PROVE  ProbeAccounted' /\ OpenIsQuiet' /\ BelowThreshold'
  OBVIOUS
<1> USE DEF BreakerInv
<1>1. CASE State
  <2>1. Current' = {}
    BY <1>1, NewGeneration DEF State
  <2> QED
    BY <1>1, <2>1 DEF State, ProbeAccounted, OpenIsQuiet, BelowThreshold
<1>2. CASE Tick
  BY <1>2 DEF Tick, ProbeAccounted, OpenIsQuiet, BelowThreshold, Current
<1>3. ASSUME NEW c \in Callers, Acquire(c)
      PROVE  ProbeAccounted' /\ OpenIsQuiet' /\ BelowThreshold'
  <2>1. BelowThreshold'
    BY <1>3 DEF Acquire, BelowThreshold, breaker
  <2>2. CASE state = "closed" /\ UNCHANGED breaker
    BY <2>1, <2>2 DEF breaker, ProbeAccounted, OpenIsQuiet
  <2>3. ASSUME state' = "half-open", probeInFlight' = TRUE,
               call' = [call EXCEPT ![c] = [running |-> TRUE, gen |-> generation']],
               \A d \in Callers \ {c} : ~(call[d].running /\ call[d].gen = generation')
        PROVE  ProbeAccounted' /\ OpenIsQuiet'
    <3> DEFINE x == [running |-> TRUE, gen |-> generation']
    <3>1. x.running = TRUE /\ x.gen = generation'
      OBVIOUS
    <3>2. call'[c] = x /\ \A d \in Callers \ {c} : call'[d] = call[d]
      BY <2>3, CurrentAfter
    <3>3. c \in Current'
      BY <3>1, <3>2, Zenon DEF Current
    <3>4. ASSUME NEW d \in Callers, d # c PROVE d \notin Current'
      BY <2>3, <3>2, <3>4, Zenon DEF Current
    <3>5. Current' = {c}
      BY <3>3, <3>4 DEF Current
    <3> QED
      BY <2>3, <3>5 DEF ProbeAccounted, OpenIsQuiet
  <2>4. CASE state = "half-open"
    <3>1. /\ state' = "half-open" /\ probeInFlight' = TRUE
          /\ ~probeInFlight /\ generation' = generation
          /\ call' = [call EXCEPT ![c] = [running |-> TRUE, gen |-> generation']]
      BY <1>3, <2>4 DEF Acquire, Elapsed
    <3>2. Current = {}
      BY <2>4, <3>1 DEF ProbeAccounted
    <3>3. \A d \in Callers \ {c} : ~(call[d].running /\ call[d].gen = generation')
      BY <3>1, <3>2, Zenon DEF Current
    <3> QED
      BY <2>1, <2>3, <3>1, <3>3
  <2>5. CASE state = "open"
    <3>1. /\ state' = "half-open" /\ probeInFlight' = TRUE /\ generation' = generation + 1
          /\ call' = [call EXCEPT ![c] = [running |-> TRUE, gen |-> generation']]
      BY <1>3, <2>5 DEF Acquire
    <3>2. ASSUME NEW d \in Callers PROVE ~(call[d].running /\ call[d].gen = generation')
      <4>1. call[d].gen \in Nat /\ generation \in Nat
        BY DEF TypeOK, Call
      <4> QED
        BY <3>1, <4>1 DEF NotAhead
    <3> QED
      BY <2>1, <2>3, <3>1, <3>2
  <2> QED
    BY <1>3, <2>1, <2>2, <2>4, <2>5 DEF Acquire, Elapsed
<1>4. ASSUME NEW c \in Callers, NEW o \in Outcomes, Finish(c, o)
      PROVE  ProbeAccounted' /\ OpenIsQuiet' /\ BelowThreshold'
  <2>1. call' = [call EXCEPT ![c] = Idle]
    BY <1>4 DEF Finish
  <2>2. \A d \in Callers : call'[d] = call[d] \/ call'[d] = Idle
    BY <2>1, CurrentAfter
  <2>3. generation' = generation => Current' = Current \ {c}
    <3>1. ~call'[c].running
      BY <2>1, FinishedIdle
    <3>2. \A d \in Callers \ {c} : call'[d] = call[d]
      BY <2>1, CurrentAfter
    <3> QED
      BY <3>1, <3>2, Zenon DEF Current
  <2>4. CASE Open
    BY <2>2, <2>4, OpenEstablishes
  <2>5. CASE call[c].gen # generation /\ UNCHANGED breaker
    <3>1. c \notin Current
      BY <2>5 DEF Current
    <3> QED
      BY <2>3, <2>5, <3>1 DEF breaker, ProbeAccounted, OpenIsQuiet, BelowThreshold
  <2>6. CASE call[c].gen = generation
    <3>1. c \in Current
      BY <1>4, <2>6 DEF Finish, Current
    <3>2. state # "open"
      BY <3>1 DEF OpenIsQuiet
    <3>3. CASE state = "half-open" /\ RecordProbe(o)
      <4>1. CASE o = "cancelled"
        <5>1. Current' = {}
          BY <2>3, <3>1, <3>3, <4>1 DEF RecordProbe, ProbeAccounted
        <5> QED
          BY <3>3, <4>1, <5>1 DEF RecordProbe, ProbeAccounted, OpenIsQuiet, BelowThreshold
      <4>2. CASE o = "ok"
        BY <3>3, <4>2, BreakerAssumption
           DEF RecordProbe, ProbeAccounted, OpenIsQuiet, BelowThreshold
      <4> QED
        BY <2>4, <3>3, <4>1, <4>2 DEF RecordProbe
    <3>4. CASE state = "closed" /\ RecordCall(o)
      <4>1. CASE state' = "closed" /\ failures' < FailureThreshold
        BY <4>1 DEF ProbeAccounted, OpenIsQuiet, BelowThreshold
      <4> QED
        BY <2>4, <3>4, <4>1, BreakerAssumption DEF RecordCall, BelowThreshold, breaker
    <3> QED
      BY <1>4, <2>6, <3>2, <3>3, <3>4 DEF Finish, TypeOK
  <2> QED
    BY <1>4, <2>5, <2>6 DEF Finish
<1>5. CASE UNCHANGED vars
  BY <1>5 DEF vars, ProbeAccounted, OpenIsQuiet, BelowThreshold, Current
<1> QED
  BY <1>1, <1>2, <1>3, <1>4, <1>5 DEF Next

\* The inductive invariant holds in every reachable state of the breaker.
THEOREM BreakerInvariant == Spec => []BreakerInv
<1>1. Init => NotAhead /\ ProbeAccounted /\ OpenIsQuiet /\ BelowThreshold
  BY BreakerAssumption
     DEF Init, Idle, NotAhead, ProbeAccounted, OpenIsQuiet, BelowThreshold
<1>2. BreakerInv /\ [Next]_vars => NotAhead'
  BY NotAheadStep DEF BreakerInv
<1>3. NotAhead /\ TypeOK /\ ProbeAccounted /\ OpenIsQuiet /\ BelowThreshold <=> BreakerInv
  BY DEF BreakerInv
<1>4. TypeOK /\ NotAhead /\ ProbeAccounted /\ OpenIsQuiet /\ BelowThreshold
        /\ [Next]_vars
      => NotAhead' /\ ProbeAccounted' /\ OpenIsQuiet' /\ BelowThreshold'
  BY <1>2, QuietStep, <1>3
<1>5. BreakerInv <=> TypeOK /\ (NotAhead /\ ProbeAccounted /\ OpenIsQuiet /\ BelowThreshold)
  BY DEF BreakerInv
<1> QED
  BY <1>1, <1>4, <1>5, TypeCorrect, PTL DEF Spec

\* A half-open breaker admits one call, and probeInFlight is set exactly while
\* that call is running.
THEOREM ProbesAccounted == Spec => []ProbeAccounted
<1>1. BreakerInv => ProbeAccounted
  BY DEF BreakerInv
<1> QED
  BY <1>1, BreakerInvariant, PTL

\* No call that was admitted before open() can act on an open breaker.
THEOREM OpensQuietly == Spec => []OpenIsQuiet
<1>1. BreakerInv => OpenIsQuiet
  BY DEF BreakerInv
<1> QED
  BY <1>1, BreakerInvariant, PTL

\* The failure counter never reaches the threshold: record opens the breaker
\* with the failure that would.
THEOREM StaysBelowThreshold == Spec => []BelowThreshold
<1>1. BreakerInv => BelowThreshold
  BY DEF BreakerInv
<1> QED
  BY <1>1, BreakerInvariant, PTL

\* The breaker leaves the open state only for half-open, after the timeout,
\* and the half-open state for closed only with the result of its probe.
THEOREM RecoversInOrder == Spec => Recovery
<1> DEFINE Ordered ==
       /\ state = "open" => state' \in {"open", "half-open"}
       /\ state = "open" /\ state' = "half-open" => age = OpenTimeout
       /\ state = "half-open" /\ state' = "closed" =>
            \E c \in Current : ~call'[c].running
<1>1. BreakerInv /\ [Next]_vars => [Ordered]_vars
  <2> SUFFICES ASSUME BreakerInv, Next PROVE Ordered
    OBVIOUS
  <2> USE DEF BreakerInv
  <2>1. state = "open" /\ Elapsed => age = OpenTimeout
    BY BreakerAssumption DEF Elapsed, TypeOK
  <2>2. CASE State
    BY <2>1, <2>2 DEF State, Elapsed
  <2>3. CASE Tick
    BY <2>3 DEF Tick
  <2>4. ASSUME NEW c \in Callers, Acquire(c) PROVE Ordered
    BY <2>1, <2>4 DEF Acquire, Elapsed, breaker
  <2>5. ASSUME NEW c \in Callers, NEW o \in Outcomes, Finish(c, o) PROVE Ordered
    <3>1. CASE UNCHANGED breaker
      BY <3>1 DEF breaker
    <3>2. CASE call[c].gen = generation
      <4>1. c \in Current
        BY <2>5, <3>2 DEF Finish, Current
      <4>2. state # "open"
        BY <4>1 DEF OpenIsQuiet
      <4>3. ~call'[c].running
        BY <2>5, FinishedIdle DEF Finish
      <4> QED
        BY <4>1, <4>2, <4>3
    <3> QED
      BY <2>5, <3>1, <3>2 DEF Finish
  <2> QED
    BY <2>2, <2>3, <2>4, <2>5 DEF Next
<1> QED
  BY <1>1, BreakerInvariant, PTL DEF Spec, Recovery

(***************************************************************************)
(* RateLimiter: the inductive invariant                                    *)
(***************************************************************************)
IsSent(r) == req[r].at = "sent"

\* A call is not older than MaxDelay, and carries what its process read.
CallsTimely ==
    \A r \in Requests : IsSent(r) =>
        /\ req[r].time <= clock /\ clock <= req[r].time + MaxDelay
        /\ req[r].now = req[r].time + skew[req[r].process]

\* The sorted set never holds more than the limit.
WithinLimit == IsFiniteSet(zset) /\ Cardinality(zset) <= Limit

\* What a window less skew and delay covers.
Span == Window - MaxSkew - MaxDelay

\* The sorted set knows of r, as of time t.
Known(r, t) == \E e \in zset : e.member[3] = r /\ e.score >= t - MaxDelay

\* A request that was served is over; as long as it lies in the span, the sorted
\* set knows of it and does not expire.
ServedKnown ==
    \A r \in Requests : served[r] # Never =>
        /\ req[r] = Done
        /\ served[r] <= clock
        /\ served[r] > clock - Span => Known(r, served[r]) /\ expires >= served[r] + Window

\* There is room for a call at time n: the set is not full, or its oldest entry is over.
Room(n) == Cardinality(zset) < Limit \/ \E e \in zset : e.score <= n - Window

\* As long as nothing was admitted, there is room for whoever was denied when the
\* delay is over.
QuietRoom ==
    \A r \in quiet :
        /\ req[r].at = "limited" => Room(req[r].until + skew[req[r].process])
        /\ IsSent(r) /\ req[r].again => Room(req[r].now)

LimiterInv == LimiterTypeOK /\ CallsTimely /\ WithinLimit /\ ServedKnown /\ QuietRoom

-----------------------------------------------------------------------------
(***************************************************************************)
(* RateLimiter: arithmetic, cardinality and types                          *)
(***************************************************************************)
\* The constants.
LEMMA LimiterNumbers ==
    /\ Limit \in Nat /\ Limit > 0 /\ Window \in Nat /\ Window > 0 /\ Second \in Nat /\ Second > 0
    /\ MaxSkew \in Nat /\ MaxDelay \in Nat /\ MaxClock \in Nat
    /\ Span \in Int /\ Span <= Window
  BY LimitAssumption, WindowAssumption, TimingAssumption DEF Span

\* A set of naturals that is not empty has a least element.
LEMMA Least ==
    ASSUME NEW S \in SUBSET Nat, S # {}
    PROVE  \E m \in S : \A n \in S : m <= n
<1>1. PICK m \in S : \A n \in S : ~(<<n, m>> \in OpToRel(<, Nat))
  BY NatLessThanWellFounded, WFMin, Zenon
<1>2. ASSUME NEW n \in S
      PROVE  m <= n
  <2>1. ~(<<n, m>> \in {ss \in Nat \X Nat : ss[1] < ss[2]})
    BY <1>1 DEF OpToRel
  <2> QED
    BY <2>1
<1> QED
  BY <1>2

\* Whole seconds are not less than what they stand for.
LEMMA WholeSeconds ==
    ASSUME NEW wait \in Nat
    PROVE  /\ RetrySeconds(wait) * Second \in Nat
           /\ RetrySeconds(wait) * Second >= wait
<1> DEFINE n == (wait + Second - 1) \div Second
<1>1. n \in Int /\ n * Second >= wait
  BY LimiterNumbers
<1>2. RetrySeconds(wait) = IF n < 1 THEN 1 ELSE n
  BY DEF RetrySeconds
<1> HIDE DEF n
<1>3. CASE n < 1
  <2>1. n * Second <= 0
    BY <1>1, <1>3, LimiterNumbers
  <2> QED
    BY <1>1, <1>2, <1>3, <2>1, LimiterNumbers
<1>4. CASE n >= 1
  BY <1>1, <1>2, <1>4, LimiterNumbers
<1> QED
  BY <1>1, <1>3, <1>4

\* What a request is, by where it is.
LEMMA RequestTypes ==
    ASSUME LimiterTypeOK, NEW r \in Requests
    PROVE  /\ IsSent(r) => req[r] \in Calls
           /\ req[r].at = "limited" => req[r] \in Limited
           /\ New.at = "new" /\ Done.at = "done"
<1>1. req[r] \in Calls \cup Limited \cup {New, Done}
  BY DEF LimiterTypeOK
<1>2. /\ \A c \in Calls : c.at = "sent"
      /\ \A l \in Limited : l.at = "limited"
      /\ New.at = "new" /\ Done.at = "done"
  BY DEF Calls, Limited, New, Done
<1> QED
  BY <1>1, <1>2 DEF IsSent

\* The call of a request, and how its clock stands to the true time.
LEMMA SentCall ==
    ASSUME LimiterTypeOK, CallsTimely, NEW r \in Requests, IsSent(r)
    PROVE  /\ req[r] \in Calls /\ req[r].process \in Processes
           /\ req[r].critical \in BOOLEAN /\ req[r].again \in BOOLEAN
           /\ req[r].now \in Nat /\ req[r].time \in Nat /\ clock \in Nat
           /\ req[r].now >= clock - MaxDelay
           /\ req[r].now <= clock + skew[req[r].process]
           /\ req[r].now <= clock + MaxSkew
           /\ skew[req[r].process] \in Nat
           /\ Member(r) \in Processes \X Nat \X Requests /\ Member(r)[3] = r
<1>1. /\ req[r] \in Calls /\ req[r].process \in Processes
      /\ req[r].critical \in BOOLEAN /\ req[r].again \in BOOLEAN
      /\ req[r].now \in Nat /\ req[r].time \in Nat
  BY RequestTypes DEF Calls
<1>2. skew[req[r].process] \in 0 .. MaxSkew /\ clock \in Nat
  BY <1>1, LimiterNumbers DEF LimiterTypeOK
<1>3. /\ req[r].time <= clock /\ clock <= req[r].time + MaxDelay
      /\ req[r].now = req[r].time + skew[req[r].process]
  BY DEF CallsTimely
<1>4. Member(r) \in Processes \X Nat \X Requests /\ Member(r)[3] = r
  BY <1>1 DEF Member
<1> QED
  BY <1>1, <1>2, <1>3, <1>4, LimiterNumbers

\* What is left of the sorted set.
LEMMA RecentSubset ==
    ASSUME WithinLimit, NEW S \in SUBSET zset
    PROVE  /\ IsFiniteSet(S) /\ Cardinality(S) \in Nat /\ Cardinality(S) <= Limit
           /\ Cardinality(zset) \in Nat
           /\ S # zset => Cardinality(S) < Limit
<1>1. /\ IsFiniteSet(S) /\ Cardinality(S) <= Cardinality(zset)
      /\ (Cardinality(zset) = Cardinality(S) => zset = S)
  BY FS_Subset DEF WithinLimit
<1>2. Cardinality(S) \in Nat /\ Cardinality(zset) \in Nat
  BY <1>1, FS_CardinalityType DEF WithinLimit
<1> QED
  BY <1>1, <1>2, LimiterNumbers DEF WithinLimit

\* Distinct requests are distinct entries.
LEMMA RequestsCounted ==
    ASSUME NEW Z, Z \subseteq Entry, IsFiniteSet(Z), NEW R,
           \A r \in R : \E e \in Z : e.member[3] = r
    PROVE  IsFiniteSet(R) /\ Cardinality(R) \in Nat /\ Cardinality(R) <= Cardinality(Z)
<1> DEFINE f == [e \in Z |-> e.member[3]]
           T == {e.member[3] : e \in Z}
<1>1. f \in Surjection(Z, T)
  BY DEF Surjection
<1>2. IsFiniteSet(T) /\ Cardinality(T) <= Cardinality(Z)
  BY <1>1, FS_Surjection
<1>3. R \in SUBSET T
  OBVIOUS
<1>4. IsFiniteSet(R) /\ Cardinality(R) <= Cardinality(T)
  BY <1>2, <1>3, FS_Subset
<1>5. Cardinality(R) \in Nat /\ Cardinality(T) \in Nat /\ Cardinality(Z) \in Nat
  BY <1>2, <1>4, FS_CardinalityType
<1> QED
  BY <1>2, <1>4, <1>5

-----------------------------------------------------------------------------
(***************************************************************************)
(* RateLimiter: steps                                                      *)
(***************************************************************************)
\* A request moves on: the calls remain timely.
LEMMA RequestMoves ==
    ASSUME LimiterInv, NEW r \in Requests, NEW q \in Calls \cup Limited \cup {New, Done},
           Become(r, q), UNCHANGED <<clock, skew>>,
           \/ q.at # "sent"
           \/ q = req[r]
           \/ q.time = clock /\ q.now = clock + skew[q.process]
    PROVE  /\ req' \in [Requests -> Calls \cup Limited \cup {New, Done}]
           /\ req'[r] = q
           /\ \A s \in Requests : s # r => req'[s] = req[s]
           /\ CallsTimely'
<1>1. /\ req' \in [Requests -> Calls \cup Limited \cup {New, Done}]
      /\ req'[r] = q
      /\ \A s \in Requests : s # r => req'[s] = req[s]
  BY DEF Become, LimiterInv, LimiterTypeOK
<1>2. clock \in Nat
  BY LimiterNumbers DEF LimiterInv, LimiterTypeOK
<1>3. ASSUME NEW s \in Requests, IsSent(s)'
      PROVE  /\ req'[s].time <= clock /\ clock <= req'[s].time + MaxDelay
             /\ req'[s].now = req'[s].time + skew[req'[s].process]
  <2>1. CASE req'[s] = req[s]
    BY <1>3, <2>1 DEF LimiterInv, CallsTimely, IsSent
  <2>2. CASE s = r /\ q.time = clock /\ q.now = clock + skew[q.process]
    BY <1>1, <1>2, <2>2, LimiterNumbers
  <2> QED
    BY <1>1, <1>3, <2>1, <2>2 DEF IsSent
<1> QED
  BY <1>1, <1>3 DEF CallsTimely

\* An entry that counts for whoever was served within the span.
Counts(e) == e.score > clock + MaxSkew - Window

\* What was served is known after a step of r, if the step keeps the entries that
\* count and adds that of r when it serves r.
LEMMA ServedMoves ==
    ASSUME LimiterInv, NEW r \in Requests, req[r] # Done, clock' = clock,
           \A s \in Requests : s # r => req'[s] = req[s],
           \A e \in zset : Counts(e) /\ e.member[3] # r => e \in zset',
           expires' \in {expires, clock + Window},
           \/ served' = served
           \/ /\ served' = [served EXCEPT ![r] = clock]
              /\ req'[r] = Done
              /\ \E e \in zset' : e.member[3] = r /\ e.score >= clock - MaxDelay
              /\ expires' = clock + Window
    PROVE  ServedKnown'
<1> SUFFICES ASSUME NEW s \in Requests, served'[s] # Never
             PROVE  /\ req'[s] = Done
                    /\ served'[s] <= clock
                    /\ served'[s] > clock - Span =>
                         /\ \E e \in zset' : e.member[3] = s /\ e.score >= served'[s] - MaxDelay
                         /\ expires' >= served'[s] + Window
  BY DEF ServedKnown, Known
<1>0. /\ clock \in Nat /\ served \in [Requests -> {Never} \cup 0 .. MaxClock] /\ zset \subseteq Entry
      /\ served[r] = Never
  BY LimiterNumbers DEF LimiterInv, LimiterTypeOK, ServedKnown
<1>1. CASE served'[s] = served[s]
  <2>1. /\ s # r /\ req'[s] = Done /\ served[s] <= clock /\ served[s] \in Nat
        /\ served[s] > clock - Span => Known(s, served[s]) /\ expires >= served[s] + Window
    BY <1>0, <1>1 DEF LimiterInv, ServedKnown, Never
  <2>2. ASSUME served[s] > clock - Span
        PROVE  \E e \in zset' : e.member[3] = s /\ e.score >= served[s] - MaxDelay
    <3>1. PICK e \in zset : e.member[3] = s /\ e.score >= served[s] - MaxDelay
      BY <2>1, <2>2 DEF Known
    <3>2. e.score \in Nat
      BY <1>0 DEF Entry
    <3>3. Counts(e)
      BY <1>0, <2>1, <2>2, <3>1, <3>2, LimiterNumbers DEF Counts, Span
    <3> QED
      BY <2>1, <3>1, <3>3
  <2>3. served[s] > clock - Span => expires' >= served[s] + Window
    BY <1>0, <2>1, LimiterNumbers
  <2> QED
    BY <1>1, <2>1, <2>2, <2>3
<1>2. CASE served'[s] # served[s]
  <2>1. s = r /\ served'[r] = clock
    BY <1>0, <1>2
  <2> QED
    BY <1>0, <1>2, <2>1, LimiterNumbers
<1> QED
  BY <1>1, <1>2

\* There is room after the step.
RoomAfter(n) == Cardinality(zset') < Limit \/ \E e \in zset' : e.score <= n - Window

\* Entries leave the set, time passes: there is as much room as before.
LEMMA RoomKept ==
    ASSUME LimiterInv, zset' \subseteq zset, NEW n \in Int, NEW m \in Int, m >= n, Room(n)
    PROVE  RoomAfter(m)
<1>1. CASE zset' = zset
  <2>1. \A e \in zset : e.score \in Nat
    BY DEF LimiterInv, LimiterTypeOK, Entry
  <2> QED
    BY <1>1, <2>1, LimiterNumbers DEF Room, RoomAfter
<1>2. CASE zset' # zset
  BY <1>2, RecentSubset DEF LimiterInv, RoomAfter
<1> QED
  BY <1>1, <1>2

\* Whoever was denied still has room, unless it moves.
LEMMA QuietWait ==
    ASSUME LimiterInv, zset' \subseteq zset, NEW s \in quiet
    PROVE  /\ req[s].at = "limited" => RoomAfter(req[s].until + skew[req[s].process])
           /\ IsSent(s) /\ req[s].again => RoomAfter(req[s].now)
<1>1. s \in Requests
  BY DEF LimiterInv, LimiterTypeOK
<1>2. ASSUME req[s].at = "limited"
      PROVE  RoomAfter(req[s].until + skew[req[s].process])
  <2> DEFINE n == req[s].until + skew[req[s].process]
  <2>1. req[s].until \in Nat /\ req[s].process \in Processes
    BY <1>1, <1>2, RequestTypes DEF LimiterInv, Limited
  <2>2. n \in Int
    BY <2>1, LimiterNumbers DEF LimiterInv, LimiterTypeOK
  <2>3. Room(n)
    BY <1>2 DEF LimiterInv, QuietRoom
  <2> HIDE DEF n
  <2>4. RoomAfter(n)
    BY <2>2, <2>3, RoomKept
  <2> QED
    BY <2>4 DEF n
<1>3. ASSUME IsSent(s), req[s].again
      PROVE  RoomAfter(req[s].now)
  <2>1. req[s].now \in Int /\ Room(req[s].now)
    BY <1>1, <1>3, RequestTypes DEF LimiterInv, QuietRoom, Calls
  <2> QED
    BY <2>1, RoomKept
<1> QED
  BY <1>2, <1>3

\* A step of r that admits nothing keeps the room of whoever was denied, if there
\* is room for r where it needs it.
LEMMA QuietMoves ==
    ASSUME LimiterInv, NEW r \in Requests, zset' \subseteq zset, skew' = skew,
           \A s \in Requests : s # r => req'[s] = req[s],
           quiet' \subseteq quiet \cup {r},
           r \in quiet' /\ req'[r].at = "limited" => RoomAfter(req'[r].until + skew[req'[r].process]),
           r \in quiet' /\ req'[r].at = "sent" /\ req'[r].again => RoomAfter(req'[r].now)
    PROVE  QuietRoom'
<1> SUFFICES ASSUME NEW s \in quiet'
             PROVE  /\ req'[s].at = "limited" => RoomAfter(req'[s].until + skew[req'[s].process])
                    /\ req'[s].at = "sent" /\ req'[s].again => RoomAfter(req'[s].now)
  BY DEF QuietRoom, Room, RoomAfter, IsSent
<1>1. CASE s # r
  <2>1. s \in quiet /\ req'[s] = req[s]
    BY <1>1 DEF LimiterInv, LimiterTypeOK
  <2> QED
    BY <2>1, QuietWait DEF IsSent
<1> QED
  BY <1>1

\* Time passes; what the key's expiry takes away lies outside the span.
LEMMA PassingKeeps ==
    ASSUME LimiterInv, TimePasses
    PROVE  LimiterInv'
<1>0. /\ clock \in Nat /\ clock' = clock + 1 /\ clock' \in 0 .. MaxClock /\ clock' \in Nat
      /\ UNCHANGED <<skew, req, served, quiet>>
      /\ served \in [Requests -> {Never} \cup 0 .. MaxClock]
      /\ \A r \in Requests : IsSent(r) => clock < req[r].time + MaxDelay
      /\ expires \in Nat
  BY LimiterNumbers DEF TimePasses, IsSent, LimiterInv, LimiterTypeOK
<1>1. zset' \subseteq zset /\ expires' \in Nat /\ (clock' < expires => zset' = zset /\ expires' = expires)
  BY <1>0 DEF TimePasses
<1>2. LimiterTypeOK'
  BY <1>0, <1>1 DEF LimiterInv, LimiterTypeOK
<1>3. CallsTimely'
  <2> SUFFICES ASSUME NEW r \in Requests, IsSent(r)
               PROVE  req[r].time <= clock' /\ clock' <= req[r].time + MaxDelay
    BY <1>0 DEF LimiterInv, CallsTimely, IsSent
  <2>1. req[r].time \in Nat /\ req[r].time <= clock /\ clock < req[r].time + MaxDelay
    BY <1>0, RequestTypes DEF LimiterInv, CallsTimely, Calls
  <2> QED
    BY <1>0, <2>1, LimiterNumbers
<1>4. WithinLimit'
  BY <1>1, RecentSubset DEF LimiterInv, WithinLimit
<1>5. ServedKnown'
  <2> SUFFICES ASSUME NEW r \in Requests, served[r] # Never
               PROVE  /\ req[r] = Done /\ served[r] <= clock'
                      /\ served[r] > clock' - Span =>
                           /\ \E e \in zset' : e.member[3] = r /\ e.score >= served[r] - MaxDelay
                           /\ expires' >= served[r] + Window
    BY <1>0 DEF ServedKnown, Known
  <2>1. /\ req[r] = Done /\ served[r] <= clock /\ served[r] \in Nat
        /\ served[r] > clock - Span => Known(r, served[r]) /\ expires >= served[r] + Window
    BY <1>0 DEF LimiterInv, ServedKnown
  <2>2. CASE served[r] > clock' - Span
    <3>1. Known(r, served[r]) /\ expires >= served[r] + Window
      BY <1>0, <2>1, <2>2, LimiterNumbers
    <3>2. clock' < expires
      BY <1>0, <2>1, <2>2, <3>1, LimiterNumbers
    <3> QED
      BY <1>0, <1>1, <2>1, <3>1, <3>2 DEF Known
  <2> QED
    BY <1>0, <2>1, <2>2
<1>6. QuietRoom'
  BY <1>0, <1>1, QuietWait DEF QuietRoom, Room, RoomAfter, IsSent
<1> QED
  BY <1>2, <1>3, <1>4, <1>5, <1>6 DEF LimiterInv

\* Every answer is a move of the request.
LEMMA Replies ==
    ASSUME LimiterInv, NEW r \in Requests, IsSent(r)
    PROVE  /\ req[r] # Done /\ served[r] = Never
           /\ Become(r, Done) /\ UNCHANGED <<clock, skew>> =>
                /\ req' \in [Requests -> Calls \cup Limited \cup {New, Done}]
                /\ req'[r] = Done /\ (\A s \in Requests : s # r => req'[s] = req[s])
                /\ CallsTimely'
           /\ req' = req /\ UNCHANGED <<clock, skew>> =>
                /\ req' \in [Requests -> Calls \cup Limited \cup {New, Done}]
                /\ req'[r] = req[r] /\ (\A s \in Requests : s # r => req'[s] = req[s])
                /\ CallsTimely'
           /\ OnError(r) => Become(r, Done) /\ served' = served
<1>1. req[r] # Done /\ served[r] = Never /\ Done.at = "done"
  BY RequestTypes DEF LimiterInv, ServedKnown, IsSent
<1>2. ASSUME Become(r, Done), UNCHANGED <<clock, skew>>
      PROVE  /\ req' \in [Requests -> Calls \cup Limited \cup {New, Done}]
             /\ req'[r] = Done /\ (\A s \in Requests : s # r => req'[s] = req[s])
             /\ CallsTimely'
  BY <1>1, <1>2, RequestMoves
<1>3. ASSUME req' = req, UNCHANGED <<clock, skew>>
      PROVE  /\ req' \in [Requests -> Calls \cup Limited \cup {New, Done}]
             /\ req'[r] = req[r] /\ (\A s \in Requests : s # r => req'[s] = req[s])
             /\ CallsTimely'
  BY <1>3 DEF LimiterInv, LimiterTypeOK, CallsTimely, IsSent
<1>4. OnError(r) => Become(r, Done) /\ served' = served
  <2>1. served \in [Requests -> {Never} \cup 0 .. MaxClock]
    BY DEF LimiterInv, LimiterTypeOK
  <2> QED
    BY <2>1 DEF OnError, Serve, Refuse
<1> QED
  BY <1>1, <1>2, <1>3, <1>4

\* RateLimit calls Allow, for a new request or for one that comes back.
LEMMA SendingKeeps ==
    ASSUME LimiterInv, NEW r \in Requests,
           (\E p \in Processes, critical \in BOOLEAN : Arrive(r, p, critical)) \/ Retry(r)
    PROVE  LimiterInv' /\ served' = served
<1>u. UNCHANGED <<clock, skew, zset, expires, served, quiet>>
  BY DEF Arrive, Retry
<1>0. /\ UNCHANGED <<clock, skew, zset, expires, served, quiet>> /\ clock \in Nat
      /\ skew \in [Processes -> 0 .. MaxSkew]
  BY <1>u, LimiterNumbers DEF LimiterInv, LimiterTypeOK
<1>1. PICK p \in Processes, critical \in BOOLEAN, again \in BOOLEAN :
         /\ Become(r, Sent(p, critical, again))
         /\ again => /\ req[r].at = "limited" /\ p = req[r].process
                     /\ clock >= req[r].until /\ req[r].until \in Nat
         /\ req[r] # Done
  <2>1. CASE \E q \in Processes, critical \in BOOLEAN : Arrive(r, q, critical)
    <3>1. New # Done
      BY DEF New, Done
    <3> QED
      BY <2>1, <3>1 DEF Arrive
  <2>2. CASE Retry(r)
    <3>1. /\ req[r] \in Limited /\ req[r].at = "limited" /\ req[r] # Done
          /\ clock >= req[r].until
          /\ Become(r, Sent(req[r].process, req[r].critical, TRUE))
      BY <2>2, RequestTypes DEF Retry, LimiterInv
    <3>2. req[r].process \in Processes /\ req[r].critical \in BOOLEAN /\ req[r].until \in Nat
      BY <3>1 DEF Limited
    <3> QED
      BY <3>1, <3>2
  <2> QED
    BY <2>1, <2>2
<1> DEFINE q == Sent(p, critical, again)
<1>2. /\ q \in Calls /\ q.at = "sent" /\ q.time = clock /\ q.now = clock + skew[p]
      /\ q.process = p /\ q.again = again /\ q.now \in Nat /\ skew[p] \in Nat
  BY <1>0, LimiterNumbers DEF Sent, Calls
<1> HIDE DEF q
<1>3. /\ req' \in [Requests -> Calls \cup Limited \cup {New, Done}] /\ req'[r] = q
      /\ \A s \in Requests : s # r => req'[s] = req[s]
      /\ CallsTimely'
  BY <1>0, <1>1, <1>2, RequestMoves DEF q
<1>4. LimiterTypeOK'
  BY <1>0, <1>3 DEF LimiterInv, LimiterTypeOK
<1>5. WithinLimit'
  BY <1>0 DEF LimiterInv, WithinLimit
<1>6. ServedKnown'
  BY <1>0, <1>1, <1>3, ServedMoves
<1>7. QuietRoom'
  <2>1. ASSUME r \in quiet, again
        PROVE  RoomAfter(q.now)
    <3> DEFINE n == req[r].until + skew[p]
    <3>1. Room(n)
      BY <1>1, <2>1 DEF LimiterInv, QuietRoom
    <3>2. n \in Int /\ q.now >= n
      BY <1>0, <1>1, <1>2, <2>1
    <3> HIDE DEF n
    <3> QED
      BY <1>0, <1>2, <3>1, <3>2, RoomKept
  <2> QED
    BY <1>0, <1>2, <1>3, <2>1, QuietMoves
<1> QED
  BY <1>0, <1>3, <1>4, <1>5, <1>6, <1>7 DEF LimiterInv

\* Redis is not reached.
LEMMA UnreachableKeeps ==
    ASSUME LimiterInv, NEW r \in Requests, Unreachable(r)
    PROVE  LimiterInv' /\ served' = served
<1>0. /\ UNCHANGED <<clock, skew, zset, expires, quiet>> /\ IsSent(r) /\ OnError(r)
  BY DEF Unreachable, IsSent
<1>1. /\ req' \in [Requests -> Calls \cup Limited \cup {New, Done}] /\ req'[r] = Done
      /\ \A s \in Requests : s # r => req'[s] = req[s]
      /\ CallsTimely' /\ served' = served /\ req[r] # Done /\ Done.at = "done"
  BY <1>0, Replies, RequestTypes DEF LimiterInv
<1>2. LimiterTypeOK' /\ WithinLimit'
  BY <1>0, <1>1 DEF LimiterInv, LimiterTypeOK, WithinLimit
<1>3. ServedKnown'
  BY <1>0, <1>1, ServedMoves
<1>4. QuietRoom'
  BY <1>0, <1>1, QuietMoves
<1> QED
  BY <1>1, <1>2, <1>3, <1>4 DEF LimiterInv

\* The oldest entry determines Retry-After.
LEMMA OldestWait ==
    ASSUME LimiterInv, NEW r \in Requests, IsSent(r), Recent(r) # {}
    PROVE  /\ RetryAfter(r) \in Nat
           /\ \E e \in Recent(r) : RetryAfter(r) >= Window - (req[r].now - e.score)
<1> DEFINE S == {e.score : e \in Recent(r)}
           oldest == CHOOSE s \in S : \A e \in Recent(r) : s <= e.score
           wait == Window - (req[r].now - oldest)
<1>0. \A e \in Recent(r) : e.score \in Nat
  BY DEF Recent, LimiterInv, LimiterTypeOK, Entry
<1>1. S \in SUBSET Nat /\ S # {}
  BY <1>0
<1>2. \E m \in S : \A n \in S : m <= n
  BY <1>1, Least
<1>3. \E s \in S : \A e \in Recent(r) : s <= e.score
  BY <1>2
<1>4. oldest \in S
  BY <1>3
<1>5. RetryAfter(r) = IF wait < 1 THEN 1 ELSE wait
  BY DEF RetryAfter
<1>6. PICK e \in Recent(r) : oldest = e.score
  BY <1>4
<1> HIDE DEF oldest
<1>7. wait \in Int /\ wait = Window - (req[r].now - e.score)
  BY <1>0, <1>6, SentCall, LimiterNumbers DEF LimiterInv
<1> QED
  BY <1>5, <1>7

\* A step of the script on what is left after the pruning: entries that count are there.
LEMMA PruningKeeps ==
    ASSUME LimiterInv, NEW r \in Requests, IsSent(r)
    PROVE  /\ Recent(r) \subseteq zset
           /\ \A e \in zset : Counts(e) => e \in Recent(r)
<1>1. \A e \in zset : e.score \in Nat
  BY DEF LimiterInv, LimiterTypeOK, Entry
<1>2. req[r].now \in Nat /\ clock \in Nat /\ req[r].now <= clock + MaxSkew
  BY SentCall DEF LimiterInv
<1> QED
  BY <1>1, <1>2, LimiterNumbers DEF Recent, Counts

\* The script denies.
LEMMA DenyKeeps ==
    ASSUME LimiterInv, NEW r \in Requests, Deny(r)
    PROVE  LimiterInv' /\ served' = served
<1>0. /\ UNCHANGED <<clock, skew>> /\ IsSent(r) /\ zset' = Recent(r) /\ expires' = clock + Window
      /\ clock \in Nat /\ expires' \in Nat
      /\ Cardinality(Recent(r)) >= Limit
  BY LimiterNumbers DEF Deny, IsSent, LimiterInv, LimiterTypeOK
<1>1. /\ zset' \subseteq zset /\ \A e \in zset : Counts(e) => e \in zset'
  BY <1>0, PruningKeeps
<1>2. /\ req[r] # Done /\ Done.at = "done" /\ req[r] \in Calls /\ req[r].process \in Processes
      /\ req[r].critical \in BOOLEAN /\ req[r].now \in Nat /\ skew[req[r].process] \in Nat
      /\ req[r].now <= clock + skew[req[r].process]
  BY <1>0, Replies, RequestTypes, SentCall DEF LimiterInv
<1>3. Recent(r) # {}
  <2>1. Cardinality({}) = 0
    BY FS_EmptySet
  <2> QED
    BY <1>0, <2>1, LimiterNumbers
<1> DEFINE until == clock + RetrySeconds(RetryAfter(r)) * Second
           l == [at |-> "limited", process |-> req[r].process, critical |-> req[r].critical,
                 until |-> until]
<1>4. until \in Nat /\ \E e \in zset' : e.score <= until + skew[req[r].process] - Window
  <2>1. PICK e \in Recent(r) : RetryAfter(r) >= Window - (req[r].now - e.score)
    BY <1>0, <1>3, OldestWait
  <2>2. RetryAfter(r) \in Nat /\ e.score \in Nat /\ e \in zset'
    BY <1>0, <1>1, <1>3, OldestWait DEF LimiterInv, LimiterTypeOK, Entry
  <2>3. RetrySeconds(RetryAfter(r)) * Second \in Nat /\ RetrySeconds(RetryAfter(r)) * Second >= RetryAfter(r)
    BY <2>2, WholeSeconds
  <2>4. until \in Nat /\ until >= clock + RetryAfter(r)
    BY <1>0, <2>2, <2>3
  <2> HIDE DEF until
  <2> QED
    BY <1>0, <1>2, <2>1, <2>2, <2>4, LimiterNumbers
<1> HIDE DEF until
<1>5. l \in Limited /\ l.at = "limited" /\ l.process = req[r].process /\ l.until = until
  BY <1>2, <1>4 DEF Limited
<1>6. PICK q \in {req[r], Done, l} :
         /\ Become(r, q) /\ served' = served
         /\ quiet' \subseteq quiet \cup {r}
         /\ q = req[r] => quiet' = quiet
  <2>1. CASE Limit429(r, RetryAfter(r)) /\ quiet' = quiet \cup {r}
    <3>1. Become(r, IF req[r].again THEN Done ELSE l) /\ served' = served
      BY <2>1 DEF Limit429, until
    <3>2. l # req[r]
      BY <1>0, <1>5 DEF IsSent
    <3> QED
      BY <1>2, <2>1, <3>1, <3>2
  <2>2. CASE Lost(r) /\ UNCHANGED quiet
    <3>1. req' = req => Become(r, req[r])
      BY DEF Become, LimiterInv, LimiterTypeOK
    <3> QED
      BY <1>0, <2>2, <3>1, Replies DEF Lost
  <2> QED
    BY <2>1, <2>2 DEF Deny
<1> HIDE DEF l
<1>7. /\ req' \in [Requests -> Calls \cup Limited \cup {New, Done}] /\ req'[r] = q
      /\ \A s \in Requests : s # r => req'[s] = req[s]
      /\ CallsTimely'
  <2>1. q \in Calls \cup Limited \cup {New, Done} /\ (q.at # "sent" \/ q = req[r])
    BY <1>2, <1>5, <1>6
  <2> QED
    BY <1>0, <1>6, <2>1, RequestMoves
<1>8. WithinLimit' /\ LimiterTypeOK'
  <2>1. WithinLimit'
    BY <1>1, RecentSubset DEF LimiterInv, WithinLimit
  <2>2. quiet' \subseteq Requests
    BY <1>6 DEF LimiterInv, LimiterTypeOK
  <2> QED
    BY <1>0, <1>1, <1>6, <1>7, <2>1, <2>2 DEF LimiterInv, LimiterTypeOK
<1>9. ServedKnown'
  BY <1>0, <1>1, <1>2, <1>6, <1>7, ServedMoves
<1>10. QuietRoom'
  <2>1. q.at = "limited" => q = l
    BY <1>0, <1>2, <1>5, <1>6 DEF IsSent
  <2>2. ASSUME q.at = "limited"
        PROVE  RoomAfter(q.until + skew[q.process])
    <3>1. q.until = until /\ q.process = req[r].process
      BY <1>5, <2>1, <2>2
    <3>2. PICK e \in zset' : e.score <= until + skew[req[r].process] - Window
      BY <1>4
    <3>3. e.score \in Nat
      BY <1>1, <3>2 DEF LimiterInv, LimiterTypeOK, Entry
    <3> DEFINE n == until + skew[req[r].process]
    <3>4. n = until + skew[req[r].process]
      OBVIOUS
    <3> HIDE DEF n
    <3>5. e.score <= n - Window
      BY <1>2, <1>4, <3>2, <3>3, <3>4, LimiterNumbers
    <3>6. RoomAfter(n)
      BY <3>5 DEF RoomAfter
    <3> QED
      BY <3>1, <3>6 DEF n
  <2>3. ASSUME r \in quiet', q.at = "sent", q.again
        PROVE  RoomAfter(q.now)
    <3>1. q = req[r] /\ r \in quiet
      BY <1>2, <1>5, <1>6, <2>3
    <3> QED
      BY <1>0, <1>1, <2>3, <3>1, QuietWait
  <2> QED
    BY <1>0, <1>1, <1>6, <1>7, <2>2, <2>3, QuietMoves
<1> QED
  BY <1>6, <1>7, <1>8, <1>9, <1>10 DEF LimiterInv

\* The script admits: one more entry, and no more than the limit.
LEMMA AllowKeeps ==
    ASSUME LimiterInv, NEW r \in Requests, Allow(r)
    PROVE  /\ LimiterInv'
           /\ \/ served' = served
              \/ served' = [served EXCEPT ![r] = clock]
<1> DEFINE x == [member |-> Member(r), score |-> req[r].now]
           kept == {e \in Recent(r) : e.member # Member(r)}
<1>0. /\ UNCHANGED <<clock, skew>> /\ IsSent(r) /\ zset' = kept \cup {x} /\ expires' = clock + Window
      /\ clock \in Nat /\ clock \in 0 .. MaxClock /\ expires' \in Nat /\ quiet' = {}
      /\ Cardinality(Recent(r)) < Limit
      /\ Serve(r) \/ Lost(r)
  BY LimiterNumbers DEF Allow, IsSent, LimiterInv, LimiterTypeOK
<1>1. /\ Member(r) \in Processes \X Nat \X Requests /\ Member(r)[3] = r
      /\ req[r].now \in Nat /\ req[r].now >= clock - MaxDelay /\ req[r].critical \in BOOLEAN
  BY <1>0, SentCall DEF LimiterInv
<1>2. x \in Entry /\ x.member[3] = r /\ x.score >= clock - MaxDelay
  BY <1>1 DEF Entry
<1>3. /\ Recent(r) \subseteq zset /\ kept \subseteq Recent(r) /\ kept \subseteq zset
      /\ \A e \in zset : Counts(e) /\ e.member[3] # r => e \in kept
  BY <1>0, <1>1, PruningKeeps
<1> HIDE DEF x, kept
<1>4. WithinLimit'
  <2>1. IsFiniteSet(Recent(r)) /\ Cardinality(Recent(r)) \in Nat
    BY <1>3, RecentSubset DEF LimiterInv
  <2>2. IsFiniteSet(kept) /\ Cardinality(kept) <= Cardinality(Recent(r))
    BY <1>3, <2>1, FS_Subset
  <2>3. Cardinality(kept) \in Nat
    BY <2>2, FS_CardinalityType
  <2>4. IsFiniteSet(zset') /\ Cardinality(zset') <= Cardinality(kept) + 1
    <3>1. /\ IsFiniteSet(kept \cup {x})
          /\ Cardinality(kept \cup {x}) = IF x \in kept THEN Cardinality(kept) ELSE Cardinality(kept) + 1
      BY <2>2, FS_AddElement
    <3> QED
      BY <1>0, <2>3, <3>1
  <2>5. Cardinality(zset') \in Nat
    BY <2>4, FS_CardinalityType
  <2> QED
    BY <1>0, <2>1, <2>2, <2>3, <2>4, <2>5, LimiterNumbers DEF WithinLimit
<1>5. /\ req' \in [Requests -> Calls \cup Limited \cup {New, Done}]
      /\ \A s \in Requests : s # r => req'[s] = req[s]
      /\ CallsTimely' /\ req[r] # Done
      /\ served' = served \/ (served' = [served EXCEPT ![r] = clock] /\ req'[r] = Done)
  <2>1. CASE Serve(r)
    <3>1. Become(r, Done) /\ (served' = served \/ served' = [served EXCEPT ![r] = clock])
      BY <1>1, <2>1 DEF Serve, LimiterInv, LimiterTypeOK
    <3> QED
      BY <1>0, <3>1, Replies
  <2>2. CASE Lost(r)
    BY <1>0, <2>2, Replies DEF Lost
  <2> QED
    BY <1>0, <2>1, <2>2
<1>6. LimiterTypeOK'
  <2>1. served' \in [Requests -> {Never} \cup 0 .. MaxClock]
    BY <1>0, <1>5 DEF LimiterInv, LimiterTypeOK
  <2>2. zset' \subseteq Entry
    BY <1>0, <1>2, <1>3 DEF LimiterInv, LimiterTypeOK
  <2> QED
    BY <1>0, <1>5, <2>1, <2>2 DEF LimiterInv, LimiterTypeOK
<1>7. ServedKnown'
  <2>1. \E e \in zset' : e.member[3] = r /\ e.score >= clock - MaxDelay
    BY <1>0, <1>2
  <2>2. \A e \in zset : Counts(e) /\ e.member[3] # r => e \in zset'
    BY <1>0, <1>3
  <2> QED
    BY <1>0, <1>5, <2>1, <2>2, ServedMoves
<1>8. QuietRoom'
  BY <1>0 DEF QuietRoom
<1> QED
  BY <1>4, <1>5, <1>6, <1>7, <1>8 DEF LimiterInv

-----------------------------------------------------------------------------
(***************************************************************************)
(* RateLimiter: the theorems                                               *)
(***************************************************************************)
\* The invariant holds initially.
LEMMA LimiterInvInit == LimiterInit => LimiterInv /\ WindowBound
<1> SUFFICES ASSUME LimiterInit PROVE LimiterInv /\ WindowBound
  OBVIOUS
<1>e. IsFiniteSet({}) /\ Cardinality({}) = 0
  BY FS_EmptySet
<1>n. New.at = "new"
  BY DEF New
<1>1. LimiterTypeOK
  BY LimiterNumbers DEF LimiterInit, LimiterTypeOK
<1>2. CallsTimely
  BY <1>n DEF LimiterInit, CallsTimely, IsSent
<1>3. WithinLimit
  BY <1>e, LimiterNumbers DEF LimiterInit, WithinLimit
<1>4. ServedKnown /\ QuietRoom
  BY DEF LimiterInit, ServedKnown, QuietRoom
<1>5. WindowBound
  <2> SUFFICES ASSUME NEW t \in 0 .. MaxClock
               PROVE  Cardinality({r \in Requests :
                        served[r] \in t .. (t + Window - MaxSkew - MaxDelay - 1)}) <= Limit
    BY Zenon DEF WindowBound
  <2>1. {r \in Requests : served[r] \in t .. (t + Window - MaxSkew - MaxDelay - 1)} = {}
    BY LimiterNumbers DEF LimiterInit, Never
  <2> QED
    BY <1>e, <2>1, LimiterNumbers
<1> QED
  BY <1>1, <1>2, <1>3, <1>4, <1>5 DEF LimiterInv

\* Every step keeps the invariant, and serves at most the request it admits.
LEMMA LimiterInvStep ==
    ASSUME LimiterInv, [LimiterNext]_limiterVars
    PROVE  /\ LimiterInv'
           /\ \/ served' = served
              \/ \E r \in Requests : Allow(r) /\ served' = [served EXCEPT ![r] = clock]
<1>1. CASE TimePasses
  BY <1>1, PassingKeeps DEF TimePasses
<1>2. CASE \E r \in Requests : \/ \E p \in Processes, critical \in BOOLEAN : Arrive(r, p, critical)
                               \/ Retry(r)
  BY <1>2, SendingKeeps
<1>3. CASE \E r \in Requests : Allow(r)
  BY <1>3, AllowKeeps
<1>4. CASE \E r \in Requests : Deny(r)
  BY <1>4, DenyKeeps
<1>5. CASE \E r \in Requests : Unreachable(r)
  BY <1>5, UnreachableKeeps
<1>6. CASE UNCHANGED limiterVars
  BY <1>6 DEF limiterVars, LimiterInv, LimiterTypeOK, CallsTimely, IsSent, WithinLimit, ServedKnown,
              Known, QuietRoom, Room
<1> QED
  BY <1>1, <1>2, <1>3, <1>4, <1>5, <1>6 DEF LimiterNext

\* Whoever was served within a window that reaches to the present is known to the
\* sorted set that a call finds, beside which the call is one more.
LEMMA WindowStep ==
    ASSUME LimiterInv, WindowBound, [LimiterNext]_limiterVars
    PROVE  WindowBound'
<1>1. CASE served' = served
  BY <1>1 DEF WindowBound
<1>2. ASSUME NEW r \in Requests, Allow(r), served' = [served EXCEPT ![r] = clock]
      PROVE  WindowBound'
  <2> SUFFICES ASSUME NEW t \in 0 .. MaxClock
               PROVE  Cardinality({s \in Requests : served'[s] \in t .. (t + Window - MaxSkew - MaxDelay - 1)})
                        <= Limit
    BY DEF WindowBound
  <2> DEFINE last == t + Window - MaxSkew - MaxDelay - 1
             S == {s \in Requests : served[s] \in t .. last}
             T == {s \in Requests : served'[s] \in t .. last}
  <2>0. /\ clock \in Nat /\ served \in [Requests -> {Never} \cup 0 .. MaxClock] /\ zset \subseteq Entry
        /\ IsSent(r) /\ served[r] = Never /\ Never = -1 /\ t \in Nat /\ last \in Int
        /\ last = t + Span - 1 /\ Cardinality(Recent(r)) < Limit
    BY <1>2, LimiterNumbers, Replies DEF Allow, IsSent, LimiterInv, LimiterTypeOK, Never, Span
  <2>1. /\ served'[r] = clock /\ \A s \in Requests : s # r => served'[s] = served[s]
        /\ r \notin S
    BY <1>2, <2>0
  <2>2. Cardinality(S) <= Limit
    BY DEF WindowBound
  <2> HIDE DEF last
  <2>3. CASE clock \notin t .. last
    <3>1. T = S
      BY <2>0, <2>1, <2>3
    <3> QED
      BY <2>2, <3>1 DEF last
  <2>4. CASE clock \in t .. last
    <3>1. T = S \cup {r}
      BY <2>1, <2>4
    <3>2. Recent(r) \subseteq zset /\ \A e \in zset : Counts(e) => e \in Recent(r)
      BY <2>0, PruningKeeps
    <3>3. ASSUME NEW s \in S
          PROVE  \E e \in Recent(r) : e.member[3] = s
      <4>1. served[s] \in Nat /\ served[s] >= t /\ served[s] # Never
        BY <2>0, <3>3
      <4>2. served[s] > clock - Span
        BY <2>0, <2>4, <4>1, LimiterNumbers
      <4>3. PICK e \in zset : e.member[3] = s /\ e.score >= served[s] - MaxDelay
        BY <4>1, <4>2 DEF LimiterInv, ServedKnown, Known
      <4>4. e.score \in Nat
        BY <2>0 DEF Entry
      <4>5. Counts(e)
        BY <2>0, <4>1, <4>2, <4>3, <4>4, LimiterNumbers DEF Counts, Span
      <4> QED
        BY <3>2, <4>3, <4>5
    <3>4. IsFiniteSet(Recent(r)) /\ Cardinality(Recent(r)) \in Nat /\ Recent(r) \subseteq Entry
      BY <2>0, <3>2, RecentSubset DEF LimiterInv
    <3> HIDE DEF S
    <3>5. IsFiniteSet(S) /\ Cardinality(S) \in Nat /\ Cardinality(S) <= Cardinality(Recent(r))
      BY <3>3, <3>4, RequestsCounted
    <3>6. Cardinality(S \cup {r}) = Cardinality(S) + 1
      BY <2>1, <3>5, FS_AddElement
    <3>7. Cardinality(T) <= Limit
      BY <2>0, <3>1, <3>4, <3>5, <3>6, LimiterNumbers
    <3> QED
      BY <3>7 DEF last
  <2> QED
    BY <2>3, <2>4
<1> QED
  BY <1>1, <1>2, LimiterInvStep

\* What the runs check follows from these two in every state.
LEMMA LimiterInvariant == LimiterSpec => [](LimiterInv /\ WindowBound)
<1>1. LimiterInv /\ WindowBound /\ [LimiterNext]_limiterVars => (LimiterInv /\ WindowBound)'
  BY LimiterInvStep, WindowStep
<1> QED
  BY <1>1, LimiterInvInit, PTL DEF LimiterSpec

\* The sorted set, the calls and the histories keep their types.
THEOREM LimiterTypeCorrect == LimiterSpec => []LimiterTypeOK
<1>1. LimiterInv => LimiterTypeOK
  BY DEF LimiterInv
<1> QED
  BY <1>1, LimiterInvariant, PTL

\* The sorted set holds at most Limit entries, although a call that is sent again
\* may find it changed (slidingWindowScript).
THEOREM LimiterBounded == LimiterSpec => [](Cardinality(zset) <= Limit)
<1>1. LimiterInv => Cardinality(zset) <= Limit
  BY DEF LimiterInv, WithinLimit
<1> QED
  BY <1>1, LimiterInvariant, PTL

\* Critical routes serve at most Limit requests in any window less the skew of the
\* clocks and the delay of the calls.
THEOREM WindowsBounded == LimiterSpec => []WindowBound
  BY LimiterInvariant, PTL

\* A client that waits as long as Retry-After says is denied again only if another
\* request was admitted meanwhile: the oldest entry is over by then.
THEOREM RetriesSuffice == LimiterSpec => RetryAfterSuffices
<1>1. ASSUME LimiterInv, NEW r \in Requests, req[r].at = "sent", req[r].again, r \in quiet
      PROVE  ~Deny(r)
  <2>1. IsSent(r) /\ Room(req[r].now)
    BY <1>1 DEF IsSent, LimiterInv, QuietRoom
  <2>2. Recent(r) \subseteq zset /\ req[r].now \in Nat
    BY <1>1, <2>1, PruningKeeps, SentCall DEF LimiterInv
  <2>3. Cardinality(Recent(r)) \in Nat /\ Cardinality(Recent(r)) < Limit
    <3>1. CASE Cardinality(zset) < Limit
      <4>1. Cardinality(Recent(r)) <= Cardinality(zset) /\ Cardinality(Recent(r)) \in Nat
            /\ Cardinality(zset) \in Nat
        <5>1. IsFiniteSet(zset)
          BY <1>1 DEF LimiterInv, WithinLimit
        <5> QED
          BY <1>1, <2>2, <5>1, FS_Subset, RecentSubset DEF LimiterInv
      <4> QED
        BY <3>1, <4>1, LimiterNumbers
    <3>2. CASE \E e \in zset : e.score <= req[r].now - Window
      <4>1. PICK e \in zset : e.score <= req[r].now - Window
        BY <3>2
      <4>2. e.score \in Nat
        BY <1>1 DEF LimiterInv, LimiterTypeOK, Entry
      <4>3. e \notin Recent(r)
        BY <2>2, <4>1, <4>2, LimiterNumbers DEF Recent
      <4> QED
        BY <1>1, <2>2, <4>3, RecentSubset DEF LimiterInv
    <3> QED
      BY <2>1, <3>1, <3>2 DEF Room
  <2> QED
    BY <2>3, LimiterNumbers DEF Deny
<1>2. LimiterInv =>
        [\A r \in Requests : req[r].at = "sent" /\ req[r].again /\ r \in quiet => ~Deny(r)]_limiterVars
  BY <1>1
<1> QED
  BY <1>2, LimiterInvariant, PTL DEF RetryAfterSuffices
=============================================================================
