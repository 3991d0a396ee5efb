----------------------------- MODULE RateLimiter -----------------------------
(***************************************************************************)
(* The rate limit of the API processes for one client: the middleware      *)
(* RateLimit, which fails open except on critical routes, over             *)
(* RedisRateLimiter, whose script keeps the admitted requests of a sliding *)
(* window in a sorted set that all processes share.                        *)
(*                                                                         *)
(* A process reads its own clock, which is ahead of the true time by at    *)
(* most MaxSkew, and the script runs at most MaxDelay later; its reply, or *)
(* the call, may be lost.  A tick stands for a millisecond.                *)
(***************************************************************************)
EXTENDS Integers, FiniteSets

CONSTANTS
    Requests,   \* requests of the client
    Processes,  \* API processes
    Limit,      \* RateLimitConfig.Limit
    Window,     \* RateLimitConfig.Window, in ticks
    Second,     \* ticks of a second, the unit of Retry-After
    MaxSkew,    \* how far the clock of a process may be ahead
    MaxDelay,   \* ticks between reading the clock and the script
    MaxClock    \* bound: ticks of a behaviour

ASSUME LimitAssumption == Limit \in Nat \ {0}
ASSUME WindowAssumption == Window \in Nat \ {0} /\ Second \in Nat \ {0}
ASSUME TimingAssumption == MaxSkew \in Nat /\ MaxDelay \in Nat /\ MaxClock \in Nat

VARIABLES
    clock,    \* the true time
    skew,     \* how far each process is ahead of it
    zset,     \* the sorted set: members with their scores
    expires,  \* when its key expires
    req,      \* where each request is
    served,   \* history: when a critical route served each request
    quiet     \* history: denied requests since whose denial nothing was admitted

limiterVars == <<clock, skew, zset, expires, req, served, quiet>>

New == [at |-> "new"]
Done == [at |-> "done"]
Never == -1

Calls ==
    [at : {"sent"}, process : Processes, critical : BOOLEAN,
     now : Nat,         \* what the clock of the process said
     time : Nat,        \* the true time of the call
     again : BOOLEAN]   \* the client repeats a request that was denied
Limited ==
    [at : {"limited"}, process : Processes, critical : BOOLEAN,
     until : Nat]       \* when the delay of Retry-After is over

Entry == [member : Processes \X Nat \X Requests, score : Nat]

LimiterTypeOK ==
    /\ clock \in 0..MaxClock
    /\ skew \in [Processes -> 0..MaxSkew]
    /\ zset \subseteq Entry
    /\ expires \in Nat
    /\ req \in [Requests -> Calls \cup Limited \cup {New, Done}]
    /\ served \in [Requests -> {Never} \cup 0..MaxClock]
    /\ quiet \subseteq Requests

LimiterInit ==
    /\ clock = 0
    /\ skew \in [Processes -> 0..MaxSkew]
    /\ zset = {}
    /\ expires = 0
    /\ req = [r \in Requests |-> New]
    /\ served = [r \in Requests |-> Never]
    /\ quiet = {}

\* Time passes, and the key may expire; no call takes longer than MaxDelay.
TimePasses ==
    /\ clock < MaxClock
    /\ \A r \in Requests : req[r].at = "sent" => clock < req[r].time + MaxDelay
    /\ clock' = clock + 1
    /\ IF clock' < expires THEN UNCHANGED <<zset, expires>> ELSE zset' = {} /\ expires' = 0
    /\ UNCHANGED <<skew, req, served, quiet>>

Become(r, q) == req' = [req EXCEPT ![r] = q]

Sent(p, critical, again) ==
    [at |-> "sent", process |-> p, critical |-> critical, now |-> clock + skew[p],
     time |-> clock, again |-> again]

\* RateLimit calls Allow, which reads the clock.
Arrive(r, p, critical) ==
    /\ req[r] = New
    /\ Become(r, Sent(p, critical, FALSE))
    /\ UNCHANGED <<clock, skew, zset, expires, served, quiet>>

\* The client comes back when the delay it was told has passed.
Retry(r) ==
    /\ req[r].at = "limited"
    /\ clock >= req[r].until
    /\ Become(r, Sent(req[r].process, req[r].critical, TRUE))
    /\ UNCHANGED <<clock, skew, zset, expires, served, quiet>>

(***************************************************************************)
(* RateLimit, with what Allow returned                                     *)
(***************************************************************************)
\* The request reaches its route.
Serve(r) ==
    /\ Become(r, Done)
    /\ served' = [served EXCEPT ![r] = IF req[r].critical THEN clock ELSE @]

Refuse(r) == Become(r, Done) /\ UNCHANGED served

\* Without a decision a critical route is refused, any other one served.
OnError(r) == IF req[r].critical THEN Refuse(r) ELSE Serve(r)

\* Faulty variant: Retry-After is rounded down.
RetrySeconds_Floor(wait) == IF wait \div Second < 1 THEN 1 ELSE wait \div Second

\* Whole seconds, at least one.
RetrySeconds(wait) == LET n == (wait + Second - 1) \div Second IN IF n < 1 THEN 1 ELSE n

\* TooManyRequests; a client that was denied twice gives up.
Limit429(r, wait) ==
    /\ Become(r, IF req[r].again THEN Done
                 ELSE [at |-> "limited", process |-> req[r].process, critical |-> req[r].critical,
                       until |-> clock + RetrySeconds(wait) * Second])
    /\ UNCHANGED served

(***************************************************************************)
(* slidingWindowScript                                                     *)
(***************************************************************************)
\* Faulty variant: two requests of one millisecond are one member.
Member_Clock(r) == <<req[r].process, req[r].now>>

\* The nonce of the process, the time and a sequence number.
Member(r) == <<req[r].process, req[r].now, r>>

\* What is left after ZREMRANGEBYSCORE.
Recent(r) == {e \in zset : e.score > req[r].now - Window}

\* The script's answer to a request that is not allowed.
RetryAfter(r) ==
    LET oldest == CHOOSE s \in {e.score : e \in Recent(r)} :
                    \A e \in Recent(r) : s <= e.score
        wait == Window - (req[r].now - oldest)
    IN IF wait < 1 THEN 1 ELSE wait

\* The reply is lost: the Redis client sends the same call again, or gives up.
Lost(r) == UNCHANGED <<req, served>> \/ OnError(r)

Allow(r) ==
    /\ req[r].at = "sent"
    /\ Cardinality(Recent(r)) < Limit
    /\ zset' = {e \in Recent(r) : e.member # Member(r)}
                 \cup {[member |-> Member(r), score |-> req[r].now]}
    /\ expires' = clock + Window
    /\ Serve(r) \/ Lost(r)
    /\ quiet' = {}
    /\ UNCHANGED <<clock, skew>>

Deny(r) ==
    /\ req[r].at = "sent"
    /\ Cardinality(Recent(r)) >= Limit
    /\ zset' = Recent(r)
    /\ expires' = clock + Window
    /\ \/ Limit429(r, RetryAfter(r)) /\ quiet' = quiet \cup {r}
       \/ Lost(r) /\ UNCHANGED quiet
    /\ UNCHANGED <<clock, skew>>

\* Redis is not reached, nor with the Redis client's retries.
Unreachable(r) ==
    /\ req[r].at = "sent"
    /\ OnError(r)
    /\ UNCHANGED <<clock, skew, zset, expires, quiet>>

LimiterNext ==
    \/ TimePasses
    \/ \E r \in Requests :
         \/ \E p \in Processes, critical \in BOOLEAN : Arrive(r, p, critical)
         \/ Retry(r) \/ Allow(r) \/ Deny(r) \/ Unreachable(r)

LimiterSpec == LimiterInit /\ [][LimiterNext]_limiterVars

(***************************************************************************)
(* Properties                                                              *)
(***************************************************************************)
\* No more than Limit requests are served by critical routes in any window
\* less the skew of the clocks and the delay of the calls, whichever processes
\* they go to, whether Redis answers or not, and however often its client
\* repeats a call.
WindowBound ==
    \A t \in 0..MaxClock :
        LET last == t + Window - MaxSkew - MaxDelay - 1
        IN  Cardinality({r \in Requests : served[r] \in t..last}) <= Limit

\* A client that waits for as long as Retry-After says and goes to the same
\* process is denied again only if another request was admitted meanwhile.
RetryAfterSuffices ==
    [][\A r \in Requests : req[r].at = "sent" /\ req[r].again /\ r \in quiet => ~Deny(r)]_limiterVars
=============================================================================
