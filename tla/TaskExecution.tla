---------------------------- MODULE TaskExecution ----------------------------
(***************************************************************************)
(* What the task module promises of one row of task_executions, whatever   *)
(* the queue delivers how often: an attempt number is claimed at most once *)
(* and in increasing order, the handler of an attempt runs only after its  *)
(* claim, an outcome is written once, and the outcome of a handler counts  *)
(* only while its attempt is the latest one.                               *)
(***************************************************************************)
EXTENDS Naturals

CONSTANTS
    Executions,         \* the executions
    LastAttempt,        \* [Executions -> Nat]: the last attempt allowed
    RejectUnpublished   \* TRUE iff an unpublished execution may be failed

VARIABLES
    status,    \* the status of each execution, "none" before it exists
    attempt,   \* the latest attempt claimed
    handlers   \* the attempts whose handlers are running

vars == <<status, attempt, handlers>>

Init ==
    /\ status = [e \in Executions |-> "none"]
    /\ attempt = [e \in Executions |-> 0]
    /\ handlers = [e \in Executions |-> {}]

Create(e) ==
    /\ status[e] = "none"
    /\ status' = [status EXCEPT ![e] = "queued"]
    /\ UNCHANGED <<attempt, handlers>>

\* A claim takes an attempt number above every earlier one.  Its handler runs
\* unless the answer to the claim was lost.
Claim(e) ==
    /\ status[e] \in {"queued", "running"}
    /\ \E n \in (attempt[e] + 1) .. LastAttempt[e] :
         /\ attempt' = [attempt EXCEPT ![e] = n]
         /\ handlers' \in {handlers, [handlers EXCEPT ![e] = @ \cup {n}]}
    /\ status' = [status EXCEPT ![e] = "running"]

\* The handler of the latest attempt ends and its outcome is written.
Finish(e, outcome) ==
    /\ status[e] = "running"
    /\ attempt[e] \in handlers[e]
    /\ outcome \in {"succeeded", "cancelled"}
    /\ status' = [status EXCEPT ![e] = outcome]
    /\ handlers' = [handlers EXCEPT ![e] = @ \ {attempt[e]}]
    /\ UNCHANGED attempt

\* The last attempt is given up, possibly while its handler still runs.
GiveUp(e) ==
    /\ status[e] = "running"
    /\ attempt[e] = LastAttempt[e]
    /\ status' = [status EXCEPT ![e] = "failed"]
    /\ UNCHANGED <<attempt, handlers>>

\* An execution that could not be published fails before any attempt.
Unpublished(e) ==
    /\ RejectUnpublished
    /\ status[e] = "queued"
    /\ status' = [status EXCEPT ![e] = "failed"]
    /\ UNCHANGED <<attempt, handlers>>

\* Handlers end without writing anything: errors, stale attempts, crashes.
HandlersEnd ==
    /\ \A e \in Executions : handlers'[e] \subseteq handlers[e]
    /\ handlers' = [e \in Executions |-> handlers'[e]]
    /\ UNCHANGED <<status, attempt>>

Next ==
    \/ \E e \in Executions :
         \/ Create(e) \/ Claim(e) \/ GiveUp(e) \/ Unpublished(e)
         \/ \E outcome \in {"succeeded", "cancelled"} : Finish(e, outcome)
    \/ HandlersEnd

Spec == Init /\ [][Next]_vars
=============================================================================
