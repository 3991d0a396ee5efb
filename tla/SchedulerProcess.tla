-------------------------- MODULE SchedulerProcess --------------------------
(***************************************************************************)
(* The scheduler process: schedulerRuntime as the component of             *)
(* lifecycle.Run that owns the resources (the pool of the database first,  *)
(* the Asynq scheduler after it), restarted by its container when it ends. *)
(* Run goes on until it sees that its context is cancelled, so a refresh   *)
(* may overlap with the hook that closes the resources under it.           *)
(***************************************************************************)
EXTENDS Lifecycle, Scheduling

CONSTANTS
    MaxEdits,   \* edits of schedules
    MaxFaults   \* calls that fail, signals and components that fail

ASSUME BoundsAssumption == MaxEdits \in Nat /\ MaxFaults \in Nat

VARIABLES edits, faults

vars == <<lifecycleVars, scheduleVars, edits, faults>>

TypeOK ==
    /\ LifecycleTypeOK
    /\ SchedulingTypeOK
    /\ edits \in 0..MaxEdits
    /\ faults \in 0..MaxFaults

Init == LifecycleInit /\ SchedulingInit /\ edits = 0 /\ faults = 0

\* The pool is the first resource of BuildScheduler.
PoolOpen == 1 \in open

Running == run[Owner] = "up"

Fault(A) == A /\ faults < MaxFaults /\ faults' = faults + 1 /\ UNCHANGED edits

Calm(A) == A /\ UNCHANGED <<edits, faults>>

\* A step of schedulerRuntime.Run that works.
Serve ==
    /\ Running
    /\ RefreshStep
    /\ at = "list" => PoolOpen
    /\ UNCHANGED lifecycleVars

\* It sees that the context is cancelled.
ServeCancel == Running /\ Done /\ Cancel /\ UNCHANGED lifecycleVars

\* The pool is closed under it.
ServeClosed == Running /\ at = "list" /\ ~PoolOpen /\ Fail("failed") /\ UNCHANGED lifecycleVars

ServeUndo ==
    /\ Running
    /\ \E s \in Schedules, works \in BOOLEAN : Undo(s, works)
    /\ UNCHANGED lifecycleVars

\* A call of it fails.
ServeFails == Running /\ (Breaks \/ SwapFails) /\ UNCHANGED lifecycleVars

\* Its Run returns.
ServeReturns == RunEnded /\ Return(Owner, Outcome) /\ UNCHANGED scheduleVars

\* External: the container starts the process again (restart: unless-stopped).
Reboot == Restart /\ Afresh /\ UNCHANGED db

EditSchedule ==
    /\ edits < MaxEdits
    /\ edits' = edits + 1
    /\ \E versions \in [Schedules -> 0..Versions] \ {db} : Edit(versions)
    /\ UNCHANGED <<lifecycleVars, faults>>

Hooks ==
    \/ HookClose
    \/ \E c \in Members, result \in {"done", "failed"} : HookReturns(c, result)

Next ==
    \/ Calm(LifecycleProgress /\ UNCHANGED scheduleVars)
    \/ Calm(Expire /\ UNCHANGED scheduleVars)
    \/ Calm(Hooks /\ UNCHANGED scheduleVars)
    \/ Calm(\E c \in Members : PeerEnds(c) /\ UNCHANGED scheduleVars)
    \/ Fault(BuildFails /\ UNCHANGED scheduleVars)
    \/ Fault(Signal /\ UNCHANGED scheduleVars)
    \/ Fault(\E c \in Members : PeerFails(c) /\ UNCHANGED scheduleVars)
    \/ Calm(Serve) \/ Calm(ServeCancel) \/ Calm(ServeClosed) \/ Calm(ServeUndo)
    \/ Calm(ServeReturns)
    \/ Fault(ServeFails)
    \/ Calm(Reboot)
    \/ EditSchedule

\* The runtime goes on, timers fire and the container restarts.  Peers and
\* hooks may hang.
Fairness ==
    /\ WF_vars(Calm(LifecycleProgress /\ UNCHANGED scheduleVars))
    /\ WF_vars(Calm(Expire /\ UNCHANGED scheduleVars))
    /\ WF_vars(Calm(Serve \/ ServeUndo \/ ServeClosed \/ ServeReturns))
    /\ WF_vars(Calm(Reboot))

Spec == Init /\ [][Next]_vars /\ Fairness

(***************************************************************************)
(* Properties                                                              *)
(***************************************************************************)
\* Once schedules are no longer edited and calls no longer fail, the entries
\* of the scheduler become those of the database and stay so: after a failure
\* the process ends and starts afresh rather than go on half refreshed.
ChangesReach == <>[]Applied
=============================================================================
