----------------------------- MODULE Scheduling -----------------------------
(***************************************************************************)
(* The scheduler role: schedulerRuntime.Run reads the enabled schedules    *)
(* (Refresher), makes the entries of the Asynq scheduler match them        *)
(* (AsynqRegistrar.Replace), starts the scheduler and does it again at     *)
(* every tick.  Every call of the database and of Asynq is a step that may *)
(* fail, and the schedules may be edited between any two of them.          *)
(*                                                                         *)
(* A schedule has a version: 0 when ListEnabledTaskSchedules leaves it out *)
(* (schedule disabled, or its definition inactive), else a number that     *)
(* stands for its content and, since it is a digest of all of it, for its  *)
(* fingerprint.  Schedules are numbered by their created_at.               *)
(***************************************************************************)
EXTENDS Integers

CONSTANTS
    ScheduleCount,  \* how many schedules there are
    Versions        \* how many contents a schedule may have

ASSUME SchedulesAssumption == ScheduleCount \in Nat /\ Versions \in Nat

VARIABLES
    db,       \* the version of each schedule in the database
    entries,  \* AsynqRegistrar.entries: the version registered, 0 for none
    cron,     \* how many entries the Asynq scheduler has for a version
    snap,     \* what Enabled returned to the refresh that is under way
    todo,     \* schedules that the first loop of Replace has still to visit
    started,  \* Scheduler.Start has succeeded
    at        \* where schedulerRuntime.Run is

scheduleVars == <<db, entries, cron, snap, todo, started, at>>

Schedules == 1..ScheduleCount

SchedulingTypeOK ==
    /\ db \in [Schedules -> 0..Versions]
    /\ entries \in [Schedules -> 0..Versions]
    /\ cron \in [Schedules -> [1..Versions -> Nat]]
    /\ snap \in [Schedules -> 0..Versions]
    /\ todo \subseteq Schedules
    /\ started \in BOOLEAN
    /\ at \in {"list", "each", "swap", "undo", "start", "idle", "failed", "canceled", "stopped"}

None == [s \in Schedules |-> 0]

NoEntries == [s \in Schedules |-> [v \in 1..Versions |-> 0]]

SchedulingInit ==
    /\ db \in [Schedules -> 0..Versions]
    /\ entries = None /\ snap = None
    /\ cron = NoEntries
    /\ todo = {}
    /\ started = FALSE
    /\ at = "list"

\* A new scheduler process: nothing is registered.
Afresh ==
    /\ entries' = None /\ snap' = None
    /\ cron' = NoEntries
    /\ todo' = {}
    /\ started' = FALSE
    /\ at' = "list"

\* Schedules are edited, enabled or disabled; an edit of their definition
\* changes several of them at once.
Edit(versions) ==
    /\ db' = versions
    /\ UNCHANGED <<entries, cron, snap, todo, started, at>>

\* Faulty variant: a refresh that fails at a tick is only logged.
Ended_Logged(outcome) == IF started THEN "idle" ELSE outcome

\* A refresh that does not succeed ends Run with its error: the registrar may
\* be out of step with Asynq.
Ended(outcome) == outcome

\* A call fails, or its context has been cancelled: what Refresh knew is gone.
Fail(outcome) ==
    /\ at' = Ended(outcome)
    /\ snap' = None /\ todo' = {}
    /\ UNCHANGED <<db, entries, cron, started>>

(***************************************************************************)
(* Refresher.Refresh and AsynqRegistrar.Replace                            *)
(***************************************************************************)
\* Source.Enabled: one statement.
Enabled ==
    /\ at = "list"
    /\ snap' = db
    /\ todo' = {s \in Schedules : db[s] # 0}
    /\ at' = "each"
    /\ UNCHANGED <<db, entries, cron, started>>

\* The schedule the first loop is at.
Current(s) == s \in todo /\ \A t \in todo : s <= t

\* Faulty variant: a schedule that is registered is left as it is.
UpToDate_Known(s) == entries[s] # 0

\* The registered entry has the fingerprint of the schedule.
UpToDate(s) == entries[s] = snap[s]

Registers(s) == at = "each" /\ Current(s) /\ ~UpToDate(s)

Unchanged(s) ==
    /\ at = "each"
    /\ Current(s)
    /\ UpToDate(s)
    /\ todo' = todo \ {s}
    /\ UNCHANGED <<db, entries, cron, snap, started, at>>

Plus(s, v, n) == [cron EXCEPT ![s][v] = @ + n]

\* Register.  A new schedule is noted at once, a replaced one when its old
\* entry is gone: meanwhile it has two entries, never none.
Register(s) ==
    /\ Registers(s)
    /\ cron' = Plus(s, snap[s], 1)
    /\ IF entries[s] = 0
         THEN /\ entries' = [entries EXCEPT ![s] = snap[s]]
              /\ todo' = todo \ {s}
              /\ at' = at
         ELSE /\ at' = "swap"
              /\ UNCHANGED <<entries, todo>>
    /\ UNCHANGED <<db, snap, started>>

\* Unregister of the old entry.
Swap(s) ==
    /\ at = "swap"
    /\ Current(s)
    /\ cron' = Plus(s, entries[s], -1)
    /\ entries' = [entries EXCEPT ![s] = snap[s]]
    /\ todo' = todo \ {s}
    /\ at' = "each"
    /\ UNCHANGED <<db, snap, started>>

\* It fails: the new entry is taken back, and whether that works is ignored.
SwapFails ==
    /\ at = "swap"
    /\ at' = "undo"
    /\ UNCHANGED <<db, entries, cron, snap, todo, started>>

Undo(s, works) ==
    /\ at = "undo"
    /\ Current(s)
    /\ cron' = IF works THEN Plus(s, snap[s], -1) ELSE cron
    /\ at' = Ended("failed")
    /\ snap' = None /\ todo' = {}
    /\ UNCHANGED <<db, entries, started>>

\* The second loop, over the entries that are not desired, in any order.
Removes(s) == at = "each" /\ todo = {} /\ entries[s] # 0 /\ snap[s] = 0

Remove(s) ==
    /\ Removes(s)
    /\ cron' = Plus(s, entries[s], -1)
    /\ entries' = [entries EXCEPT ![s] = 0]
    /\ UNCHANGED <<db, snap, todo, started, at>>

\* Both loops check the context before each call.
Checks == at = "each" /\ (todo # {} \/ \E s \in Schedules : Removes(s))

\* Replace returns nil.
Replaced ==
    /\ at = "each"
    /\ ~Checks
    /\ at' = IF started THEN "idle" ELSE "start"
    /\ UNCHANGED <<db, entries, cron, snap, todo, started>>

\* A call that is due fails: Enabled, the factory or Register, Unregister of a
\* removed schedule, Start.
Breaks ==
    /\ \/ at \in {"list", "start"}
       \/ \E s \in Schedules : Registers(s) \/ Removes(s)
    /\ Fail("failed")

(***************************************************************************)
(* schedulerRuntime.Run                                                    *)
(***************************************************************************)
Start ==
    /\ at = "start"
    /\ started' = TRUE
    /\ at' = "idle"
    /\ UNCHANGED <<db, entries, cron, snap, todo>>

Tick ==
    /\ at = "idle"
    /\ at' = "list"
    /\ UNCHANGED <<db, entries, cron, snap, todo, started>>

\* The context is cancelled: the loop of Run ends without an error, a query
\* and Replace with the error of the context.
Cancel ==
    \/ /\ at = "idle"
       /\ at' = "stopped"
       /\ UNCHANGED <<db, entries, cron, snap, todo, started>>
    \/ (at = "list" \/ Checks) /\ Fail("canceled")

\* What component.Run returns.
Outcome == CASE at = "failed" -> "error" [] at = "canceled" -> "canceled" [] OTHER -> "nil"

RunEnded == at \in {"failed", "canceled", "stopped"}

RefreshStep ==
    \/ Enabled \/ Replaced \/ Start \/ Tick
    \/ \E s \in Schedules : Unchanged(s) \/ Register(s) \/ Swap(s) \/ Remove(s)

(***************************************************************************)
(* Properties                                                              *)
(***************************************************************************)
\* A schedule that is registered has exactly one entry with the content the
\* registrar noted, also while it is being replaced: it is never forgotten.
\* Between refreshes there is no other entry (none fires twice, none is left
\* of a removed schedule), and what is registered is what was read.
RegistrationsExact ==
    /\ \A s \in Schedules : entries[s] # 0 => cron[s][entries[s]] = 1
    /\ at \in {"start", "idle"} =>
         \A s \in Schedules :
            /\ entries[s] = snap[s]
            /\ \A v \in 1..Versions : cron[s][v] = IF v = snap[s] THEN 1 ELSE 0

\* The entries of the scheduler are the schedules of the database.
Applied ==
    /\ started
    /\ \A s \in Schedules, v \in 1..Versions : cron[s][v] = IF v = db[s] THEN 1 ELSE 0
=============================================================================
