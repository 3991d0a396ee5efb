----------------------- MODULE SchedulerProcessProofs -----------------------
(***************************************************************************)
(* Proofs about SchedulerProcess, for any number of components, resources, *)
(* schedules, contents, edits and failures.  A step belongs to Lifecycle   *)
(* or to Scheduling and leaves the variables of the other one alone, but   *)
(* for the restart, so each has an invariant of its own.                   *)
(***************************************************************************)
EXTENDS SchedulerProcess, SequenceTheorems, TLAPS

(***************************************************************************)
(* Scheduling.  RegistrationsExact says what the registrar knows; the      *)
(* invariant says what Asynq has as well, at every point of a refresh.     *)
(***************************************************************************)
\* Asynq has the entry of s that the registrar has noted and no other.
Exact(s) == \A v \in 1..Versions : cron[s][v] = IF v = entries[s] THEN 1 ELSE 0

\* While s is replaced Asynq has the old and the new entry.
Doubled(s) ==
    /\ entries[s] \in 1..Versions /\ snap[s] \in 1..Versions /\ entries[s] # snap[s]
    /\ \A v \in 1..Versions : cron[s][v] = IF v \in {entries[s], snap[s]} THEN 1 ELSE 0

EntriesExact ==
    /\ at \notin {"swap", "undo", "failed"} => \A s \in Schedules : Exact(s)
    /\ at \in {"swap", "undo"} =>
         \A s \in Schedules : IF Current(s) THEN Doubled(s) ELSE Exact(s)
    /\ at = "failed" => \A s \in Schedules : entries[s] # 0 => cron[s][entries[s]] = 1

\* The first loop visits what was read, and what it has visited is noted.
LoopExact ==
    /\ at \in {"each", "swap", "undo"} =>
         \A s \in Schedules : IF s \in todo THEN snap[s] # 0
                                            ELSE snap[s] # 0 => entries[s] = snap[s]
    /\ at \in {"start", "idle"} => \A s \in Schedules : entries[s] = snap[s]

SchedulingInv == SchedulingTypeOK /\ EntriesExact /\ LoopExact

(***************************************************************************)
(* Lifecycle                                                               *)
(***************************************************************************)
\* The stack holds what is open, in the order of opening.
StackExact ==
    /\ Len(closers) <= Resources
    /\ \A i \in 1..Len(closers) : closers[i] = i
    /\ open = 1..Len(closers)

HookEnded(c) == hook[c] \in {"done", "failed"}

\* Hooks are called one after another, from the last to the first.
HooksInOrder ==
    /\ phase \in {"build", "abort", "serve"} => \A c \in Members : hook[c] = "off"
    /\ phase \in {"build", "abort"} => \A c \in Members : run[c] = "off"
    /\ phase = "hooks" =>
         \E c \in Members :
            /\ hook[c] # "off"
            /\ \A d \in Members : (d < c => hook[d] = "off") /\ (d > c => HookEnded(d))
    /\ phase = "wait" => \A c \in Members : HookEnded(c)
    /\ phase \notin {"build", "abort", "exit"} => \A c \in Members : run[c] # "off"

\* The hook of Owner returns when the stack is empty.
OwnerClosed == HookEnded(Owner) => closers = <<>>

\* How a process exits that the timeout has not cut short.
ExitInOrder ==
    phase = "exit" /\ "timeout" \notin errs =>
        /\ closers = <<>>
        /\ \/ \A c \in Members : run[c] = "off" /\ hook[c] = "off"
           \/ \A c \in Members : run[c] = "ended" /\ HookEnded(c)

LifecycleInv == LifecycleTypeOK /\ StackExact /\ HooksInOrder /\ OwnerClosed /\ ExitInOrder

ProcessInv == SchedulingInv /\ LifecycleInv /\ edits \in 0..MaxEdits /\ faults \in 0..MaxFaults

-----------------------------------------------------------------------------
(***************************************************************************)
(* Scheduling: steps                                                       *)
(***************************************************************************)
LEMMA Numbers == /\ ScheduleCount \in Nat /\ Versions \in Nat
                 /\ Schedules \subseteq Nat
  BY SchedulesAssumption DEF Schedules

\* The loop is at one schedule at a time.
LEMMA OneCurrent ==
    ASSUME SchedulingTypeOK, NEW s \in Schedules, NEW t \in Schedules, Current(s), Current(t)
    PROVE  s = t
  BY Numbers DEF Current, SchedulingTypeOK, Schedules

\* Adding n entries changes one count.
LEMMA Counted ==
    ASSUME SchedulingTypeOK, NEW s \in Schedules, NEW v \in 1..Versions, NEW n \in Int,
           cron[s][v] + n \in Nat
    PROVE  /\ Plus(s, v, n) \in [Schedules -> [1..Versions -> Nat]]
           /\ Plus(s, v, n)[s][v] = cron[s][v] + n
           /\ \A w \in 1..Versions : w # v => Plus(s, v, n)[s][w] = cron[s][w]
           /\ \A t \in Schedules : t # s => Plus(s, v, n)[t] = cron[t]
  BY DEF Plus, SchedulingTypeOK

\* A refresh that ends with its error leaves entries and cron as they are.
LEMMA Failing ==
    ASSUME SchedulingInv, at \notin {"swap", "undo"}, NEW outcome \in {"failed", "canceled"},
           at = "failed" => outcome = "failed", Fail(outcome)
    PROVE  SchedulingInv'
<1>1. at' = outcome /\ snap' = None /\ todo' = {} /\ UNCHANGED <<db, entries, cron, started>>
  BY DEF Fail, Ended
<1>2. SchedulingTypeOK'
  BY <1>1, Numbers DEF SchedulingInv, SchedulingTypeOK, None
<1>3. EntriesExact'
  <2>1. CASE at = "failed"
    BY <1>1, <2>1 DEF SchedulingInv, EntriesExact
  <2>2. CASE at # "failed"
    <3>1. \A s \in Schedules : Exact(s)
      BY <2>2 DEF SchedulingInv, EntriesExact
    <3>2. \A s \in Schedules : Exact(s)'
      BY <1>1, <3>1 DEF Exact
    <3>3. \A s \in Schedules : entries[s] # 0 => cron[s][entries[s]] = 1
      BY <3>1, Numbers DEF Exact, SchedulingInv, SchedulingTypeOK
    <3> QED
      BY <1>1, <3>2, <3>3 DEF EntriesExact
  <2> QED
    BY <2>1, <2>2
<1>4. LoopExact'
  BY <1>1 DEF LoopExact
<1> QED
  BY <1>2, <1>3, <1>4 DEF SchedulingInv

\* Steps that touch neither entries nor cron.
LEMMA Reading ==
    ASSUME SchedulingInv, Enabled \/ Replaced \/ Start \/ Tick
    PROVE  SchedulingInv'
<1>t. SchedulingTypeOK /\ EntriesExact /\ LoopExact
  BY DEF SchedulingInv
<1>0. /\ UNCHANGED <<entries, cron>>
      /\ at \in {"list", "each", "start", "idle"} /\ at' \in {"list", "each", "start", "idle"}
  BY DEF Enabled, Replaced, Start, Tick
<1>1. SchedulingTypeOK'
  BY <1>t, <1>0 DEF SchedulingTypeOK, Enabled, Replaced, Start, Tick
<1>2. EntriesExact'
  <2>1. \A s \in Schedules : Exact(s)
    BY <1>t, <1>0 DEF EntriesExact
  <2>2. \A s \in Schedules : Exact(s)'
    BY <1>0, <2>1 DEF Exact
  <2> QED
    BY <1>0, <2>2 DEF EntriesExact
<1>3. LoopExact'
  <2>1. CASE Enabled
    BY <2>1 DEF Enabled, LoopExact
  <2>2. CASE Replaced
    <3>1. todo = {} /\ \A s \in Schedules : ~Removes(s)
      BY <2>2 DEF Replaced, Checks
    <3>2. \A s \in Schedules : entries[s] = snap[s]
      BY <1>t, <2>2, <3>1 DEF Replaced, Removes, LoopExact, SchedulingTypeOK
    <3> QED
      BY <2>2, <3>2 DEF Replaced, LoopExact
  <2>3. CASE Start \/ Tick
    BY <1>t, <2>3 DEF Start, Tick, LoopExact
  <2> QED
    BY <2>1, <2>2, <2>3
<1> QED
  BY <1>1, <1>2, <1>3 DEF SchedulingInv

LEMMA Visiting ==
    ASSUME SchedulingInv, NEW s \in Schedules, Unchanged(s) \/ Register(s)
    PROVE  SchedulingInv'
<1>t. SchedulingTypeOK /\ EntriesExact /\ LoopExact
  BY DEF SchedulingInv
<1>0. /\ at = "each" /\ Current(s) /\ s \in todo
      /\ \A t \in Schedules : Exact(t)
  BY <1>t DEF Unchanged, Register, Registers, Current, EntriesExact
<1>v. snap[s] \in 1..Versions
  BY <1>t, <1>0, Numbers DEF LoopExact, SchedulingTypeOK
<1>1. CASE Unchanged(s)
  <2>1. entries[s] = snap[s]
    BY <1>1 DEF Unchanged, UpToDate
  <2>2. UNCHANGED <<db, entries, cron, snap, started, at>> /\ todo' = todo \ {s}
    BY <1>1 DEF Unchanged
  <2>3. SchedulingTypeOK' /\ LoopExact'
    BY <1>t, <1>0, <2>1, <2>2 DEF SchedulingTypeOK, LoopExact
  <2>4. EntriesExact'
    <3>1. \A t \in Schedules : Exact(t)'
      BY <1>0, <2>2 DEF Exact
    <3> QED
      BY <1>0, <2>2, <3>1 DEF EntriesExact
  <2> QED
    BY <2>3, <2>4 DEF SchedulingInv
<1>2. CASE Register(s)
  <2>1. entries[s] # snap[s] /\ cron' = Plus(s, snap[s], 1) /\ UNCHANGED <<db, snap, started>>
    BY <1>2 DEF Register, Registers, UpToDate
  <2>2. cron[s][snap[s]] = 0
    BY <1>0, <1>v, <2>1 DEF Exact
  <2>3. /\ cron' \in [Schedules -> [1..Versions -> Nat]]
        /\ cron'[s][snap[s]] = 1
        /\ \A w \in 1..Versions : w # snap[s] => cron'[s][w] = cron[s][w]
        /\ \A t \in Schedules : t # s => cron'[t] = cron[t]
    <3>1. 1 \in Int /\ cron[s][snap[s]] + 1 \in Nat /\ cron[s][snap[s]] + 1 = 1
      BY <2>2
    <3>2. /\ Plus(s, snap[s], 1) \in [Schedules -> [1..Versions -> Nat]]
          /\ Plus(s, snap[s], 1)[s][snap[s]] = cron[s][snap[s]] + 1
          /\ \A w \in 1..Versions : w # snap[s] => Plus(s, snap[s], 1)[s][w] = cron[s][w]
          /\ \A t \in Schedules : t # s => Plus(s, snap[s], 1)[t] = cron[t]
      BY <1>t, <1>v, <3>1, Counted
    <3> QED
      BY <2>1, <3>1, <3>2
  <2>4. CASE entries[s] = 0
    <3>1. /\ entries' = [entries EXCEPT ![s] = snap[s]] /\ todo' = todo \ {s} /\ at' = "each"
      BY <1>0, <1>2, <2>4 DEF Register
    <3>2. SchedulingTypeOK'
      BY <1>t, <2>1, <2>3, <3>1 DEF SchedulingTypeOK
    <3>3. \A t \in Schedules : Exact(t)'
      <4> SUFFICES ASSUME NEW t \in Schedules PROVE Exact(t)'
        OBVIOUS
      <4>1. CASE t = s
        BY <1>t, <1>0, <2>3, <2>4, <3>1, <4>1 DEF Exact, SchedulingTypeOK
      <4>2. CASE t # s
        BY <1>t, <1>0, <2>3, <3>1, <4>2 DEF Exact, SchedulingTypeOK
      <4> QED
        BY <4>1, <4>2
    <3>4. EntriesExact'
      BY <3>1, <3>3 DEF EntriesExact
    <3>5. LoopExact'
      BY <1>t, <1>0, <2>1, <3>1 DEF LoopExact, SchedulingTypeOK
    <3> QED
      BY <3>2, <3>4, <3>5 DEF SchedulingInv
  <2>5. CASE entries[s] # 0
    <3>1. at' = "swap" /\ UNCHANGED <<entries, todo>>
      BY <1>2, <2>5 DEF Register
    <3>2. SchedulingTypeOK'
      BY <1>t, <2>1, <2>3, <3>1 DEF SchedulingTypeOK
    <3>3. entries[s] \in 1..Versions
      BY <1>t, <2>5, Numbers DEF SchedulingTypeOK
    <3>4. Doubled(s)'
      BY <1>0, <1>v, <2>1, <2>3, <3>1, <3>3 DEF Doubled, Exact
    <3>5. \A t \in Schedules : t # s => Exact(t)' /\ ~Current(t)'
      <4>1. \A t \in Schedules : t # s => Exact(t)'
        BY <1>0, <2>3, <3>1 DEF Exact
      <4>2. \A t \in Schedules : Current(t)' <=> Current(t)
        BY <3>1 DEF Current
      <4> QED
        BY <1>t, <1>0, <4>1, <4>2, OneCurrent
    <3>6. EntriesExact'
      <4>1. \A t \in Schedules : IF Current(t)' THEN Doubled(t)' ELSE Exact(t)'
        <5>1. Current(s)'
          BY <1>0, <3>1 DEF Current
        <5> QED
          BY <3>4, <3>5, <5>1
      <4> QED
        BY <3>1, <4>1 DEF EntriesExact
    <3>7. LoopExact'
      BY <1>t, <1>0, <2>1, <3>1 DEF LoopExact
    <3> QED
      BY <3>2, <3>6, <3>7 DEF SchedulingInv
  <2> QED
    BY <2>4, <2>5
<1> QED
  BY <1>1, <1>2

\* An entry of s that the registrar has noted is unregistered.
LEMMA Unregistered ==
    ASSUME SchedulingTypeOK, NEW s \in Schedules, entries[s] \in 1..Versions,
           cron[s][entries[s]] = 1, cron' = Plus(s, entries[s], -1)
    PROVE  /\ cron' \in [Schedules -> [1..Versions -> Nat]]
           /\ cron'[s][entries[s]] = 0
           /\ \A w \in 1..Versions : w # entries[s] => cron'[s][w] = cron[s][w]
           /\ \A t \in Schedules : t # s => cron'[t] = cron[t]
<1>1. -1 \in Int /\ cron[s][entries[s]] + -1 \in Nat /\ cron[s][entries[s]] + -1 = 0
  OBVIOUS
<1>2. /\ Plus(s, entries[s], -1) \in [Schedules -> [1..Versions -> Nat]]
      /\ Plus(s, entries[s], -1)[s][entries[s]] = cron[s][entries[s]] + -1
      /\ \A w \in 1..Versions : w # entries[s] => Plus(s, entries[s], -1)[s][w] = cron[s][w]
      /\ \A t \in Schedules : t # s => Plus(s, entries[s], -1)[t] = cron[t]
  BY <1>1, Counted
<1> QED
  BY <1>1, <1>2

LEMMA Swapping ==
    ASSUME SchedulingInv, NEW s \in Schedules, Swap(s)
    PROVE  SchedulingInv'
<1>t. SchedulingTypeOK /\ EntriesExact /\ LoopExact
  BY DEF SchedulingInv
<1>0. /\ at = "swap" /\ Current(s) /\ at' = "each"
      /\ entries' = [entries EXCEPT ![s] = snap[s]]
      /\ todo' = todo \ {s} /\ UNCHANGED <<db, snap, started>>
  BY DEF Swap
<1>1. Doubled(s) /\ \A t \in Schedules : t # s => Exact(t)
  BY <1>t, <1>0, OneCurrent DEF EntriesExact
<1>2. /\ cron' \in [Schedules -> [1..Versions -> Nat]]
      /\ cron'[s][entries[s]] = 0
      /\ \A w \in 1..Versions : w # entries[s] => cron'[s][w] = cron[s][w]
      /\ \A t \in Schedules : t # s => cron'[t] = cron[t]
  <2>1. entries[s] \in 1..Versions /\ cron[s][entries[s]] = 1
    BY <1>1 DEF Doubled
  <2> QED
    BY <1>t, <2>1, Unregistered DEF Swap
<1>3. SchedulingTypeOK'
  BY <1>t, <1>0, <1>2 DEF SchedulingTypeOK
<1>4. \A t \in Schedules : Exact(t)'
  <2> SUFFICES ASSUME NEW t \in Schedules PROVE Exact(t)'
    OBVIOUS
  <2>1. CASE t = s
    BY <1>t, <1>0, <1>1, <1>2, <2>1 DEF Exact, Doubled, SchedulingTypeOK
  <2>2. CASE t # s
    BY <1>t, <1>0, <1>1, <1>2, <2>2 DEF Exact, SchedulingTypeOK
  <2> QED
    BY <2>1, <2>2
<1>5. EntriesExact'
  BY <1>0, <1>4 DEF EntriesExact
<1>6. LoopExact'
  BY <1>t, <1>0 DEF LoopExact, SchedulingTypeOK
<1> QED
  BY <1>3, <1>5, <1>6 DEF SchedulingInv

\* Taking the new entry back, or not, leaves the old one registered.
LEMMA Undoing ==
    ASSUME SchedulingInv, NEW s \in Schedules, NEW works \in BOOLEAN, Undo(s, works)
    PROVE  SchedulingInv'
<1>t. SchedulingTypeOK /\ EntriesExact /\ LoopExact
  BY DEF SchedulingInv
<1>0. /\ at = "undo" /\ Current(s) /\ at' = "failed"
      /\ snap' = None /\ todo' = {} /\ UNCHANGED <<db, entries, started>>
  BY DEF Undo, Ended
<1>c. cron' = IF works THEN Plus(s, snap[s], -1) ELSE cron
  BY DEF Undo
<1>1. Doubled(s) /\ \A t \in Schedules : t # s => Exact(t)
  BY <1>t, <1>0, OneCurrent DEF EntriesExact
<1>2. /\ cron' \in [Schedules -> [1..Versions -> Nat]]
      /\ cron'[s][entries[s]] = 1
      /\ \A t \in Schedules : t # s => cron'[t] = cron[t]
  <2>1. CASE works
    <3>1. /\ snap[s] \in 1..Versions /\ -1 \in Int
          /\ cron[s][snap[s]] + -1 \in Nat
      BY <1>1 DEF Doubled
    <3>2. /\ Plus(s, snap[s], -1) \in [Schedules -> [1..Versions -> Nat]]
          /\ \A w \in 1..Versions : w # snap[s] => Plus(s, snap[s], -1)[s][w] = cron[s][w]
          /\ \A t \in Schedules : t # s => Plus(s, snap[s], -1)[t] = cron[t]
      BY <1>t, <3>1, Counted
    <3> QED
      BY <1>c, <1>1, <2>1, <3>2 DEF Doubled
  <2>2. CASE ~works
    BY <1>t, <1>c, <1>1, <2>2 DEF Doubled, SchedulingTypeOK
  <2> QED
    BY <2>1, <2>2
<1>3. SchedulingTypeOK'
  <2>1. None \in [Schedules -> 0..Versions]
    BY Numbers DEF None
  <2> QED
    BY <1>t, <1>0, <1>2, <2>1 DEF SchedulingTypeOK
<1>4. \A t \in Schedules : entries[t] # 0 => cron'[t][entries[t]] = 1
  <2> SUFFICES ASSUME NEW t \in Schedules, entries[t] # 0 PROVE cron'[t][entries[t]] = 1
    OBVIOUS
  <2>1. entries[t] \in 1..Versions
    BY <1>t, Numbers DEF SchedulingTypeOK
  <2>2. CASE t # s
    BY <1>1, <1>2, <2>1, <2>2 DEF Exact
  <2> QED
    BY <1>2, <2>2
<1>5. EntriesExact'
  BY <1>0, <1>4 DEF EntriesExact
<1>6. LoopExact'
  BY <1>0 DEF LoopExact
<1> QED
  BY <1>3, <1>5, <1>6 DEF SchedulingInv

LEMMA Removing ==
    ASSUME SchedulingInv, NEW s \in Schedules, Remove(s)
    PROVE  SchedulingInv'
<1>t. SchedulingTypeOK /\ EntriesExact /\ LoopExact
  BY DEF SchedulingInv
<1>0. /\ at = "each" /\ at' = "each" /\ entries[s] # 0 /\ snap[s] = 0
      /\ entries' = [entries EXCEPT ![s] = 0]
      /\ UNCHANGED <<db, snap, todo, started>>
  BY DEF Remove, Removes
<1>1. \A t \in Schedules : Exact(t)
  BY <1>t, <1>0 DEF EntriesExact
<1>2. /\ cron' \in [Schedules -> [1..Versions -> Nat]]
      /\ cron'[s][entries[s]] = 0
      /\ \A w \in 1..Versions : w # entries[s] => cron'[s][w] = cron[s][w]
      /\ \A t \in Schedules : t # s => cron'[t] = cron[t]
  <2>1. entries[s] \in 1..Versions
    BY <1>t, <1>0, Numbers DEF SchedulingTypeOK
  <2>2. cron[s][entries[s]] = 1
    BY <1>1, <2>1 DEF Exact
  <2> QED
    BY <1>t, <2>1, <2>2, Unregistered DEF Remove
<1>3. SchedulingTypeOK'
  BY <1>t, <1>0, <1>2, Numbers DEF SchedulingTypeOK
<1>4. \A t \in Schedules : Exact(t)'
  <2> SUFFICES ASSUME NEW t \in Schedules PROVE Exact(t)'
    OBVIOUS
  <2>1. CASE t = s
    BY <1>t, <1>0, <1>1, <1>2, <2>1 DEF Exact, SchedulingTypeOK
  <2>2. CASE t # s
    BY <1>t, <1>0, <1>1, <1>2, <2>2 DEF Exact, SchedulingTypeOK
  <2> QED
    BY <2>1, <2>2
<1>5. EntriesExact'
  BY <1>0, <1>4 DEF EntriesExact
<1>6. LoopExact'
  BY <1>t, <1>0 DEF LoopExact, SchedulingTypeOK
<1> QED
  BY <1>3, <1>5, <1>6 DEF SchedulingInv

\* Every step of schedulerRuntime.Run, whether its calls work or not.
LEMMA SchedulingSteps ==
    ASSUME SchedulingInv,
           \/ RefreshStep \/ Cancel \/ Breaks \/ SwapFails
           \/ at = "list" /\ Fail("failed")
           \/ \E s \in Schedules, works \in BOOLEAN : Undo(s, works)
    PROVE  SchedulingInv'
<1>1. CASE RefreshStep
  BY <1>1, Reading, Visiting, Swapping, Removing DEF RefreshStep
<1>2. CASE Cancel
  <2>1. CASE at = "idle" /\ at' = "stopped" /\ UNCHANGED <<db, entries, cron, snap, todo, started>>
    <3>1. \A s \in Schedules : Exact(s)'
      BY <2>1 DEF SchedulingInv, EntriesExact, Exact
    <3>2. EntriesExact'
      BY <2>1, <3>1 DEF EntriesExact
    <3> QED
      BY <2>1, <3>2 DEF SchedulingInv, SchedulingTypeOK, LoopExact
  <2>2. CASE (at = "list" \/ Checks) /\ Fail("canceled")
    BY <2>2, Failing DEF Checks
  <2> QED
    BY <1>2, <2>1, <2>2 DEF Cancel
<1>3. CASE Breaks
  <2>1. at \in {"list", "start", "each"}
    BY <1>3 DEF Breaks, Registers, Removes
  <2> QED
    BY <1>3, <2>1, Failing DEF Breaks
<1>4. CASE SwapFails
  <2>1. at = "swap" /\ at' = "undo" /\ UNCHANGED <<db, entries, cron, snap, todo, started>>
    BY <1>4 DEF SwapFails
  <2>2. \A s \in Schedules : IF Current(s)' THEN Doubled(s)' ELSE Exact(s)'
    BY <2>1 DEF SchedulingInv, EntriesExact, Exact, Doubled, Current
  <2>3. EntriesExact'
    BY <2>1, <2>2 DEF EntriesExact
  <2> QED
    BY <2>1, <2>3 DEF SchedulingInv, SchedulingTypeOK, LoopExact
<1>5. CASE at = "list" /\ Fail("failed")
  BY <1>5, Failing
<1>6. CASE \E s \in Schedules, works \in BOOLEAN : Undo(s, works)
  BY <1>6, Undoing
<1> QED
  BY <1>1, <1>2, <1>3, <1>4, <1>5, <1>6

\* A process that has just been started, and edits of the schedules.
LEMMA SchedulingFresh ==
    /\ SchedulingInit => SchedulingInv
    /\ db \in [Schedules -> 0..Versions] /\ db' = db /\ Afresh => SchedulingInv'
<1>1. None \in [Schedules -> 0..Versions] /\ \A s \in Schedules : None[s] = 0
  BY Numbers DEF None
<1>2. /\ NoEntries \in [Schedules -> [1..Versions -> Nat]]
      /\ \A s \in Schedules, v \in 1..Versions : NoEntries[s][v] = 0
  BY DEF NoEntries
<1>3. ASSUME SchedulingInit PROVE SchedulingInv
  <2>1. SchedulingTypeOK /\ LoopExact
    BY <1>1, <1>2, <1>3 DEF SchedulingInit, SchedulingTypeOK, LoopExact
  <2>2. \A s \in Schedules : Exact(s)
    BY <1>1, <1>2, <1>3, Numbers DEF SchedulingInit, Exact
  <2>3. EntriesExact
    BY <1>3, <2>2 DEF EntriesExact, SchedulingInit
  <2> QED
    BY <2>1, <2>3 DEF SchedulingInv
<1>4. ASSUME db \in [Schedules -> 0..Versions], db' = db, Afresh PROVE SchedulingInv'
  <2>1. SchedulingTypeOK' /\ LoopExact'
    BY <1>1, <1>2, <1>4 DEF Afresh, SchedulingTypeOK, LoopExact
  <2>2. \A s \in Schedules : Exact(s)'
    BY <1>1, <1>2, <1>4, Numbers DEF Afresh, Exact
  <2>3. EntriesExact'
    BY <1>4, <2>2 DEF EntriesExact, Afresh
  <2> QED
    BY <2>1, <2>3 DEF SchedulingInv
<1> QED
  BY <1>3, <1>4

LEMMA Editing ==
    ASSUME SchedulingInv, db' \in [Schedules -> 0..Versions],
           UNCHANGED <<entries, cron, snap, todo, started, at>>
    PROVE  SchedulingInv'
<1>1. SchedulingTypeOK'
  BY DEF SchedulingInv, SchedulingTypeOK
<1>2. EntriesExact'
  BY DEF SchedulingInv, EntriesExact, Exact, Doubled, Current
<1>3. LoopExact'
  BY DEF SchedulingInv, LoopExact
<1> QED
  BY <1>1, <1>2, <1>3 DEF SchedulingInv

-----------------------------------------------------------------------------
(***************************************************************************)
(* Lifecycle: steps                                                        *)
(***************************************************************************)
LEMMA Ordered == /\ Components \in Nat \ {0} /\ Owner \in Members /\ Components \in Members
                 /\ Members \subseteq Nat
  BY ComponentsAssumption DEF Members

\* The parts of the invariant that are about the stack alone.
StackOK == closers \in Seq(1..Resources) /\ open \subseteq 1..Resources /\ StackExact

LEMMA StackOpens ==
    ASSUME StackOK, OpenResource
    PROVE  StackOK'
<1>0. /\ closers \in Seq(1..Resources) /\ Len(closers) \in Nat /\ Resources \in Nat
      /\ Len(closers) + 1 \in 1..Resources
  BY ResourcesAssumption DEF StackOK, OpenResource
<1>1. /\ closers' \in Seq(1..Resources) /\ Len(closers') = Len(closers) + 1
      /\ \A i \in 1..Len(closers) : closers'[i] = closers[i]
      /\ closers'[Len(closers) + 1] = Len(closers) + 1
  BY <1>0, AppendProperties DEF OpenResource
<1>2. open' = open \cup {Len(closers) + 1} /\ open = 1..Len(closers)
  BY DEF OpenResource, StackOK, StackExact
<1>3. open' = 1..Len(closers')
  BY <1>0, <1>1, <1>2
<1>4. \A i \in 1..Len(closers') : closers'[i] = i
  BY <1>0, <1>1 DEF StackOK, StackExact
<1> QED
  BY <1>0, <1>1, <1>3, <1>4 DEF StackOK, StackExact

LEMMA StackCloses ==
    ASSUME StackOK, CloseLast
    PROVE  StackOK' /\ (Len(closers) = 1 => closers' = <<>>)
<1>0. /\ closers \in Seq(1..Resources) /\ closers # <<>> /\ Resources \in Nat
      /\ Len(closers) \in Nat \ {0} /\ Len(closers) <= Resources
      /\ open = 1..Len(closers) /\ closers[Len(closers)] = Len(closers)
      /\ \A i \in 1..Len(closers) : closers[i] = i
  BY ResourcesAssumption DEF StackOK, StackExact, CloseLast
<1> DEFINE n == Len(closers) - 1
<1>1. n \in Nat /\ 1 \in Int /\ n \in Int /\ Len(closers) = n + 1
      /\ \A i \in 1..n : closers[i] \in 1..Resources
  BY <1>0
<1>2. closers' = SubSeq(closers, 1, n)
  BY DEF CloseLast
<1> HIDE DEF n
<1>3. /\ closers' \in Seq(1..Resources)
      /\ Len(closers') = IF 1 <= n THEN n - 1 + 1 ELSE 0
      /\ \A i \in 1..n - 1 + 1 : closers'[i] = closers[1 + i - 1]
  BY <1>1, <1>2, SubSeqProperties
<1>4. Len(closers') = n
  BY <1>1, <1>3
<1>5. \A i \in 1..n : closers'[i] = i
  BY <1>0, <1>1, <1>3
<1>6. open' = 1..n
  BY <1>0, <1>1 DEF CloseLast
<1>7. Len(closers) = 1 => closers' = <<>>
  <2> SUFFICES ASSUME Len(closers) = 1 PROVE closers' = <<>>
    OBVIOUS
  <2>1. n < 1
    BY <1>1
  <2> QED
    BY <1>1, <1>2, <2>1, SubSeqEmpty
<1> QED
  BY <1>0, <1>1, <1>3, <1>4, <1>5, <1>6, <1>7 DEF StackOK, StackExact

LEMMA LifecycleParts ==
    LifecycleInv <=>
      /\ StackOK
      /\ phase \in {"build", "abort", "serve", "hooks", "wait", "exit"}
      /\ <<parent, cancelled, expired>> \in BOOLEAN \X BOOLEAN \X BOOLEAN
      /\ run \in [Members -> {"off", "up", "ended"}]
      /\ results \in Seq({"nil", "error", "canceled"})
      /\ remaining \in 0..Components
      /\ hook \in [Members -> {"off", "up", "done", "failed"}]
      /\ errs \subseteq {"build", "run", "shutdown", "timeout"}
      /\ HooksInOrder /\ OwnerClosed /\ ExitInOrder
  BY DEF LifecycleInv, LifecycleTypeOK, StackOK

\* A process that has just been started.
LEMMA LifecycleFresh ==
    /\ LifecycleInit => LifecycleInv
    /\ Restart => LifecycleInv'
<1>1. <<>> \in Seq(1..Resources) /\ Len(<<>>) = 0 /\ <<>> \in Seq({"nil", "error", "canceled"})
  OBVIOUS
<1>2. {} = 1..0 /\ 0 \in 0..Components /\ 0 <= Resources
  BY Ordered, ResourcesAssumption
<1>3. ASSUME LifecycleInit PROVE LifecycleInv
  <2>1. StackOK
    BY <1>1, <1>2, <1>3 DEF LifecycleInit, StackOK, StackExact
  <2>2. HooksInOrder /\ OwnerClosed /\ ExitInOrder
    BY <1>3 DEF LifecycleInit, HooksInOrder, OwnerClosed, ExitInOrder
  <2> QED
    BY <1>1, <1>2, <1>3, <2>1, <2>2, LifecycleParts DEF LifecycleInit
<1>4. ASSUME Restart PROVE LifecycleInv'
  <2>1. StackOK'
    BY <1>1, <1>2, <1>4 DEF Restart, StackOK, StackExact
  <2>2. HooksInOrder' /\ OwnerClosed' /\ ExitInOrder'
    BY <1>4 DEF Restart, HooksInOrder, OwnerClosed, ExitInOrder
  <2> QED
    BY <1>1, <1>2, <1>4, <2>1, <2>2 DEF Restart, LifecycleInv, LifecycleTypeOK, StackOK
<1> QED
  BY <1>3, <1>4

\* The builder.
LEMMA Building ==
    ASSUME LifecycleInv, OpenResource \/ BuildFails \/ AbortClose \/ StartComponents
    PROVE  LifecycleInv'
<1>t. LifecycleTypeOK /\ StackOK /\ HooksInOrder /\ OwnerClosed /\ ExitInOrder
  BY DEF LifecycleInv, StackOK, LifecycleTypeOK
<1>0. /\ phase \in {"build", "abort"} /\ \A c \in Members : hook[c] = "off" /\ run[c] = "off"
      /\ hook' = hook /\ results' = results
      /\ UNCHANGED <<parent, cancelled, expired>>
  BY <1>t DEF OpenResource, BuildFails, AbortClose, StartComponents, HooksInOrder
<1>1. CASE OpenResource
  <2>1. StackOK'
    BY <1>t, <1>1, StackOpens
  <2>2. HooksInOrder' /\ OwnerClosed' /\ ExitInOrder'
    BY <1>t, <1>0, <1>1, Ordered DEF OpenResource, HooksInOrder, OwnerClosed, ExitInOrder, HookEnded
  <2> QED
    BY <1>t, <1>1, <2>1, <2>2 DEF OpenResource, LifecycleInv, LifecycleTypeOK, StackOK
<1>2. CASE BuildFails
  <2>1. StackOK' /\ phase' \in {"exit", "abort"}
    BY <1>t, <1>2 DEF BuildFails, StackOK, StackExact
  <2>2. HooksInOrder' /\ OwnerClosed' /\ ExitInOrder'
    BY <1>t, <1>0, <1>2, Ordered DEF BuildFails, HooksInOrder, OwnerClosed, ExitInOrder, HookEnded
  <2> QED
    BY <1>t, <1>2, <2>1, <2>2 DEF BuildFails, LifecycleInv, LifecycleTypeOK, StackOK
<1>3. CASE AbortClose
  <2>1. StackOK' /\ phase' \in {"exit", "abort"} /\ (phase' = "exit" => closers' = <<>>)
    BY <1>t, <1>3, StackCloses DEF AbortClose
  <2>2. HooksInOrder' /\ OwnerClosed' /\ ExitInOrder'
    BY <1>t, <1>0, <1>3, <2>1, Ordered DEF AbortClose, HooksInOrder, OwnerClosed, ExitInOrder, HookEnded
  <2> QED
    BY <1>t, <1>3, <2>1, <2>2 DEF AbortClose, LifecycleInv, LifecycleTypeOK, StackOK
<1>4. CASE StartComponents
  <2>1. StackOK'
    BY <1>t, <1>4 DEF StartComponents, StackOK, StackExact
  <2>2. HooksInOrder' /\ OwnerClosed' /\ ExitInOrder'
    BY <1>t, <1>0, <1>4, Ordered DEF StartComponents, HooksInOrder, OwnerClosed, ExitInOrder, HookEnded
  <2>3. remaining' \in 0..Components
    BY <1>4, Ordered DEF StartComponents
  <2> QED
    BY <1>t, <1>4, <2>1, <2>2, <2>3 DEF StartComponents, LifecycleInv, LifecycleTypeOK, StackOK
<1> QED
  BY <1>1, <1>2, <1>3, <1>4

\* Signals, timers, and components that return.
LEMMA Serving ==
    ASSUME LifecycleInv,
           \/ Signal \/ Expire \/ SelectStopped \/ SelectExpired
           \/ \E c \in Members, err \in {"nil", "error", "canceled"} : Return(c, err)
    PROVE  LifecycleInv'
<1>t. LifecycleTypeOK /\ StackOK /\ HooksInOrder /\ OwnerClosed /\ ExitInOrder
  BY DEF LifecycleInv, StackOK, LifecycleTypeOK
<1>0. UNCHANGED <<open, closers, hook>>
  BY DEF Signal, Expire, SelectStopped, SelectExpired, Return
<1>1. StackOK' /\ OwnerClosed'
  BY <1>t, <1>0 DEF StackOK, StackExact, OwnerClosed, HookEnded
<1>2. CASE Signal \/ Expire
  <2>1. HooksInOrder' /\ ExitInOrder'
    BY <1>t, <1>0, <1>2 DEF Signal, Expire, HooksInOrder, ExitInOrder, HookEnded
  <2> QED
    BY <1>t, <1>0, <1>1, <1>2, <2>1 DEF Signal, Expire, LifecycleInv, LifecycleTypeOK, StackOK
<1>3. CASE SelectStopped
  <2>1. /\ \A c \in Members : run[c] = "ended" /\ HookEnded(c)
        /\ phase' = "exit" /\ run' = run
    BY <1>t, <1>3 DEF SelectStopped, HooksInOrder
  <2>2. closers = <<>>
    BY <1>t, <2>1, Ordered DEF OwnerClosed
  <2>3. HooksInOrder' /\ ExitInOrder'
    BY <1>0, <2>1, <2>2 DEF HooksInOrder, ExitInOrder, HookEnded
  <2> QED
    BY <1>t, <1>0, <1>1, <1>3, <2>3 DEF SelectStopped, LifecycleInv, LifecycleTypeOK, StackOK
<1>4. CASE SelectExpired
  <2>1. phase' = "exit" /\ "timeout" \in errs' /\ errs' \subseteq {"build", "run", "shutdown", "timeout"}
    BY <1>t, <1>4 DEF SelectExpired, LifecycleTypeOK
  <2>2. HooksInOrder' /\ ExitInOrder'
    BY <2>1 DEF HooksInOrder, ExitInOrder
  <2> QED
    BY <1>t, <1>0, <1>1, <1>4, <2>1, <2>2 DEF SelectExpired, LifecycleInv, LifecycleTypeOK, StackOK
<1>5. ASSUME NEW c \in Members, NEW err \in {"nil", "error", "canceled"}, Return(c, err)
      PROVE  LifecycleInv'
  <2>1. results' \in Seq({"nil", "error", "canceled"})
    BY <1>t, <1>5, AppendProperties DEF Return, LifecycleTypeOK
  <2>2. /\ run[c] = "up" /\ run' = [run EXCEPT ![c] = "ended"]
        /\ UNCHANGED <<phase, parent, cancelled, expired, remaining, errs>>
    BY <1>5 DEF Return
  <2>3. run' \in [Members -> {"off", "up", "ended"}]
    BY <1>t, <2>2 DEF LifecycleTypeOK
  <2>4. \A d \in Members : run'[d] = IF d = c THEN "ended" ELSE run[d]
    BY <1>t, <2>2 DEF LifecycleTypeOK
  <2>5. HooksInOrder'
    BY <1>t, <1>0, <2>2, <2>4 DEF HooksInOrder, HookEnded
  <2>6. ExitInOrder'
    BY <1>t, <1>0, <2>2, <2>4 DEF ExitInOrder, HookEnded
  <2> QED
    BY <1>t, <1>0, <1>1, <2>1, <2>2, <2>3, <2>5, <2>6 DEF LifecycleInv, LifecycleTypeOK, StackOK
<1> QED
  BY <1>2, <1>3, <1>4, <1>5

\* The loop of Run: it goes on, or calls the last hook.
LEMMA Selecting ==
    ASSUME LifecycleInv, SelectParent \/ SelectResult
    PROVE  LifecycleInv'
<1>t. LifecycleTypeOK /\ StackOK /\ HooksInOrder /\ OwnerClosed /\ ExitInOrder
  BY DEF LifecycleInv, StackOK, LifecycleTypeOK
<1>0. /\ phase = "serve" /\ \A c \in Members : hook[c] = "off" /\ run[c] # "off"
  BY <1>t DEF SelectParent, SelectResult, HooksInOrder
<1>1. results' \in Seq({"nil", "error", "canceled"})
  <2>1. results \in Seq({"nil", "error", "canceled"})
    BY <1>t DEF LifecycleTypeOK
  <2>2. CASE SelectParent
    BY <2>1, <2>2 DEF SelectParent
  <2>3. CASE SelectResult
    <3>1. results # <<>> /\ results' = Tail(results)
      BY <2>3 DEF SelectResult
    <3> QED
      BY <2>1, <3>1, HeadTailProperties
  <2> QED
    BY <2>2, <2>3
<1>2. errs' \subseteq {"build", "run", "shutdown", "timeout"}
  BY <1>t DEF SelectParent, SelectResult, LifecycleTypeOK
<1>3. CASE Stop
  <2>1. /\ phase' = "hooks" /\ cancelled' = TRUE /\ remaining' = 0
        /\ hook' = [hook EXCEPT ![Components] = "up"]
        /\ UNCHANGED <<open, closers, parent, expired, run>>
    BY <1>3 DEF Stop
  <2>2. /\ hook' \in [Members -> {"off", "up", "done", "failed"}]
        /\ hook'[Components] = "up"
        /\ \A d \in Members : d # Components => hook'[d] = "off"
    BY <1>t, <1>0, <2>1, Ordered DEF LifecycleTypeOK
  <2>3. StackOK'
    BY <1>t, <2>1 DEF StackOK, StackExact
  <2>4. HooksInOrder'
    <3>1. \A d \in Members : ~(d > Components)
      BY Ordered DEF Members
    <3> QED
      BY <1>0, <2>1, <2>2, <3>1, Ordered DEF HooksInOrder
  <2>5. OwnerClosed' /\ ExitInOrder'
    BY <2>1, <2>2, Ordered DEF OwnerClosed, HookEnded, ExitInOrder
  <2>6. 0 \in 0..Components
    BY Ordered
  <2> QED
    BY <1>t, <1>1, <1>2, <2>1, <2>2, <2>3, <2>4, <2>5, <2>6 DEF LifecycleInv, LifecycleTypeOK, StackOK
<1>4. CASE /\ remaining > 1 /\ remaining' = remaining - 1
           /\ UNCHANGED <<phase, open, closers, parent, cancelled, expired, run, hook>>
  <2>1. StackOK' /\ HooksInOrder' /\ OwnerClosed' /\ ExitInOrder'
    BY <1>t, <1>0, <1>4 DEF StackOK, StackExact, HooksInOrder, OwnerClosed, HookEnded, ExitInOrder
  <2>2. remaining' \in 0..Components
    BY <1>t, <1>4, Ordered DEF LifecycleTypeOK
  <2> QED
    BY <1>t, <1>1, <1>2, <1>4, <2>1, <2>2 DEF LifecycleInv, LifecycleTypeOK, StackOK
<1> QED
  BY <1>3, <1>4 DEF SelectParent, SelectResult

\* The hooks.
LEMMA Hooking ==
    ASSUME LifecycleInv,
           \/ HookClose
           \/ \E c \in Members, result \in {"done", "failed"} : HookReturns(c, result)
           \/ \E c \in Members : SelectHook(c)
    PROVE  LifecycleInv'
<1>t. LifecycleTypeOK /\ StackOK /\ HooksInOrder /\ OwnerClosed /\ ExitInOrder
  BY DEF LifecycleInv, StackOK, LifecycleTypeOK
<1>1. CASE HookClose
  <2>1. StackOK' /\ hook[Owner] = "up"
    BY <1>t, <1>1, StackCloses DEF HookClose
  <2>2. UNCHANGED <<phase, parent, cancelled, expired, run, results, remaining, hook, errs>>
    BY <1>1 DEF HookClose
  <2>3. HooksInOrder' /\ OwnerClosed'
    BY <1>t, <2>1, <2>2 DEF HooksInOrder, OwnerClosed, HookEnded
  <2>4. ExitInOrder'
    BY <1>t, <2>1, <2>2, Ordered DEF ExitInOrder, HookEnded
  <2> QED
    BY <1>t, <2>1, <2>2, <2>3, <2>4 DEF LifecycleInv, LifecycleTypeOK, StackOK
<1>2. ASSUME NEW c \in Members, NEW result \in {"done", "failed"}, HookReturns(c, result)
      PROVE  LifecycleInv'
  <2>1. /\ hook[c] = "up" /\ (c = Owner => closers = <<>>)
        /\ hook' = [hook EXCEPT ![c] = result]
        /\ UNCHANGED <<phase, open, closers, parent, cancelled, expired, run, results, remaining, errs>>
    BY <1>2 DEF HookReturns
  <2>2. /\ hook' \in [Members -> {"off", "up", "done", "failed"}]
        /\ \A d \in Members : hook'[d] = IF d = c THEN result ELSE hook[d]
    BY <1>t, <2>1 DEF LifecycleTypeOK
  <2>3. StackOK' /\ OwnerClosed'
    BY <1>t, <2>1, <2>2, Ordered DEF StackOK, StackExact, OwnerClosed, HookEnded
  <2>4. HooksInOrder'
    <3>1. phase \notin {"build", "abort", "serve", "wait"}
      BY <1>t, <2>1 DEF HooksInOrder, HookEnded
    <3>2. CASE phase = "hooks"
      <4>1. PICK e \in Members :
              /\ hook[e] # "off"
              /\ \A d \in Members : (d < e => hook[d] = "off") /\ (d > e => HookEnded(d))
        BY <1>t, <3>2 DEF HooksInOrder
      <4>2. c = e
        BY <2>1, <4>1, Ordered DEF HookEnded
      <4> QED
        BY <1>t, <2>1, <2>2, <3>2, <4>1, <4>2, Ordered DEF HooksInOrder, HookEnded
    <3>3. CASE phase = "exit"
      BY <2>1, <3>3 DEF HooksInOrder
    <3> QED
      BY <1>t, <3>1, <3>2, <3>3 DEF LifecycleTypeOK
  <2>5. ExitInOrder'
    BY <1>t, <2>1, <2>2 DEF ExitInOrder, HookEnded
  <2> QED
    BY <1>t, <2>1, <2>2, <2>3, <2>4, <2>5 DEF LifecycleInv, LifecycleTypeOK, StackOK
<1>3. ASSUME NEW c \in Members, SelectHook(c)
      PROVE  LifecycleInv'
  <2>1. /\ phase = "hooks" /\ HookEnded(c)
        /\ \A d \in Members : d < c => hook[d] = "off"
        /\ UNCHANGED <<open, closers, parent, cancelled, expired, run, results, remaining>>
    BY <1>3 DEF SelectHook, HookEnded
  <2>2. \A d \in Members : d > c => HookEnded(d)
    <3>1. PICK e \in Members :
            /\ hook[e] # "off"
            /\ \A d \in Members : (d < e => hook[d] = "off") /\ (d > e => HookEnded(d))
      BY <1>t, <2>1 DEF HooksInOrder
    <3>2. c = e
      BY <2>1, <3>1, Ordered DEF HookEnded
    <3> QED
      BY <3>1, <3>2
  <2>3. errs' \subseteq {"build", "run", "shutdown", "timeout"}
    BY <1>t, <1>3 DEF SelectHook, LifecycleTypeOK
  <2>4. StackOK'
    BY <1>t, <2>1 DEF StackOK, StackExact
  <2>5. CASE c = 1
    <3>1. phase' = "wait" /\ hook' = hook
      BY <1>3, <2>5 DEF SelectHook
    <3>2. \A d \in Members : HookEnded(d)
      BY <2>1, <2>2, <2>5, Ordered DEF Members
    <3>3. HooksInOrder' /\ OwnerClosed' /\ ExitInOrder'
      BY <1>t, <2>1, <3>1, <3>2 DEF HooksInOrder, OwnerClosed, HookEnded, ExitInOrder
    <3> QED
      BY <1>t, <2>1, <2>3, <2>4, <3>1, <3>3 DEF LifecycleInv, LifecycleTypeOK, StackOK
  <2>6. CASE c # 1
    <3>1. phase' = phase /\ hook' = [hook EXCEPT ![c - 1] = "up"]
      BY <1>3, <2>6 DEF SelectHook
    <3>2. c - 1 \in Members /\ hook[c - 1] = "off"
      BY <2>1, <2>6, Ordered DEF Members
    <3>3. /\ hook' \in [Members -> {"off", "up", "done", "failed"}]
          /\ \A d \in Members : hook'[d] = IF d = c - 1 THEN "up" ELSE hook[d]
      BY <1>t, <3>1, <3>2 DEF LifecycleTypeOK
    <3>4. HooksInOrder'
      <4>1. \A d \in Members : (d < c - 1 => hook'[d] = "off") /\ (d > c - 1 => HookEnded(d)')
        BY <2>1, <2>2, <3>2, <3>3, Ordered DEF HookEnded
      <4> QED
        BY <1>t, <2>1, <3>1, <3>2, <3>3, <4>1 DEF HooksInOrder
    <3>5. OwnerClosed' /\ ExitInOrder'
      BY <1>t, <2>1, <3>1, <3>3, Ordered DEF OwnerClosed, HookEnded, ExitInOrder
    <3> QED
      BY <1>t, <2>1, <2>3, <2>4, <3>1, <3>3, <3>4, <3>5 DEF LifecycleInv, LifecycleTypeOK, StackOK
  <2> QED
    BY <2>5, <2>6
<1> QED
  BY <1>1, <1>2, <1>3

-----------------------------------------------------------------------------
(***************************************************************************)
(* The process                                                             *)
(***************************************************************************)
\* A step of Lifecycle.
LEMMA LifecycleSteps ==
    ASSUME LifecycleInv,
           \/ LifecycleProgress \/ Expire \/ Hooks \/ BuildFails \/ Signal
           \/ \E c \in Members : PeerEnds(c) \/ PeerFails(c)
    PROVE  LifecycleInv'
<1>1. CASE LifecycleProgress
  BY <1>1, Building, Serving, Selecting, Hooking DEF LifecycleProgress
<1>2. CASE Expire \/ Signal
  BY <1>2, Serving
<1>3. CASE Hooks
  BY <1>3, Hooking DEF Hooks
<1>4. CASE BuildFails
  BY <1>4, Building
<1>5. CASE \E c \in Members : PeerEnds(c) \/ PeerFails(c)
  BY <1>5, Serving DEF PeerEnds, PeerFails
<1> QED
  BY <1>1, <1>2, <1>3, <1>4, <1>5

LEMMA LifecycleKept ==
    ASSUME LifecycleInv, UNCHANGED lifecycleVars
    PROVE  LifecycleInv'
<1>1. UNCHANGED <<phase, open, closers, parent, cancelled, expired, run, results, remaining, hook, errs>>
  BY DEF lifecycleVars
<1>2. LifecycleTypeOK' /\ StackExact'
  BY <1>1 DEF LifecycleInv, LifecycleTypeOK, StackExact
<1>3. HooksInOrder'
  BY <1>1 DEF LifecycleInv, HooksInOrder, HookEnded
<1>4. OwnerClosed' /\ ExitInOrder'
  BY <1>1 DEF LifecycleInv, OwnerClosed, ExitInOrder, HookEnded
<1> QED
  BY <1>2, <1>3, <1>4 DEF LifecycleInv

LEMMA SchedulingKept ==
    ASSUME SchedulingInv, UNCHANGED scheduleVars
    PROVE  SchedulingInv'
<1>1. UNCHANGED <<entries, cron, snap, todo, started, at>> /\ db' = db
  BY DEF scheduleVars
<1>2. db' \in [Schedules -> 0..Versions]
  BY <1>1 DEF SchedulingInv, SchedulingTypeOK
<1> QED
  BY <1>1, <1>2, Editing

\* What is fault and what is not leaves the bounds.
LEMMA Bounded ==
    ASSUME edits \in 0..MaxEdits, faults \in 0..MaxFaults,
           \/ UNCHANGED <<edits, faults>>
           \/ faults < MaxFaults /\ faults' = faults + 1 /\ UNCHANGED edits
           \/ edits < MaxEdits /\ edits' = edits + 1 /\ UNCHANGED faults
    PROVE  (edits \in 0..MaxEdits /\ faults \in 0..MaxFaults)'
  BY BoundsAssumption

LEMMA Initially == Init => ProcessInv
  BY SchedulingFresh, LifecycleFresh, BoundsAssumption DEF Init, ProcessInv

LEMMA Always == ProcessInv /\ [Next]_vars => ProcessInv'
<1> SUFFICES ASSUME ProcessInv, [Next]_vars
             PROVE  ProcessInv'
  OBVIOUS
<1>0. SchedulingInv /\ LifecycleInv /\ edits \in 0..MaxEdits /\ faults \in 0..MaxFaults
  BY DEF ProcessInv
<1>1. CASE \/ Calm(LifecycleProgress /\ UNCHANGED scheduleVars)
           \/ Calm(Expire /\ UNCHANGED scheduleVars)
           \/ Calm(Hooks /\ UNCHANGED scheduleVars)
           \/ Calm(\E c \in Members : PeerEnds(c) /\ UNCHANGED scheduleVars)
           \/ Fault(BuildFails /\ UNCHANGED scheduleVars)
           \/ Fault(Signal /\ UNCHANGED scheduleVars)
           \/ Fault(\E c \in Members : PeerFails(c) /\ UNCHANGED scheduleVars)
  <2>1. LifecycleInv'
    BY <1>0, <1>1, LifecycleSteps DEF Calm, Fault
  <2>2. SchedulingInv'
    BY <1>0, <1>1, SchedulingKept DEF Calm, Fault
  <2>3. (edits \in 0..MaxEdits /\ faults \in 0..MaxFaults)'
    BY <1>0, <1>1, Bounded DEF Calm, Fault
  <2> QED
    BY <2>1, <2>2, <2>3 DEF ProcessInv
<1>2. CASE \/ Calm(Serve) \/ Calm(ServeCancel) \/ Calm(ServeClosed) \/ Calm(ServeUndo)
           \/ Fault(ServeFails)
  <2>1. LifecycleInv'
    <3>1. UNCHANGED lifecycleVars
      BY <1>2 DEF Calm, Fault, Serve, ServeCancel, ServeClosed, ServeUndo, ServeFails
    <3> QED
      BY <1>0, <3>1, LifecycleKept
  <2>2. SchedulingInv'
    <3>1. \/ RefreshStep \/ Cancel \/ Breaks \/ SwapFails
          \/ at = "list" /\ Fail("failed")
          \/ \E s \in Schedules, works \in BOOLEAN : Undo(s, works)
      BY <1>2 DEF Calm, Fault, Serve, ServeCancel, ServeClosed, ServeUndo, ServeFails
    <3> QED
      BY <1>0, <3>1, SchedulingSteps
  <2>3. (edits \in 0..MaxEdits /\ faults \in 0..MaxFaults)'
    BY <1>0, <1>2, Bounded DEF Calm, Fault
  <2> QED
    BY <2>1, <2>2, <2>3 DEF ProcessInv
<1>3. CASE Calm(ServeReturns)
  <2>1. Return(Owner, Outcome) /\ UNCHANGED scheduleVars /\ UNCHANGED <<edits, faults>>
    BY <1>3 DEF Calm, ServeReturns
  <2>2. Outcome \in {"nil", "error", "canceled"} /\ Owner \in Members
    BY Ordered DEF Outcome
  <2>3. LifecycleInv'
    BY <1>0, <2>1, <2>2, Serving
  <2>4. SchedulingInv'
    BY <1>0, <2>1, SchedulingKept
  <2> QED
    BY <1>0, <2>1, <2>3, <2>4 DEF ProcessInv
<1>4. CASE Calm(Reboot)
  <2>1. Restart /\ Afresh /\ db' = db /\ UNCHANGED <<edits, faults>>
    BY <1>4 DEF Calm, Reboot
  <2>2. db \in [Schedules -> 0..Versions]
    BY <1>0 DEF SchedulingInv, SchedulingTypeOK
  <2> QED
    BY <1>0, <2>1, <2>2, SchedulingFresh, LifecycleFresh DEF ProcessInv
<1>5. CASE EditSchedule
  <2>1. /\ db' \in [Schedules -> 0..Versions]
        /\ UNCHANGED <<entries, cron, snap, todo, started, at>>
        /\ UNCHANGED lifecycleVars
    BY <1>5 DEF EditSchedule, Edit
  <2>2. (edits \in 0..MaxEdits /\ faults \in 0..MaxFaults)'
    BY <1>0, <1>5, Bounded DEF EditSchedule
  <2> QED
    BY <1>0, <2>1, <2>2, Editing, LifecycleKept DEF ProcessInv
<1>6. CASE UNCHANGED vars
  <2>1. UNCHANGED lifecycleVars /\ UNCHANGED scheduleVars /\ UNCHANGED <<edits, faults>>
    BY <1>6 DEF vars
  <2> QED
    BY <1>0, <2>1, LifecycleKept, SchedulingKept DEF ProcessInv
<1> QED
  BY <1>1, <1>2, <1>3, <1>4, <1>5, <1>6 DEF Next

LEMMA Invariance == Spec => []ProcessInv
  BY Initially, Always, PTL DEF Spec

\* The variables of both components keep their types, and no version is
\* registered a negative number of times.
THEOREM TypeCorrect == Spec => []TypeOK
<1>1. ProcessInv => TypeOK
  BY DEF ProcessInv, SchedulingInv, LifecycleInv, TypeOK
<1> QED
  BY Invariance, <1>1, PTL

\* Whatever call of a refresh fails, and whenever schedules are edited or the
\* process is stopped, a registered schedule keeps exactly one entry with the
\* content the registrar noted, and between refreshes Asynq holds exactly the
\* schedules that were read.
THEOREM RegistrationsStayExact == Spec => []RegistrationsExact
<1>1. ProcessInv => RegistrationsExact
  <2> SUFFICES ASSUME ProcessInv
               PROVE  RegistrationsExact
    OBVIOUS
  <2>t. SchedulingTypeOK /\ EntriesExact /\ LoopExact
    BY DEF ProcessInv, SchedulingInv
  <2>1. \A s \in Schedules : entries[s] # 0 => entries[s] \in 1..Versions
    BY <2>t, Numbers DEF SchedulingTypeOK
  <2>2. \A s \in Schedules : entries[s] # 0 => cron[s][entries[s]] = 1
    BY <2>t, <2>1 DEF EntriesExact, Exact, Doubled
  <2>3. at \in {"start", "idle"} =>
          \A s \in Schedules :
             /\ entries[s] = snap[s]
             /\ \A v \in 1..Versions : cron[s][v] = IF v = snap[s] THEN 1 ELSE 0
    BY <2>t DEF EntriesExact, LoopExact, Exact
  <2> QED
    BY <2>2, <2>3 DEF RegistrationsExact
<1> QED
  BY Invariance, <1>1, PTL

\* A process that lifecycle.Run ends within its timeout, or whose build fails,
\* leaves no resource of its Stack open, no component running and no hook of
\* a started component uncalled, however many of each there are.
THEOREM ExitsClean == Spec => []CleanExit
<1>1. ProcessInv => CleanExit
  <2> SUFFICES ASSUME ProcessInv, phase = "exit", "timeout" \notin errs
               PROVE  /\ open = {}
                      /\ \A c \in Members : run[c] # "up"
                      /\ \A c \in Members : run[c] = "ended" => hook[c] \in {"done", "failed"}
    BY DEF CleanExit
  <2>1. /\ closers = <<>> /\ open = 1..Len(closers)
        /\ \/ \A c \in Members : run[c] = "off" /\ hook[c] = "off"
           \/ \A c \in Members : run[c] = "ended" /\ HookEnded(c)
    BY DEF ProcessInv, LifecycleInv, StackExact, ExitInOrder
  <2>2. open = {}
    BY <2>1
  <2> QED
    BY <2>1, <2>2 DEF HookEnded
<1> QED
  BY Invariance, <1>1, PTL
=============================================================================
