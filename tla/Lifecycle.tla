------------------------------ MODULE Lifecycle ------------------------------
(***************************************************************************)
(* A process of the backend from its start to its exit: the builder opens  *)
(* resources and registers them in a Stack, lifecycle.Run serves the       *)
(* components until one fails or the parent context is cancelled, then     *)
(* calls their Shutdown hooks in reverse order and waits for their         *)
(* goroutines, all of it within one shutdown timeout.                      *)
(*                                                                         *)
(* The components are 1..Components in the order of registration.  The     *)
(* hook of Owner closes the Stack; how Owner runs is left to the module    *)
(* that composes this one.  The other components are arbitrary: they may   *)
(* stop, fail, ignore the context, and their hooks may hang.               *)
(***************************************************************************)
EXTENDS Integers, Sequences

CONSTANTS
    Components,   \* how many components Run is given
    Owner,        \* the component that owns the resources
    Resources     \* how many resources the builder opens, one after another

ASSUME ComponentsAssumption == Components \in Nat /\ Owner \in 1..Components
ASSUME ResourcesAssumption == Resources \in Nat

VARIABLES
    phase,      \* where Execute is
    open,       \* resources that are open
    closers,    \* Stack.closers that are still to be closed
    parent,     \* the parent context is cancelled (SIGINT, SIGTERM)
    cancelled,  \* Run has cancelled runCtx
    expired,    \* shutdownCtx is past its deadline
    run,        \* the goroutine of each component
    results,    \* the channel of what component.Run returned
    remaining,  \* results Run still waits for
    hook,       \* the Shutdown hook of each component
    errs        \* kinds of errors joined in the result of Execute

lifecycleVars == <<phase, open, closers, parent, cancelled, expired, run, results,
                   remaining, hook, errs>>

Members == 1..Components

LifecycleTypeOK ==
    /\ phase \in {"build", "abort", "serve", "hooks", "wait", "exit"}
    /\ open \subseteq 1..Resources
    /\ closers \in Seq(1..Resources)
    /\ <<parent, cancelled, expired>> \in BOOLEAN \X BOOLEAN \X BOOLEAN
    /\ run \in [Members -> {"off", "up", "ended"}]
    /\ results \in Seq({"nil", "error", "canceled"})
    /\ remaining \in 0..Components
    /\ hook \in [Members -> {"off", "up", "done", "failed"}]
    /\ errs \subseteq {"build", "run", "shutdown", "timeout"}

\* A process that has just been started.
LifecycleInit ==
    /\ phase = "build"
    /\ open = {}
    /\ closers = <<>>
    /\ parent = FALSE /\ cancelled = FALSE /\ expired = FALSE
    /\ run = [c \in Members |-> "off"]
    /\ results = <<>>
    /\ remaining = 0
    /\ hook = [c \in Members |-> "off"]
    /\ errs = {}

\* runCtx is a child of the parent context.
Done == parent \/ cancelled

(***************************************************************************)
(* BuildAPI, BuildWorker, BuildScheduler                                   *)
(***************************************************************************)
\* The next resource is opened and added to the stack.
OpenResource ==
    /\ phase = "build"
    /\ Len(closers) < Resources
    /\ open' = open \cup {Len(closers) + 1}
    /\ closers' = Append(closers, Len(closers) + 1)
    /\ UNCHANGED <<phase, parent, cancelled, expired, run, results, remaining, hook, errs>>

\* A constructor fails: closeBuildResources closes what there is.
BuildFails ==
    /\ phase = "build"
    /\ errs' = {"build"}
    /\ phase' = IF closers = <<>> THEN "exit" ELSE "abort"
    /\ UNCHANGED <<open, closers, parent, cancelled, expired, run, results, remaining, hook>>

\* Stack.Close goes on with the last closer that is left.
CloseLast ==
    /\ closers # <<>>
    /\ open' = open \ {closers[Len(closers)]}
    /\ closers' = SubSeq(closers, 1, Len(closers) - 1)

AbortClose ==
    /\ phase = "abort"
    /\ CloseLast
    /\ phase' = IF Len(closers) = 1 THEN "exit" ELSE "abort"
    /\ UNCHANGED <<parent, cancelled, expired, run, results, remaining, hook, errs>>

(***************************************************************************)
(* lifecycle.Run                                                           *)
(***************************************************************************)
\* Every component gets a goroutine.
StartComponents ==
    /\ phase = "build"
    /\ Len(closers) = Resources
    /\ phase' = "serve"
    /\ run' = [c \in Members |-> "up"]
    /\ remaining' = Components
    /\ UNCHANGED <<open, closers, parent, cancelled, expired, results, hook, errs>>

\* The process is told to stop, at any moment.
Signal ==
    /\ ~parent
    /\ phase # "exit"
    /\ parent' = TRUE
    /\ UNCHANGED <<phase, open, closers, cancelled, expired, run, results, remaining, hook, errs>>

\* The Run of component c returns err.
Return(c, err) ==
    /\ run[c] = "up"
    /\ run' = [run EXCEPT ![c] = "ended"]
    /\ results' = Append(results, err)
    /\ UNCHANGED <<phase, open, closers, parent, cancelled, expired, remaining, hook, errs>>

\* A component other than Owner ends, sooner or later or never.
PeerEnds(c) ==
    /\ c # Owner
    /\ \/ Return(c, "nil")
       \/ Done /\ Return(c, "canceled")

PeerFails(c) == c # Owner /\ Return(c, "error")

\* Run leaves its loop, cancels the peers and calls the last hook.
Stop ==
    /\ phase' = "hooks"
    /\ cancelled' = TRUE
    /\ remaining' = 0
    /\ hook' = [hook EXCEPT ![Components] = "up"]
    /\ UNCHANGED <<open, closers, parent, expired, run>>

\* The branches of the select: the parent is cancelled ...
SelectParent ==
    /\ phase = "serve"
    /\ parent
    /\ Stop
    /\ UNCHANGED <<results, errs>>

\* ... or a component has returned.  context.Canceled is no error once runCtx
\* is cancelled.
Ignored(err) == err = "nil" \/ (err = "canceled" /\ Done)

SelectResult ==
    /\ phase = "serve"
    /\ results # <<>>
    /\ results' = Tail(results)
    /\ errs' = IF Ignored(Head(results)) THEN errs ELSE errs \cup {"run"}
    /\ IF Ignored(Head(results)) /\ remaining > 1
         THEN remaining' = remaining - 1 /\ UNCHANGED <<phase, open, closers, parent, cancelled, expired, run, hook>>
         ELSE Stop

\* The deadline of shutdownCtx passes.
Expire ==
    /\ phase \in {"hooks", "wait"}
    /\ ~expired
    /\ expired' = TRUE
    /\ UNCHANGED <<phase, open, closers, parent, cancelled, run, results, remaining, hook, errs>>

\* The hook of Owner is Stack.Close, one resource after another.
HookClose ==
    /\ hook[Owner] = "up"
    /\ CloseLast
    /\ UNCHANGED <<phase, parent, cancelled, expired, run, results, remaining, hook, errs>>

\* A hook returns, with an error or without.
HookReturns(c, result) ==
    /\ hook[c] = "up"
    /\ c = Owner => closers = <<>>
    /\ hook' = [hook EXCEPT ![c] = result]
    /\ UNCHANGED <<phase, open, closers, parent, cancelled, expired, run, results, remaining, errs>>

\* Faulty variant: the first error of a hook ends the shutdown.
SelectHook_FirstError(c) ==
    /\ phase = "hooks"
    /\ hook[c] \in {"done", "failed"}
    /\ \A d \in Members : d < c => hook[d] = "off"
    /\ errs' = IF hook[c] = "failed" THEN errs \cup {"shutdown"} ELSE errs
    /\ IF c = 1 THEN phase' = "wait" /\ hook' = hook
       ELSE IF hook[c] = "failed" THEN phase' = "exit" /\ hook' = hook
       ELSE phase' = phase /\ hook' = [hook EXCEPT ![c - 1] = "up"]
    /\ UNCHANGED <<open, closers, parent, cancelled, expired, run, results, remaining>>

\* Run receives the result of the hook of c and calls the one before.
SelectHook(c) ==
    /\ phase = "hooks"
    /\ hook[c] \in {"done", "failed"}
    /\ \A d \in Members : d < c => hook[d] = "off"
    /\ errs' = IF hook[c] = "failed" THEN errs \cup {"shutdown"} ELSE errs
    /\ IF c = 1 THEN phase' = "wait" /\ hook' = hook
                ELSE phase' = phase /\ hook' = [hook EXCEPT ![c - 1] = "up"]
    /\ UNCHANGED <<open, closers, parent, cancelled, expired, run, results, remaining>>

\* workers.Wait returns.
SelectStopped ==
    /\ phase = "wait"
    /\ \A c \in Members : run[c] = "ended"
    /\ phase' = "exit"
    /\ UNCHANGED <<open, closers, parent, cancelled, expired, run, results, remaining, hook, errs>>

\* Faulty variant: only the hooks are bounded.
SelectExpired_Hooks ==
    /\ phase = "hooks"
    /\ expired
    /\ errs' = errs \cup {"timeout"}
    /\ phase' = "exit"
    /\ UNCHANGED <<open, closers, parent, cancelled, expired, run, results, remaining, hook>>

\* Run does not wait longer than the timeout, for a hook or for a goroutine.
SelectExpired ==
    /\ phase \in {"hooks", "wait"}
    /\ expired
    /\ errs' = errs \cup {"timeout"}
    /\ phase' = "exit"
    /\ UNCHANGED <<open, closers, parent, cancelled, expired, run, results, remaining, hook>>

\* External: the container is started again (restart: unless-stopped).
Restart ==
    /\ phase = "exit"
    /\ phase' = "build"
    /\ open' = {} /\ closers' = <<>>
    /\ parent' = FALSE /\ cancelled' = FALSE /\ expired' = FALSE
    /\ run' = [c \in Members |-> "off"] /\ hook' = [c \in Members |-> "off"]
    /\ results' = <<>> /\ remaining' = 0
    /\ errs' = {}

\* What goes on unless something hangs or fails.  Peers and hooks need not end.
LifecycleProgress ==
    \/ OpenResource \/ StartComponents \/ AbortClose
    \/ SelectParent \/ SelectResult \/ SelectStopped \/ SelectExpired
    \/ \E c \in Members : SelectHook(c)

(***************************************************************************)
(* Properties                                                              *)
(***************************************************************************)
\* Unless the timeout cut it short, a process exits with every resource
\* closed, every hook of a started component called to its end and no
\* goroutine of a component running, whatever failed on the way.
CleanExit ==
    phase = "exit" /\ "timeout" \notin errs =>
        /\ open = {}
        /\ \A c \in Members : run[c] # "up"
        /\ \A c \in Members : run[c] = "ended" => hook[c] \in {"done", "failed"}

\* A process that begins to stop ends, although components ignore the
\* context and hooks hang: Run and its timeout bound the shutdown.
StopEnds == phase \in {"hooks", "abort"} ~> phase = "exit"
=============================================================================
