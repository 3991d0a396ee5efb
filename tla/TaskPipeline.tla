---------------------------- MODULE TaskPipeline ----------------------------
(***************************************************************************)
(* The life of a background task, from SubmissionService.Submit to a       *)
(* recorded outcome:                                                       *)
(*                                                                         *)
(*   API process   Submit writes the execution row and its outbox row in   *)
(*                 one statement, publishes to Asynq, marks the outbox row *)
(*   worker        every worker process runs an outbox dispatcher loop     *)
(*                 (runOutboxDispatcher) and an Asynq server whose handler *)
(*                 is Processor.Process and whose error handler is         *)
(*                 FailureHandler.HandleError                              *)
(*   PostgreSQL    task_executions and task_outbox_messages                *)
(*   Redis/Asynq   the queued task, its retry count and its unique lock    *)
(*                 (a library: modelled as the code uses it)               *)
(*                                                                         *)
(* Every SQL statement and every Redis call is one atomic step; whatever   *)
(* the code does between two of them can be interleaved with every other   *)
(* process, and the process can stop there.  The queue id of a submission  *)
(* is a fresh UUID, so executions, outbox rows and Asynq tasks correspond  *)
(* one to one and share the identifiers of Executions.                     *)
(***************************************************************************)
EXTENDS Naturals, FiniteSets

CONSTANTS
    Executions,      \* the submissions clients may make (their queue ids)
    IdempotencyKey,  \* [Executions -> keys]: (task_type, idempotency_key)
    NoKey,           \* the key of a submission made without one
    MaxRetries,      \* [Executions -> Nat]: PublishOptions.MaxRetries
    Unique,          \* the executions submitted with UniqueFor > 0
    Routable,        \* the executions whose task type the worker's mux knows
    OutboxStores,    \* whether a store of a SubmissionService implements OutboxStore
    Workers,         \* the worker processes
    Slots,           \* goroutine slots of the Asynq servers
    Host,            \* [Slots -> Workers]
    BatchLimit,      \* outboxDispatchBatchSize
    FaultKinds,      \* the kinds of failure the environment may cause
    MaxFaults,       \* bound on the number of failures in a behaviour
    NoExec           \* "no execution", of an idle slot

AllFaults ==
    {"api",       \* the API process stops between two steps of Submit
     "net",       \* a Redis call of Publish fails, with or without effect
     "outbox",    \* a statement on the outbox fails, with or without effect
     "db",        \* another PostgreSQL statement fails, with or without effect
     "deadline",  \* the context of a running task expires
     "inner",     \* a handler returns a deadline error of its own making
     "lease",     \* a worker loses its Asynq lease on a task
     "abort",     \* ShutdownTimeout ends while a task is running
     "crash"}     \* a worker process stops

ASSUME ConstantsAssumption ==
    /\ IsFiniteSet(Executions)
    /\ MaxRetries \in [Executions -> Nat]
    /\ Unique \subseteq Executions
    /\ Routable \subseteq Executions
    /\ OutboxStores \subseteq BOOLEAN
    /\ Host \in [Slots -> Workers]
    /\ BatchLimit \in Nat \ {0}
    /\ FaultKinds \subseteq AllFaults
    /\ MaxFaults \in Nat
    /\ NoExec \notin Executions

VARIABLES
    status,      \* task_executions.status, "none" before the row exists
    attempt,     \* task_executions.attempt
    rank,        \* the position of created_at among the rows
    outbox,      \* task_outbox_messages.published_at: none, pending, published
    submit,      \* where the Submit call of an execution is
    disp,        \* the dispatcher of each worker: pc, batch, rows seen queued
    queue,       \* the Asynq task: absent, pending, active, archived
    retried,     \* its Retried counter
    lock,        \* its unique lock
    run,         \* what each slot runs
    enqueued,    \* history: the executions that were ever enqueued
    faults       \* failures so far

dbVars     == <<status, attempt, rank, outbox>>
queueVars  == <<queue, retried, lock, enqueued>>
vars == <<status, attempt, rank, outbox, submit, disp, queue, retried, lock,
          run, enqueued, faults>>

(***************************************************************************)
(* Types                                                                   *)
(***************************************************************************)
Status   == {"queued", "running", "succeeded", "failed", "cancelled"}
Terminal == {"succeeded", "failed", "cancelled"}

\* The handler goroutine (Processor.Process) and the Asynq goroutine that
\* waits for it share a slot: h and a are their program counters, n is the
\* attempt number Process was given, res the error class ProcessTask returned.
Run == [exec  : Executions \cup {NoExec},
        n     : Nat,
        h     : {"none", "get", "claim", "handle", "succeed", "cancel"},
        a     : {"none", "wait", "failget", "failupdate", "archive"},
        res   : {"none", "ok", "error", "revoke"},
        ctx   : {"live", "done"},
        lease : BOOLEAN]

IdleRun == [exec |-> NoExec, n |-> 0, h |-> "none", a |-> "none",
            res |-> "none", ctx |-> "live", lease |-> TRUE]

Dispatcher == [pc     : {"idle", "publish", "mark"},
               batch  : SUBSET Executions,
               queued : SUBSET Executions]

IdleDispatcher == [pc |-> "idle", batch |-> {}, queued |-> {}]

TypeOK ==
    /\ status   \in [Executions -> Status \cup {"none"}]
    /\ attempt  \in [Executions -> Nat]
    /\ rank     \in [Executions -> Nat]
    /\ outbox   \in [Executions -> {"none", "pending", "published"}]
    /\ submit   \in [Executions -> {"idle", "publish", "mark", "fail", "done"}]
    /\ disp     \in [Workers -> Dispatcher]
    /\ queue    \in [Executions -> {"absent", "pending", "active", "archived"}]
    /\ retried  \in [Executions -> Nat]
    /\ lock     \in [Executions -> BOOLEAN]
    /\ run      \in [Slots -> Run]
    /\ enqueued \in SUBSET Executions
    /\ faults   \in Nat

Init ==
    /\ status   = [e \in Executions |-> "none"]
    /\ attempt  = [e \in Executions |-> 0]
    /\ rank     = [e \in Executions |-> 0]
    /\ outbox   = [e \in Executions |-> "none"]
    /\ submit   = [e \in Executions |-> "idle"]
    /\ disp     = [w \in Workers |-> IdleDispatcher]
    /\ queue    = [e \in Executions |-> "absent"]
    /\ retried  = [e \in Executions |-> 0]
    /\ lock     = [e \in Executions |-> FALSE]
    /\ run      = [s \in Slots |-> IdleRun]
    /\ enqueued = {}
    /\ faults   = 0

\* A step the environment makes go wrong.
Fault(kind) == kind \in FaultKinds /\ faults < MaxFaults /\ faults' = faults + 1

NoFault == UNCHANGED faults

(***************************************************************************)
(* The execution store                                                     *)
(***************************************************************************)
\* ValidateTransition(from, to) = nil.
ValidTransition(from, to) ==
    \/ from = "running" /\ to = "running"
    \/ from = "queued" /\ to \in {"running", "failed", "cancelled"}
    \/ from = "running" /\ to \in {"succeeded", "failed", "cancelled"}

\* Faulty variant: the attempt may be claimed again.
Claimable_Again(e, n) == status[e] \in {"queued", "running"} /\ attempt[e] <= n

\* The WHERE clause of ClaimTaskExecution.
Claimable(e, n) == status[e] \in {"queued", "running"} /\ attempt[e] < n

\* The row ClaimTaskExecution leaves behind when the clause holds.
Claimed(e, n) ==
    /\ status' = [status EXCEPT ![e] = "running"]
    /\ attempt' = [attempt EXCEPT ![e] = n]

\* Faulty variants: the update checks only one of the two columns.
Matches_AttemptOnly(e, expectedStatus, expectedAttempt) ==
    attempt[e] = expectedAttempt

Matches_StatusOnly(e, expectedStatus, expectedAttempt) ==
    status[e] = expectedStatus

\* The WHERE clause of UpdateTaskExecutionStatus.
Matches(e, expectedStatus, expectedAttempt) ==
    status[e] = expectedStatus /\ attempt[e] = expectedAttempt

\* UpdateTaskExecutionStatus as a whole; every caller writes the attempt it
\* expects, so the column keeps its value.
UpdateExecution(e, expectedStatus, expectedAttempt, new) ==
    /\ status' = IF Matches(e, expectedStatus, expectedAttempt)
                 THEN [status EXCEPT ![e] = new]
                 ELSE status
    /\ UNCHANGED attempt

\* MarkTaskOutboxMessagePublished.
MarkPublished(e) ==
    outbox' = IF outbox[e] = "pending"
              THEN [outbox EXCEPT ![e] = "published"]
              ELSE outbox

(***************************************************************************)
(* AsynqPublisher.Publish                                                  *)
(***************************************************************************)
\* Asynq tests the unique lock before the task id.
Locked(e) == e \in Unique /\ lock[e]

\* What a successful EnqueueContext does: a task id that is still known
\* (ErrTaskIDConflict, which Publish turns into nil) is left as it is.
Enqueue(e) ==
    /\ queue' = IF queue[e] = "absent"
                THEN [queue EXCEPT ![e] = "pending"]
                ELSE queue
    /\ retried' = IF queue[e] = "absent"
                  THEN [retried EXCEPT ![e] = 0]
                  ELSE retried
    /\ lock' = IF e \in Unique THEN [lock EXCEPT ![e] = TRUE] ELSE lock
    /\ enqueued' = enqueued \cup {e}

\* Publish returns nil (ok) or an error: ErrDuplicateSubmission for a held
\* lock, or a failed call that may have reached Redis all the same.
Publish(e, ok) ==
    \/ ok /\ ~Locked(e) /\ Enqueue(e) /\ NoFault
    \/ ~ok /\ Locked(e) /\ UNCHANGED queueVars /\ NoFault
    \/ ~ok /\ ~Locked(e) /\ Enqueue(e) /\ Fault("net")
    \/ ~ok /\ UNCHANGED queueVars /\ Fault("net")

(***************************************************************************)
(* SubmissionService.Submit                                                *)
(***************************************************************************)
\* The UNIQUE (task_type, idempotency_key) constraint.
DuplicateKey(e) ==
    /\ IdempotencyKey[e] # NoKey
    /\ \E f \in Executions : /\ status[f] # "none"
                             /\ IdempotencyKey[f] = IdempotencyKey[e]

Rows == {e \in Executions : status[e] # "none"}

\* ValidateSubmission, a duplicate key, an unknown definition or a failed
\* insert: Submit returns the error and nothing is stored.
SubmitReject(e) ==
    /\ submit[e] = "idle"
    /\ submit' = [submit EXCEPT ![e] = "done"]
    /\ UNCHANGED <<dbVars, queueVars, disp, run, faults>>

\* CreateTaskExecutionWithPendingPublish, or CreateTaskExecution for a store
\* without an outbox.
CreateTaskExecution(e) ==
    /\ ~DuplicateKey(e)
    /\ status' = [status EXCEPT ![e] = "queued"]
    /\ attempt' = [attempt EXCEPT ![e] = 0]
    /\ rank' = [rank EXCEPT ![e] = Cardinality(Rows)]
    /\ \E outboxStore \in OutboxStores :
         outbox' = IF outboxStore THEN [outbox EXCEPT ![e] = "pending"] ELSE outbox

\* A lost answer leaves the rows and ends the call.
SubmitCreate(e) ==
    /\ submit[e] = "idle"
    /\ CreateTaskExecution(e)
    /\ \/ submit' = [submit EXCEPT ![e] = "publish"] /\ NoFault
       \/ submit' = [submit EXCEPT ![e] = "done"] /\ Fault("outbox")
    /\ UNCHANGED <<queueVars, disp, run>>

\* The execution was created with an outbox row.
Outboxed(e) == outbox[e] # "none"

\* Faulty variant: Submit goes on as if the publish had succeeded.
SubmitPublish_IgnoreError(e) ==
    /\ submit[e] = "publish"
    /\ \E ok \in BOOLEAN :
         /\ Publish(e, ok)
         /\ submit' = [submit EXCEPT ![e] = IF Outboxed(e) THEN "mark" ELSE "done"]
    /\ UNCHANGED <<dbVars, disp, run>>

\* The publish inside Submit.  With an outbox an error is swallowed and the
\* row stays pending; without one the execution is to be marked failed.
SubmitPublish(e) ==
    /\ submit[e] = "publish"
    /\ \E ok \in BOOLEAN :
         /\ Publish(e, ok)
         /\ submit' = [submit EXCEPT ![e] =
                IF Outboxed(e) THEN (IF ok THEN "mark" ELSE "done")
                               ELSE (IF ok THEN "done" ELSE "fail")]
    /\ UNCHANGED <<dbVars, disp, run>>

\* MarkPublishSucceeded inside Submit; its error is ignored.
SubmitMark(e) ==
    /\ submit[e] = "mark"
    /\ \/ MarkPublished(e) /\ NoFault
       \/ MarkPublished(e) /\ Fault("outbox")
       \/ UNCHANGED outbox /\ Fault("outbox")
    /\ submit' = [submit EXCEPT ![e] = "done"]
    /\ UNCHANGED <<status, attempt, rank, queueVars, disp, run>>

\* Without an outbox: the execution whose publish failed becomes failed.
SubmitFail(e) ==
    /\ submit[e] = "fail"
    /\ \/ UpdateExecution(e, "queued", 0, "failed") /\ NoFault
       \/ UNCHANGED <<status, attempt>> /\ Fault("db")
    /\ submit' = [submit EXCEPT ![e] = "done"]
    /\ UNCHANGED <<rank, outbox, queueVars, disp, run>>

\* The API process stops in the middle of Submit.
SubmitCrash(e) ==
    /\ submit[e] \in {"publish", "mark", "fail"}
    /\ Fault("api")
    /\ submit' = [submit EXCEPT ![e] = "done"]
    /\ UNCHANGED <<dbVars, queueVars, disp, run>>

(***************************************************************************)
(* OutboxDispatcher.DispatchPending, run by every worker                   *)
(***************************************************************************)
\* Faulty variant: only rows of queued executions are listed.
Pending_Queued == {e \in Executions : outbox[e] = "pending" /\ status[e] = "queued"}

\* WHERE published_at IS NULL.
Pending == {e \in Executions : outbox[e] = "pending"}

\* ORDER BY created_at, queue_id LIMIT limit.
Oldest(rows, limit) ==
    {e \in rows : Cardinality({f \in rows : rank[f] < rank[e]}) < limit}

\* The row the loop of worker w is at.
IsHead(w, e) ==
    /\ e \in disp[w].batch
    /\ \A f \in disp[w].batch : rank[e] <= rank[f]

\* ListPendingPublishes: the rows and, joined, the status of their executions.
DispatchList(w) ==
    /\ disp[w].pc = "idle"
    /\ Pending # {}
    /\ LET rows == Oldest(Pending, BatchLimit)
       IN  disp' = [disp EXCEPT ![w] =
                [pc |-> "publish", batch |-> rows,
                 queued |-> {e \in rows : status[e] = "queued"}]]
    /\ UNCHANGED <<dbVars, queueVars, submit, run, faults>>

\* Publish the row at hand if its execution was listed as queued; the first
\* error gives up the batch.
DispatchPublish(w) ==
    /\ disp[w].pc = "publish"
    /\ \E e \in Executions :
         /\ IsHead(w, e)
         /\ \/ /\ e \notin disp[w].queued
               /\ disp' = [disp EXCEPT ![w].pc = "mark"]
               /\ UNCHANGED <<queueVars, faults>>
            \/ /\ e \in disp[w].queued
               /\ \E ok \in BOOLEAN :
                    /\ Publish(e, ok)
                    /\ disp' = IF ok THEN [disp EXCEPT ![w].pc = "mark"]
                                     ELSE [disp EXCEPT ![w] = IdleDispatcher]
    /\ UNCHANGED <<dbVars, submit, run>>

\* The dispatcher after its row e is marked.
NextRow(w, e) ==
    LET rest == disp[w].batch \ {e}
    IN  IF rest = {} THEN IdleDispatcher
        ELSE [pc |-> "publish", batch |-> rest,
              queued |-> disp[w].queued \ {e}]

\* MarkPublishSucceeded, then the next row; an error gives up the batch.
DispatchMark(w) ==
    /\ disp[w].pc = "mark"
    /\ \E e \in Executions :
         /\ IsHead(w, e)
         /\ \/ MarkPublished(e) /\ disp' = [disp EXCEPT ![w] = NextRow(w, e)]
               /\ NoFault
            \/ MarkPublished(e) /\ disp' = [disp EXCEPT ![w] = IdleDispatcher]
               /\ Fault("outbox")
            \/ UNCHANGED outbox /\ disp' = [disp EXCEPT ![w] = IdleDispatcher]
               /\ Fault("outbox")
    /\ UNCHANGED <<status, attempt, rank, queueVars, submit, run>>

(***************************************************************************)
(* Processor.Process and AsynqHandler.ProcessTask: the handler goroutine   *)
(***************************************************************************)
\* A slot whose two goroutines have both ended is free again.
Freed(r) == IF r.h = "none" /\ r.a = "none" THEN IdleRun ELSE r

\* ProcessTask returns: "revoke" stands for errors joined with RevokeTask
\* (context errors and ErrExecutionConflict), "error" for every other error.
Return(s, result) ==
    run' = [run EXCEPT ![s] = Freed([@ EXCEPT !.h = "none", !.res = result])]

Goto(s, pc) == run' = [run EXCEPT ![s].h = pc]

\* The server hands a task to a free slot; Process gets Retried + 1 as its
\* attempt.  A task type the mux does not know fails without a call.
Dequeue(s, e) ==
    /\ run[s] = IdleRun
    /\ queue[e] = "pending"
    /\ queue' = [queue EXCEPT ![e] = "active"]
    /\ run' = [run EXCEPT ![s] =
         [exec |-> e, n |-> retried[e] + 1,
          h    |-> IF e \in Routable THEN "get" ELSE "none",
          a    |-> "wait",
          res  |-> IF e \in Routable THEN "none" ELSE "error",
          ctx  |-> "live", lease |-> TRUE]]
    /\ UNCHANGED <<dbVars, submit, disp, retried, lock, enqueued, faults>>

\* GetExecution and ValidateTransition(status, running).
GetExecution(s) ==
    /\ run[s].h = "get"
    /\ \/ /\ run[s].ctx = "live"
          /\ ValidTransition(status[run[s].exec], "running")
          /\ Goto(s, "claim")
          /\ NoFault
       \/ /\ run[s].ctx = "live"
          /\ ~ValidTransition(status[run[s].exec], "running")
          /\ Return(s, "error")
          /\ NoFault
       \/ run[s].ctx = "live" /\ Return(s, "error") /\ Fault("db")
       \/ run[s].ctx = "done" /\ Return(s, "revoke") /\ NoFault
    /\ UNCHANGED <<dbVars, queueVars, submit, disp>>

\* ClaimExecution.  A statement that fails, or whose context expires, may
\* have been executed.
ClaimExecution(s) ==
    LET e == run[s].exec
        n == run[s].n
    IN
    /\ run[s].h = "claim"
    /\ \/ /\ run[s].ctx = "live" /\ Claimable(e, n)
          /\ Claimed(e, n) /\ Goto(s, "handle") /\ NoFault
       \/ /\ run[s].ctx = "live" /\ ~Claimable(e, n)
          /\ UNCHANGED <<status, attempt>> /\ Return(s, "revoke") /\ NoFault
       \/ /\ run[s].ctx = "live" /\ Return(s, "error") /\ Fault("db")
          /\ \/ UNCHANGED <<status, attempt>>
             \/ Claimable(e, n) /\ Claimed(e, n)
       \/ /\ run[s].ctx = "done" /\ Return(s, "revoke") /\ NoFault
          /\ \/ UNCHANGED <<status, attempt>>
             \/ Claimable(e, n) /\ Claimed(e, n)
    /\ UNCHANGED <<rank, outbox, queueVars, submit, disp>>

\* Handler.Handle ends: with success, with an error, with the error of the
\* expired task context, or with a context error of the handler's own, which
\* ProcessTask revokes although no status was written.
Handle(s) ==
    /\ run[s].h = "handle"
    /\ \/ Goto(s, "succeed") /\ NoFault
       \/ Return(s, "error") /\ NoFault
       \/ run[s].ctx = "done" /\ Goto(s, "cancel") /\ NoFault
       \/ run[s].ctx = "live" /\ Return(s, "revoke") /\ Fault("inner")
    /\ UNCHANGED <<dbVars, queueVars, submit, disp>>

\* UpdateExecution(succeeded) under the task's context.
MarkSucceeded(s) ==
    LET e == run[s].exec
        n == run[s].n
    IN
    /\ run[s].h = "succeed"
    /\ \/ /\ run[s].ctx = "live"
          /\ UpdateExecution(e, "running", n, "succeeded")
          /\ Return(s, IF Matches(e, "running", n) THEN "ok" ELSE "revoke")
          /\ NoFault
       \/ /\ run[s].ctx = "live" /\ Return(s, "error") /\ Fault("db")
          /\ \/ UNCHANGED <<status, attempt>>
             \/ UpdateExecution(e, "running", n, "succeeded")
       \/ /\ run[s].ctx = "done" /\ Return(s, "revoke") /\ NoFault
          /\ \/ UNCHANGED <<status, attempt>>
             \/ UpdateExecution(e, "running", n, "succeeded")
    /\ UNCHANGED <<rank, outbox, queueVars, submit, disp>>

\* UpdateExecution(cancelled) under a context of its own; the context error
\* is returned whether or not the update went through.
MarkCancelled(s) ==
    /\ run[s].h = "cancel"
    /\ \/ UpdateExecution(run[s].exec, "running", run[s].n, "cancelled") /\ NoFault
       \/ UNCHANGED <<status, attempt>> /\ Fault("db")
    /\ Return(s, "revoke")
    /\ UNCHANGED <<rank, outbox, queueVars, submit, disp>>

(***************************************************************************)
(* The Asynq goroutine of a slot, FailureHandler.HandleError included      *)
(***************************************************************************)
Detached(r) == Freed([r EXCEPT !.a = "none"])

\* Faulty variant: one retry too few.
Exhausted_Early(s) == run[s].n >= MaxRetries[run[s].exec]

\* retryCount >= maxRetry.
Exhausted(s) == run[s].n > MaxRetries[run[s].exec]

\* The task leaves the queue; a worker without a lease writes nothing.
MarkDone(s) ==
    LET e == run[s].exec IN
    IF run[s].lease
    THEN /\ queue' = [queue EXCEPT ![e] = "absent"]
         /\ lock' = [lock EXCEPT ![e] = FALSE]
         /\ UNCHANGED <<retried, enqueued>>
    ELSE UNCHANGED queueVars

\* The task is put back with Retried + 1.
Retry(s) ==
    LET e == run[s].exec IN
    IF run[s].lease
    THEN /\ queue' = [queue EXCEPT ![e] = "pending"]
         /\ retried' = [retried EXCEPT ![e] = run[s].n]
         /\ UNCHANGED <<lock, enqueued>>
    ELSE UNCHANGED queueVars

\* The task is moved to the archive.
ArchiveTask(s) ==
    IF run[s].lease
    THEN /\ queue' = [queue EXCEPT ![run[s].exec] = "archived"]
         /\ UNCHANGED <<retried, lock, enqueued>>
    ELSE UNCHANGED queueVars

\* Process has returned.  Success and RevokeTask remove the task (HandleError
\* ignores RevokeTask); another error is retried until the retries are
\* exhausted, when HandleError calls Fail before Asynq archives the task.
TakeResult(s) ==
    /\ run[s].a = "wait"
    /\ run[s].res # "none"
    /\ \/ /\ run[s].res \in {"ok", "revoke"}
          /\ MarkDone(s)
          /\ run' = [run EXCEPT ![s] = Detached(@)]
       \/ /\ run[s].res = "error" /\ ~Exhausted(s)
          /\ Retry(s)
          /\ run' = [run EXCEPT ![s] = Detached(@)]
       \/ /\ run[s].res = "error" /\ Exhausted(s)
          /\ run' = [run EXCEPT ![s].a = "failget"]
          /\ UNCHANGED queueVars
    /\ UNCHANGED <<dbVars, submit, disp, faults>>

\* The task's context is done before Process has returned: HandleError ignores
\* the context error, Asynq retries or archives, Process runs on by itself.
TakeContextDone(s) ==
    /\ run[s].a = "wait"
    /\ run[s].ctx = "done"
    /\ IF Exhausted(s) THEN ArchiveTask(s) ELSE Retry(s)
    /\ run' = [run EXCEPT ![s] = Detached(@)]
    /\ UNCHANGED <<dbVars, submit, disp, faults>>

\* The lease is lost: HandleError gets ErrLeaseExpired, which is no context
\* error, and the task's context is cancelled.
TakeLeaseLost(s) ==
    /\ run[s].a = "wait"
    /\ ~run[s].lease
    /\ run' = [run EXCEPT ![s] =
         IF Exhausted(s) THEN [@ EXCEPT !.a = "failget", !.ctx = "done"]
                         ELSE Detached([@ EXCEPT !.ctx = "done"])]
    /\ UNCHANGED <<dbVars, queueVars, submit, disp, faults>>

\* Processor.Fail: GetExecution and ValidateTransition(status, failed).
FailGet(s) ==
    /\ run[s].a = "failget"
    /\ \/ /\ ValidTransition(status[run[s].exec], "failed")
          /\ run' = [run EXCEPT ![s].a = "failupdate"]
          /\ NoFault
       \/ /\ ~ValidTransition(status[run[s].exec], "failed")
          /\ run' = [run EXCEPT ![s].a = "archive"]
          /\ NoFault
       \/ run' = [run EXCEPT ![s].a = "archive"] /\ Fault("db")
    /\ UNCHANGED <<dbVars, queueVars, submit, disp>>

\* Processor.Fail: UpdateExecution(failed), which expects the status running.
FailUpdate(s) ==
    /\ run[s].a = "failupdate"
    /\ \/ UpdateExecution(run[s].exec, "running", run[s].n, "failed") /\ NoFault
       \/ UNCHANGED <<status, attempt>> /\ Fault("db")
    /\ run' = [run EXCEPT ![s].a = "archive"]
    /\ UNCHANGED <<rank, outbox, queueVars, submit, disp>>

\* HandleError has returned; Asynq archives the task.
Archive(s) ==
    /\ run[s].a = "archive"
    /\ ArchiveTask(s)
    /\ run' = [run EXCEPT ![s] = Detached(@)]
    /\ UNCHANGED <<dbVars, submit, disp, faults>>

(***************************************************************************)
(* The environment of the workers                                          *)
(***************************************************************************)
\* The deadline of a task passes (Timeout of its submission).
Expire(s) ==
    /\ run[s].exec # NoExec
    /\ run[s].ctx = "live"
    /\ Fault("deadline")
    /\ run' = [run EXCEPT ![s].ctx = "done"]
    /\ UNCHANGED <<dbVars, queueVars, submit, disp>>

\* The worker could not extend its lease in time.
LoseLease(s) ==
    /\ run[s].a # "none"
    /\ run[s].lease
    /\ Fault("lease")
    /\ run' = [run EXCEPT ![s].lease = FALSE]
    /\ UNCHANGED <<dbVars, queueVars, submit, disp>>

\* Shutdown waits no longer: the task goes back to the queue with the same
\* Retried, and Process runs on until the process ends.
Abort(s) ==
    /\ run[s].a = "wait"
    /\ Fault("abort")
    /\ queue' = IF run[s].lease
                THEN [queue EXCEPT ![run[s].exec] = "pending"]
                ELSE queue
    /\ run' = [run EXCEPT ![s] = Detached(@)]
    /\ UNCHANGED <<dbVars, submit, disp, retried, lock, enqueued>>

\* A worker process stops, with its slots and its dispatcher.
Crash(w) ==
    /\ \/ disp[w] # IdleDispatcher
       \/ \E s \in Slots : Host[s] = w /\ run[s] # IdleRun
    /\ Fault("crash")
    /\ run' = [s \in Slots |-> IF Host[s] = w THEN IdleRun ELSE run[s]]
    /\ disp' = [disp EXCEPT ![w] = IdleDispatcher]
    /\ UNCHANGED <<dbVars, queueVars, submit>>

\* Asynq's recoverer finds an active task nobody holds a lease on.  It calls
\* no error handler.
Recover(e) ==
    /\ queue[e] = "active"
    /\ \A s \in Slots :
         ~(run[s].exec = e /\ run[s].a # "none" /\ run[s].lease)
    /\ IF retried[e] >= MaxRetries[e]
       THEN /\ queue' = [queue EXCEPT ![e] = "archived"]
            /\ UNCHANGED retried
       ELSE /\ queue' = [queue EXCEPT ![e] = "pending"]
            /\ retried' = [retried EXCEPT ![e] = @ + 1]
    /\ UNCHANGED <<dbVars, submit, disp, lock, enqueued, run, faults>>

\* The unique lock expires after UniqueFor.
LockExpire(e) ==
    /\ lock[e]
    /\ lock' = [lock EXCEPT ![e] = FALSE]
    /\ UNCHANGED <<dbVars, submit, disp, queue, retried, enqueued, run, faults>>

\* Everything submitted has come to rest.
Quiescent ==
    /\ \A e \in Executions : /\ submit[e] = "done"
                             /\ outbox[e] # "pending"
                             /\ queue[e] \in {"absent", "archived"}
                             /\ ~lock[e]
    /\ \A w \in Workers : disp[w] = IdleDispatcher
    /\ \A s \in Slots : run[s] = IdleRun

Rest == Quiescent /\ UNCHANGED vars

SubmitNext(e) ==
    SubmitReject(e) \/ SubmitCreate(e) \/ SubmitPublish(e) \/ SubmitMark(e)
    \/ SubmitFail(e) \/ SubmitCrash(e)

DispatchNext(w) == DispatchList(w) \/ DispatchPublish(w) \/ DispatchMark(w)

HandlerNext(s) ==
    GetExecution(s) \/ ClaimExecution(s) \/ Handle(s) \/ MarkSucceeded(s)
    \/ MarkCancelled(s)

ServerNext(s) ==
    TakeResult(s) \/ TakeContextDone(s) \/ TakeLeaseLost(s) \/ FailGet(s)
    \/ FailUpdate(s) \/ Archive(s)

Next ==
    \/ \E e \in Executions : SubmitNext(e) \/ Recover(e) \/ LockExpire(e)
    \/ \E w \in Workers : DispatchNext(w) \/ Crash(w)
    \/ \E s \in Slots : \/ \E e \in Executions : Dequeue(s, e)
                        \/ HandlerNext(s) \/ ServerNext(s)
                        \/ Expire(s) \/ LoseLease(s) \/ Abort(s)
    \/ Rest

Spec == Init /\ [][Next]_vars

(***************************************************************************)
(* Fairness.  A Submit call, the dispatcher's ticker, the Asynq server and *)
(* the handlers all make progress; locks expire.  Nothing is assumed of    *)
(* failures, nor that a client ever submits.                               *)
(***************************************************************************)
Fairness ==
    /\ \A e \in Executions :
         /\ WF_vars(SubmitPublish(e) \/ SubmitMark(e) \/ SubmitFail(e))
         /\ WF_vars(\E s \in Slots : Dequeue(s, e))
         /\ WF_vars(Recover(e))
         /\ WF_vars(LockExpire(e))
    /\ \A w \in Workers : WF_vars(DispatchNext(w))
    /\ \A s \in Slots : WF_vars(HandlerNext(s)) /\ WF_vars(ServerNext(s))

FairSpec == Spec /\ Fairness

(***************************************************************************)
(* Safety                                                                  *)
(***************************************************************************)
\* The slot's claim went through and Process has not returned yet.
Holding(s) == run[s].h \in {"handle", "succeed", "cancel"}

\* The handler of one attempt of an execution never runs twice at a time:
\* deliveries repeated by a requeue, a lost lease, a crash or a republished
\* outbox row are stopped by the compare-and-set of ClaimTaskExecution.
ClaimExclusive ==
    \A s, t \in Slots :
        Holding(s) /\ Holding(t) /\ run[s].exec = run[t].exec
                   /\ run[s].n = run[t].n => s = t

\* A task has exactly its attempts: no delivery, repeated or recovered, gives
\* Process one beyond MaxRetries + 1, and "failed" is recorded for the last one
\* only, so while retries remain no error path (HandleError, a lost lease, a
\* stale goroutine) closes the execution.  Without an outbox Submit itself fails
\* what it could not publish.
RetriesExact ==
    /\ \A e \in Executions :
         /\ attempt[e] <= MaxRetries[e] + 1
         /\ status[e] = "failed" =>
              \/ attempt[e] = MaxRetries[e] + 1
              \/ ~Outboxed(e) /\ attempt[e] = 0
    /\ \A s \in Slots :
         run[s].exec # NoExec => run[s].n <= MaxRetries[run[s].exec] + 1

\* An outbox row is retired only after its task reached Redis at least once,
\* also when the dispatcher skips the publish because the listed status was
\* no longer queued.
PublishedMeansEnqueued ==
    \A e \in Executions : outbox[e] = "published" => e \in enqueued

\* A recorded outcome is final: late handlers, retries of an archived or
\* republished task and the failure handler never change the row again, and
\* no step makes the attempt counter smaller.
OutcomeFinal ==
    [][\A e \in Executions :
         /\ status[e] \in Terminal =>
              status'[e] = status[e] /\ attempt'[e] = attempt[e]
         /\ attempt'[e] >= attempt[e]]_vars

\* When the retries of a task are exhausted and Asynq has archived it, the
\* execution row says how it ended (TestFailureHandlerSynchronizesRetryExhaustion,
\* TestProcessorMarksRetryExhaustionFailed).
ExhaustionSynchronized ==
    \A e \in Executions :
        (queue[e] = "archived" /\ \A s \in Slots : run[s].exec # e)
            => status[e] \in Terminal

(***************************************************************************)
(* What the pipeline implements                                            *)
(***************************************************************************)
\* The attempts of e whose handlers are running.
handlers == [e \in Executions |->
               {run[s].n : s \in {t \in Slots : Holding(t) /\ run[t].exec = e}}]

TE == INSTANCE TaskExecution
        WITH LastAttempt <- [e \in Executions |-> MaxRetries[e] + 1],
             RejectUnpublished <- FALSE \in OutboxStores

\* The rows of task_executions, as clients see them, behave as the abstract
\* task execution promises: outcomes come from the latest attempt only.
ImplementsTaskExecution == TE!Spec

(***************************************************************************)
(* Liveness                                                                *)
(***************************************************************************)
\* Every outbox row is eventually marked published: after a crash of the API
\* process, a lost publish, a lost mark or a dispatcher that died, a later
\* DispatchPending picks it up; a unique lock held by the row's own task can
\* only delay it.
OutboxDrains ==
    \A e \in Executions : outbox[e] = "pending" ~> outbox[e] = "published"

\* Every accepted submission of a known task type reaches an outcome although
\* the API process may stop anywhere in Submit, and publishes and statements
\* on the outbox may fail with or without effect.
AcceptedFinishes ==
    \A e \in Routable : status[e] = "queued" ~> status[e] \in Terminal
=============================================================================
