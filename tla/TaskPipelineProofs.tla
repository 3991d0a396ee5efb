------------------------- MODULE TaskPipelineProofs -------------------------
(***************************************************************************)
(* Proofs about TaskPipeline, for every set of executions, workers and     *)
(* slots, every retry policy and every number and kind of failures.        *)
(***************************************************************************)
EXTENDS TaskPipeline, TLAPS, FiniteSetTheorems

(***************************************************************************)
(* Type correctness                                                        *)
(***************************************************************************)
\* The records a slot goes through are runs.
LEMMA RunTypes ==
    /\ IdleRun \in Run
    /\ IdleDispatcher \in Dispatcher
    /\ \A r \in Run : Freed(r) \in Run /\ Detached(r) \in Run
    /\ \A r \in Run : \A x \in {"none", "ok", "error", "revoke"} :
         Freed([r EXCEPT !.h = "none", !.res = x]) \in Run
<1>1. IdleRun \in Run
  BY DEF IdleRun, Run
<1>2. IdleDispatcher \in Dispatcher
  BY DEF IdleDispatcher, Dispatcher
<1>3. ASSUME NEW r \in Run PROVE Freed(r) \in Run
  BY <1>1 DEF Freed
<1>4. ASSUME NEW r \in Run PROVE Detached(r) \in Run
  <2>1. [r EXCEPT !.a = "none"] \in Run
    BY DEF Run
  <2> QED
    BY <1>3, <2>1 DEF Detached
<1>5. ASSUME NEW r \in Run, NEW x \in {"none", "ok", "error", "revoke"}
      PROVE  Freed([r EXCEPT !.h = "none", !.res = x]) \in Run
  <2>1. [r EXCEPT !.h = "none", !.res = x] \in Run
    BY DEF Run
  <2> QED
    BY <1>3, <2>1
<1> QED
  BY <1>1, <1>2, <1>3, <1>4, <1>5

\* Publish, by whoever calls it, keeps the queue's types.
LEMMA PublishType ==
    ASSUME TypeOK, NEW e \in Executions, NEW ok \in BOOLEAN, Publish(e, ok)
    PROVE  /\ queue' \in [Executions -> {"absent", "pending", "active", "archived"}]
           /\ retried' \in [Executions -> Nat]
           /\ lock' \in [Executions -> BOOLEAN]
           /\ enqueued' \in SUBSET Executions
           /\ faults' \in Nat
<1>1. ASSUME Enqueue(e)
      PROVE  /\ queue' \in [Executions -> {"absent", "pending", "active", "archived"}]
             /\ retried' \in [Executions -> Nat]
             /\ lock' \in [Executions -> BOOLEAN]
             /\ enqueued' \in SUBSET Executions
  <2>1. lock' \in [Executions -> BOOLEAN]
    BY <1>1 DEF Enqueue, TypeOK
  <2> QED
    BY <1>1, <2>1 DEF Enqueue, TypeOK
<1>2. faults' \in Nat
  BY DEF TypeOK, Publish, Fault, NoFault
<1>3. Enqueue(e) \/ UNCHANGED queueVars
  BY DEF Publish
<1> QED
  BY <1>1, <1>2, <1>3 DEF TypeOK, queueVars

\* The step of the type invariant.
LEMMA TypeStep == TypeOK /\ [Next]_vars => TypeOK'
<1> SUFFICES ASSUME TypeOK, [Next]_vars PROVE TypeOK'
  OBVIOUS
<1>1. ASSUME NEW e \in Executions, SubmitReject(e) PROVE TypeOK'
  BY <1>1 DEF SubmitReject, TypeOK, dbVars, queueVars
<1>2. ASSUME NEW e \in Executions, SubmitCreate(e) PROVE TypeOK'
  <2>1. Cardinality(Rows) \in Nat
    BY FS_Subset, FS_CardinalityType, ConstantsAssumption DEF Rows
  <2> QED
    BY <1>2, <2>1 DEF SubmitCreate, CreateTaskExecution, TypeOK, queueVars, Fault, NoFault, Status
<1>3. ASSUME NEW e \in Executions, SubmitPublish(e) PROVE TypeOK'
  <2>1. PICK ok \in BOOLEAN :
           /\ Publish(e, ok)
           /\ submit' = [submit EXCEPT ![e] =
                  IF Outboxed(e) THEN (IF ok THEN "mark" ELSE "done")
                                 ELSE (IF ok THEN "done" ELSE "fail")]
    BY <1>3 DEF SubmitPublish
  <2>2. submit' \in [Executions -> {"idle", "publish", "mark", "fail", "done"}]
    BY <2>1 DEF TypeOK
  <2> QED
    BY <1>3, <2>1, <2>2, PublishType DEF SubmitPublish, TypeOK, dbVars
<1>4. ASSUME NEW e \in Executions, SubmitMark(e) PROVE TypeOK'
  BY <1>4 DEF SubmitMark, MarkPublished, TypeOK, queueVars, Fault, NoFault
<1>5. ASSUME NEW e \in Executions, SubmitFail(e) PROVE TypeOK'
  BY <1>5 DEF SubmitFail, UpdateExecution, TypeOK, queueVars, Fault, NoFault, Status
<1>6. ASSUME NEW e \in Executions, SubmitCrash(e) PROVE TypeOK'
  BY <1>6 DEF SubmitCrash, TypeOK, dbVars, queueVars, Fault
<1>7. ASSUME NEW e \in Executions, Recover(e) PROVE TypeOK'
  BY <1>7 DEF Recover, TypeOK, dbVars
<1>8. ASSUME NEW e \in Executions, LockExpire(e) PROVE TypeOK'
  BY <1>8 DEF LockExpire, TypeOK, dbVars
<1>9. ASSUME NEW w \in Workers, DispatchList(w) PROVE TypeOK'
  <2>1. Oldest(Pending, BatchLimit) \subseteq Executions
    BY DEF Oldest, Pending
  <2> QED
    BY <1>9, <2>1 DEF DispatchList, TypeOK, Dispatcher, dbVars, queueVars
<1>10. ASSUME NEW w \in Workers, DispatchPublish(w) PROVE TypeOK'
  <2>1. /\ [disp EXCEPT ![w].pc = "mark"] \in [Workers -> Dispatcher]
        /\ [disp EXCEPT ![w] = IdleDispatcher] \in [Workers -> Dispatcher]
    BY DEF TypeOK, Dispatcher, IdleDispatcher
  <2>2. disp' \in [Workers -> Dispatcher]
    BY <1>10, <2>1 DEF DispatchPublish
  <2>3. /\ queue' \in [Executions -> {"absent", "pending", "active", "archived"}]
        /\ retried' \in [Executions -> Nat]
        /\ lock' \in [Executions -> BOOLEAN]
        /\ enqueued' \in SUBSET Executions
        /\ faults' \in Nat
    BY <1>10, PublishType DEF DispatchPublish, TypeOK, queueVars
  <2> QED
    BY <1>10, <2>2, <2>3 DEF DispatchPublish, TypeOK, dbVars
<1>11. ASSUME NEW w \in Workers, DispatchMark(w) PROVE TypeOK'
  <2>1. \A e \in Executions : NextRow(w, e) \in Dispatcher
    BY DEF NextRow, TypeOK, Dispatcher, IdleDispatcher
  <2>2. disp' \in [Workers -> Dispatcher]
    BY <1>11, <2>1, RunTypes DEF DispatchMark, TypeOK
  <2> QED
    BY <1>11, <2>2 DEF DispatchMark, MarkPublished, TypeOK, queueVars, Fault, NoFault
<1>12. ASSUME NEW w \in Workers, Crash(w) PROVE TypeOK'
  <2>1. /\ run' \in [Slots -> Run]
        /\ disp' \in [Workers -> Dispatcher]
    BY <1>12, RunTypes DEF Crash, TypeOK
  <2> QED
    BY <1>12, <2>1 DEF Crash, TypeOK, dbVars, queueVars, Fault
<1>13. ASSUME NEW s \in Slots, NEW e \in Executions, Dequeue(s, e) PROVE TypeOK'
  BY <1>13 DEF Dequeue, TypeOK, Run, dbVars
<1>14. ASSUME NEW s \in Slots, HandlerNext(s) PROVE TypeOK'
  <2>1. run[s] \in Run
    BY DEF TypeOK
  <2>2. /\ \A x \in {"none", "ok", "error", "revoke"} :
             Return(s, x) => run' \in [Slots -> Run]
        /\ \A x \in {"claim", "handle", "succeed", "cancel"} :
             Goto(s, x) => run' \in [Slots -> Run]
    <3>1. ASSUME NEW x \in {"none", "ok", "error", "revoke"}, Return(s, x)
          PROVE  run' \in [Slots -> Run]
      <4>1. Freed([run[s] EXCEPT !.h = "none", !.res = x]) \in Run
        BY <2>1, RunTypes
      <4> QED
        BY <3>1, <4>1 DEF Return, TypeOK
    <3>2. ASSUME NEW x \in {"claim", "handle", "succeed", "cancel"}, Goto(s, x)
          PROVE  run' \in [Slots -> Run]
      BY <3>2 DEF Goto, TypeOK, Run
    <3> QED
      BY <3>1, <3>2
  <2>3. CASE GetExecution(s)
    BY <2>2, <2>3 DEF GetExecution, TypeOK, dbVars, queueVars, Fault, NoFault
  <2>4. CASE ClaimExecution(s)
    <3>1. run' \in [Slots -> Run] /\ faults' \in Nat
      BY <2>2, <2>4 DEF ClaimExecution, TypeOK, Fault, NoFault
    <3>2. /\ status' \in [Executions -> Status \cup {"none"}]
          /\ attempt' \in [Executions -> Nat]
      BY <2>1, <2>4 DEF ClaimExecution, Claimed, TypeOK, Status, Run
    <3> QED
      BY <2>4, <3>1, <3>2 DEF ClaimExecution, TypeOK, queueVars
  <2>5. CASE Handle(s)
    BY <2>2, <2>5 DEF Handle, TypeOK, dbVars, queueVars, Fault, NoFault
  <2>6. CASE MarkSucceeded(s)
    <3>1. run' \in [Slots -> Run] /\ faults' \in Nat
      BY <2>2, <2>6 DEF MarkSucceeded, TypeOK, Fault, NoFault
    <3>2. /\ status' \in [Executions -> Status \cup {"none"}]
          /\ attempt' \in [Executions -> Nat]
      BY <2>6 DEF MarkSucceeded, UpdateExecution, TypeOK, Status
    <3> QED
      BY <2>6, <3>1, <3>2 DEF MarkSucceeded, TypeOK, queueVars
  <2>7. CASE MarkCancelled(s)
    <3>1. run' \in [Slots -> Run] /\ faults' \in Nat
      BY <2>2, <2>7 DEF MarkCancelled, TypeOK, Fault, NoFault
    <3>2. /\ status' \in [Executions -> Status \cup {"none"}]
          /\ attempt' \in [Executions -> Nat]
      BY <2>7 DEF MarkCancelled, UpdateExecution, TypeOK, Status
    <3> QED
      BY <2>7, <3>1, <3>2 DEF MarkCancelled, TypeOK, queueVars
  <2> QED
    BY <1>14, <2>3, <2>4, <2>5, <2>6, <2>7 DEF HandlerNext
<1>15. ASSUME NEW s \in Slots, ServerNext(s) PROVE TypeOK'
  <2>1. run[s] \in Run /\ Detached(run[s]) \in Run /\ run[s].n \in Nat
    BY RunTypes DEF TypeOK, Run
  <2>2. [run EXCEPT ![s] = Detached(@)] \in [Slots -> Run]
    BY <2>1 DEF TypeOK
  <2>3. \A x \in {"failget", "failupdate", "archive"} :
           [run EXCEPT ![s].a = x] \in [Slots -> Run]
    BY <2>1 DEF TypeOK, Run
  <2>4. CASE TakeResult(s)
    BY <2>1, <2>2, <2>3, <2>4
    DEF TakeResult, MarkDone, Retry, TypeOK, dbVars, queueVars
  <2>5. CASE TakeContextDone(s)
    BY <2>1, <2>2, <2>5
    DEF TakeContextDone, ArchiveTask, Retry, TypeOK, dbVars, queueVars
  <2>6. CASE TakeLeaseLost(s)
    <3>1. Detached([run[s] EXCEPT !.ctx = "done"]) \in Run
      <4>1. [run[s] EXCEPT !.ctx = "done"] \in Run
        BY <2>1 DEF Run
      <4> QED
        BY <4>1, RunTypes
    <3>2. [run[s] EXCEPT !.a = "failget", !.ctx = "done"] \in Run
      BY <2>1 DEF Run
    <3> QED
      BY <2>6, <3>1, <3>2 DEF TakeLeaseLost, TypeOK, dbVars, queueVars
  <2>7. CASE FailGet(s)
    BY <2>3, <2>7 DEF FailGet, TypeOK, dbVars, queueVars, Fault, NoFault
  <2>8. CASE FailUpdate(s)
    BY <2>3, <2>8
    DEF FailUpdate, UpdateExecution, TypeOK, queueVars, Fault, NoFault, Status
  <2>9. CASE Archive(s)
    BY <2>2, <2>9 DEF Archive, ArchiveTask, TypeOK, dbVars, queueVars
  <2> QED
    BY <1>15, <2>4, <2>5, <2>6, <2>7, <2>8, <2>9 DEF ServerNext
<1>16. ASSUME NEW s \in Slots, Expire(s) \/ LoseLease(s) PROVE TypeOK'
  <2>1. /\ [run[s] EXCEPT !.ctx = "done"] \in Run
        /\ [run[s] EXCEPT !.lease = FALSE] \in Run
    <3>1. run[s] \in Run
      BY DEF TypeOK
    <3> QED
      BY <3>1 DEF Run
  <2>2. run' \in [Slots -> Run]
    BY <1>16, <2>1 DEF Expire, LoseLease, TypeOK
  <2> QED
    BY <1>16, <2>2 DEF Expire, LoseLease, TypeOK, dbVars, queueVars, Fault
<1>17. ASSUME NEW s \in Slots, Abort(s) PROVE TypeOK'
  <2>1. Detached(run[s]) \in Run
    BY RunTypes DEF TypeOK
  <2> QED
    <3>1. run' \in [Slots -> Run]
      BY <1>17, <2>1 DEF Abort, TypeOK
    <3>2. queue' \in [Executions -> {"absent", "pending", "active", "archived"}]
      BY <1>17 DEF Abort, TypeOK
    <3> QED
      BY <1>17, <3>1, <3>2 DEF Abort, TypeOK, dbVars, Fault
<1>18. CASE UNCHANGED vars
  BY <1>18 DEF TypeOK, vars
<1> QED
  BY <1>1, <1>2, <1>3, <1>4, <1>5, <1>6, <1>7, <1>8, <1>9, <1>10, <1>11,
     <1>12, <1>13, <1>14, <1>15, <1>16, <1>17, <1>18
  DEF Next, SubmitNext, DispatchNext, Rest

\* Every variable keeps its type in every step (the column constraints of
\* task_executions and the program counters of Submit, DispatchPending,
\* Process and HandleError).
THEOREM TypeCorrect == Spec => []TypeOK
<1>1. Init => TypeOK
  BY DEF Init, TypeOK, Status, IdleRun, Run, IdleDispatcher, Dispatcher
<1> QED
  BY <1>1, TypeStep, PTL DEF Spec

(***************************************************************************)
(* What a step does to one row of task_executions and to one slot          *)
(***************************************************************************)
\* The ways a row changes: created, claimed, finished by the holder of its
\* attempt, failed by HandleError, or failed by Submit without an outbox.
RowCreated(e) ==
    /\ submit[e] = "idle"
    /\ submit'[e] # "idle"
    /\ status'[e] = "queued"
    /\ attempt'[e] = 0

RowClaimed(e) ==
    \E s \in Slots : /\ run[s].h = "claim" /\ run[s].exec = e
                     /\ status[e] \in {"queued", "running"}
                     /\ attempt[e] < run[s].n
                     /\ status'[e] = "running"
                     /\ attempt'[e] = run[s].n

RowFinished(e) ==
    \E s \in Slots : /\ Holding(s) /\ run[s].exec = e /\ run[s].n = attempt[e]
                     /\ status[e] = "running"
                     /\ status'[e] \in {"succeeded", "cancelled"}
                     /\ attempt'[e] = attempt[e]

RowFailed(e) ==
    \E s \in Slots : /\ run[s].a = "failupdate" /\ run[s].exec = e
                     /\ run[s].n = attempt[e]
                     /\ status[e] = "running"
                     /\ status'[e] = "failed"
                     /\ attempt'[e] = attempt[e]

RowUnpublished(e) ==
    /\ submit[e] = "fail"
    /\ status[e] = "queued" /\ attempt[e] = 0
    /\ status'[e] = "failed" /\ attempt'[e] = 0

RowKept(e) == status'[e] = status[e] /\ attempt'[e] = attempt[e]

\* UpdateTaskExecutionStatus on one row.
LEMMA UpdateRow ==
    ASSUME TypeOK, NEW e, NEW f \in Executions, NEW es, NEW n, NEW new,
           UpdateExecution(e, es, n, new)
    PROVE  \/ RowKept(f)
           \/ /\ e = f /\ status[f] = es /\ attempt[f] = n
              /\ status'[f] = new /\ attempt'[f] = attempt[f]
  BY DEF TypeOK, UpdateExecution, Matches, RowKept

\* A row of task_executions changes in one of the five ways only.
LEMMA RowStep ==
    ASSUME TypeOK, [Next]_vars, NEW e \in Executions
    PROVE  \/ RowKept(e) \/ RowCreated(e) \/ RowClaimed(e) \/ RowFinished(e)
           \/ RowFailed(e) \/ RowUnpublished(e)
<1>1. ASSUME NEW f \in Executions, SubmitCreate(f)
      PROVE  RowKept(e) \/ RowCreated(e)
  BY <1>1 DEF SubmitCreate, CreateTaskExecution, RowKept, RowCreated, TypeOK
<1>2. ASSUME NEW f \in Executions, SubmitFail(f)
      PROVE  RowKept(e) \/ RowUnpublished(e)
  <2>1. CASE UNCHANGED <<status, attempt>>
    BY <2>1 DEF RowKept
  <2>2. CASE UpdateExecution(f, "queued", 0, "failed")
    BY <1>2, <2>2, UpdateRow DEF SubmitFail, RowUnpublished
  <2> QED
    BY <1>2, <2>1, <2>2 DEF SubmitFail
<1>3. ASSUME NEW s \in Slots, ClaimExecution(s)
      PROVE  RowKept(e) \/ RowClaimed(e)
  <2>1. CASE UNCHANGED <<status, attempt>>
    BY <2>1 DEF RowKept
  <2>2. CASE Claimable(run[s].exec, run[s].n) /\ Claimed(run[s].exec, run[s].n)
    <3>1. CASE run[s].exec = e
      BY <1>3, <2>2, <3>1 DEF ClaimExecution, Claimable, Claimed, RowClaimed, TypeOK
    <3>2. CASE run[s].exec # e
      BY <2>2, <3>2 DEF Claimed, RowKept, TypeOK
    <3> QED
      BY <3>1, <3>2
  <2> QED
    BY <1>3, <2>1, <2>2 DEF ClaimExecution
<1>4. ASSUME NEW s \in Slots, MarkSucceeded(s)
      PROVE  RowKept(e) \/ RowFinished(e)
  <2>1. CASE UNCHANGED <<status, attempt>>
    BY <2>1 DEF RowKept
  <2>2. CASE UpdateExecution(run[s].exec, "running", run[s].n, "succeeded")
    BY <1>4, <2>2, UpdateRow DEF MarkSucceeded, RowFinished, Holding
  <2> QED
    BY <1>4, <2>1, <2>2 DEF MarkSucceeded
<1>5. ASSUME NEW s \in Slots, MarkCancelled(s)
      PROVE  RowKept(e) \/ RowFinished(e)
  <2>1. CASE UNCHANGED <<status, attempt>>
    BY <2>1 DEF RowKept
  <2>2. CASE UpdateExecution(run[s].exec, "running", run[s].n, "cancelled")
    BY <1>5, <2>2, UpdateRow DEF MarkCancelled, RowFinished, Holding
  <2> QED
    BY <1>5, <2>1, <2>2 DEF MarkCancelled
<1>6. ASSUME NEW s \in Slots, FailUpdate(s)
      PROVE  RowKept(e) \/ RowFailed(e)
  <2>1. CASE UNCHANGED <<status, attempt>>
    BY <2>1 DEF RowKept
  <2>2. CASE UpdateExecution(run[s].exec, "running", run[s].n, "failed")
    BY <1>6, <2>2, UpdateRow DEF FailUpdate, RowFailed
  <2> QED
    BY <1>6, <2>1, <2>2 DEF FailUpdate
<1>7. ASSUME NEW f \in Executions,
             \/ SubmitReject(f) \/ SubmitPublish(f) \/ SubmitMark(f)
             \/ SubmitCrash(f) \/ Recover(f) \/ LockExpire(f)
      PROVE  RowKept(e)
  BY <1>7 DEF SubmitReject, SubmitPublish, SubmitMark, SubmitCrash, Recover,
              LockExpire, dbVars, RowKept
<1>8. ASSUME NEW w \in Workers, DispatchNext(w) \/ Crash(w)
      PROVE  RowKept(e)
  BY <1>8 DEF DispatchNext, DispatchList, DispatchPublish, DispatchMark, Crash,
              dbVars, RowKept
<1>9. ASSUME NEW s \in Slots,
             \/ \E f \in Executions : Dequeue(s, f)
             \/ GetExecution(s) \/ Handle(s)
             \/ TakeResult(s) \/ TakeContextDone(s) \/ TakeLeaseLost(s)
             \/ FailGet(s) \/ Archive(s)
             \/ Expire(s) \/ LoseLease(s) \/ Abort(s)
      PROVE  RowKept(e)
  BY <1>9 DEF Dequeue, GetExecution, Handle, TakeResult, TakeContextDone,
              TakeLeaseLost, FailGet, Archive, Expire, LoseLease, Abort, dbVars,
              RowKept
<1>10. CASE UNCHANGED vars
  BY <1>10 DEF vars, RowKept
<1> QED
  BY <1>1, <1>2, <1>3, <1>4, <1>5, <1>6, <1>7, <1>8, <1>9, <1>10
  DEF Next, SubmitNext, DispatchNext, HandlerNext, ServerNext, Rest

\* The ways a slot changes: freed, given a task, or its two goroutines move on
\* with the execution and the attempt they have.
SlotStarted(t) ==
    \E e \in Executions : /\ queue[e] = "pending"
                          /\ run'[t].exec = e /\ run'[t].n = retried[e] + 1
                          /\ run'[t].h \in {"get", "none"} /\ run'[t].a = "wait"

HandlerMoved(t) ==
    \/ run'[t].h \in {run[t].h, "none"}
    \/ run[t].h = "get" /\ run'[t].h = "claim"
    \/ /\ run[t].h = "claim" /\ run'[t].h = "handle"
       /\ Claimable(run[t].exec, run[t].n)
       /\ attempt' = [attempt EXCEPT ![run[t].exec] = run[t].n]
       /\ run' = [run EXCEPT ![t].h = "handle"]
    \/ run[t].h = "handle" /\ run'[t].h \in {"succeed", "cancel"}

ServerMoved(t) ==
    \/ run'[t].a \in {run[t].a, "none"}
    \/ run[t].a = "wait" /\ run'[t].a = "failget" /\ Exhausted(t)
    \/ run[t].a = "failget" /\ run'[t].a \in {"failupdate", "archive"}
    \/ run[t].a = "failupdate" /\ run'[t].a = "archive"

SlotMoved(t) ==
    /\ run[t].h # "none" \/ run[t].a # "none" \/ run[t].exec # NoExec
    /\ run'[t].exec = run[t].exec
    /\ run'[t].n = run[t].n
    /\ HandlerMoved(t)
    /\ ServerMoved(t)

SlotKept(t) == run'[t] = run[t]

SlotFreed(t) == run'[t] = IdleRun

\* The end of the handler goroutine, as seen from its slot.
LEMMA ReturnSlot ==
    ASSUME TypeOK, NEW s \in Slots, NEW t \in Slots, NEW x,
           run[s].h # "none", Return(s, x)
    PROVE  SlotKept(t) \/ SlotFreed(t) \/ SlotMoved(t)
<1>1. CASE t # s
  BY <1>1 DEF Return, SlotKept, TypeOK
<1>2. CASE t = s
  <2> DEFINE r == [run[s] EXCEPT !.h = "none", !.res = x]
  <2>1. run'[t] = Freed(r)
    BY <1>2 DEF Return, TypeOK
  <2>2. CASE Freed(r) = IdleRun
    BY <2>1, <2>2 DEF SlotFreed
  <2>3. CASE Freed(r) = r
    <3>1. run[s] \in Run
      BY DEF TypeOK
    <3>2. /\ r.exec = run[s].exec /\ r.n = run[s].n
          /\ r.h = "none" /\ r.a = run[s].a
      BY <3>1 DEF Run
    <3> QED
      BY <1>2, <2>1, <2>3, <3>2 DEF SlotMoved, HandlerMoved, ServerMoved
  <2> QED
    BY <2>2, <2>3 DEF Freed
<1> QED
  BY <1>1, <1>2

\* The end of the server goroutine, as seen from its slot.
LEMMA DetachSlot ==
    ASSUME TypeOK, NEW s \in Slots, NEW t \in Slots, NEW r0 \in Run,
           run[s].a # "none",
           r0.exec = run[s].exec, r0.n = run[s].n, r0.h = run[s].h,
           run' = [run EXCEPT ![s] = Detached(r0)]
    PROVE  SlotKept(t) \/ SlotFreed(t) \/ SlotMoved(t)
<1>1. CASE t # s
  BY <1>1 DEF SlotKept, TypeOK
<1>2. CASE t = s
  <2> DEFINE r == [r0 EXCEPT !.a = "none"]
  <2>1. run'[t] = Freed(r)
    BY <1>2 DEF Detached, TypeOK
  <2>2. CASE Freed(r) = IdleRun
    BY <2>1, <2>2 DEF SlotFreed
  <2>3. CASE Freed(r) = r
    <3>1. /\ r.exec = run[s].exec /\ r.n = run[s].n
          /\ r.h = run[s].h /\ r.a = "none"
      BY DEF Run
    <3> QED
      BY <1>2, <2>1, <2>3, <3>1 DEF SlotMoved, HandlerMoved, ServerMoved
  <2> QED
    BY <2>2, <2>3 DEF Freed
<1> QED
  BY <1>1, <1>2

\* A slot changes in one of these ways only.
LEMMA SlotStep ==
    ASSUME TypeOK, [Next]_vars, NEW t \in Slots
    PROVE  SlotKept(t) \/ SlotFreed(t) \/ SlotStarted(t) \/ SlotMoved(t)
<1>1. ASSUME NEW e \in Executions, SubmitNext(e) \/ Recover(e) \/ LockExpire(e)
      PROVE  SlotKept(t)
  BY <1>1 DEF SubmitNext, SubmitReject, SubmitCreate, CreateTaskExecution, SubmitPublish, SubmitMark,
              SubmitFail, SubmitCrash, Recover, LockExpire, SlotKept
<1>2. ASSUME NEW w \in Workers, DispatchNext(w)
      PROVE  SlotKept(t)
  BY <1>2 DEF DispatchNext, DispatchList, DispatchPublish, DispatchMark, SlotKept
<1>3. ASSUME NEW w \in Workers, Crash(w)
      PROVE  SlotKept(t) \/ SlotFreed(t)
  BY <1>3 DEF Crash, SlotKept, SlotFreed
<1>4. ASSUME NEW s \in Slots, NEW e \in Executions, Dequeue(s, e)
      PROVE  SlotKept(t) \/ SlotStarted(t)
  BY <1>4 DEF Dequeue, SlotKept, SlotStarted, TypeOK
<1>5. ASSUME NEW s \in Slots, HandlerNext(s)
      PROVE  SlotKept(t) \/ SlotFreed(t) \/ SlotMoved(t)
  <2>1. run[s].h # "none"
    BY <1>5 DEF HandlerNext, GetExecution, ClaimExecution, Handle, MarkSucceeded,
                MarkCancelled
  <2>2. CASE \E x : Return(s, x)
    BY <2>1, <2>2, ReturnSlot
  <2>3. CASE t # s /\ \E x : Goto(s, x)
    BY <2>3 DEF Goto, SlotKept, TypeOK
  <2>4. ASSUME t = s, NEW x, Goto(s, x)
        PROVE  /\ run'[t].exec = run[t].exec /\ run'[t].n = run[t].n
               /\ run'[t].a = run[t].a /\ run'[t].h = x
    <3>1. run[s] \in Run /\ run' = [run EXCEPT ![s].h = x]
      BY <2>4 DEF Goto, TypeOK
    <3> QED
      BY <2>4, <3>1 DEF Run, TypeOK
  <2>5. CASE GetExecution(s)
    BY <2>1, <2>2, <2>3, <2>4, <2>5 DEF GetExecution, SlotMoved, HandlerMoved, ServerMoved
  <2>6. CASE ClaimExecution(s)
    <3>1. CASE t = s /\ Goto(s, "handle") /\ Claimable(run[s].exec, run[s].n)
               /\ Claimed(run[s].exec, run[s].n) /\ run[s].h = "claim"
      BY <2>1, <2>4, <3>1 DEF SlotMoved, HandlerMoved, ServerMoved, Claimed, Goto
    <3> QED
      BY <2>2, <2>3, <2>6, <3>1 DEF ClaimExecution
  <2>7. CASE Handle(s)
    BY <2>1, <2>2, <2>3, <2>4, <2>7 DEF Handle, SlotMoved, HandlerMoved, ServerMoved
  <2>8. CASE MarkSucceeded(s) \/ MarkCancelled(s)
    BY <2>2, <2>8 DEF MarkSucceeded, MarkCancelled
  <2> QED
    BY <1>5, <2>5, <2>6, <2>7, <2>8 DEF HandlerNext
<1>6. ASSUME NEW s \in Slots, ServerNext(s) \/ Abort(s)
      PROVE  SlotKept(t) \/ SlotFreed(t) \/ SlotMoved(t)
  <2>1. run[s] \in Run /\ run[s].a # "none"
    BY <1>6 DEF ServerNext, TakeResult, TakeContextDone, TakeLeaseLost, FailGet,
                FailUpdate, Archive, Abort, TypeOK
  <2>2. CASE run' = [run EXCEPT ![s] = Detached(@)]
    <3>1. run' = [run EXCEPT ![s] = Detached(run[s])]
      BY <2>2
    <3> QED
      BY <2>1, <3>1, DetachSlot
  <2>3. ASSUME NEW x, run' = [run EXCEPT ![s].a = x], t = s
        PROVE  /\ run'[t].exec = run[t].exec /\ run'[t].n = run[t].n
               /\ run'[t].h = run[t].h /\ run'[t].a = x
    BY <2>1, <2>3 DEF Run, TypeOK
  <2>4. ASSUME NEW x, run' = [run EXCEPT ![s].a = x], t # s
        PROVE  SlotKept(t)
    BY <2>4 DEF SlotKept, TypeOK
  <2>5. CASE TakeResult(s)
    <3>1. CASE run' = [run EXCEPT ![s].a = "failget"] /\ Exhausted(s)
      BY <2>1, <2>3, <2>4, <2>5, <3>1 DEF TakeResult, SlotMoved, HandlerMoved, ServerMoved
    <3> QED
      BY <2>2, <2>5, <3>1 DEF TakeResult
  <2>6. CASE TakeLeaseLost(s)
    <3>1. CASE Exhausted(s)
      <4>1. run' = [run EXCEPT ![s] = [run[s] EXCEPT !.a = "failget", !.ctx = "done"]]
        BY <2>6, <3>1 DEF TakeLeaseLost
      <4>2. CASE t # s
        BY <4>1, <4>2 DEF SlotKept, TypeOK
      <4>3. CASE t = s
        <5>1. /\ run'[t].exec = run[t].exec /\ run'[t].n = run[t].n
              /\ run'[t].h = run[t].h /\ run'[t].a = "failget"
          BY <2>1, <4>1, <4>3 DEF Run, TypeOK
        <5> QED
          BY <2>1, <2>6, <3>1, <4>3, <5>1
          DEF TakeLeaseLost, SlotMoved, HandlerMoved, ServerMoved
      <4> QED
        BY <4>2, <4>3
    <3>2. CASE ~Exhausted(s)
      <4> DEFINE r0 == [run[s] EXCEPT !.ctx = "done"]
      <4>1. /\ r0 \in Run /\ r0.exec = run[s].exec /\ r0.n = run[s].n
            /\ r0.h = run[s].h
        BY <2>1 DEF Run
      <4>2. run' = [run EXCEPT ![s] = Detached(r0)]
        BY <2>6, <3>2 DEF TakeLeaseLost
      <4> HIDE DEF r0
      <4> QED
        BY <2>1, <4>1, <4>2, DetachSlot
    <3> QED
      BY <3>1, <3>2
  <2>7. CASE FailGet(s)
    BY <2>1, <2>3, <2>4, <2>7 DEF FailGet, SlotMoved, HandlerMoved, ServerMoved
  <2>8. CASE FailUpdate(s)
    BY <2>1, <2>3, <2>4, <2>8 DEF FailUpdate, SlotMoved, HandlerMoved, ServerMoved
  <2>9. CASE TakeContextDone(s) \/ Archive(s) \/ Abort(s)
    BY <2>2, <2>9 DEF TakeContextDone, Archive, Abort
  <2> QED
    BY <1>6, <2>5, <2>6, <2>7, <2>8, <2>9 DEF ServerNext
<1>7. ASSUME NEW s \in Slots, Expire(s) \/ LoseLease(s)
      PROVE  SlotKept(t) \/ SlotMoved(t)
  <2>1. run[s] \in Run /\ (run[s].a # "none" \/ run[s].exec # NoExec)
    BY <1>7 DEF Expire, LoseLease, TypeOK
  <2>2. CASE t # s
    BY <1>7, <2>2 DEF Expire, LoseLease, SlotKept, TypeOK
  <2>3. CASE t = s
    <3>1. /\ run'[t].exec = run[t].exec /\ run'[t].n = run[t].n
          /\ run'[t].h = run[t].h /\ run'[t].a = run[t].a
      BY <1>7, <2>1, <2>3 DEF Expire, LoseLease, Run, TypeOK
    <3> QED
      BY <2>1, <2>3, <3>1 DEF SlotMoved, HandlerMoved, ServerMoved
  <2> QED
    BY <2>2, <2>3
<1>8. CASE UNCHANGED vars
  BY <1>8 DEF vars, SlotKept
<1> QED
  BY <1>1, <1>2, <1>3, <1>4, <1>5, <1>6, <1>7, <1>8 DEF Next, Rest

(***************************************************************************)
(* The inductive invariant behind the claims                               *)
(***************************************************************************)
\* A submission that was not made has no row.
Fresh == \A e \in Executions :
            submit[e] = "idle" => status[e] = "none" /\ attempt[e] = 0

\* A goroutine works on an execution.
Busy == \A s \in Slots :
            run[s].h # "none" \/ run[s].a # "none" => run[s].exec \in Executions

\* Whoever holds a claim holds an attempt the row has reached or passed.
Behind == \A s \in Slots : Holding(s) => run[s].n <= attempt[run[s].exec]

ClaimInv == TypeOK /\ Fresh /\ Busy /\ Behind /\ ClaimExclusive

\* Only Submit moves a submission.
LEMMA SubmitStep ==
    ASSUME [Next]_vars
    PROVE  submit' = submit \/ \E e \in Executions : SubmitNext(e)
<1>1. ASSUME NEW f \in Executions, Recover(f) \/ LockExpire(f) PROVE submit' = submit
  BY <1>1 DEF Recover, LockExpire
<1>2. ASSUME NEW w \in Workers, DispatchNext(w) \/ Crash(w) PROVE submit' = submit
  BY <1>2 DEF DispatchNext, DispatchList, DispatchPublish, DispatchMark, Crash
<1>3. ASSUME NEW s \in Slots, (\E f \in Executions : Dequeue(s, f)) \/ HandlerNext(s)
      PROVE  submit' = submit
  BY <1>3 DEF Dequeue, HandlerNext, GetExecution, ClaimExecution, Handle, MarkSucceeded,
              MarkCancelled
<1>4. ASSUME NEW s \in Slots, ServerNext(s) \/ Expire(s) \/ LoseLease(s) \/ Abort(s)
      PROVE  submit' = submit
  BY <1>4 DEF ServerNext, TakeResult, TakeContextDone, TakeLeaseLost, FailGet, FailUpdate,
              Archive, Expire, LoseLease, Abort
<1>5. CASE UNCHANGED vars
  BY <1>5 DEF vars
<1> QED
  BY <1>1, <1>2, <1>3, <1>4, <1>5 DEF Next, Rest

LEMMA SubmitStaysBegun ==
    ASSUME TypeOK, [Next]_vars, NEW e \in Executions, submit'[e] = "idle"
    PROVE  submit[e] = "idle"
<1>1. ASSUME NEW f \in Executions, SubmitNext(f) PROVE submit[e] = "idle"
  BY <1>1 DEF SubmitNext, SubmitReject, SubmitCreate, CreateTaskExecution, SubmitPublish, SubmitMark,
              SubmitFail, SubmitCrash, TypeOK
<1> QED
  BY <1>1, SubmitStep

\* The attempt counter of a row never decreases, and a terminal row is kept.
LEMMA RowMonotone ==
    ASSUME TypeOK, Fresh, [Next]_vars, NEW e \in Executions
    PROVE  /\ attempt'[e] >= attempt[e]
           /\ status[e] \in Terminal => RowKept(e)
<1>1. attempt[e] \in Nat /\ \A s \in Slots : run[s].n \in Nat
  BY DEF TypeOK, Run
<1> QED
  BY <1>1, RowStep
  DEF RowKept, RowCreated, RowClaimed, RowFinished, RowFailed, RowUnpublished,
      Fresh, Terminal

\* In a step that makes slot t a holder, t has just claimed a new attempt.
LEMMA HolderStep ==
    ASSUME TypeOK, [Next]_vars, NEW t \in Slots, Holding(t)'
    PROVE  /\ run'[t].exec = run[t].exec /\ run'[t].n = run[t].n
           /\ run[t].h # "none"
           /\ \/ Holding(t)
              \/ /\ Claimable(run[t].exec, run[t].n)
                 /\ attempt' = [attempt EXCEPT ![run[t].exec] = run[t].n]
                 /\ run' = [run EXCEPT ![t].h = "handle"]
  BY SlotStep DEF SlotKept, SlotFreed, SlotStarted, SlotMoved, HandlerMoved, Holding,
                  IdleRun

LEMMA ClaimInvInit == Init => ClaimInv
<1> SUFFICES ASSUME Init PROVE ClaimInv
  OBVIOUS
<1>1. TypeOK
  BY DEF Init, TypeOK, Status, IdleRun, Run, IdleDispatcher, Dispatcher
<1>2. \A s \in Slots : run[s].h = "none" /\ run[s].a = "none"
  BY DEF Init, IdleRun
<1> QED
  BY <1>1, <1>2 DEF Init, ClaimInv, Fresh, Busy, Behind, ClaimExclusive, Holding

\* The invariant is inductive.  A new claim has an attempt above the row's,
\* hence above that of every holder; every other step creates no holder.
LEMMA ClaimInvStep == ClaimInv /\ [Next]_vars => ClaimInv'
<1> SUFFICES ASSUME ClaimInv, [Next]_vars PROVE ClaimInv'
  OBVIOUS
<1> USE DEF ClaimInv
<1>1. TypeOK'
  BY TypeStep
<1>2. Fresh'
  <2> SUFFICES ASSUME NEW e \in Executions, submit'[e] = "idle"
               PROVE  status'[e] = "none" /\ attempt'[e] = 0
    BY DEF Fresh
  <2>1. submit[e] = "idle" /\ status[e] = "none" /\ attempt[e] = 0
    BY SubmitStaysBegun DEF Fresh
  <2> QED
    BY <2>1, RowStep
    DEF RowKept, RowCreated, RowClaimed, RowFinished, RowFailed, RowUnpublished
<1>3. Busy'
  <2> SUFFICES ASSUME NEW t \in Slots, run'[t].h # "none" \/ run'[t].a # "none"
               PROVE  run'[t].exec \in Executions
    BY DEF Busy
  <2>1. run[t] \in Run
    BY DEF TypeOK
  <2> QED
    BY <2>1, SlotStep DEF SlotKept, SlotFreed, SlotStarted, SlotMoved, Busy, IdleRun, Run
<1>4. Behind'
  <2> SUFFICES ASSUME NEW t \in Slots, Holding(t)'
               PROVE  run'[t].n <= attempt'[run'[t].exec]
    BY DEF Behind
  <2> DEFINE e == run[t].exec
  <2>1. /\ run'[t].exec = e /\ run'[t].n = run[t].n /\ e \in Executions
        /\ run[t].n \in Nat /\ attempt[e] \in Nat /\ attempt'[e] \in Nat
    BY <1>1, HolderStep DEF Busy, TypeOK, Run
  <2>2. CASE Holding(t)
    BY <2>1, <2>2, RowMonotone DEF Behind
  <2>3. CASE attempt' = [attempt EXCEPT ![e] = run[t].n]
    BY <2>1, <2>3 DEF TypeOK
  <2> QED
    BY <2>2, <2>3, HolderStep
<1>5. ClaimExclusive'
  <2> SUFFICES ASSUME NEW s \in Slots, NEW t \in Slots, Holding(s)', Holding(t)',
                      run'[s].exec = run'[t].exec, run'[s].n = run'[t].n, s # t
               PROVE  FALSE
    BY DEF ClaimExclusive
  <2>1. /\ run[s].exec = run[t].exec /\ run[s].n = run[t].n
        /\ run[s].exec \in Executions /\ run[s].n \in Nat
        /\ attempt[run[s].exec] \in Nat
    BY HolderStep DEF Busy, TypeOK, Run
  <2>2. ASSUME NEW x \in Slots, NEW y \in Slots, Holding(x), ~Holding(y), Holding(y)',
               run[x].exec = run[y].exec, run[x].n = run[y].n, x # y
        PROVE  FALSE
    <3>1. Claimable(run[y].exec, run[y].n)
      BY <2>2, HolderStep
    <3>2. run[x].n <= attempt[run[x].exec] /\ attempt[run[x].exec] < run[x].n
      BY <2>2, <3>1 DEF Behind, Claimable
    <3>3. run[x].n \in Nat /\ attempt[run[x].exec] \in Nat
      BY <2>2 DEF Busy, Holding, TypeOK, Run
    <3> QED
      BY <3>2, <3>3
  <2>3. CASE Holding(s) /\ Holding(t)
    BY <2>1, <2>3 DEF ClaimExclusive
  <2>4. CASE Holding(s) /\ ~Holding(t)
    BY <2>1, <2>2, <2>4
  <2>5. CASE ~Holding(s) /\ Holding(t)
    BY <2>1, <2>2, <2>5
  <2>6. CASE ~Holding(s) /\ ~Holding(t)
    <3>1. run' = [run EXCEPT ![s].h = "handle"]
      BY <2>6, HolderStep
    <3>2. run'[t] = run[t]
      BY <3>1 DEF TypeOK
    <3> QED
      BY <2>6, <3>2 DEF Holding
  <2> QED
    BY <2>3, <2>4, <2>5, <2>6
<1> QED
  BY <1>1, <1>2, <1>3, <1>4, <1>5

LEMMA ClaimInvariant == Spec => []ClaimInv
  BY ClaimInvInit, ClaimInvStep, PTL DEF Spec

\* The handler of one attempt of an execution never runs in two slots at a
\* time, however often Asynq delivers the task (ClaimExecution is a
\* compare-and-set on the attempt).
THEOREM ClaimsExclusive == Spec => []ClaimExclusive
<1>1. ClaimInv => ClaimExclusive
  BY DEF ClaimInv
<1> QED
  BY <1>1, ClaimInvariant, PTL

\* No step changes the row of an execution that has an outcome, and no step
\* makes an attempt counter smaller (the WHERE clauses of ClaimTaskExecution
\* and UpdateTaskExecutionStatus).
THEOREM OutcomesFinal == Spec => OutcomeFinal
<1>1. ClaimInv /\ [Next]_vars =>
        [\A e \in Executions :
           /\ status[e] \in Terminal =>
                status'[e] = status[e] /\ attempt'[e] = attempt[e]
           /\ attempt'[e] >= attempt[e]]_vars
  BY RowMonotone DEF ClaimInv, RowKept
<1> QED
  BY <1>1, ClaimInvariant, PTL DEF Spec, OutcomeFinal

(***************************************************************************)
(* Retries                                                                 *)
(***************************************************************************)
\* A task is never put back more often than its retries allow.
RetriesCounted == \A e \in Executions : retried[e] <= MaxRetries[e]

\* HandleError calls Fail only on the last attempt.
FailsExhausted == \A s \in Slots : run[s].a \in {"failget", "failupdate"} => Exhausted(s)

\* Submit fails an execution only without an outbox.
FailsUnpublished == \A e \in Executions : submit[e] = "fail" => ~Outboxed(e)

\* An execution without an outbox row comes from a store without an outbox.
PlainRows ==
    \A e \in Executions :
        (status[e] # "none" \/ submit[e] \in {"publish", "fail"}) /\ ~Outboxed(e)
        => FALSE \in OutboxStores

RetryInv ==
    /\ ClaimInv /\ RetriesCounted /\ FailsExhausted
    /\ FailsUnpublished /\ PlainRows /\ RetriesExact

\* What a step does to an outbox row.
OutboxMarked(e) ==
    /\ outbox[e] = "pending"
    /\ \/ submit[e] = "mark"
       \/ \E w \in Workers : disp[w].pc = "mark" /\ IsHead(w, e)

LEMMA OutboxStep ==
    ASSUME TypeOK, [Next]_vars, NEW e \in Executions
    PROVE  \/ outbox'[e] = outbox[e]
           \/ outbox'[e] = "pending" /\ SubmitCreate(e)
           \/ outbox'[e] = "published" /\ OutboxMarked(e)
<1>1. ASSUME NEW f \in Executions, SubmitCreate(f)
      PROVE  \/ outbox'[e] = outbox[e]
             \/ outbox'[e] = "pending" /\ SubmitCreate(e)
  BY <1>1 DEF SubmitCreate, CreateTaskExecution, TypeOK
<1>2. ASSUME NEW f \in Executions, SubmitMark(f)
      PROVE  outbox'[e] = outbox[e] \/ (outbox'[e] = "published" /\ OutboxMarked(e))
  BY <1>2 DEF SubmitMark, MarkPublished, OutboxMarked, TypeOK
<1>3. ASSUME NEW w \in Workers, DispatchMark(w)
      PROVE  outbox'[e] = outbox[e] \/ (outbox'[e] = "published" /\ OutboxMarked(e))
  BY <1>3 DEF DispatchMark, MarkPublished, OutboxMarked, TypeOK
<1>4. ASSUME NEW f \in Executions, \/ SubmitReject(f) \/ SubmitPublish(f) \/ SubmitFail(f)
                                   \/ SubmitCrash(f) \/ Recover(f) \/ LockExpire(f)
      PROVE  outbox' = outbox
  BY <1>4 DEF SubmitReject, SubmitPublish, SubmitFail, SubmitCrash, Recover, LockExpire, dbVars
<1>5. ASSUME NEW w \in Workers, DispatchList(w) \/ DispatchPublish(w) \/ Crash(w)
      PROVE  outbox' = outbox
  BY <1>5 DEF DispatchList, DispatchPublish, Crash, dbVars
<1>6. ASSUME NEW s \in Slots, (\E f \in Executions : Dequeue(s, f)) \/ HandlerNext(s)
      PROVE  outbox' = outbox
  BY <1>6 DEF Dequeue, HandlerNext, GetExecution, ClaimExecution, Handle, MarkSucceeded,
              MarkCancelled, dbVars
<1>7. ASSUME NEW s \in Slots, ServerNext(s) \/ Expire(s) \/ LoseLease(s) \/ Abort(s)
      PROVE  outbox' = outbox
  BY <1>7 DEF ServerNext, TakeResult, TakeContextDone, TakeLeaseLost, FailGet, FailUpdate,
              Archive, Expire, LoseLease, Abort, dbVars
<1>8. CASE UNCHANGED vars
  BY <1>8 DEF vars
<1> QED
  BY <1>1, <1>2, <1>3, <1>4, <1>5, <1>6, <1>7, <1>8 DEF Next, SubmitNext, DispatchNext, Rest

\* An outbox row comes with its execution.
LEMMA PlainStays ==
    ASSUME TypeOK, [Next]_vars, NEW e \in Executions, outbox'[e] # outbox[e]
    PROVE  \/ Outboxed(e) /\ Outboxed(e)'
           \/ ~Outboxed(e) /\ SubmitCreate(e) /\ status'[e] = "queued" /\ submit[e] = "idle"
<1>1. ASSUME SubmitCreate(e) PROVE status'[e] = "queued" /\ submit[e] = "idle"
  BY <1>1 DEF SubmitCreate, CreateTaskExecution, TypeOK
<1>2. \/ SubmitCreate(e) /\ outbox'[e] = "pending"
      \/ outbox'[e] = "published" /\ OutboxMarked(e)
  BY OutboxStep
<1>3. OutboxMarked(e) => outbox[e] # "none"
  BY DEF OutboxMarked
<1> QED
  BY <1>1, <1>2, <1>3 DEF Outboxed

LEMMA RetryInvInit == Init => RetryInv
<1> SUFFICES ASSUME Init PROVE RetryInv
  OBVIOUS
<1>1. \A s \in Slots : run[s].a = "none" /\ run[s].exec = NoExec
  BY DEF Init, IdleRun
<1>2. \A e \in Executions : MaxRetries[e] \in Nat
  BY ConstantsAssumption
<1>3. RetriesCounted /\ FailsExhausted /\ FailsUnpublished /\ PlainRows /\ RetriesExact
  BY <1>1, <1>2 DEF Init, RetriesCounted, FailsExhausted, FailsUnpublished, PlainRows, RetriesExact
<1> QED
  BY <1>3, ClaimInvInit DEF RetryInv

\* The retry counter of a task is kept, reset, or raised while retries remain.
LEMMA RetriedStep ==
    ASSUME ClaimInv, RetriesCounted, [Next]_vars
    PROVE  RetriesCounted'
<1> USE DEF ClaimInv
<1>0. \A e \in Executions : MaxRetries[e] \in Nat /\ retried[e] \in Nat
  BY ConstantsAssumption DEF TypeOK
<1>1. ASSUME retried' = retried PROVE RetriesCounted'
  BY <1>1 DEF RetriesCounted
<1>2. ASSUME NEW e \in Executions, NEW ok \in BOOLEAN, Publish(e, ok) PROVE RetriesCounted'
  <2>1. CASE UNCHANGED queueVars
    BY <1>1, <2>1 DEF queueVars
  <2>2. CASE Enqueue(e)
    BY <1>0, <2>2 DEF Enqueue, RetriesCounted, TypeOK
  <2> QED
    BY <1>2, <2>1, <2>2 DEF Publish
<1>3. ASSUME NEW s \in Slots, run[s].a # "none", ~Exhausted(s), Retry(s) PROVE RetriesCounted'
  <2>1. run[s].exec \in Executions /\ run[s].n \in Nat
    BY <1>3 DEF Busy, TypeOK, Run
  <2>2. run[s].n <= MaxRetries[run[s].exec]
    BY <1>0, <1>3, <2>1 DEF Exhausted
  <2>3. retried' \in {retried, [retried EXCEPT ![run[s].exec] = run[s].n]}
    BY <1>3 DEF Retry, queueVars
  <2> QED
    BY <1>0, <2>1, <2>2, <2>3 DEF RetriesCounted, TypeOK
<1>4. ASSUME NEW e \in Executions, SubmitNext(e) PROVE RetriesCounted'
  BY <1>1, <1>2, <1>4 DEF SubmitNext, SubmitReject, SubmitCreate, SubmitPublish, SubmitMark,
                          SubmitFail, SubmitCrash, queueVars
<1>5. ASSUME NEW e \in Executions, Recover(e) \/ LockExpire(e) PROVE RetriesCounted'
  <2>1. \/ retried' = retried
        \/ retried[e] < MaxRetries[e] /\ retried' = [retried EXCEPT ![e] = retried[e] + 1]
    BY <1>0, <1>5 DEF Recover, LockExpire
  <2> QED
    BY <1>0, <2>1 DEF RetriesCounted, TypeOK
<1>6. ASSUME NEW w \in Workers, DispatchNext(w) \/ Crash(w) PROVE RetriesCounted'
  BY <1>1, <1>2, <1>6 DEF DispatchNext, DispatchList, DispatchPublish, DispatchMark, Crash, queueVars
<1>7. ASSUME NEW s \in Slots, ServerNext(s) PROVE RetriesCounted'
  <2>1. CASE TakeResult(s)
    BY <1>1, <1>3, <2>1 DEF TakeResult, MarkDone, queueVars
  <2>2. CASE TakeContextDone(s)
    BY <1>1, <1>3, <2>2 DEF TakeContextDone, ArchiveTask, queueVars
  <2>3. CASE TakeLeaseLost(s) \/ FailGet(s) \/ FailUpdate(s) \/ Archive(s)
    BY <1>1, <2>3 DEF TakeLeaseLost, FailGet, FailUpdate, Archive, ArchiveTask, queueVars
  <2> QED
    BY <1>7, <2>1, <2>2, <2>3 DEF ServerNext
<1>8. ASSUME NEW s \in Slots, \/ \E e \in Executions : Dequeue(s, e)
                              \/ HandlerNext(s) \/ Expire(s) \/ LoseLease(s) \/ Abort(s)
      PROVE  RetriesCounted'
  BY <1>1, <1>8 DEF Dequeue, HandlerNext, GetExecution, ClaimExecution, Handle, MarkSucceeded,
                    MarkCancelled, Expire, LoseLease, Abort, queueVars
<1>9. CASE UNCHANGED vars
  BY <1>1, <1>9 DEF vars
<1> QED
  BY <1>4, <1>5, <1>6, <1>7, <1>8, <1>9 DEF Next, Rest

\* Submit decides to fail an execution only without an outbox.
LEMMA UnpublishedStep ==
    ASSUME TypeOK, FailsUnpublished, [Next]_vars
    PROVE  FailsUnpublished'
<1> SUFFICES ASSUME NEW e \in Executions, submit'[e] = "fail" PROVE ~Outboxed(e)'
  BY DEF FailsUnpublished
<1>1. CASE submit[e] = "fail"
  BY <1>1, PlainStays DEF FailsUnpublished, Outboxed
<1>2. CASE submit[e] # "fail"
  <2>1. PICK f \in Executions : SubmitNext(f)
    BY <1>2, SubmitStep
  <2>2. SubmitPublish(e)
    BY <1>2, <2>1 DEF SubmitNext, SubmitReject, SubmitCreate, SubmitPublish, SubmitMark, SubmitFail,
                      SubmitCrash, TypeOK
  <2> QED
    BY <2>2 DEF SubmitPublish, Outboxed, TypeOK, dbVars
<1> QED
  BY <1>1, <1>2

\* A row is created with the outbox row of its store, or without.
LEMMA PlainRowsStep ==
    ASSUME ClaimInv, PlainRows, [Next]_vars
    PROVE  PlainRows'
<1> SUFFICES ASSUME NEW e \in Executions, ~Outboxed(e)',
                    status'[e] # "none" \/ submit'[e] \in {"publish", "fail"},
                    ~SubmitCreate(e)
             PROVE  FALSE \in OutboxStores
  <2>1. ASSUME NEW e \in Executions, ~Outboxed(e)', SubmitCreate(e) PROVE FALSE \in OutboxStores
    BY <2>1, ConstantsAssumption DEF SubmitCreate, CreateTaskExecution, Outboxed, TypeOK, ClaimInv
  <2> QED
    BY <2>1 DEF PlainRows
<1>1. ~Outboxed(e)
  BY PlainStays DEF ClaimInv, Outboxed
<1>2. CASE submit'[e] = submit[e]
  <2>1. status'[e] = "none" \/ status[e] # "none" \/ submit[e] \in {"publish", "fail"}
    BY <1>2, RowStep DEF ClaimInv, RowKept, RowCreated, RowClaimed, RowFinished, RowFailed, RowUnpublished
  <2> QED
    BY <1>1, <1>2, <2>1 DEF PlainRows
<1>3. CASE submit'[e] # submit[e]
  <2>1. PICK f \in Executions : SubmitNext(f)
    BY <1>3, SubmitStep DEF ClaimInv
  <2>2. /\ status'[e] # "none" => status[e] # "none"
        /\ submit'[e] = "publish" => FALSE
        /\ submit'[e] = "fail" => submit[e] = "publish"
    BY <1>3, <2>1 DEF SubmitNext, SubmitReject, SubmitCreate, CreateTaskExecution, SubmitPublish, SubmitMark,
                      SubmitFail, UpdateExecution, Matches, SubmitCrash, ClaimInv, TypeOK, dbVars
  <2> QED
    BY <1>1, <2>2 DEF PlainRows
<1> QED
  BY <1>2, <1>3

LEMMA RetryInvStep == RetryInv /\ [Next]_vars => RetryInv'
<1> SUFFICES ASSUME RetryInv, [Next]_vars PROVE RetryInv'
  OBVIOUS
<1> USE DEF RetryInv
<1>1. ClaimInv' /\ RetriesCounted'
  BY ClaimInvStep, RetriedStep
<1>2. FailsUnpublished' /\ PlainRows'
  BY UnpublishedStep, PlainRowsStep DEF ClaimInv
<1>0. /\ TypeOK /\ TypeOK' /\ Busy
      /\ \A e \in Executions : /\ MaxRetries[e] \in Nat /\ attempt[e] \in Nat
                               /\ retried[e] \in Nat /\ retried[e] <= MaxRetries[e]
      /\ \A s \in Slots : run[s] \in Run /\ run[s].n \in Nat
  BY <1>1, ConstantsAssumption DEF ClaimInv, TypeOK, Run, RetriesCounted
<1>3. ASSUME NEW s \in Slots
      PROVE  /\ run'[s].exec # NoExec => run'[s].n <= MaxRetries[run'[s].exec] + 1
             /\ run'[s].a \in {"failget", "failupdate"} => Exhausted(s)'
  <2>1. /\ run[s].exec # NoExec => run[s].n <= MaxRetries[run[s].exec] + 1
        /\ run[s].a \in {"failget", "failupdate"} => run[s].n > MaxRetries[run[s].exec]
    BY DEF RetriesExact, FailsExhausted, Exhausted
  <2>2. CASE SlotKept(s)
    BY <2>1, <2>2 DEF SlotKept, Exhausted
  <2>3. CASE SlotFreed(s)
    BY <2>3 DEF SlotFreed, IdleRun
  <2>4. CASE SlotStarted(s)
    BY <1>0, <2>4 DEF SlotStarted
  <2>5. CASE SlotMoved(s)
    BY <2>1, <2>5 DEF SlotMoved, ServerMoved, Exhausted
  <2> QED
    BY <1>0, <2>2, <2>3, <2>4, <2>5, SlotStep
<1>4. ASSUME NEW e \in Executions
      PROVE  /\ attempt'[e] <= MaxRetries[e] + 1
             /\ status'[e] = "failed" =>
                  \/ attempt'[e] = MaxRetries[e] + 1
                  \/ ~Outboxed(e)' /\ attempt'[e] = 0
  <2>0. status'[e] = "failed" /\ ~Outboxed(e) => ~Outboxed(e)'
    BY <1>0, PlainStays DEF Outboxed
  <2>1. /\ attempt[e] <= MaxRetries[e] + 1
        /\ status[e] = "failed" =>
             \/ attempt[e] = MaxRetries[e] + 1
             \/ ~Outboxed(e) /\ attempt[e] = 0
    BY DEF RetriesExact
  <2>2. CASE RowKept(e) \/ RowCreated(e) \/ RowFinished(e)
    BY <1>0, <2>0, <2>1, <2>2 DEF RowKept, RowCreated, RowFinished
  <2>3. CASE RowClaimed(e)
    BY <1>0, <2>3, ConstantsAssumption DEF RowClaimed, RetriesExact
  <2>4. CASE RowFailed(e)
    <3>1. PICK s \in Slots : /\ run[s].a = "failupdate" /\ run[s].exec = e
                             /\ run[s].n = attempt[e] /\ attempt'[e] = attempt[e]
      BY <2>4 DEF RowFailed
    <3>2. run[s].n > MaxRetries[e]
      BY <3>1 DEF FailsExhausted, Exhausted
    <3> QED
      BY <1>0, <2>1, <3>1, <3>2
  <2>5. CASE RowUnpublished(e)
    BY <1>0, <2>0, <2>5 DEF RowUnpublished, FailsUnpublished
  <2> QED
    BY <1>0, <2>2, <2>3, <2>4, <2>5, RowStep
<1>5. RetriesExact' /\ FailsExhausted'
  BY <1>3, <1>4 DEF RetriesExact, FailsExhausted
<1> QED
  BY <1>1, <1>2, <1>5

LEMMA RetryInvariant == Spec => []RetryInv
  BY RetryInvInit, RetryInvStep, PTL DEF Spec

\* No delivery, retry or recovery of Asynq gives Process an attempt beyond
\* MaxRetries + 1, and an execution is failed after that attempt only, or by a
\* Submit that has no outbox.
THEOREM RetriesStayExact == Spec => []RetriesExact
<1>1. RetryInv => RetriesExact
  BY DEF RetryInv
<1> QED
  BY <1>1, RetryInvariant, PTL

(***************************************************************************)
(* The outbox                                                              *)
(***************************************************************************)
\* The rows are numbered in the order of their creation.
Ranked ==
    /\ \A e \in Rows : rank[e] < Cardinality(Rows)
    /\ \A e, f \in Rows : rank[e] = rank[f] => e = f

\* An outbox row belongs to an execution.
OutboxRows == \A e \in Executions : outbox[e] # "none" => e \in Rows

\* What is in the queue, in a slot or past "queued" was enqueued: with an outbox
\* only a worker moves a row on.
Delivered ==
    /\ \A e \in Executions : queue[e] # "absent" => e \in enqueued
    /\ \A s \in Slots : run[s].exec # NoExec => run[s].exec \in enqueued
    /\ \A e \in Executions :
         Outboxed(e) /\ status[e] \notin {"none", "queued"} => e \in enqueued

\* Submit marks what it has published.
SubmitMarks == \A e \in Executions : submit[e] = "mark" => e \in enqueued

\* A dispatcher marks what it has published or did not find queued.
DispatcherMarks(d) ==
    /\ d.batch \subseteq Rows
    /\ d.batch \ d.queued \subseteq enqueued
    /\ d.pc = "mark" =>
         \A e \in d.batch : (\A f \in d.batch : rank[e] <= rank[f]) => e \in enqueued

DispatchersMark == \A w \in Workers : DispatcherMarks(disp[w])

OutboxInv ==
    /\ RetryInv
    /\ Ranked /\ OutboxRows /\ Delivered /\ SubmitMarks /\ DispatchersMark
    /\ PublishedMeansEnqueued

LEMMA OutboxInvInit == Init => OutboxInv
<1> SUFFICES ASSUME Init PROVE OutboxInv
  OBVIOUS
<1>1. Rows = {} /\ \A s \in Slots : run[s].exec = NoExec
  BY DEF Init, Rows, IdleRun
<1>2. Ranked /\ OutboxRows /\ Delivered /\ SubmitMarks /\ PublishedMeansEnqueued
  BY <1>1 DEF Init, Ranked, OutboxRows, Delivered, SubmitMarks, PublishedMeansEnqueued
<1>3. DispatchersMark
  BY DEF Init, DispatchersMark, DispatcherMarks, IdleDispatcher
<1> QED
  BY <1>2, <1>3, RetryInvInit DEF OutboxInv

\* What a step does to the rows, their ranks, the queue and the outbox of an
\* execution, and to a dispatcher.
RowsKept == Rows' = Rows /\ rank' = rank

RowAdded(e) ==
    /\ e \in Executions \ Rows
    /\ Rows' = Rows \cup {e}
    /\ rank' = [rank EXCEPT ![e] = Cardinality(Rows)]

\* A row is added by Submit, never removed.
LEMMA RowsStep ==
    ASSUME TypeOK, Fresh, [Next]_vars
    PROVE  \/ RowsKept
           \/ \E e \in Executions : RowAdded(e) /\ SubmitCreate(e)
<1>1. ASSUME rank' = rank,
             \A e \in Executions : ~RowCreated(e)
      PROVE  RowsKept
  <2>1. \A e \in Executions : status'[e] = "none" <=> status[e] = "none"
    BY <1>1, RowStep DEF RowKept, RowClaimed, RowFinished, RowFailed, RowUnpublished
  <2> QED
    BY <1>1, <2>1 DEF RowsKept, Rows
<1>2. ASSUME NEW e \in Executions, SubmitCreate(e) PROVE RowAdded(e)
  <2>1. /\ status[e] = "none" /\ status' = [status EXCEPT ![e] = "queued"]
        /\ rank' = [rank EXCEPT ![e] = Cardinality(Rows)]
    BY <1>2 DEF SubmitCreate, CreateTaskExecution, Fresh
  <2>2. \A f \in Executions : status'[f] # "none" <=> (f = e \/ status[f] # "none")
    BY <2>1 DEF TypeOK
  <2>3. Rows' = Rows \cup {e} /\ e \notin Rows
    BY <2>1, <2>2 DEF Rows
  <2> QED
    BY <2>1, <2>3 DEF RowAdded
<1>3. ASSUME rank' = rank, status' = status PROVE RowsKept
  BY <1>3 DEF RowsKept, Rows
<1>4. ASSUME NEW e \in Executions, SubmitNext(e) \/ Recover(e) \/ LockExpire(e), ~SubmitCreate(e)
      PROVE  RowsKept
  <2>1. CASE SubmitFail(e)
    <3>1. rank' = rank /\ \A f \in Executions : ~RowCreated(f)
      BY <2>1 DEF SubmitFail, RowCreated, TypeOK
    <3> QED
      BY <1>1, <3>1
  <2>2. CASE ~SubmitFail(e)
    <3>1. rank' = rank /\ status' = status
      BY <1>4, <2>2 DEF SubmitNext, SubmitReject, SubmitPublish, SubmitMark, SubmitCrash, Recover,
                        LockExpire, dbVars
    <3> QED
      BY <1>3, <3>1
  <2> QED
    BY <2>1, <2>2
<1>5. ASSUME NEW w \in Workers, DispatchNext(w) \/ Crash(w) PROVE RowsKept
  <2>1. rank' = rank /\ status' = status
    BY <1>5 DEF DispatchNext, DispatchList, DispatchPublish, DispatchMark, Crash, dbVars
  <2> QED
    BY <1>3, <2>1
<1>6. ASSUME NEW s \in Slots, \/ \E f \in Executions : Dequeue(s, f)
                              \/ HandlerNext(s)
      PROVE  RowsKept
  <2>1. rank' = rank /\ submit' = submit
    BY <1>6 DEF Dequeue, HandlerNext, GetExecution, ClaimExecution, Handle, MarkSucceeded,
                MarkCancelled, dbVars
  <2>2. \A f \in Executions : ~RowCreated(f)
    BY <2>1 DEF RowCreated
  <2> QED
    BY <1>1, <2>1, <2>2
<1>7. ASSUME NEW s \in Slots, ServerNext(s) \/ Expire(s) \/ LoseLease(s) \/ Abort(s)
      PROVE  RowsKept
  <2>1. rank' = rank /\ submit' = submit
    BY <1>7 DEF ServerNext, TakeResult, TakeContextDone, TakeLeaseLost, FailGet, FailUpdate,
                Archive, Expire, LoseLease, Abort, dbVars
  <2>2. \A f \in Executions : ~RowCreated(f)
    BY <2>1 DEF RowCreated
  <2> QED
    BY <1>1, <2>1, <2>2
<1>8. CASE UNCHANGED vars
  BY <1>3, <1>8 DEF vars
<1> QED
  BY <1>2, <1>4, <1>5, <1>6, <1>7, <1>8 DEF Next, SubmitNext, Rest

\* A new row is ranked behind the others.
LEMMA RankedStep ==
    ASSUME TypeOK, Fresh, Ranked, [Next]_vars
    PROVE  Ranked'
<1>0. IsFiniteSet(Rows) /\ Cardinality(Rows) \in Nat
  BY FS_Subset, FS_CardinalityType, ConstantsAssumption DEF Rows
<1>1. CASE RowsKept
  BY <1>1 DEF RowsKept, Ranked
<1>2. ASSUME NEW e \in Executions, RowAdded(e) PROVE Ranked'
  <2>1. Cardinality(Rows') = Cardinality(Rows) + 1
    BY <1>0, <1>2, FS_AddElement DEF RowAdded
  <2>2. \A f \in Rows' : rank'[f] = IF f = e THEN Cardinality(Rows) ELSE rank[f]
    BY <1>2 DEF RowAdded, Rows, TypeOK
  <2>3. \A f \in Rows' : f # e => f \in Rows /\ rank[f] \in Nat
    BY <1>2 DEF RowAdded, Rows, TypeOK
  <2>4. \A f \in Rows' : rank'[f] < Cardinality(Rows')
    BY <1>0, <2>1, <2>2, <2>3 DEF Ranked
  <2>5. \A f, g \in Rows' : rank'[f] = rank'[g] => f = g
    BY <1>0, <2>2, <2>3 DEF Ranked
  <2> QED
    BY <2>4, <2>5 DEF Ranked
<1> QED
  BY <1>1, <1>2, RowsStep

\* Enqueued is only added to, and what is in the queue was enqueued.
QueueDelivered ==
    /\ enqueued \subseteq enqueued'
    /\ \A e \in Executions : queue'[e] # "absent" => e \in enqueued'

LEMMA QueueStep ==
    ASSUME TypeOK, Busy, Delivered, [Next]_vars
    PROVE  QueueDelivered
<1>0. \A e \in Executions : queue[e] # "absent" => e \in enqueued
  BY DEF Delivered
<1>1. ASSUME UNCHANGED <<queue, enqueued>>
      PROVE  QueueDelivered
  BY <1>0, <1>1 DEF QueueDelivered
<1>2. ASSUME NEW f \in Executions, NEW ok \in BOOLEAN, Publish(f, ok)
      PROVE  QueueDelivered
  <2>1. CASE UNCHANGED queueVars
    BY <1>1, <2>1 DEF queueVars
  <2>2. CASE Enqueue(f)
    BY <1>0, <2>2 DEF Enqueue, TypeOK, QueueDelivered
  <2> QED
    BY <1>2, <2>1, <2>2 DEF Publish
<1>3. ASSUME NEW s \in Slots, run[s].a # "none",
             NEW q \in {"pending", "archived", "absent"},
             queue' = [queue EXCEPT ![run[s].exec] = q], enqueued' = enqueued
      PROVE  QueueDelivered
  <2>1. run[s].exec \in Executions /\ run[s].exec \in enqueued
    BY <1>3, ConstantsAssumption DEF Busy, Delivered
  <2> QED
    BY <1>0, <1>3, <2>1 DEF TypeOK, QueueDelivered
<1>4. ASSUME NEW e \in Executions, SubmitNext(e)
      PROVE  QueueDelivered
  BY <1>1, <1>2, <1>4 DEF SubmitNext, SubmitReject, SubmitCreate, SubmitPublish, SubmitMark,
                          SubmitFail, SubmitCrash, queueVars
<1>5. ASSUME NEW e \in Executions, Recover(e) \/ LockExpire(e)
      PROVE  QueueDelivered
  <2>1. /\ enqueued' = enqueued
        /\ \/ queue' = queue
           \/ queue[e] = "active" /\ \E q \in {"archived", "pending"} : queue' = [queue EXCEPT ![e] = q]
    BY <1>5 DEF Recover, LockExpire
  <2> QED
    BY <1>0, <2>1 DEF TypeOK, QueueDelivered
<1>6. ASSUME NEW w \in Workers, DispatchNext(w) \/ Crash(w)
      PROVE  QueueDelivered
  BY <1>1, <1>2, <1>6 DEF DispatchNext, DispatchList, DispatchPublish, DispatchMark, Crash, queueVars
<1>7. ASSUME NEW s \in Slots, ServerNext(s) \/ Abort(s)
      PROVE  QueueDelivered
  <2>1. run[s].a # "none" /\ enqueued' = enqueued
    BY <1>7 DEF ServerNext, TakeResult, TakeContextDone, TakeLeaseLost, FailGet, FailUpdate, Archive,
                MarkDone, Retry, ArchiveTask, Abort, queueVars
  <2>2. \/ queue' = queue
        \/ \E q \in {"pending", "archived", "absent"} : queue' = [queue EXCEPT ![run[s].exec] = q]
    BY <1>7 DEF ServerNext, TakeResult, TakeContextDone, TakeLeaseLost, FailGet, FailUpdate, Archive,
                MarkDone, Retry, ArchiveTask, Abort, queueVars
  <2> QED
    BY <1>1, <1>3, <2>1, <2>2
<1>8. ASSUME NEW s \in Slots, NEW f \in Executions, Dequeue(s, f)
      PROVE  QueueDelivered
  BY <1>0, <1>8 DEF Dequeue, TypeOK, QueueDelivered
<1>9. ASSUME NEW s \in Slots, HandlerNext(s) \/ Expire(s) \/ LoseLease(s)
      PROVE  QueueDelivered
  BY <1>1, <1>9 DEF HandlerNext, GetExecution, ClaimExecution, Handle, MarkSucceeded,
                    MarkCancelled, Expire, LoseLease, queueVars
<1>10. CASE UNCHANGED vars
  BY <1>1, <1>10 DEF vars
<1> QED
  BY <1>4, <1>5, <1>6, <1>7, <1>8, <1>9, <1>10 DEF Next, Rest

LEMMA DeliveredStep ==
    ASSUME RetryInv, Delivered, [Next]_vars
    PROVE  Delivered'
<1> USE DEF RetryInv, ClaimInv
<1>1. /\ enqueued \subseteq enqueued'
      /\ \A e \in Executions : queue'[e] # "absent" => e \in enqueued'
  BY QueueStep DEF QueueDelivered
<1>2. ASSUME NEW s \in Slots, run'[s].exec # NoExec PROVE run'[s].exec \in enqueued'
  BY <1>1, <1>2, SlotStep DEF SlotKept, SlotFreed, SlotStarted, SlotMoved, IdleRun, Delivered
<1>3. ASSUME NEW e \in Executions, Outboxed(e)', status'[e] \notin {"none", "queued"}
      PROVE  e \in enqueued'
  <2>0. Outboxed(e)
    BY <1>3, PlainStays DEF Outboxed
  <2>1. CASE RowKept(e)
    BY <1>1, <1>3, <2>0, <2>1 DEF RowKept, Delivered
  <2>2. CASE RowClaimed(e)
    BY <1>1, <2>2, ConstantsAssumption DEF RowClaimed, Delivered
  <2>3. CASE RowFinished(e) \/ RowFailed(e)
    BY <1>1, <1>3, <2>0, <2>3 DEF RowFinished, RowFailed, Delivered
  <2>4. ~RowUnpublished(e) /\ ~RowCreated(e)
    BY <1>3, <2>0 DEF RowUnpublished, RowCreated, FailsUnpublished
  <2> QED
    BY <2>1, <2>2, <2>3, <2>4, RowStep
<1> QED
  BY <1>1, <1>2, <1>3 DEF Delivered

LEMMA SubmitMarksStep ==
    ASSUME TypeOK, SubmitMarks, enqueued \subseteq enqueued', [Next]_vars
    PROVE  SubmitMarks'
<1>1. ASSUME NEW f \in Executions, SubmitPublish(f) PROVE SubmitMarks'
  <2>1. PICK ok \in BOOLEAN :
           /\ Publish(f, ok)
           /\ submit' = [submit EXCEPT ![f] =
                  IF Outboxed(f) THEN (IF ok THEN "mark" ELSE "done")
                                 ELSE (IF ok THEN "done" ELSE "fail")]
    BY <1>1 DEF SubmitPublish
  <2>2. ok => f \in enqueued'
    BY <2>1 DEF Publish, Enqueue
  <2> QED
    BY <2>1, <2>2 DEF SubmitMarks, TypeOK
<1>2. ASSUME NEW f \in Executions,
             SubmitReject(f) \/ SubmitCreate(f) \/ SubmitMark(f) \/ SubmitFail(f) \/ SubmitCrash(f)
      PROVE  SubmitMarks'
  BY <1>2 DEF SubmitReject, SubmitCreate, SubmitMark, SubmitFail, SubmitCrash, SubmitMarks, TypeOK
<1>3. CASE submit' = submit
  BY <1>3 DEF SubmitMarks
<1> QED
  BY <1>1, <1>2, <1>3, SubmitStep DEF SubmitNext

\* What a step does to a dispatcher: the rows it has still to mark are rows, and
\* the one it marks next was enqueued.
LEMMA DispatcherStep ==
    ASSUME OutboxInv, [Next]_vars, NEW w \in Workers
    PROVE  DispatcherMarks(disp[w])'
<1> USE DEF OutboxInv, RetryInv, ClaimInv
<1>0. /\ disp[w] \in Dispatcher /\ disp[w].batch \subseteq Rows
      /\ disp[w].batch \ disp[w].queued \subseteq enqueued
      /\ enqueued \subseteq enqueued'
      /\ \A e \in Rows : rank[e] \in Nat
  BY QueueStep DEF DispatchersMark, DispatcherMarks, TypeOK, QueueDelivered, Rows
<1>1. Rows \subseteq Rows' /\ \A e \in Rows : rank'[e] = rank[e]
  BY RowsStep DEF RowsKept, RowAdded, Rows, TypeOK
<1>2. CASE disp'[w] = disp[w]
  BY <1>0, <1>1, <1>2 DEF DispatchersMark, DispatcherMarks
<1>3. CASE disp'[w] = IdleDispatcher
  BY <1>3 DEF IdleDispatcher, DispatcherMarks
<1>4. CASE DispatchList(w)
  <2> DEFINE rows == Oldest(Pending, BatchLimit)
  <2>1. disp'[w] = [pc |-> "publish", batch |-> rows,
                    queued |-> {e \in rows : status[e] = "queued"}]
    BY <1>4 DEF DispatchList, TypeOK
  <2>2. \A e \in rows : e \in Executions /\ outbox[e] = "pending"
    BY DEF Oldest, Pending
  <2>3. rows \subseteq Rows
    BY <2>2 DEF OutboxRows
  <2>4. \A e \in rows : status[e] # "queued" => e \in enqueued
    BY <2>2, <2>3 DEF Delivered, Rows, Outboxed
  <2> HIDE DEF rows
  <2> QED
    BY <1>0, <1>1, <2>1, <2>3, <2>4 DEF DispatcherMarks
<1>5. CASE DispatchPublish(w) /\ disp'[w] # IdleDispatcher
  <2>1. PICK e \in Executions :
           /\ IsHead(w, e)
           /\ disp' = [disp EXCEPT ![w].pc = "mark"]
           /\ e \in disp[w].queued => Enqueue(e)
    BY <1>5 DEF DispatchPublish, Publish, TypeOK
  <2>2. e \in disp[w].batch /\ e \in enqueued'
    BY <1>0, <2>1 DEF IsHead, Enqueue
  <2>3. /\ disp'[w].batch = disp[w].batch /\ disp'[w].queued = disp[w].queued
        /\ disp'[w].pc = "mark"
    BY <1>0, <2>1 DEF TypeOK, Dispatcher
  <2>4. \A f \in disp[w].batch : (\A g \in disp[w].batch : rank[f] <= rank[g]) => f = e
    BY <1>0, <2>1, <2>2 DEF IsHead, Ranked
  <2> QED
    BY <1>0, <1>1, <2>2, <2>3, <2>4 DEF DispatcherMarks
<1>6. CASE DispatchMark(w) /\ disp'[w] # IdleDispatcher
  <2>1. PICK e \in Executions : disp'[w] = NextRow(w, e)
    BY <1>6 DEF DispatchMark, TypeOK
  <2>2. disp'[w] = [pc |-> "publish", batch |-> disp[w].batch \ {e}, queued |-> disp[w].queued \ {e}]
    BY <1>6, <2>1 DEF NextRow
  <2> QED
    BY <1>0, <1>1, <2>2 DEF DispatcherMarks
<1>7. ASSUME NEW v \in Workers, DispatchNext(v) \/ Crash(v), v # w PROVE disp'[w] = disp[w]
  BY <1>7 DEF DispatchNext, DispatchList, DispatchPublish, DispatchMark, Crash, TypeOK
<1>8. CASE Crash(w)
  BY <1>3, <1>8 DEF Crash, TypeOK
<1>9. ASSUME NEW e \in Executions, SubmitNext(e) \/ Recover(e) \/ LockExpire(e)
      PROVE  disp' = disp
  BY <1>9 DEF SubmitNext, SubmitReject, SubmitCreate, SubmitPublish, SubmitMark, SubmitFail,
              SubmitCrash, Recover, LockExpire
<1>10. ASSUME NEW s \in Slots, (\E e \in Executions : Dequeue(s, e)) \/ HandlerNext(s)
       PROVE  disp' = disp
  BY <1>10 DEF Dequeue, HandlerNext, GetExecution, ClaimExecution, Handle, MarkSucceeded,
               MarkCancelled
<1>11. ASSUME NEW s \in Slots, ServerNext(s) \/ Expire(s) \/ LoseLease(s) \/ Abort(s)
       PROVE  disp' = disp
  BY <1>11 DEF ServerNext, TakeResult, TakeContextDone, TakeLeaseLost, FailGet, FailUpdate,
               Archive, Expire, LoseLease, Abort
<1>12. CASE UNCHANGED vars
  BY <1>2, <1>12 DEF vars
<1> QED
  BY <1>2, <1>3, <1>4, <1>5, <1>6, <1>7, <1>8, <1>9, <1>10, <1>11, <1>12 DEF Next, DispatchNext, Rest

LEMMA OutboxInvStep == OutboxInv /\ [Next]_vars => OutboxInv'
<1> SUFFICES ASSUME OutboxInv, [Next]_vars PROVE OutboxInv'
  OBVIOUS
<1>0. /\ RetryInv /\ TypeOK /\ Fresh /\ Busy
      /\ Ranked /\ OutboxRows /\ Delivered /\ SubmitMarks /\ PublishedMeansEnqueued
  BY DEF OutboxInv, RetryInv, ClaimInv
<1>1. RetryInv' /\ Ranked' /\ Delivered'
  BY <1>0, RetryInvStep, RankedStep, DeliveredStep
<1>2. enqueued \subseteq enqueued'
  BY <1>0, QueueStep DEF QueueDelivered
<1>3. SubmitMarks'
  BY <1>0, <1>2, SubmitMarksStep
<1>4. DispatchersMark'
  BY DispatcherStep DEF DispatchersMark
<1>5. OutboxRows'
  <2> SUFFICES ASSUME NEW e \in Executions, outbox'[e] # "none"
               PROVE  e \in Rows'
    BY DEF OutboxRows
  <2>1. Rows \subseteq Rows'
    BY <1>0, RowsStep DEF RowsKept, RowAdded
  <2>2. CASE outbox[e] # "none"
    BY <1>0, <2>1, <2>2 DEF OutboxRows
  <2>3. CASE SubmitCreate(e)
    BY <1>0, <2>3 DEF SubmitCreate, CreateTaskExecution, Rows, TypeOK
  <2> QED
    BY <1>0, <2>2, <2>3, OutboxStep DEF OutboxMarked
<1>6. PublishedMeansEnqueued'
  <2> SUFFICES ASSUME NEW e \in Executions, outbox'[e] = "published"
               PROVE  e \in enqueued'
    BY DEF PublishedMeansEnqueued
  <2>1. CASE outbox[e] = "published"
    BY <1>0, <1>2, <2>1 DEF PublishedMeansEnqueued
  <2>2. CASE OutboxMarked(e)
    <3>1. CASE submit[e] = "mark"
      BY <1>0, <1>2, <3>1 DEF SubmitMarks
    <3>2. ASSUME NEW w \in Workers, disp[w].pc = "mark", IsHead(w, e) PROVE e \in enqueued
      BY <3>2 DEF OutboxInv, DispatchersMark, DispatcherMarks, IsHead
    <3> QED
      BY <1>2, <2>2, <3>1, <3>2 DEF OutboxMarked
  <2> QED
    BY <1>0, <2>1, <2>2, OutboxStep
<1> QED
  BY <1>1, <1>3, <1>4, <1>5, <1>6 DEF OutboxInv

LEMMA OutboxInvariant == Spec => []OutboxInv
  BY OutboxInvInit, OutboxInvStep, PTL DEF Spec

\* Neither Submit nor a dispatcher retires an outbox row whose task never
\* reached Redis, also where DispatchPending skips the publish of a row whose
\* execution it did not find queued.
THEOREM PublishedWereEnqueued == Spec => []PublishedMeansEnqueued
<1>1. OutboxInv => PublishedMeansEnqueued
  BY DEF OutboxInv
<1> QED
  BY <1>1, OutboxInvariant, PTL

(***************************************************************************)
(* TaskPipeline implements TaskExecution                                   *)
(***************************************************************************)
\* The attempts of e that slots hold.
LEMMA HandlersOf ==
    /\ handlers = [e \in Executions |-> handlers[e]]
    /\ \A e \in Executions : \A n :
         n \in handlers[e] <=> \E s \in Slots : Holding(s) /\ run[s].exec = e /\ run[s].n = n
  BY DEF handlers

LEMMA HandlersNext ==
    /\ handlers' = [e \in Executions |-> handlers'[e]]
    /\ \A e \in Executions : \A n :
         n \in handlers'[e] <=> \E s \in Slots : Holding(s)' /\ run'[s].exec = e /\ run'[s].n = n
  BY DEF handlers

\* Handlers depend on who holds what.
LEMMA HandlersKept ==
    ASSUME \A s \in Slots : /\ Holding(s)' <=> Holding(s)
                            /\ Holding(s) => run'[s].exec = run[s].exec /\ run'[s].n = run[s].n
    PROVE  handlers' = handlers
<1>1. \A e \in Executions : handlers'[e] = handlers[e]
  <2> SUFFICES ASSUME NEW e \in Executions, NEW n
               PROVE  n \in handlers'[e] <=> n \in handlers[e]
    OBVIOUS
  <2> QED
    BY HandlersOf, HandlersNext
<1> QED
  BY <1>1, HandlersOf, HandlersNext

\* A slot that returns or moves on, as seen by the others.
LEMMA OneSlotMoves ==
    ASSUME TypeOK, NEW s \in Slots
    PROVE  /\ \A x : Return(s, x) => ~Holding(s)' /\ \A t \in Slots \ {s} : run'[t] = run[t]
           /\ \A x : Goto(s, x) => /\ run'[s].exec = run[s].exec /\ run'[s].n = run[s].n
                                   /\ run'[s].h = x
                                   /\ \A t \in Slots \ {s} : run'[t] = run[t]
<1>0. run[s] \in Run
  BY DEF TypeOK
<1>1. ASSUME NEW x, Return(s, x)
      PROVE  ~Holding(s)' /\ \A t \in Slots \ {s} : run'[t] = run[t]
  <2>1. run' = [run EXCEPT ![s] = Freed([run[s] EXCEPT !.h = "none", !.res = x])]
    BY <1>1 DEF Return
  <2>2. run'[s] = Freed([run[s] EXCEPT !.h = "none", !.res = x])
    BY <2>1 DEF TypeOK
  <2>3. run'[s].h = "none"
    BY <1>0, <2>2 DEF Freed, IdleRun, Run
  <2> QED
    BY <2>1, <2>3 DEF TypeOK, Holding
<1>2. ASSUME NEW x, Goto(s, x)
      PROVE  /\ run'[s].exec = run[s].exec /\ run'[s].n = run[s].n /\ run'[s].h = x
             /\ \A t \in Slots \ {s} : run'[t] = run[t]
  BY <1>0, <1>2 DEF Goto, Run, TypeOK
<1> QED
  BY <1>1, <1>2

LEMMA InitImplements == Init => TE!Init
  BY DEF Init, TE!Init, handlers, Holding, IdleRun

\* While no row changes, handlers only end: one begins with a claim.
LEMMA NoRowImplements ==
    ASSUME ClaimInv, [Next]_vars, UNCHANGED <<status, attempt>>
    PROVE  TE!HandlersEnd
<1> USE DEF ClaimInv
<1>1. ASSUME NEW s \in Slots, Holding(s)'
      PROVE  Holding(s) /\ run'[s].exec = run[s].exec /\ run'[s].n = run[s].n
  <2>1. /\ run'[s].exec = run[s].exec /\ run'[s].n = run[s].n /\ run[s].h # "none"
        /\ \/ Holding(s)
           \/ /\ Claimable(run[s].exec, run[s].n)
              /\ attempt' = [attempt EXCEPT ![run[s].exec] = run[s].n]
    BY <1>1, HolderStep
  <2>2. run[s].exec \in Executions /\ run[s].n \in Nat /\ attempt[run[s].exec] \in Nat
    BY <2>1 DEF Busy, TypeOK, Run
  <2>3. ASSUME Claimable(run[s].exec, run[s].n),
               attempt' = [attempt EXCEPT ![run[s].exec] = run[s].n]
        PROVE  FALSE
    <3>1. attempt'[run[s].exec] = run[s].n /\ attempt[run[s].exec] < run[s].n
      BY <2>2, <2>3 DEF Claimable, TypeOK
    <3> QED
      BY <2>2, <3>1
  <2> QED
    BY <2>1, <2>3
<1>2. \A e \in Executions : handlers'[e] \subseteq handlers[e]
  <2> SUFFICES ASSUME NEW e \in Executions, NEW n, n \in handlers'[e]
               PROVE  n \in handlers[e]
    OBVIOUS
  <2>1. PICK s \in Slots : Holding(s)' /\ run'[s].exec = e /\ run'[s].n = n
    BY HandlersNext
  <2> QED
    BY <1>1, <2>1, HandlersOf
<1> QED
  BY <1>2, HandlersNext DEF TE!HandlersEnd

LEMMA CreateImplements ==
    ASSUME ClaimInv, NEW e \in Executions, SubmitCreate(e)
    PROVE  TE!Create(e)
<1> USE DEF ClaimInv
<1>1. /\ status[e] = "none" /\ attempt[e] = 0
      /\ status' = [status EXCEPT ![e] = "queued"] /\ attempt' = [attempt EXCEPT ![e] = 0]
      /\ run' = run
  BY DEF SubmitCreate, CreateTaskExecution, Fresh
<1>2. attempt' = attempt
  BY <1>1 DEF TypeOK
<1>3. handlers' = handlers
  BY <1>1, HandlersKept DEF Holding
<1> QED
  BY <1>1, <1>2, <1>3 DEF TE!Create

LEMMA ClaimImplements ==
    ASSUME RetryInv, NEW s \in Slots, ClaimExecution(s),
           Claimable(run[s].exec, run[s].n), Claimed(run[s].exec, run[s].n)
    PROVE  TE!Claim(run[s].exec)
<1> DEFINE e == run[s].exec
           n == run[s].n
<1>0. /\ TypeOK /\ run[s].h = "claim" /\ e \in Executions /\ n \in Nat
      /\ attempt[e] \in Nat /\ MaxRetries[e] \in Nat
      /\ n <= MaxRetries[e] + 1
  BY ConstantsAssumption DEF ClaimExecution, RetryInv, ClaimInv, Busy, TypeOK, Run, RetriesExact
<1>1. /\ status[e] \in {"queued", "running"} /\ attempt[e] < n
      /\ status' = [status EXCEPT ![e] = "running"] /\ attempt' = [attempt EXCEPT ![e] = n]
  BY DEF Claimable, Claimed
<1>2. n \in (attempt[e] + 1) .. (MaxRetries[e] + 1)
  BY <1>0, <1>1
<1>3. ~Holding(s)
  BY <1>0 DEF Holding
<1>4. handlers' = handlers \/ handlers' = [handlers EXCEPT ![e] = @ \cup {n}]
  <2>1. ASSUME NEW x, Return(s, x) PROVE handlers' = handlers
    <3>1. ~Holding(s)' /\ \A t \in Slots \ {s} : run'[t] = run[t]
      BY <1>0, <2>1, OneSlotMoves
    <3> QED
      BY <1>3, <3>1, HandlersKept DEF Holding
  <2>2. CASE Goto(s, "handle")
    <3>1. /\ Holding(s)' /\ run'[s].exec = e /\ run'[s].n = n
          /\ \A t \in Slots \ {s} : run'[t] = run[t]
      BY <1>0, <2>2, OneSlotMoves DEF Holding
    <3>2. \A f \in Executions : handlers'[f] = IF f = e THEN handlers[e] \cup {n} ELSE handlers[f]
      <4> SUFFICES ASSUME NEW f \in Executions, NEW m
                   PROVE  m \in handlers'[f] <=> m \in handlers[f] \/ (f = e /\ m = n)
        OBVIOUS
      <4>1. \A t \in Slots \ {s} : Holding(t)' <=> Holding(t)
        BY <3>1 DEF Holding
      <4> QED
        BY <1>3, <3>1, <4>1, HandlersOf, HandlersNext
    <3> QED
      BY <1>0, <3>2, HandlersOf, HandlersNext
  <2> QED
    BY <2>1, <2>2 DEF ClaimExecution
<1> QED
  BY <1>0, <1>1, <1>2, <1>4 DEF TE!Claim

\* The outcome of the holder of the latest attempt.
LEMMA FinishImplements ==
    ASSUME ClaimInv, NEW s \in Slots, Holding(s), NEW x, Return(s, x),
           NEW outcome \in {"succeeded", "cancelled"},
           UpdateExecution(run[s].exec, "running", run[s].n, outcome),
           Matches(run[s].exec, "running", run[s].n)
    PROVE  TE!Finish(run[s].exec, outcome)
<1> DEFINE e == run[s].exec
           n == run[s].n
<1>0. TypeOK /\ e \in Executions
  BY DEF ClaimInv, Busy, Holding
<1>1. /\ status[e] = "running" /\ attempt[e] = n
      /\ status' = [status EXCEPT ![e] = outcome] /\ attempt' = attempt
  BY DEF UpdateExecution, Matches
<1>2. n \in handlers[e]
  BY <1>0, HandlersOf
<1>3. ~Holding(s)' /\ \A t \in Slots \ {s} : run'[t] = run[t] /\ (Holding(t)' <=> Holding(t))
  BY <1>0, OneSlotMoves DEF Holding
<1>4. \A t \in Slots \ {s} : ~(Holding(t) /\ run[t].exec = e /\ run[t].n = n)
  BY DEF ClaimInv, ClaimExclusive
<1>5. \A f \in Executions : handlers'[f] = IF f = e THEN handlers[e] \ {n} ELSE handlers[f]
  <2> SUFFICES ASSUME NEW f \in Executions, NEW m
               PROVE  m \in handlers'[f] <=> m \in handlers[f] /\ ~(f = e /\ m = n)
    OBVIOUS
  <2> QED
    BY <1>3, <1>4, HandlersOf, HandlersNext
<1>6. handlers' = [handlers EXCEPT ![e] = @ \ {attempt[e]}]
  BY <1>0, <1>1, <1>5, HandlersOf, HandlersNext
<1> QED
  BY <1>1, <1>2, <1>6 DEF TE!Finish

LEMMA GiveUpImplements ==
    ASSUME RetryInv, NEW s \in Slots, FailUpdate(s),
           UpdateExecution(run[s].exec, "running", run[s].n, "failed"),
           Matches(run[s].exec, "running", run[s].n)
    PROVE  TE!GiveUp(run[s].exec)
<1> DEFINE e == run[s].exec
<1>0. /\ TypeOK /\ run[s] \in Run /\ run[s].a = "failupdate" /\ e \in Executions
      /\ MaxRetries[e] \in Nat /\ run[s].n \in Nat
      /\ run[s].n <= MaxRetries[e] + 1 /\ run[s].n > MaxRetries[e]
  BY ConstantsAssumption DEF FailUpdate, RetryInv, ClaimInv, Busy, TypeOK, Run, RetriesExact,
                             FailsExhausted, Exhausted
<1>1. /\ status[e] = "running" /\ attempt[e] = run[s].n
      /\ status' = [status EXCEPT ![e] = "failed"] /\ attempt' = attempt
  BY DEF UpdateExecution, Matches
<1>2. attempt[e] = MaxRetries[e] + 1
  BY <1>0, <1>1
<1>3. handlers' = handlers
  <2>1. \A t \in Slots : run'[t].h = run[t].h /\ run'[t].exec = run[t].exec /\ run'[t].n = run[t].n
    BY <1>0 DEF FailUpdate, TypeOK, Run
  <2> QED
    BY <2>1, HandlersKept DEF Holding
<1> QED
  BY <1>0, <1>1, <1>2, <1>3 DEF TE!GiveUp

LEMMA UnpublishedImplements ==
    ASSUME RetryInv, NEW e \in Executions, SubmitFail(e),
           UpdateExecution(e, "queued", 0, "failed"), Matches(e, "queued", 0)
    PROVE  TE!Unpublished(e)
<1>1. /\ FALSE \in OutboxStores /\ status[e] = "queued" /\ run' = run
      /\ status' = [status EXCEPT ![e] = "failed"] /\ attempt' = attempt
  BY DEF SubmitFail, UpdateExecution, Matches, RetryInv, FailsUnpublished, PlainRows
<1>2. handlers' = handlers
  BY <1>1, HandlersKept DEF Holding
<1> QED
  BY <1>1, <1>2 DEF TE!Unpublished

\* An update that matches no row changes none.
LEMMA Unmatched ==
    ASSUME NEW e, NEW es, NEW n, NEW new, UpdateExecution(e, es, n, new), ~Matches(e, es, n)
    PROVE  UNCHANGED <<status, attempt>>
  BY DEF UpdateExecution

LEMMA StepImplements == RetryInv /\ [Next]_vars => [TE!Next]_(TE!vars)
<1> SUFFICES ASSUME RetryInv, [Next]_vars
             PROVE  TE!Next
  OBVIOUS
<1>0. ClaimInv
  BY DEF RetryInv
<1>1. CASE UNCHANGED <<status, attempt>>
  BY <1>0, <1>1, NoRowImplements DEF TE!Next
<1>2. ASSUME NEW e \in Executions, SubmitNext(e) \/ Recover(e) \/ LockExpire(e) PROVE TE!Next
  <2>1. CASE SubmitCreate(e)
    BY <1>0, <2>1, CreateImplements DEF TE!Next
  <2>2. CASE SubmitFail(e)
    BY <1>1, <2>2, Unmatched, UnpublishedImplements DEF SubmitFail, TE!Next
  <2>3. CASE ~SubmitCreate(e) /\ ~SubmitFail(e)
    BY <1>1, <1>2, <2>3 DEF SubmitNext, SubmitReject, SubmitPublish, SubmitMark, SubmitCrash,
                            Recover, LockExpire, dbVars
  <2> QED
    BY <2>1, <2>2, <2>3
<1>3. ASSUME NEW w \in Workers, DispatchNext(w) \/ Crash(w) PROVE TE!Next
  BY <1>1, <1>3 DEF DispatchNext, DispatchList, DispatchPublish, DispatchMark, Crash, dbVars
<1>4. ASSUME NEW s \in Slots, HandlerNext(s) PROVE TE!Next
  <2>0. run[s].h # "none" => run[s].exec \in Executions
    BY <1>0 DEF ClaimInv, Busy
  <2>1. CASE ClaimExecution(s)
    <3>1. CASE Claimable(run[s].exec, run[s].n) /\ Claimed(run[s].exec, run[s].n)
      <4>1. TE!Claim(run[s].exec) /\ run[s].exec \in Executions
        BY <2>0, <2>1, <3>1, ClaimImplements DEF ClaimExecution
      <4> QED
        BY <4>1 DEF TE!Next
    <3> QED
      BY <1>1, <2>1, <3>1 DEF ClaimExecution
  <2>2. ASSUME NEW outcome \in {"succeeded", "cancelled"}, NEW x, Holding(s), Return(s, x),
               UpdateExecution(run[s].exec, "running", run[s].n, outcome)
        PROVE  TE!Next
    <3>1. CASE Matches(run[s].exec, "running", run[s].n)
      <4>1. TE!Finish(run[s].exec, outcome) /\ run[s].exec \in Executions
        BY <1>0, <2>0, <2>2, <3>1, FinishImplements DEF Holding
      <4> QED
        BY <4>1 DEF TE!Next
    <3>2. CASE ~Matches(run[s].exec, "running", run[s].n)
      BY <1>1, <2>2, <3>2, Unmatched
    <3> QED
      BY <3>1, <3>2
  <2>3. CASE MarkSucceeded(s)
    BY <1>1, <2>2, <2>3 DEF MarkSucceeded, Holding
  <2>4. CASE MarkCancelled(s)
    BY <1>1, <2>2, <2>4 DEF MarkCancelled, Holding
  <2>5. CASE GetExecution(s) \/ Handle(s)
    BY <1>1, <2>5 DEF GetExecution, Handle, dbVars
  <2> QED
    BY <1>4, <2>1, <2>3, <2>4, <2>5 DEF HandlerNext
<1>5. ASSUME NEW s \in Slots, ServerNext(s) PROVE TE!Next
  <2>1. CASE FailUpdate(s)
    <3>1. CASE /\ UpdateExecution(run[s].exec, "running", run[s].n, "failed")
               /\ Matches(run[s].exec, "running", run[s].n)
      <4>1. TE!GiveUp(run[s].exec) /\ run[s].exec \in Executions
        BY <1>0, <2>1, <3>1, GiveUpImplements DEF ClaimInv, Busy, FailUpdate
      <4> QED
        BY <4>1 DEF TE!Next
    <3> QED
      BY <1>1, <2>1, <3>1, Unmatched DEF FailUpdate
  <2>2. CASE ~FailUpdate(s)
    BY <1>1, <1>5, <2>2 DEF ServerNext, TakeResult, TakeContextDone, TakeLeaseLost, FailGet,
                            Archive, dbVars
  <2> QED
    BY <2>1, <2>2
<1>6. ASSUME NEW s \in Slots,
             \/ \E e \in Executions : Dequeue(s, e)
             \/ Expire(s) \/ LoseLease(s) \/ Abort(s)
      PROVE  TE!Next
  BY <1>1, <1>6 DEF Dequeue, Expire, LoseLease, Abort, dbVars
<1>7. CASE UNCHANGED vars
  BY <1>1, <1>7 DEF vars
<1> QED
  BY <1>2, <1>3, <1>4, <1>5, <1>6, <1>7 DEF Next, Rest

\* The rows of task_executions behave as TaskExecution promises, whatever the
\* queue, the dispatchers and the workers do: every step of the pipeline is a
\* step of the abstract execution or none.
THEOREM Implements == Spec => ImplementsTaskExecution
<1>1. Spec => TE!Init
  BY InitImplements DEF Spec
<1>2. Spec => [][TE!Next]_(TE!vars)
  BY RetryInvariant, StepImplements, PTL DEF Spec
<1> QED
  BY <1>1, <1>2, PTL DEF ImplementsTaskExecution, TE!Spec

(***************************************************************************)
(* What is accepted is never forgotten, as long as workers do not fail     *)
(***************************************************************************)
\* The API may stop anywhere in Submit, and publishes and statements on the
\* outbox may fail with or without effect; workers do not fail.
ReliableWorkers == FaultKinds \subseteq {"api", "net", "outbox"}

Unfinished(e) == status[e] \in {"queued", "running"}

\* The task waits in the queue or a slot is at work on it.
InHand(e) ==
    \/ queue[e] = "pending"
    \/ \E s \in Slots : run[s].exec = e /\ run[s].a # "none"

\* Somebody is in charge of every accepted execution of a known type until it has an
\* outcome: the outbox until its task is enqueued, the queue and its workers after that.
NothingForgotten ==
    \A e \in Routable : Unfinished(e) =>
        IF e \in enqueued THEN InHand(e) ELSE outbox[e] = "pending"

\* A slot works for the task it has taken, in time, with the attempt of the queue.
SlotSound(s) ==
    run[s].exec # NoExec =>
        /\ run[s].a # "none" /\ run[s].lease /\ run[s].ctx = "live"
        /\ queue[run[s].exec] = "active"
        /\ run[s].n = retried[run[s].exec] + 1
        /\ run[s].h # "none" => run[s].res = "none" /\ run[s].a = "wait"

SlotsSound ==
    /\ \A s \in Slots : SlotSound(s)
    /\ \A s, t \in Slots : run[s].exec # NoExec /\ run[s].exec = run[t].exec => s = t

\* Where a slot is with an execution that has no outcome yet: before its claim, or
\* past it with the attempt of the row, which it retries or records as failed.
Progress(s) ==
    \/ /\ run[s].a = "wait" /\ run[s].h \in {"get", "claim"}
       /\ run[s].n = attempt[run[s].exec] + 1
    \/ /\ status[run[s].exec] = "running" /\ run[s].n = attempt[run[s].exec]
       /\ \/ run[s].a = "wait" /\ run[s].h \in {"handle", "succeed"}
          \/ run[s].a = "wait" /\ run[s].h = "none" /\ run[s].res = "error"
          \/ run[s].a \in {"failget", "failupdate"} /\ run[s].h = "none"

Attended(e) ==
    \/ queue[e] = "pending" /\ attempt[e] = retried[e]
    \/ \E s \in Slots : run[s].exec = e /\ Progress(s)

\* An execution that was not enqueued was never claimed, and its outbox row, if
\* it has one, is pending; one that was enqueued has a row.
Unclaimed ==
    /\ \A e \in Executions \ enqueued :
         attempt[e] = 0 /\ (Outboxed(e) => outbox[e] = "pending")
    /\ enqueued \subseteq Rows

\* Submit publishes what it has stored.
Stored == \A e \in Executions : submit[e] = "publish" => e \in Rows

AllAttended == \A e \in Routable : Unfinished(e) /\ e \in enqueued => Attended(e)

AttendedInv == OutboxInv /\ SlotsSound /\ Stored /\ Unclaimed /\ AllAttended

\* What a step of the worker's slot s leaves alone: its task, and the other slots.
SlotStays(s) ==
    /\ run'[s].exec = run[s].exec /\ run'[s].n = run[s].n
    /\ run'[s].ctx = run[s].ctx /\ run'[s].lease = run[s].lease
    /\ \A t \in Slots \ {s} : run'[t] = run[t]

SlotLeaves(s) == run'[s] = IdleRun /\ \A t \in Slots \ {s} : run'[t] = run[t]

\* The four ways to write a slot.
LEMMA SlotWrites ==
    ASSUME TypeOK, NEW s \in Slots, NEW x
    PROVE  /\ Goto(s, x) =>
                /\ SlotStays(s) /\ run'[s].h = x
                /\ run'[s].a = run[s].a /\ run'[s].res = run[s].res
           /\ Return(s, x) /\ run[s].a # "none" =>
                /\ SlotStays(s) /\ run'[s].h = "none"
                /\ run'[s].a = run[s].a /\ run'[s].res = x
           /\ run' = [run EXCEPT ![s].a = x] =>
                /\ SlotStays(s) /\ run'[s].h = run[s].h
                /\ run'[s].a = x /\ run'[s].res = run[s].res
           /\ run' = [run EXCEPT ![s] = Detached(@)] /\ run[s].h = "none" => SlotLeaves(s)
<1>0. run \in [Slots -> Run] /\ run[s] \in Run
  BY DEF TypeOK
<1>1. ASSUME Goto(s, x)
      PROVE  SlotStays(s) /\ run'[s].h = x /\ run'[s].a = run[s].a /\ run'[s].res = run[s].res
  <2>1. run'[s] = [run[s] EXCEPT !.h = x] /\ \A t \in Slots \ {s} : run'[t] = run[t]
    BY <1>0, <1>1 DEF Goto
  <2> QED
    BY <1>0, <2>1 DEF SlotStays, Run
<1>2. ASSUME Return(s, x), run[s].a # "none"
      PROVE  SlotStays(s) /\ run'[s].h = "none" /\ run'[s].a = run[s].a /\ run'[s].res = x
  <2> DEFINE r == [run[s] EXCEPT !.h = "none", !.res = x]
  <2>1. /\ r.exec = run[s].exec /\ r.n = run[s].n /\ r.ctx = run[s].ctx /\ r.lease = run[s].lease
        /\ r.h = "none" /\ r.a = run[s].a /\ r.res = x
    BY <1>0 DEF Run
  <2>2. run'[s] = Freed(r) /\ \A t \in Slots \ {s} : run'[t] = run[t]
    BY <1>0, <1>2 DEF Return
  <2> HIDE DEF r
  <2>3. run'[s] = r
    BY <1>2, <2>1, <2>2 DEF Freed
  <2> QED
    BY <2>1, <2>2, <2>3 DEF SlotStays
<1>3. ASSUME run' = [run EXCEPT ![s].a = x]
      PROVE  SlotStays(s) /\ run'[s].h = run[s].h /\ run'[s].a = x /\ run'[s].res = run[s].res
  <2>1. run'[s] = [run[s] EXCEPT !.a = x] /\ \A t \in Slots \ {s} : run'[t] = run[t]
    BY <1>0, <1>3
  <2> QED
    BY <1>0, <2>1 DEF SlotStays, Run
<1>4. ASSUME run' = [run EXCEPT ![s] = Detached(@)], run[s].h = "none"
      PROVE  SlotLeaves(s)
  <2> DEFINE r == [run[s] EXCEPT !.a = "none"]
  <2>1. r.h = "none" /\ r.a = "none"
    BY <1>0, <1>4 DEF Run
  <2>2. run'[s] = Freed(r) /\ \A t \in Slots \ {s} : run'[t] = run[t]
    BY <1>0, <1>4 DEF Detached
  <2> QED
    BY <2>1, <2>2 DEF SlotLeaves, Freed
<1> QED
  BY <1>1, <1>2, <1>3, <1>4

\* A worker that does not fail: its statements succeed, its deadlines and leases hold.
LEMMA NoWorkerFault ==
    ASSUME ReliableWorkers, NEW k \in {"db", "deadline", "inner", "lease", "abort", "crash"}
    PROVE  ~Fault(k)
  BY DEF ReliableWorkers, Fault

\* What a handler goroutine that does not fail does with its slot and its row.
HandlerAdvances(s) ==
    LET e == run[s].exec
        n == run[s].n
    IN
    /\ SlotStays(s) /\ run'[s].a = run[s].a
    /\ UNCHANGED <<queue, retried, enqueued>>
    /\ run'[s].h # "none" => run'[s].res = "none"
    /\ \/ run[s].h = "get" /\ UNCHANGED <<status, attempt>> /\ (Unfinished(e) => run'[s].h = "claim")
       \/ run[s].h = "claim" /\ Claimable(e, n) /\ Claimed(e, n) /\ run'[s].h = "handle"
       \/ run[s].h = "claim" /\ ~Claimable(e, n) /\ UNCHANGED <<status, attempt>>
       \/ /\ run[s].h = "handle" /\ UNCHANGED <<status, attempt>>
          /\ run'[s].h = "succeed" \/ (run'[s].h = "none" /\ run'[s].res = "error")
       \/ run[s].h = "succeed" /\ UpdateExecution(e, "running", n, "succeeded")
       \/ run[s].h = "cancel" /\ UpdateExecution(e, "running", n, "cancelled")

\* Every step of a handler is such a step.
LEMMA HandlerReliable ==
    ASSUME ReliableWorkers, TypeOK, Busy, SlotsSound, NEW s \in Slots, HandlerNext(s)
    PROVE  run[s].exec \in Executions /\ HandlerAdvances(s)
<1>1. run[s].h # "none"
  BY DEF HandlerNext, GetExecution, ClaimExecution, Handle, MarkSucceeded, MarkCancelled
<1>2. run[s].exec \in Executions
  BY <1>1 DEF Busy
<1>3. run[s].ctx = "live" /\ run[s].res = "none" /\ run[s].a = "wait"
  BY <1>1, <1>2, ConstantsAssumption DEF SlotsSound, SlotSound
<1>4. ~Fault("db") /\ ~Fault("inner")
  BY NoWorkerFault
<1>5. CASE GetExecution(s)
  <2>1. UNCHANGED <<status, attempt, queue, retried, enqueued>> /\ run[s].h = "get"
    BY <1>5 DEF GetExecution, dbVars, queueVars
  <2>2. Unfinished(run[s].exec) => ValidTransition(status[run[s].exec], "running")
    BY DEF Unfinished, ValidTransition
  <2>3. CASE Goto(s, "claim")
    BY <1>2, <1>3, <2>1, <2>3, SlotWrites DEF HandlerAdvances
  <2>4. CASE ~Unfinished(run[s].exec) /\ Return(s, "error")
    BY <1>2, <1>3, <2>1, <2>4, SlotWrites DEF HandlerAdvances
  <2> QED
    BY <1>2, <1>3, <1>4, <1>5, <2>2, <2>3, <2>4 DEF GetExecution
<1>6. CASE ClaimExecution(s)
  <2>1. UNCHANGED <<queue, retried, enqueued>> /\ run[s].h = "claim"
    BY <1>6 DEF ClaimExecution, queueVars
  <2> DEFINE e == run[s].exec
             n == run[s].n
  <2>2. CASE Claimable(e, n) /\ Claimed(e, n) /\ Goto(s, "handle")
    BY <1>2, <1>3, <2>1, <2>2, SlotWrites DEF HandlerAdvances
  <2>3. CASE ~Claimable(e, n) /\ UNCHANGED <<status, attempt>> /\ Return(s, "revoke")
    BY <1>2, <1>3, <2>1, <2>3, SlotWrites DEF HandlerAdvances
  <2> QED
    BY <1>2, <1>3, <1>4, <1>6, <2>2, <2>3 DEF ClaimExecution
<1>7. CASE Handle(s)
  <2>1. UNCHANGED <<status, attempt, queue, retried, enqueued>> /\ run[s].h = "handle"
    BY <1>7 DEF Handle, dbVars, queueVars
  <2>2. CASE Goto(s, "succeed")
    BY <1>2, <1>3, <2>1, <2>2, SlotWrites DEF HandlerAdvances
  <2>3. CASE Return(s, "error")
    BY <1>2, <1>3, <2>1, <2>3, SlotWrites DEF HandlerAdvances
  <2> QED
    BY <1>2, <1>3, <1>4, <1>7, <2>2, <2>3 DEF Handle
<1>8. CASE MarkSucceeded(s)
  <2>1. UNCHANGED <<queue, retried, enqueued>> /\ run[s].h = "succeed"
    BY <1>8 DEF MarkSucceeded, queueVars
  <2>2. /\ UpdateExecution(run[s].exec, "running", run[s].n, "succeeded")
        /\ Return(s, "ok") \/ Return(s, "revoke")
    BY <1>3, <1>4, <1>8 DEF MarkSucceeded
  <2>3. SlotStays(s) /\ run'[s].h = "none" /\ run'[s].a = run[s].a
    BY <1>3, <2>2, SlotWrites
  <2> QED
    BY <1>2, <2>1, <2>2, <2>3 DEF HandlerAdvances
<1>9. CASE MarkCancelled(s)
  <2>1. UNCHANGED <<queue, retried, enqueued>> /\ run[s].h = "cancel"
    BY <1>9 DEF MarkCancelled, queueVars
  <2>2. /\ UpdateExecution(run[s].exec, "running", run[s].n, "cancelled")
        /\ Return(s, "revoke")
    BY <1>4, <1>9 DEF MarkCancelled
  <2>3. SlotStays(s) /\ run'[s].h = "none" /\ run'[s].a = run[s].a
    BY <1>3, <2>2, SlotWrites
  <2> QED
    BY <1>2, <2>1, <2>2, <2>3 DEF HandlerAdvances
<1> QED
  BY <1>2, <1>5, <1>6, <1>7, <1>8, <1>9 DEF HandlerNext

\* The same of the goroutine of the server: it goes on to record the failure, or gives
\* up the slot and leaves the task done, to be retried, or archived.
ServerAdvances(s) ==
    LET e == run[s].exec
        n == run[s].n
    IN
    /\ enqueued' = enqueued
    /\ \/ /\ SlotStays(s) /\ run'[s].h = "none" /\ UNCHANGED <<queue, retried>>
          /\ \/ /\ run[s].a = "wait" /\ run[s].res = "error" /\ run'[s].a = "failget"
                /\ UNCHANGED <<status, attempt>>
             \/ /\ run[s].a = "failget" /\ run'[s].a \in {"failupdate", "archive"}
                /\ Unfinished(e) => run'[s].a = "failupdate"
                /\ UNCHANGED <<status, attempt>>
             \/ /\ run[s].a = "failupdate" /\ run'[s].a = "archive"
                /\ UpdateExecution(e, "running", n, "failed")
       \/ /\ SlotLeaves(s) /\ UNCHANGED <<status, attempt>>
          /\ \/ /\ run[s].a = "wait" /\ run[s].res \in {"ok", "revoke"}
                /\ queue' = [queue EXCEPT ![e] = "absent"] /\ retried' = retried
             \/ /\ run[s].a = "wait" /\ run[s].res = "error"
                /\ queue' = [queue EXCEPT ![e] = "pending"] /\ retried' = [retried EXCEPT ![e] = n]
             \/ /\ run[s].a = "archive"
                /\ queue' = [queue EXCEPT ![e] = "archived"] /\ retried' = retried

\* Every step of a server goroutine is such a step.
LEMMA ServerReliable ==
    ASSUME ReliableWorkers, TypeOK, Busy, SlotsSound, NEW s \in Slots, ServerNext(s)
    PROVE  /\ run[s].exec \in Executions /\ run[s].h = "none" /\ ServerAdvances(s)
<1>1. run[s].a # "none"
  BY DEF ServerNext, TakeResult, TakeContextDone, TakeLeaseLost, FailGet, FailUpdate, Archive
<1>2. run[s].exec \in Executions
  BY <1>1 DEF Busy
<1>3. /\ run[s].ctx = "live" /\ run[s].lease
      /\ run[s].h # "none" => run[s].res = "none" /\ run[s].a = "wait"
  BY <1>2, ConstantsAssumption DEF SlotsSound, SlotSound
<1>4. ~Fault("db")
  BY NoWorkerFault
<1>5. CASE TakeResult(s)
  <2>1. run[s].h = "none" /\ run[s].a = "wait" /\ UNCHANGED <<status, attempt>>
    BY <1>3, <1>5 DEF TakeResult, dbVars
  <2>2. CASE run[s].res \in {"ok", "revoke"} /\ MarkDone(s) /\ run' = [run EXCEPT ![s] = Detached(@)]
    <3>1. SlotLeaves(s)
      BY <2>1, <2>2, SlotWrites
    <3> QED
      BY <1>2, <1>3, <2>1, <2>2, <3>1 DEF MarkDone, ServerAdvances
  <2>3. CASE run[s].res = "error" /\ Retry(s) /\ run' = [run EXCEPT ![s] = Detached(@)]
    <3>1. SlotLeaves(s)
      BY <2>1, <2>3, SlotWrites
    <3> QED
      BY <1>2, <1>3, <2>1, <2>3, <3>1 DEF Retry, ServerAdvances
  <2>4. CASE run[s].res = "error" /\ run' = [run EXCEPT ![s].a = "failget"] /\ UNCHANGED queueVars
    <3>1. SlotStays(s) /\ run'[s].h = "none" /\ run'[s].a = "failget"
      BY <2>1, <2>4, SlotWrites
    <3> QED
      BY <1>2, <2>1, <2>4, <3>1 DEF queueVars, ServerAdvances
  <2> QED
    BY <1>2, <1>5, <2>1, <2>2, <2>3, <2>4 DEF TakeResult
<1>6. CASE FailGet(s)
  <2>1. /\ run[s].h = "none" /\ run[s].a = "failget"
        /\ UNCHANGED <<status, attempt, queue, retried, enqueued>>
    BY <1>3, <1>6 DEF FailGet, dbVars, queueVars
  <2>2. Unfinished(run[s].exec) => ValidTransition(status[run[s].exec], "failed")
    BY DEF Unfinished, ValidTransition
  <2> QED
    BY <1>2, <1>4, <1>6, <2>1, <2>2, SlotWrites DEF FailGet, ServerAdvances
<1>7. CASE FailUpdate(s)
  <2>1. run[s].h = "none" /\ run[s].a = "failupdate" /\ UNCHANGED <<queue, retried, enqueued>>
    BY <1>3, <1>7 DEF FailUpdate, queueVars
  <2> QED
    BY <1>2, <1>4, <1>7, <2>1, SlotWrites DEF FailUpdate, ServerAdvances
<1>8. CASE Archive(s)
  <2>1. run[s].h = "none" /\ run[s].a = "archive" /\ UNCHANGED <<status, attempt>>
    BY <1>3, <1>8 DEF Archive, dbVars
  <2> QED
    BY <1>2, <1>3, <1>8, <2>1, SlotWrites DEF Archive, ArchiveTask, ServerAdvances
<1>9. ~TakeContextDone(s) /\ ~TakeLeaseLost(s)
  BY <1>3 DEF TakeContextDone, TakeLeaseLost
<1> QED
  BY <1>5, <1>6, <1>7, <1>8, <1>9 DEF ServerNext

\* The other steps while workers do not fail: they leave slots and queue alone,
\* enqueue a task that has a row, or recover one that nobody works on.
QueueKept ==
    /\ UNCHANGED <<run, queue, retried, enqueued>>
    /\ \A e \in Executions : RowKept(e) \/ RowCreated(e) \/ RowUnpublished(e)

TaskEnqueued(f) == UNCHANGED <<run, status, attempt>> /\ f \in Rows /\ Enqueue(f)

TaskRecovered(f) == UNCHANGED <<run, status, attempt, enqueued>> /\ Recover(f)

\* There are no steps but these, Dequeue, and those of handlers and servers.
LEMMA ReliableStep ==
    ASSUME ReliableWorkers, OutboxInv, Stored, [Next]_vars
    PROVE  \/ QueueKept
           \/ \E f \in Executions : TaskEnqueued(f) \/ TaskRecovered(f)
           \/ \E s \in Slots, f \in Executions : Dequeue(s, f)
           \/ \E s \in Slots : HandlerNext(s) \/ ServerNext(s)
<1> USE DEF OutboxInv, RetryInv, ClaimInv
<1>1. ASSUME UNCHANGED <<run, queue, retried, enqueued, status, attempt>>
      PROVE  QueueKept
  BY <1>1 DEF QueueKept, RowKept
<1>2. ASSUME NEW e \in Executions, NEW ok \in BOOLEAN, Publish(e, ok), e \in Rows,
             UNCHANGED <<run, status, attempt>>
      PROVE  QueueKept \/ TaskEnqueued(e)
  <2>1. CASE UNCHANGED queueVars
    BY <1>1, <1>2, <2>1 DEF queueVars
  <2>2. CASE Enqueue(e)
    BY <1>2, <2>2 DEF TaskEnqueued
  <2> QED
    BY <1>2, <2>1, <2>2 DEF Publish
<1>3. ASSUME NEW e \in Executions, SubmitReject(e) \/ SubmitMark(e) \/ SubmitCrash(e) \/ LockExpire(e)
      PROVE  QueueKept
  BY <1>1, <1>3 DEF SubmitReject, SubmitMark, SubmitCrash, LockExpire, dbVars, queueVars
<1>4. ASSUME NEW e \in Executions, SubmitPublish(e)
      PROVE  QueueKept \/ TaskEnqueued(e)
  BY <1>2, <1>4 DEF SubmitPublish, Stored, dbVars
<1>5. ASSUME NEW e \in Executions, SubmitCreate(e) PROVE QueueKept
  <2>1. UNCHANGED <<run, queue, retried, enqueued>>
    BY <1>5 DEF SubmitCreate, queueVars
  <2>2. \A f \in Executions : RowKept(f) \/ RowCreated(f)
    BY <1>5 DEF SubmitCreate, CreateTaskExecution, RowKept, RowCreated, TypeOK
  <2> QED
    BY <2>1, <2>2 DEF QueueKept
<1>6. ASSUME NEW e \in Executions, SubmitFail(e) PROVE QueueKept
  <2>1. UNCHANGED <<run, queue, retried, enqueued>> /\ submit[e] = "fail"
    BY <1>6 DEF SubmitFail, queueVars
  <2>2. CASE UNCHANGED <<status, attempt>>
    BY <1>1, <2>1, <2>2
  <2>3. CASE UpdateExecution(e, "queued", 0, "failed")
    <3>1. \A f \in Executions : RowKept(f) \/ RowUnpublished(f)
      BY <2>1, <2>3, UpdateRow DEF RowUnpublished
    <3> QED
      BY <2>1, <3>1 DEF QueueKept
  <2> QED
    BY <1>6, <2>2, <2>3 DEF SubmitFail
<1>7. ASSUME NEW e \in Executions, Recover(e) PROVE TaskRecovered(e)
  BY <1>7 DEF Recover, TaskRecovered, dbVars
<1>8. ASSUME NEW w \in Workers, DispatchList(w) \/ DispatchMark(w) PROVE QueueKept
  BY <1>1, <1>8 DEF DispatchList, DispatchMark, dbVars, queueVars
<1>9. ASSUME NEW w \in Workers, DispatchPublish(w)
      PROVE  QueueKept \/ \E f \in Executions : TaskEnqueued(f)
  <2>1. PICK e \in Executions :
           /\ IsHead(w, e)
           /\ UNCHANGED <<queueVars, faults>> \/ \E ok \in BOOLEAN : Publish(e, ok)
    BY <1>9 DEF DispatchPublish
  <2>2. UNCHANGED <<run, status, attempt>>
    BY <1>9 DEF DispatchPublish, dbVars
  <2>3. e \in Rows
    BY <2>1 DEF IsHead, DispatchersMark, DispatcherMarks
  <2> QED
    BY <1>1, <1>2, <2>1, <2>2, <2>3 DEF queueVars
<1>10. /\ \A w \in Workers : ~Crash(w)
       /\ \A s \in Slots : ~Expire(s) /\ ~LoseLease(s) /\ ~Abort(s)
  <2>1. ~Fault("crash") /\ ~Fault("deadline") /\ ~Fault("lease") /\ ~Fault("abort")
    BY NoWorkerFault
  <2> QED
    BY <2>1 DEF Crash, Expire, LoseLease, Abort
<1>11. CASE UNCHANGED vars
  BY <1>1, <1>11 DEF vars
<1> QED
  BY <1>3, <1>4, <1>5, <1>6, <1>7, <1>8, <1>9, <1>10, <1>11 DEF Next, SubmitNext, DispatchNext, Rest

\* Slots stay sound.
LEMMA SlotsSoundStep ==
    ASSUME ReliableWorkers, OutboxInv, Stored, SlotsSound, [Next]_vars
    PROVE  SlotsSound'
<1> USE DEF OutboxInv, RetryInv, ClaimInv
<1>0. \A s \in Slots : SlotSound(s) /\ run[s] \in Run
  BY DEF SlotsSound, TypeOK
<1>1. CASE QueueKept
  BY <1>1 DEF QueueKept, SlotsSound, SlotSound
<1>2. ASSUME run' = run,
             \A s \in Slots : run[s].exec # NoExec => queue'[run[s].exec] = queue[run[s].exec]
                                                  /\ retried'[run[s].exec] = retried[run[s].exec]
      PROVE  SlotsSound'
  BY <1>2 DEF SlotsSound, SlotSound
<1>3. ASSUME NEW f \in Executions, TaskEnqueued(f) PROVE SlotsSound'
  <2>1. run' = run /\ Enqueue(f)
    BY <1>3 DEF TaskEnqueued
  <2>2. ASSUME NEW s \in Slots, run[s].exec # NoExec
        PROVE  /\ queue'[run[s].exec] = queue[run[s].exec]
               /\ retried'[run[s].exec] = retried[run[s].exec]
    <3>1. queue[run[s].exec] = "active" /\ run[s].exec \in Executions
      BY <1>0, <2>2 DEF SlotSound, Run
    <3> QED
      BY <2>1, <3>1 DEF Enqueue, TypeOK
  <2> QED
    BY <1>2, <2>1, <2>2
<1>4. ASSUME NEW f \in Executions, TaskRecovered(f) PROVE SlotsSound'
  <2>1. ASSUME NEW s \in Slots, run[s].exec # NoExec
        PROVE  /\ queue'[run[s].exec] = queue[run[s].exec]
               /\ retried'[run[s].exec] = retried[run[s].exec]
    <3>1. run[s].exec # f /\ run[s].exec \in Executions
      BY <1>0, <1>4, <2>1 DEF SlotSound, TaskRecovered, Recover, Run
    <3> QED
      BY <1>4, <3>1 DEF TaskRecovered, Recover, TypeOK
  <2> QED
    BY <1>2, <1>4, <2>1 DEF TaskRecovered
<1>5. ASSUME NEW s \in Slots, NEW f \in Executions, Dequeue(s, f) PROVE SlotsSound'
  <2>1. /\ \A t \in Slots \ {s} : run'[t] = run[t]
        /\ run'[s].exec = f /\ run'[s].n = retried[f] + 1 /\ run'[s].a = "wait"
        /\ run'[s].lease /\ run'[s].ctx = "live"
        /\ run'[s].h # "none" => run'[s].res = "none"
        /\ retried' = retried /\ queue'[f] = "active" /\ queue[f] = "pending"
        /\ \A g \in Executions \ {f} : queue'[g] = queue[g]
    BY <1>5 DEF Dequeue, TypeOK
  <2>2. \A t \in Slots : run[t].exec # f
    BY <1>0, <2>1, ConstantsAssumption DEF SlotSound
  <2>3. \A t \in Slots : SlotSound(t)'
    BY <1>0, <2>1, <2>2 DEF SlotSound, Run
  <2>4. \A t, u \in Slots : run'[t].exec # NoExec /\ run'[t].exec = run'[u].exec => t = u
    BY <2>1, <2>2 DEF SlotsSound
  <2> QED
    BY <2>3, <2>4 DEF SlotsSound
<1>6. ASSUME NEW s \in Slots, run[s].exec \in Executions, SlotStays(s), UNCHANGED <<queue, retried>>,
             run'[s].a # "none",
             run'[s].h # "none" => run'[s].res = "none" /\ run'[s].a = "wait"
      PROVE  SlotsSound'
  <2>1. \A t \in Slots : SlotSound(t)'
    BY <1>0, <1>6, ConstantsAssumption DEF SlotSound, SlotStays
  <2>2. \A t \in Slots : run'[t].exec = run[t].exec
    BY <1>6 DEF SlotStays
  <2> QED
    BY <2>1, <2>2 DEF SlotsSound
<1>7. ASSUME NEW s \in Slots, HandlerNext(s) PROVE SlotsSound'
  <2>1. run[s].exec \in Executions /\ HandlerAdvances(s)
    BY <1>7, HandlerReliable
  <2>2. /\ SlotStays(s) /\ run'[s].a = run[s].a /\ UNCHANGED <<queue, retried>>
        /\ run'[s].h # "none" => run'[s].res = "none"
        /\ run[s].h # "none"
    BY <2>1 DEF HandlerAdvances
  <2>3. run[s].a = "wait"
    BY <1>0, <2>1, <2>2, ConstantsAssumption DEF SlotSound
  <2> QED
    BY <1>6, <2>1, <2>2, <2>3
<1>8. ASSUME NEW s \in Slots, ServerNext(s) PROVE SlotsSound'
  <2>1. run[s].exec \in Executions /\ ServerAdvances(s)
    BY <1>8, ServerReliable
  <2>2. CASE SlotStays(s)
    <3>1. run'[s].exec = run[s].exec /\ run[s].exec # NoExec /\ IdleRun.exec = NoExec
      BY <2>1, <2>2, ConstantsAssumption DEF SlotStays, IdleRun
    <3>2. run'[s].a # "none" /\ run'[s].h = "none" /\ UNCHANGED <<queue, retried>>
      BY <2>1, <3>1 DEF ServerAdvances, SlotLeaves
    <3> QED
      BY <1>6, <2>1, <2>2, <3>2
  <2>3. CASE SlotLeaves(s)
    <3>1. run'[s].exec = NoExec /\ \A t \in Slots \ {s} : run'[t] = run[t]
      BY <2>3 DEF SlotLeaves, IdleRun
    <3>2. \A f \in Executions \ {run[s].exec} : queue'[f] = queue[f] /\ retried'[f] = retried[f]
      BY <2>1 DEF ServerAdvances, TypeOK
    <3>3. \A t \in Slots \ {s} : run[t].exec # NoExec => run[t].exec \in Executions \ {run[s].exec}
      BY <1>0, <2>1 DEF SlotsSound, Run
    <3>4. \A t \in Slots : SlotSound(t)'
      BY <1>0, <3>1, <3>2, <3>3 DEF SlotSound
    <3> QED
      BY <3>1, <3>4 DEF SlotsSound
  <2> QED
    BY <2>1, <2>2, <2>3 DEF ServerAdvances
<1> QED
  BY <1>1, <1>3, <1>4, <1>5, <1>7, <1>8, ReliableStep

\* Only the insert of its row lets Submit publish.
LEMMA StoredStep ==
    ASSUME TypeOK, Fresh, Stored, [Next]_vars
    PROVE  Stored'
<1>1. Rows \subseteq Rows'
  BY RowsStep DEF RowsKept, RowAdded
<1>2. ASSUME NEW f \in Executions, SubmitCreate(f) PROVE Stored'
  <2>1. f \in Rows' /\ \A e \in Executions \ {f} : submit'[e] = submit[e]
    BY <1>2 DEF SubmitCreate, CreateTaskExecution, Rows, TypeOK
  <2> QED
    BY <1>1, <2>1 DEF Stored
<1>3. ASSUME NEW f \in Executions,
             SubmitReject(f) \/ SubmitPublish(f) \/ SubmitMark(f) \/ SubmitFail(f) \/ SubmitCrash(f)
      PROVE  Stored'
  <2>1. \A e \in Executions : submit'[e] = "publish" => submit[e] = "publish"
    BY <1>3 DEF SubmitReject, SubmitPublish, SubmitMark, SubmitFail, SubmitCrash, TypeOK
  <2> QED
    BY <1>1, <2>1 DEF Stored
<1>4. CASE submit' = submit
  BY <1>1, <1>4 DEF Stored
<1> QED
  BY <1>2, <1>3, <1>4, SubmitStep DEF SubmitNext

\* A row is claimed by a slot only, and marked after it was published only.
LEMMA UnclaimedStep ==
    ASSUME OutboxInv, Unclaimed, [Next]_vars,
           \/ enqueued' = enqueued
           \/ \E f \in Rows : enqueued' = enqueued \cup {f}
    PROVE  Unclaimed'
<1> USE DEF OutboxInv, RetryInv, ClaimInv
<1>1. ASSUME NEW e \in Executions \ enqueued'
      PROVE  attempt'[e] = 0
  <2>1. e \notin enqueued /\ attempt[e] = 0
    BY <1>1 DEF Unclaimed
  <2>2. ~RowClaimed(e)
    BY <2>1, ConstantsAssumption DEF RowClaimed, Delivered
  <2> QED
    BY <1>1, <2>1, <2>2, RowStep
       DEF RowKept, RowCreated, RowFinished, RowFailed, RowUnpublished
<1>2. ASSUME NEW e \in Executions \ enqueued', Outboxed(e)'
      PROVE  outbox'[e] = "pending"
  <2>1. e \notin enqueued /\ (Outboxed(e) => outbox[e] = "pending")
    BY <1>1, <1>2 DEF Unclaimed
  <2>2. ~OutboxMarked(e)
    BY <2>1 DEF OutboxMarked, SubmitMarks, DispatchersMark, DispatcherMarks, IsHead
  <2> QED
    BY <1>2, <2>1, <2>2, OutboxStep DEF Outboxed
<1>3. enqueued' \subseteq Rows'
  BY RowsStep DEF Unclaimed, RowsKept, RowAdded
<1> QED
  BY <1>1, <1>2, <1>3 DEF Unclaimed

\* An execution that nobody touches stays attended.
LEMMA AttendedKept ==
    ASSUME NEW e \in Executions, status'[e] = status[e], attempt'[e] = attempt[e],
           queue'[e] = queue[e], retried'[e] = retried[e],
           \A s \in Slots : run[s].exec = e => run'[s] = run[s],
           Attended(e)
    PROVE  Attended(e)'
<1>1. CASE queue[e] = "pending" /\ attempt[e] = retried[e]
  BY <1>1 DEF Attended
<1>2. ASSUME NEW s \in Slots, run[s].exec = e, Progress(s)
      PROVE  Attended(e)'
  <2>1. run'[s] = run[s]
    BY <1>2
  <2>2. Progress(s)'
    BY <1>2, <2>1 DEF Progress
  <2> QED
    BY <1>2, <2>1, <2>2 DEF Attended
<1> QED
  BY <1>1, <1>2 DEF Attended

\* A task in hand of a slot that has no outcome is where the slot says.
LEMMA SlotProgress ==
    ASSUME OutboxInv, SlotsSound, AllAttended, NEW s \in Slots, run[s].exec \in Routable,
           Unfinished(run[s].exec)
    PROVE  Progress(s) /\ run[s].exec \in enqueued
<1> USE DEF OutboxInv, RetryInv, ClaimInv
<1>1. run[s].exec \in Executions /\ run[s].exec # NoExec
  BY ConstantsAssumption
<1>2. run[s].exec \in enqueued /\ queue[run[s].exec] = "active"
  BY <1>1 DEF Delivered, SlotsSound, SlotSound
<1>3. Attended(run[s].exec)
  BY <1>2 DEF AllAttended
<1>4. PICK t \in Slots : run[t].exec = run[s].exec /\ Progress(t)
  BY <1>2, <1>3 DEF Attended
<1>5. t = s
  BY <1>1, <1>4 DEF SlotsSound
<1> QED
  BY <1>2, <1>4, <1>5

\* A handler that does not fail brings an execution on.
LEMMA HandlerAttends ==
    ASSUME ReliableWorkers, OutboxInv, SlotsSound, AllAttended, NEW s \in Slots, HandlerNext(s),
           NEW e \in Routable, e = run[s].exec, Unfinished(e)'
    PROVE  Attended(e)'
<1> USE DEF OutboxInv, RetryInv, ClaimInv
<1> DEFINE n == run[s].n
<1>0. e \in Executions /\ HandlerAdvances(s)
  BY HandlerReliable
<1>1. /\ SlotStays(s) /\ run'[s].a = run[s].a /\ status \in [Executions -> Status \cup {"none"}]
      /\ attempt \in [Executions -> Nat] /\ n \in Nat
      /\ run[s].h \in {"get", "claim", "handle", "succeed", "cancel"}
      /\ run'[s].exec = e /\ run'[s].n = n
  BY <1>0 DEF HandlerAdvances, SlotStays, TypeOK, Run
<1>2. SUFFICES ASSUME Unfinished(e) => Progress(s)
               PROVE  Progress(s)'
  BY <1>0, <1>1, SlotProgress DEF Attended
<1>3. CASE run[s].h = "get"
  <2>1. UNCHANGED <<status, attempt>> /\ (Unfinished(e) => run'[s].h = "claim")
    BY <1>0, <1>3 DEF HandlerAdvances
  <2> QED
    BY <1>0, <1>1, <1>2, <1>3, <2>1 DEF Unfinished, Progress
<1>4. CASE run[s].h = "claim" /\ Claimable(e, n)
  <2>1. Claimed(e, n) /\ run'[s].h = "handle"
    BY <1>0, <1>4 DEF HandlerAdvances
  <2>2. status'[e] = "running" /\ attempt'[e] = n /\ Progress(s)
    BY <1>0, <1>1, <1>2, <1>4, <2>1 DEF Claimed, Claimable, Unfinished
  <2> QED
    BY <1>1, <1>4, <2>1, <2>2 DEF Progress
<1>5. CASE run[s].h = "claim" /\ ~Claimable(e, n)
  <2>1. UNCHANGED <<status, attempt>>
    BY <1>0, <1>5 DEF HandlerAdvances
  <2>2. Unfinished(e) /\ n = attempt[e] + 1
    BY <1>2, <1>5, <2>1 DEF Unfinished, Progress
  <2> QED
    BY <1>0, <1>1, <1>5, <2>2 DEF Unfinished, Claimable
<1>6. CASE run[s].h = "handle"
  <2>1. /\ UNCHANGED <<status, attempt>>
        /\ run'[s].h = "succeed" \/ (run'[s].h = "none" /\ run'[s].res = "error")
    BY <1>0, <1>6 DEF HandlerAdvances
  <2>2. Progress(s)
    BY <1>2, <2>1 DEF Unfinished
  <2> QED
    BY <1>1, <1>6, <2>1, <2>2 DEF Progress
<1>7. CASE run[s].h \in {"succeed", "cancel"}
  <2>1. PICK new \in {"succeeded", "cancelled"} : UpdateExecution(e, "running", n, new)
    BY <1>0, <1>7 DEF HandlerAdvances
  <2>2. status'[e] = IF Matches(e, "running", n) THEN new ELSE status[e]
    BY <1>0, <1>1, <2>1 DEF UpdateExecution
  <2>3. ~Matches(e, "running", n) /\ Unfinished(e)
    BY <2>2 DEF Unfinished
  <2> QED
    BY <1>2, <1>7, <2>3 DEF Progress, Matches
<1> QED
  BY <1>1, <1>3, <1>4, <1>5, <1>6, <1>7

\* The server retries it, or records the failure of the last attempt.
LEMMA ServerAttends ==
    ASSUME ReliableWorkers, OutboxInv, SlotsSound, AllAttended, NEW s \in Slots, ServerNext(s),
           NEW e \in Routable, e = run[s].exec, Unfinished(e)'
    PROVE  Attended(e)'
<1> USE DEF OutboxInv, RetryInv, ClaimInv
<1> DEFINE n == run[s].n
<1>0. e \in Executions /\ run[s].h = "none" /\ ServerAdvances(s)
  BY ServerReliable
<1>1. /\ status \in [Executions -> Status \cup {"none"}] /\ attempt \in [Executions -> Nat]
      /\ queue \in [Executions -> {"absent", "pending", "active", "archived"}]
      /\ retried \in [Executions -> Nat]
      /\ SlotStays(s) => run'[s].exec = e /\ run'[s].n = n
  BY <1>0 DEF SlotStays, TypeOK
<1>2. Unfinished(e) => Progress(s)
  BY SlotProgress
<1>3. CASE UpdateExecution(e, "running", n, "failed") /\ run[s].a = "failupdate"
  <2>1. status'[e] = IF Matches(e, "running", n) THEN "failed" ELSE status[e]
    BY <1>0, <1>1, <1>3 DEF UpdateExecution
  <2>2. ~Matches(e, "running", n) /\ Unfinished(e)
    BY <2>1 DEF Unfinished
  <2> QED
    BY <1>2, <1>3, <2>2 DEF Progress, Matches
<1>4. CASE UNCHANGED <<status, attempt>>
  <2>1. Unfinished(e) /\ Progress(s) /\ status[e] = "running" /\ n = attempt[e]
    BY <1>0, <1>2, <1>4 DEF Unfinished, Progress
  <2>2. CASE SlotStays(s) /\ run'[s].h = "none" /\ run'[s].a \in {"failget", "failupdate"}
    BY <1>0, <1>1, <1>4, <2>1, <2>2 DEF Progress, Attended
  <2>3. CASE /\ queue' = [queue EXCEPT ![e] = "pending"]
             /\ retried' = [retried EXCEPT ![e] = n]
    BY <1>0, <1>1, <1>4, <2>1, <2>3 DEF Attended
  <2>4. \/ run[s].a = "wait" /\ run[s].res = "error"
        \/ run[s].a \in {"failget", "failupdate"}
    BY <1>0, <2>1 DEF Progress
  <2> QED
    BY <1>0, <1>3, <2>1, <2>2, <2>3, <2>4 DEF ServerAdvances
<1> QED
  BY <1>0, <1>3, <1>4 DEF ServerAdvances

\* Every step leaves unfinished executions attended.
LEMMA AllAttendedStep ==
    ASSUME ReliableWorkers, AttendedInv, [Next]_vars
    PROVE  AllAttended'
<1> USE DEF AttendedInv, OutboxInv, RetryInv, ClaimInv
<1>0. /\ Routable \subseteq Executions /\ NoExec \notin Executions
      /\ \A s \in Slots : run[s].exec # NoExec =>
           run[s].exec \in enqueued /\ queue[run[s].exec] = "active"
      /\ \A e \in Executions : queue[e] # "absent" => e \in enqueued
  BY ConstantsAssumption DEF Delivered, SlotsSound, SlotSound
<1> SUFFICES ASSUME NEW e \in Routable, Unfinished(e)', e \in enqueued'
             PROVE  Attended(e)'
  BY DEF AllAttended
<1>1. e \in Executions
  BY <1>0
<1>2. ASSUME QueueKept PROVE Attended(e)'
  <2>1. e \in enqueued /\ submit[e] # "idle"
    BY <1>1, <1>2 DEF QueueKept, Unclaimed, Rows, Fresh
  <2>2. RowKept(e)
    BY <1>1, <1>2, <2>1 DEF QueueKept, RowCreated, RowUnpublished, Unfinished
  <2>3. Attended(e)
    BY <2>1, <2>2 DEF RowKept, Unfinished, AllAttended
  <2> QED
    BY <1>1, <1>2, <2>2, <2>3, AttendedKept DEF QueueKept, RowKept
<1>3. ASSUME NEW f \in Executions, TaskEnqueued(f) PROVE Attended(e)'
  <2>1. /\ UNCHANGED <<run, status, attempt>> /\ enqueued' = enqueued \cup {f}
        /\ queue' = IF queue[f] = "absent" THEN [queue EXCEPT ![f] = "pending"] ELSE queue
        /\ retried' = IF queue[f] = "absent" THEN [retried EXCEPT ![f] = 0] ELSE retried
    BY <1>3 DEF TaskEnqueued, Enqueue
  <2>2. CASE e \in enqueued
    <3>1. Attended(e)
      BY <2>1, <2>2 DEF Unfinished, AllAttended
    <3>2. queue[e] # "absent"
      BY <1>0, <1>1, <3>1 DEF Attended
    <3>3. queue'[e] = queue[e] /\ retried'[e] = retried[e]
      BY <1>1, <2>1, <3>2 DEF TypeOK
    <3> QED
      BY <1>1, <2>1, <3>1, <3>3, AttendedKept
  <2>3. CASE e \notin enqueued
    <3>1. e = f /\ queue[f] = "absent" /\ attempt[e] = 0
      BY <1>0, <1>1, <2>1, <2>3 DEF Unclaimed
    <3>2. queue'[e] = "pending" /\ retried'[e] = 0 /\ attempt'[e] = 0
      BY <2>1, <3>1 DEF TypeOK
    <3> QED
      BY <3>2 DEF Attended
  <2> QED
    BY <2>2, <2>3
<1>4. ASSUME NEW f \in Executions, TaskRecovered(f) PROVE Attended(e)'
  <2>1. /\ UNCHANGED <<run, status, attempt, enqueued>> /\ queue[f] = "active"
        /\ \A s \in Slots : ~(run[s].exec = f /\ run[s].a # "none" /\ run[s].lease)
        /\ \A g \in Executions \ {f} : queue'[g] = queue[g] /\ retried'[g] = retried[g]
    BY <1>4 DEF TaskRecovered, Recover, TypeOK
  <2>2. Attended(e)
    BY <2>1 DEF Unfinished, AllAttended
  <2>3. e # f
    <3>1. \A s \in Slots : run[s].exec # f
      BY <1>0, <2>1 DEF SlotsSound, SlotSound
    <3> QED
      BY <2>1, <2>2, <3>1 DEF Attended
  <2> QED
    BY <1>1, <2>1, <2>2, <2>3, AttendedKept
<1>5. ASSUME NEW s \in Slots, NEW f \in Executions, Dequeue(s, f) PROVE Attended(e)'
  <2>1. /\ UNCHANGED <<status, attempt, enqueued, retried>> /\ queue[f] = "pending"
        /\ run[s].exec = NoExec /\ \A t \in Slots \ {s} : run'[t] = run[t]
        /\ \A g \in Executions \ {f} : queue'[g] = queue[g]
        /\ run'[s].exec = f /\ run'[s].n = retried[f] + 1 /\ run'[s].a = "wait"
        /\ f \in Routable => run'[s].h = "get"
    BY <1>5 DEF Dequeue, TypeOK, IdleRun, dbVars
  <2>2. Attended(e)
    BY <2>1 DEF Unfinished, AllAttended
  <2>3. CASE e # f
    BY <1>0, <1>1, <2>1, <2>2, <2>3, AttendedKept
  <2>4. CASE e = f
    <3>1. attempt[e] = retried[e]
      BY <1>0, <1>1, <2>1, <2>2, <2>4 DEF Attended
    <3>2. Progress(s)'
      BY <2>1, <2>4, <3>1 DEF Progress
    <3> QED
      BY <2>1, <2>4, <3>2 DEF Attended
  <2> QED
    BY <2>3, <2>4
<1>6. ASSUME NEW s \in Slots, run[s].exec \in Executions, e # run[s].exec, enqueued' = enqueued,
             \A t \in Slots \ {s} : run'[t] = run[t],
             \A f \in Executions \ {run[s].exec} : RowKept(f) /\ queue'[f] = queue[f] /\ retried'[f] = retried[f]
      PROVE  Attended(e)'
  <2>1. RowKept(e) /\ queue'[e] = queue[e] /\ retried'[e] = retried[e]
    BY <1>1, <1>6
  <2>2. Attended(e)
    BY <1>6, <2>1 DEF RowKept, Unfinished, AllAttended
  <2> QED
    BY <1>1, <1>6, <2>1, <2>2, AttendedKept DEF RowKept
<1>7. ASSUME NEW s \in Slots, HandlerNext(s) PROVE Attended(e)'
  <2>1. run[s].exec \in Executions /\ HandlerAdvances(s)
    BY <1>7, HandlerReliable
  <2>2. /\ \A t \in Slots \ {s} : run'[t] = run[t]
        /\ UNCHANGED <<queue, retried, enqueued>>
    BY <2>1 DEF HandlerAdvances, SlotStays
  <2>3. \A f \in Executions \ {run[s].exec} : RowKept(f)
    BY <2>1, UpdateRow DEF HandlerAdvances, Claimed, RowKept, TypeOK
  <2> QED
    BY <1>6, <1>7, <2>1, <2>2, <2>3, HandlerAttends
<1>8. ASSUME NEW s \in Slots, ServerNext(s) PROVE Attended(e)'
  <2>1. run[s].exec \in Executions /\ ServerAdvances(s)
    BY <1>8, ServerReliable
  <2>2. /\ \A t \in Slots \ {s} : run'[t] = run[t]
        /\ enqueued' = enqueued
        /\ \A f \in Executions \ {run[s].exec} : queue'[f] = queue[f] /\ retried'[f] = retried[f]
    BY <2>1 DEF ServerAdvances, SlotStays, SlotLeaves, TypeOK
  <2>3. \A f \in Executions \ {run[s].exec} : RowKept(f)
    BY <2>1, UpdateRow DEF ServerAdvances, RowKept
  <2> QED
    BY <1>6, <1>8, <2>1, <2>2, <2>3, ServerAttends
<1> QED
  BY <1>2, <1>3, <1>4, <1>5, <1>7, <1>8, ReliableStep

\* The invariant holds initially, and every step keeps it.
LEMMA AttendedInvInit == Init => AttendedInv
<1> SUFFICES ASSUME Init PROVE AttendedInv
  OBVIOUS
<1>1. SlotsSound
  BY DEF Init, SlotsSound, SlotSound, IdleRun
<1>2. Stored /\ Unclaimed /\ AllAttended
  BY DEF Init, Stored, Unclaimed, AllAttended, Rows, Outboxed
<1> QED
  BY <1>1, <1>2, OutboxInvInit DEF AttendedInv

LEMMA AttendedInvStep ==
    ASSUME ReliableWorkers, AttendedInv, [Next]_vars
    PROVE  AttendedInv'
<1>1. OutboxInv' /\ SlotsSound' /\ Stored'
  BY OutboxInvStep, SlotsSoundStep, StoredStep DEF AttendedInv, OutboxInv, RetryInv, ClaimInv
<1>2. \/ enqueued' = enqueued
      \/ \E f \in Rows : enqueued' = enqueued \cup {f}
  <2>1. ASSUME NEW s \in Slots, HandlerNext(s) \/ ServerNext(s) PROVE enqueued' = enqueued
    BY <2>1, HandlerReliable, ServerReliable
       DEF AttendedInv, OutboxInv, RetryInv, ClaimInv, HandlerAdvances, ServerAdvances
  <2> QED
    BY <2>1, ReliableStep DEF AttendedInv, QueueKept, TaskEnqueued, TaskRecovered, Enqueue, Dequeue
<1>3. Unclaimed'
  BY <1>2, UnclaimedStep DEF AttendedInv
<1> QED
  BY <1>1, <1>3, AllAttendedStep DEF AttendedInv

LEMMA AttendedInvariant == ReliableWorkers => (Spec => []AttendedInv)
<1> SUFFICES ASSUME ReliableWorkers PROVE Spec => []AttendedInv
  OBVIOUS
<1>1. AttendedInv /\ [Next]_vars => AttendedInv'
  BY AttendedInvStep
<1> QED
  BY <1>1, AttendedInvInit, PTL DEF Spec

\* The safety behind AcceptedFinishes, which TLC checks under fairness: whatever Submit,
\* the dispatchers and the publishes do, an accepted execution without an outcome is
\* pending in the outbox, waits in the queue or is in the hands of a slot.
THEOREM AcceptedNeverForgotten ==
    FALSE \notin OutboxStores /\ ReliableWorkers => (Spec => []NothingForgotten)
<1> SUFFICES ASSUME FALSE \notin OutboxStores, ReliableWorkers PROVE Spec => []NothingForgotten
  OBVIOUS
<1>1. ASSUME AttendedInv PROVE NothingForgotten
  <2> SUFFICES ASSUME NEW e \in Routable, Unfinished(e)
               PROVE  IF e \in enqueued THEN InHand(e) ELSE outbox[e] = "pending"
    BY DEF NothingForgotten
  <2>1. e \in Executions /\ e \in Rows
    BY ConstantsAssumption DEF Unfinished, Rows
  <2>2. CASE e \in enqueued
    <3>1. Attended(e)
      BY <1>1, <2>2 DEF AttendedInv, AllAttended
    <3> QED
      BY <2>2, <3>1 DEF Attended, Progress, InHand
  <2>3. CASE e \notin enqueued
    <3>1. Outboxed(e)
      BY <1>1, <2>1 DEF AttendedInv, OutboxInv, RetryInv, PlainRows, Rows
    <3> QED
      BY <1>1, <2>1, <2>3, <3>1 DEF AttendedInv, Unclaimed
  <2> QED
    BY <2>2, <2>3
<1> QED
  BY <1>1, AttendedInvariant, PTL

\* Retry exhaustion is synchronized as long as workers do not fail and know all task
\* types: what task_exhaustion_sync violates takes a statement of a worker that fails
\* (Processor.Process, Processor.Fail).
THEOREM ExhaustionsSynchronized ==
    Routable = Executions /\ ReliableWorkers => (Spec => []ExhaustionSynchronized)
<1> SUFFICES ASSUME Routable = Executions, ReliableWorkers PROVE Spec => []ExhaustionSynchronized
  OBVIOUS
<1>1. ASSUME AttendedInv PROVE ExhaustionSynchronized
  <2> SUFFICES ASSUME NEW e \in Executions, queue[e] = "archived", \A s \in Slots : run[s].exec # e
               PROVE  status[e] \in Terminal
    BY DEF ExhaustionSynchronized
  <2>1. e \in enqueued /\ e \in Rows /\ status[e] \in Status \cup {"none"}
    BY <1>1 DEF AttendedInv, Unclaimed, OutboxInv, RetryInv, ClaimInv, Delivered, TypeOK
  <2>2. ~Unfinished(e)
    BY <1>1, <2>1 DEF AttendedInv, AllAttended, Attended
  <2> QED
    BY <2>1, <2>2 DEF Unfinished, Rows, Status, Terminal
<1> QED
  BY <1>1, AttendedInvariant, PTL
=============================================================================
