-------------------------- MODULE MCTaskSubmission --------------------------
(***************************************************************************)
(* TaskPipeline for TLC, with two stores: the one of the constants, with   *)
(* an outbox, and one without, where two submissions share an idempotency  *)
(* key and the second is of a task type the worker does not know.  A       *)
(* behaviour has one of them from beginning to end.                        *)
(***************************************************************************)
EXTENDS MCTaskPipeline

VARIABLE store

NoOutbox ==
    INSTANCE TaskPipeline WITH
        OutboxStores <- {FALSE}, IdempotencyKey <- SameKey, Unique <- {},
        Routable <- {e1}, FaultKinds <- {"net"}, MaxFaults <- 2

StoreInit == Init /\ store \in {"outbox", "plain"}

StoreNext ==
    \/ store = "outbox" /\ Next /\ UNCHANGED store
    \/ store = "plain" /\ NoOutbox!Next /\ UNCHANGED store

\* The action of the store in use.
With(outboxAction, plainAction) ==
    \/ store = "outbox" /\ outboxAction
    \/ store = "plain" /\ plainAction

\* Fairness of TaskPipeline, for the store in use.
StoreFairness ==
    /\ \A e \in Executions :
         /\ WF_vars(With(SubmitPublish(e) \/ SubmitMark(e) \/ SubmitFail(e),
                         NoOutbox!SubmitPublish(e) \/ NoOutbox!SubmitMark(e)
                         \/ NoOutbox!SubmitFail(e)))
         /\ WF_vars(With(\E s \in Slots : Dequeue(s, e), \E s \in Slots : NoOutbox!Dequeue(s, e)))
         /\ WF_vars(With(Recover(e), NoOutbox!Recover(e)))
         /\ WF_vars(With(LockExpire(e), NoOutbox!LockExpire(e)))
    /\ \A w \in Workers : WF_vars(With(DispatchNext(w), NoOutbox!DispatchNext(w)))
    /\ \A s \in Slots :
         /\ WF_vars(With(HandlerNext(s), NoOutbox!HandlerNext(s)))
         /\ WF_vars(With(ServerNext(s), NoOutbox!ServerNext(s)))

StoreSpec == StoreInit /\ [][StoreNext]_<<vars, store>> /\ StoreFairness

\* With an outbox, every accepted submission reaches an outcome: AcceptedFinishes
\* of TaskPipeline, while the API process, a publish or a statement on the outbox
\* fails.
OutboxFinishes == store = "plain" \/ AcceptedFinishes

\* Without one, Submit itself fails what it could not publish, and every accepted
\* submission of a known type reaches an outcome although publishes fail with or
\* without effect.
FallbackFinishes == store = "outbox" \/ NoOutbox!AcceptedFinishes
=============================================================================
