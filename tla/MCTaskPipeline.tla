--------------------------- MODULE MCTaskPipeline ---------------------------
(***************************************************************************)
(* Small instances of TaskPipeline for TLC.                                *)
(***************************************************************************)
EXTENDS TaskPipeline, TLC

CONSTANTS e1, e2, s1, s2, w1, w2, k1

\* One retry for every execution.
OneRetry == [e \in Executions |-> 1]

\* No retry: the first attempt is the last.
NoRetry == [e \in Executions |-> 0]

\* e1 may be retried, e2 may not.
MixedRetries == [e \in Executions |-> IF e = e1 THEN 1 ELSE 0]

NoKeys == [e \in Executions |-> NoKey]

\* All submissions carry the same idempotency key.
SameKey == [e \in Executions |-> k1]

\* All slots in one worker process.
OneHost == [s \in Slots |-> w1]

\* One slot in each of two worker processes.
TwoHosts == [s \in Slots |-> IF s = s1 THEN w1 ELSE w2]

\* Slots of the same worker are interchangeable.
SlotSymmetry == Permutations(Slots)
=============================================================================
