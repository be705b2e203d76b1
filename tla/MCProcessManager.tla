-------------------------- MODULE MCProcessManager -------------------------
(* Small instances of ProcessManager for TLC.                              *)
EXTENDS ProcessManager

CONSTANTS t1, t2, t3, t4, w1, w2

\* t1 and t3 belong to one instance, t2 and t4 to another.
Two_WorkflowOf == [t \in Tasks |-> IF t \in {t1, t3} THEN w1 ELSE w2]
One_WorkflowOf == [t \in Tasks |-> w1]

\* Everything in one queue; t2 in a queue of its own; t4 in a queue that is unknown.
One_QueueOf == [t \in Tasks |-> 0]
Two_QueueOf == [t \in Tasks |-> IF t = t2 THEN 1 ELSE 0]
Unknown_QueueOf == [t \in Tasks |-> IF t = t4 THEN -1 ELSE 0]

One_Concurrency == [i \in Queues |-> 1]

Once == [t \in Tasks |-> 1]
T1Twice == [t \in Tasks |-> IF t = t1 THEN 2 ELSE 1]

\* Nothing to resume; t1 resumed under the id 2 or 0; t4, whose queue is
\* unknown, under the id 0.
Fresh == <<>>
Resume2 == t1 :> 2
Resume40 == t4 :> 0
Resume0 == t1 :> 0

Symmetry == Permutations(Cells) \cup Permutations(Pids)

\* t1 and t3 are alike when neither is resumed.
TaskSymmetry == Symmetry \cup Permutations({t1, t3})
=============================================================================
