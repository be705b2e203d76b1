-------------------------- MODULE MCWorkflowInstance --------------------------
(***************************************************************************)
(* Small workflows for TLC.  Chain: a job of two tasks, then a conditional *)
(* job with a looped task, and a looped job.  Loops: one job with two      *)
(* looped tasks.  Pair: a job of two tasks, then a conditional job with a  *)
(* looped task.                                                            *)
(***************************************************************************)
EXTENDS WorkflowInstance

CONSTANTS a1, a2, b, b1, b2, c, c1, c2, JA, JB, JC, JC1, JC2

NoRetry == [schedule |-> FALSE, levels |-> <<>>, delay |-> Absent,
            times |-> Absent, retval |-> 0]
Once == [NoRetry EXCEPT !.delay = 1, !.times = 1]
TwoLevels == [NoRetry EXCEPT !.schedule = TRUE,
                 !.levels = << [delay |-> 1, times |-> 1],
                               [delay |-> 2, times |-> 1] >>]
EmptyFirstLevel == [NoRetry EXCEPT !.schedule = TRUE,
                       !.levels = << [delay |-> 1, times |-> 0],
                                     [delay |-> 2, times |-> 1] >>]

ChainTasks == {a1, a2, b, b1, b2, c, c1, c2}
ChainJobs == {Root, JA, JB, JC, JC1, JC2}
ChainSubjobs == [j \in ChainJobs |-> CASE j = Root -> <<JA>>
                                       [] j = JA -> <<JB, JC>>
                                       [] OTHER -> <<>>]
ChainTasksOf == [j \in ChainJobs |-> CASE j = JA -> <<a1, a2>>
                                       [] j = JB -> <<b>>
                                       [] j = JC -> <<c>>
                                       [] j = JC1 -> <<c1>>
                                       [] j = JC2 -> <<c2>>
                                       [] OTHER -> <<>>]
ChainClones == (b :> <<b1, b2>>) @@ (JC :> <<JC1, JC2>>)
ChainPolicy == [t \in ChainTasks |-> CASE t = a1 -> TwoLevels
                                       [] t = a2 -> EmptyFirstLevel
                                       [] t = c1 -> Once
                                       [] OTHER -> NoRetry]

LoopTasks == {b, b1, b2, c, c1, c2}
LoopJobs == {Root, JA}
LoopSubjobs == (Root :> <<JA>>) @@ (JA :> <<>>)
LoopTasksOf == (Root :> <<>>) @@ (JA :> <<b, c>>)
LoopClones == (b :> <<b1, b2>>) @@ (c :> <<c1, c2>>)
LoopPolicy == [t \in LoopTasks |-> NoRetry]

PairTasks == {a1, a2, b, b1, b2}
PairJobs == {Root, JA, JB}
PairSubjobs == (Root :> <<JA>>) @@ (JA :> <<JB>>) @@ (JB :> <<>>)
PairTasksOf == (Root :> <<>>) @@ (JA :> <<a1, a2>>) @@ (JB :> <<b>>)
PairClones == b :> <<b1, b2>>
PairPolicy == [t \in PairTasks |-> CASE t = a1 -> TwoLevels
                                     [] t = b1 -> Once
                                     [] OTHER -> NoRetry]

=============================================================================
