--------------------------- MODULE WorkflowInstance ---------------------------
(***************************************************************************)
(* One workflow instance (WorkflowInstance.cpp): the XML document with its *)
(* jobs and tasks, the counters that decide when the instance ends, the    *)
(* retries, the cancellation, the savepoint and the resume after a restart *)
(* of the engine.                                                          *)
(*                                                                         *)
(* Every operation runs under the lock of the instance, so it is one       *)
(* action; the Forker calls TaskExecute, the Gatherer TaskStop, a          *)
(* retry_thread TaskRestart, a connection thread Start and Cancel.  The    *)
(* queue pool and the Retrier appear as the sets of tasks they hold.       *)
(*                                                                         *)
(* XPath is external: what a condition selects and whether an expression   *)
(* raises an exception are parameters of the operations; a loop is given   *)
(* by the clones its matching nodes make.                                  *)
(***************************************************************************)
EXTENDS Integers, FiniteSets, SequencesExt

CONSTANTS
    Tasks, Jobs, Root, None,
    Subjobs,        \* [Jobs -> Seq(Jobs)]: subjobs/job of a job, in order
    TasksOf,        \* [Jobs -> Seq(Tasks)]: tasks/task of a job, in order
    LoopedTasks, LoopedJobs,
    Clones,         \* the clones of a looped task or job, one per node
    Conditional,    \* jobs with a condition
    Fallible,       \* tasks and jobs with an expression that may raise
    UnknownQueue,   \* tasks of a queue the pool does not know
    MayVanish,      \* tasks whose description may be gone when it is read
    Policy,         \* the retry attributes of each task
    Retvals,        \* exit codes of tasks
    ForkMayFail, InvalidOutput, MayCancel,
    Level,          \* workflowinstance.savepoint.level
    MaxRestarts     \* bound on the restarts of the engine

Absent == -1

ASSUME InstanceAssumption ==
    /\ IsFiniteSet(Tasks) /\ IsFiniteSet(Jobs) /\ Root \in Jobs
    /\ None \notin Tasks \cup Jobs
    /\ Tasks \cap Jobs = {}
    /\ Subjobs \in [Jobs -> Seq(Jobs)] /\ TasksOf \in [Jobs -> Seq(Tasks)]
    /\ LoopedTasks \subseteq Tasks /\ LoopedJobs \subseteq Jobs
    /\ \A t \in LoopedTasks : Clones[t] \in Seq(Tasks \ LoopedTasks)
    /\ \A j \in LoopedJobs : Clones[j] \in Seq(Jobs \ LoopedJobs)
    /\ Conditional \subseteq Jobs
    /\ Fallible \subseteq Tasks \cup Jobs
    /\ UnknownQueue \subseteq Tasks /\ MayVanish \subseteq Tasks
    /\ \A t \in Tasks :
          /\ Policy[t].schedule \in BOOLEAN
          /\ Policy[t].levels \in Seq([delay : Nat, times : Nat])
          /\ Policy[t].delay \in Nat \cup {Absent}
          /\ Policy[t].times \in Nat \cup {Absent}
          /\ Policy[t].retval \in Nat
    /\ Retvals \subseteq Nat
    /\ ForkMayFail \in BOOLEAN /\ InvalidOutput \in BOOLEAN
    /\ MayCancel \in BOOLEAN
    /\ Level \in 0..3
    /\ MaxRestarts \in Nat

\* The tasks of a job and the clones of its looped ones; the jobs below a job,
\* and the tasks of those.
TasksIn(job) ==
    ToSet(TasksOf[job])
      \cup UNION {ToSet(Clones[l]) : l \in LoopedTasks \cap ToSet(TasksOf[job])}
JobsBelow(job) ==
    ToSet(Subjobs[job])
      \cup UNION {ToSet(Clones[l]) : l \in LoopedJobs \cap ToSet(Subjobs[job])}
TasksBelow(job) == UNION {TasksIn(j) : j \in JobsBelow(job)}

\* The document is a tree: a task is in one job, a job is below one job.
ASSUME DocumentAssumption ==
    /\ Tasks \subseteq UNION {TasksIn(j) : j \in Jobs}
    /\ \A j, k \in Jobs : TasksIn(j) \cap TasksIn(k) # {} => j = k
    /\ \A j, k \in Jobs : JobsBelow(j) \cap JobsBelow(k) # {} => j = k
    /\ \A j \in Jobs : j \notin JobsBelow(j) /\ Root \notin JobsBelow(j)

VARIABLES wi,       \* the document, the counters, and who holds the tasks
          saved,    \* the row of t_workflow_instance
          deleted,  \* how often a caller has been told to delete the instance
          restarts,
          tries     \* how often each task has been executed

vars == <<wi, saved, deleted, restarts, tries>>

CloneTasks == UNION {ToSet(Clones[t]) : t \in LoopedTasks}

\* task_node->getParentNode()->getParentNode()
JobOf == [t \in Tasks |-> CHOOSE j \in Jobs : t \in TasksIn(j)]

DocOf(w) ==
    [status |-> w.status, retval |-> w.retval, level |-> w.level,
     delay |-> w.delay, times |-> w.times, present |-> w.present,
     skipped |-> w.skipped, wf |-> w.wf]

\* init(), and what is in the memory of nobody yet, around a document.
FreshInstance(d) ==
    [status |-> d.status, retval |-> d.retval, level |-> d.level,
     delay |-> d.delay, times |-> d.times, present |-> d.present,
     skipped |-> d.skipped, wf |-> d.wf,
     running_tasks |-> 0, retrying_tasks |-> 0, error_tasks |-> 0,
     is_cancelling |-> FALSE, pool |-> {}, retrier |-> {}]

NewDocument ==
    [status |-> [t \in Tasks |-> "none"], retval |-> [t \in Tasks |-> 0],
     level |-> [t \in Tasks |-> 0],
     delay |-> [t \in Tasks |-> Policy[t].delay],
     times |-> [t \in Tasks |-> Policy[t].times],
     present |-> Tasks \ CloneTasks, skipped |-> {}, wf |-> "NEW"]

(* The constructor registers the instance; on level 2 and 3 it inserts a   *)
(* row, which record_savepoint completes on level 3.                       *)
Init ==
    /\ wi = FreshInstance(NewDocument)
    /\ saved = [kind |-> CASE Level = 3 -> "doc"
                           [] Level = 2 -> "empty"
                           [] OTHER -> "none",
                doc |-> NewDocument]
    /\ deleted = 0
    /\ restarts = 0
    /\ tries = [t \in Tasks |-> 0]

TypeOK ==
    /\ wi.status \in [Tasks -> {"none", "QUEUED", "EXECUTING", "TERMINATED",
                                "ABORTED"}]
    /\ wi.retval \in [Tasks -> Retvals \cup {0}]
    /\ wi.level \in [Tasks -> Nat]
    /\ wi.delay \in [Tasks -> Nat \cup {Absent}]
    /\ wi.times \in [Tasks -> Nat \cup {Absent}]
    /\ wi.present \subseteq Tasks
    /\ wi.skipped \subseteq Jobs
    /\ wi.wf \in {"NEW", "EXECUTING", "TERMINATED"}
    /\ {wi.running_tasks, wi.retrying_tasks, wi.error_tasks} \subseteq Nat
    /\ wi.is_cancelling \in BOOLEAN
    /\ wi.pool \subseteq Tasks /\ wi.retrier \subseteq Tasks
    /\ saved.kind \in {"none", "empty", "doc"}
    /\ deleted \in Nat
    /\ restarts \in 0..MaxRestarts
    /\ tries \in [Tasks -> Nat]

-----------------------------------------------------------------------------
(* The private operations: from the instance to the instance. *)

(* enqueue_task, for all tasks of a set. *)
enqueue_task(w, set) ==
    LET bad == IF w.is_cancelling THEN set ELSE set \cap UnknownQueue
        good == set \ bad
    IN  [w EXCEPT !.status = [t \in Tasks |->
                                 CASE t \in bad -> "ABORTED"
                                   [] t \in good -> "QUEUED"
                                   [] OTHER -> w.status[t]],
                  !.error_tasks = @ + Cardinality(bad),
                  !.running_tasks = @ + Cardinality(good),
                  !.pool = @ \cup good]

\* Mutant: the schedule ends with its last level but one.
schedule_updateShort(levels, a) ==
    LET l == a.level + 1
    IN  IF l >= Len(levels)
        THEN [a EXCEPT !.level = l, !.d = 0, !.n = 0]
        ELSE [level |-> l,
              delay |-> levels[l].delay, times |-> levels[l].times,
              d |-> levels[l].delay, n |-> levels[l].times]

(* schedule_update: the next level of the schedule, into the attributes of *)
(* the task and into the locals d and n (retry_delay and retry_times).     *)
schedule_update(levels, a) ==
    LET l == a.level + 1
    IN  IF l > Len(levels)
        THEN [a EXCEPT !.level = l, !.d = 0, !.n = 0]
        ELSE [level |-> l,
              delay |-> levels[l].delay, times |-> levels[l].times,
              d |-> levels[l].delay, n |-> levels[l].times]

\* What retry_task makes of the attributes of a task, and of the task: it gives
\* up, leaves the task as it is because of its retry_retval, or retries it.
Retried(w, t) ==
    LET p == Policy[t]
        attrs == [level |-> w.level[t], delay |-> w.delay[t],
                  times |-> w.times[t], d |-> w.delay[t], n |-> w.times[t]]
        begin == p.schedule /\ w.level[t] = 0
        first == IF begin THEN schedule_update(p.levels, attrs) ELSE attrs
        upd == IF p.schedule /\ first.n = 0
               THEN schedule_update(p.levels, first) ELSE first
        becomes(what, a, n) == [what |-> what, level |-> a.level, delay |-> a.delay, times |-> n]
    IN  CASE ~ begin /\ (w.delay[t] = Absent \/ w.times[t] = Absent) ->
                becomes("error", attrs, attrs.times)
          [] (begin \/ (w.delay[t] # Absent /\ w.times[t] # Absent))
             /\ (upd.d = 0 \/ upd.n = 0) ->
                becomes("error", upd, upd.times)
          [] OTHER ->
                IF p.retval # 0 /\ p.retval # w.retval[t]
                THEN becomes("left", upd, upd.times)
                ELSE becomes("retry", upd, upd.n - 1)

\* Mutant: a task that is not retried is not counted as an error.
retry_taskSilent(w, set) == w

(* retry_task, for all tasks of a set: an error is counted for those given *)
(* up, those retried are handed to the Retrier.                            *)
retry_task(w, set) ==
    LET r == [t \in set |-> Retried(w, t)]
        to(what) == {t \in set : r[t].what = what}
    IN  [w EXCEPT !.level = [t \in Tasks |-> IF t \in set THEN r[t].level ELSE @[t]],
                  !.delay = [t \in Tasks |-> IF t \in set THEN r[t].delay ELSE @[t]],
                  !.times = [t \in Tasks |-> IF t \in set THEN r[t].times ELSE @[t]],
                  !.error_tasks = @ + Cardinality(to("error")),
                  !.retrier = @ \cup to("retry"),
                  !.retrying_tasks = @ + Cardinality(to("retry"))]

(* matching_nodes_index after the first k templates: it is declared before *)
(* the loop over the templates and never reset.                            *)
NodesIndex(templates, looped, k) ==
    LET index[i \in 0..Len(templates)] ==
            IF i = 0 THEN 0
            ELSE IF templates[i] \in looped
                 THEN 1 + (IF index[i - 1] > Len(Clones[templates[i]])
                           THEN index[i - 1] ELSE Len(Clones[templates[i]]))
                 ELSE index[i - 1]
    IN  index[k]

\* The nodes the k-th template is run for: itself, or its clones.
Nodes(templates, looped, k) ==
    IF templates[k] \in looped
    THEN SubSeq(Clones[templates[k]], NodesIndex(templates, looped, k - 1) + 1,
                Len(Clones[templates[k]]))
    ELSE <<templates[k]>>

\* run(job): the tasks and the looped templates in the order of evaluation.
run(job) ==
    LET ts == TasksOf[job]
    IN  FlattenSeq([k \in 1..Len(ts) |->
            (IF ts[k] \in LoopedTasks THEN <<ts[k]>> ELSE <<>>)
            \o Nodes(ts, LoopedTasks, k)])

(* Everything run_subjobs(job) evaluates, each subjob before its tasks,    *)
(* when the conditions of the jobs in skip are false.                      *)
Evaluated ==
    [job \in Jobs |-> [skip \in SUBSET Conditional |->
        LET js == Subjobs[job]
        IN  FlattenSeq([k \in 1..Len(js) |->
                IF js[k] \in skip THEN <<js[k]>>
                ELSE LET ran == Nodes(js, LoopedJobs \ skip, k)
                     IN  <<js[k]>>
                         \o FlattenSeq([i \in 1..Len(ran) |-> run(ran[i])])])]]

(* One pass of run_subjobs(job): the conditions of the subjobs in skip are *)
(* false, and the evaluation of fail raises an exception, which ends the   *)
(* pass; what was enqueued before stays so.  Terminated tasks are skipped. *)
Pass(w, job, skip, fail) ==
    LET items == Evaluated[job][skip]
        cut == SelectInSeq(items, LAMBDA x : x = fail)
        done == ToSet(IF cut = 0 THEN items ELSE SubSeq(items, 1, cut - 1))
    IN  [enqueued |-> {t \in (done \cap Tasks) \ LoopedTasks :
                          w.status[t] # "TERMINATED"},
         skipped |-> done \cap skip,
         appended |-> (done \cup {fail}) \cap CloneTasks,
         expanded |-> {t \in done \cap LoopedTasks :
                          fail \notin ToSet(Clones[t])},
         failed |-> fail]

\* The passes that XPath makes possible.
Passes(w, job) ==
    UNION {{Pass(w, job, skip, fail) :
               fail \in {None} \cup ((Fallible \cap ToSet(Evaluated[job][skip]))
                                     \ skip)} :
           skip \in SUBSET (Conditional \cap ToSet(Subjobs[job]))}

(* run_subjobs: an exception is counted as one error. *)
run_subjobs(w, pass) ==
    enqueue_task([w EXCEPT !.present = (@ \cup pass.appended) \ pass.expanded,
                           !.skipped = @ \cup pass.skipped,
                           !.error_tasks = @ + (IF pass.failed = None THEN 0 ELSE 1),
                           !.status = [t \in Tasks |->
                               IF t = pass.failed /\ t \in LoopedTasks
                               THEN "ABORTED" ELSE @[t]]],
                 pass.enqueued)

\* Mutant: retries to come do not keep the instance alive.
workflow_endedIgnoringRetries(w) ==
    IF w.running_tasks = 0 THEN [w EXCEPT !.wf = "TERMINATED"] ELSE w

workflow_ended(w) ==
    IF w.running_tasks = 0 /\ w.retrying_tasks = 0
    THEN [w EXCEPT !.wf = "TERMINATED"] ELSE w

(* record_savepoint(force): level 0 never stores a terminated instance;    *)
(* up to level 2 only the terminated ones are stored, unless forced.       *)
record_savepoint(w, row, force) ==
    IF IF w.wf = "TERMINATED" THEN Level = 0 ELSE ~ force /\ Level <= 2
    THEN row
    ELSE [kind |-> "doc", doc |-> DocOf(w)]

\* Mutant: the savepoint is taken before the end is noticed.
FinishSavedFirst(u) ==
    \E w \in {workflow_ended(u)} :
        /\ wi' = w
        /\ saved' = record_savepoint(u, saved, FALSE)
        /\ deleted' = deleted + (IF w.wf = "TERMINATED" THEN 1 ELSE 0)

(* How the operations end: workflow_ended, record_savepoint, and a caller  *)
(* that deletes the instance when it has been told so.                     *)
Finish(u) ==
    \E w \in {workflow_ended(u)} :
        /\ wi' = w
        /\ saved' = record_savepoint(w, saved, FALSE)
        /\ deleted' = deleted + (IF w.wf = "TERMINATED" THEN 1 ELSE 0)

-----------------------------------------------------------------------------
(* The public operations. *)

Start ==
    /\ wi.wf = "NEW"
    /\ \E pass \in Passes(wi, Root) :
          Finish(run_subjobs([wi EXCEPT !.wf = "EXECUTING"], pass))
    /\ UNCHANGED <<restarts, tries>>

Cancel ==
    /\ MayCancel /\ wi.wf # "TERMINATED" /\ ~ wi.is_cancelling
    /\ wi' = [wi EXCEPT !.is_cancelling = TRUE]
    /\ UNCHANGED <<saved, deleted, restarts, tries>>

\* Mutant: the task is still counted as retrying.
TaskRestartUncounted(t) ==
    /\ t \in wi.retrier
    /\ Finish([enqueue_task(wi, {t}) EXCEPT !.retrier = @ \ {t}])
    /\ UNCHANGED <<restarts, tries>>

(* TaskRestart, from event_removed of the Retrier. *)
TaskRestart(t) ==
    /\ t \in wi.retrier
    /\ Finish([enqueue_task(wi, {t}) EXCEPT !.retrying_tasks = @ - 1,
                                            !.retrier = @ \ {t}])
    /\ UNCHANGED <<restarts, tries>>

\* The pool hands t to the Forker.
Dequeued(t) == [wi EXCEPT !.pool = @ \ {t}]

(* TaskExecute when nothing is executed: the instance is cancelling, the   *)
(* task is unknown, or fork() fails.                                       *)
TaskAbort(t) ==
    /\ t \in wi.pool
    /\ wi.is_cancelling \/ t \in MayVanish \/ ForkMayFail
    /\ Finish([Dequeued(t) EXCEPT !.status[t] = "ABORTED",
                                  !.error_tasks = @ + 1,
                                  !.running_tasks = @ - 1])
    /\ UNCHANGED <<restarts, tries>>

\* Mutant: the document of an executing task still says QUEUED.
TaskExecuteUnmarked(t) ==
    /\ t \in wi.pool
    /\ ~ wi.is_cancelling
    /\ Finish(Dequeued(t))
    /\ tries' = [tries EXCEPT ![t] = @ + 1]
    /\ UNCHANGED restarts

TaskExecute(t) ==
    /\ t \in wi.pool
    /\ ~ wi.is_cancelling
    /\ Finish([Dequeued(t) EXCEPT !.status[t] = "EXECUTING"])
    /\ tries' = [tries EXCEPT ![t] = @ + 1]
    /\ UNCHANGED restarts

\* Mutant: a failed task counts as a finished one.
JobSucceededAnyhow(w, job) ==
    \A t \in w.present : JobOf[t] = job => w.status[t] = "TERMINATED"

\* count(../task) = count(../task[@status='TERMINATED' and @retval=0])
JobSucceeded(w, job) ==
    \A t \in w.present :
        JobOf[t] = job => w.status[t] = "TERMINATED" /\ w.retval[t] = 0

\* The task has ended; ok: its description and its output are usable.
Stopped(t, ret, ok) ==
    LET w == [wi EXCEPT !.status[t] = "TERMINATED", !.retval[t] = ret]
    IN  CASE ret = 0 /\ ok -> w
          [] ret = 0 /\ ~ ok -> [w EXCEPT !.status[t] = "ABORTED",
                                          !.error_tasks = @ + 1]
          [] ret # 0 /\ wi.is_cancelling -> w
          [] OTHER -> retry_task(w, {t})

\* Mutant: a second message for a task that has stopped is accepted.
TaskStopAgain(t, ret, ok) ==
    /\ wi.status[t] \in {"EXECUTING", "ABORTED"}
    /\ ok
    /\ Finish([Stopped(t, ret, ok) EXCEPT !.running_tasks = @ - 1])
    /\ UNCHANGED <<restarts, tries>>

(* TaskStop, from the Gatherer: the subjobs are run before the task is     *)
(* taken off running_tasks.                                                *)
TaskStop(t, ret, ok) ==
    /\ wi.status[t] = "EXECUTING"
    /\ ok \/ (ret = 0 /\ (t \in MayVanish \/ InvalidOutput))
    /\ \E w \in {Stopped(t, ret, ok)} :
          \/ /\ JobSucceeded(w, JobOf[t])
             /\ \E pass \in Passes(w, JobOf[t]) :
                   Finish([run_subjobs(w, pass) EXCEPT !.running_tasks = @ - 1])
          \/ /\ ~ JobSucceeded(w, JobOf[t])
             /\ Finish([w EXCEPT !.running_tasks = @ - 1])
    /\ UNCHANGED <<restarts, tries>>

(* Resume: queued tasks are enqueued again, executing ones are counted,    *)
(* failed ones go through retry_task once more.                            *)
Resume(d) ==
    LET queued == {t \in d.present : d.status[t] = "QUEUED"}
        executing == {t \in d.present : d.status[t] = "EXECUTING"}
        failed == {t \in d.present :
                      d.status[t] = "TERMINATED" /\ d.retval[t] # 0}
        w == enqueue_task(FreshInstance(d), queued)
        counted == [w EXCEPT !.running_tasks = @ + Cardinality(executing)]
    IN  retry_task(counted, failed)

(* The engine stops (RecordSavepoint forces a savepoint) and the next one  *)
(* resumes the instance; up to level 1 the row is purged afterwards.  On   *)
(* level 3 a crash between two operations does the same, see               *)
(* SavedIsCurrent.                                                         *)
Restart ==
    /\ restarts < MaxRestarts /\ wi.wf # "TERMINATED"
    /\ LET row == record_savepoint(wi, saved, TRUE)
       IN  /\ wi' = workflow_ended(Resume(row.doc))
           /\ saved' = IF Level <= 1 THEN [row EXCEPT !.kind = "none"]
                       ELSE record_savepoint(wi', row, FALSE)
    /\ deleted' = deleted + (IF wi'.wf = "TERMINATED" THEN 1 ELSE 0)
    /\ restarts' = restarts + 1
    /\ UNCHANGED tries

Forker == \E t \in Tasks : TaskExecute(t) \/ TaskAbort(t)

Gatherer == \E t \in Tasks, ret \in Retvals, ok \in BOOLEAN : TaskStop(t, ret, ok)

Retrier == \E t \in Tasks : TaskRestart(t)

Next ==
    \/ Start
    \/ Cancel
    \/ Forker
    \/ Gatherer
    \/ Retrier
    \/ Restart

Spec == Init /\ [][Next]_vars

(* The caller of the constructor calls Start.  The threads of the engine   *)
(* go on as long as they have something to do, and monitors end.           *)
Fairness ==
    /\ WF_vars(Start)
    /\ WF_vars(Forker)
    /\ WF_vars(Gatherer)
    /\ WF_vars(Retrier)

FairSpec == Spec /\ Fairness

-----------------------------------------------------------------------------
(* Properties. *)

(* running_tasks counts the queued and the executing tasks, retrying_tasks *)
(* the tasks of the Retrier, and every queued task is in the pool          *)
(* (WorkflowInstance.cpp:399, 434, 580, 607, 1070, 1398).                  *)
CountersMatch ==
    LET with(s) == {t \in Tasks : wi.status[t] = s}
    IN  /\ wi.running_tasks = Cardinality(with("QUEUED") \cup with("EXECUTING"))
        /\ wi.retrying_tasks = Cardinality(wi.retrier)
        /\ wi.pool = with("QUEUED")

(* Exactly one caller is told to delete the instance, and by then nobody   *)
(* holds a task of it: no queue, no monitor, no timer will use the deleted *)
(* object (WorkflowInstance.cpp:1467-1486).                                *)
NothingAfterTheEnd ==
    /\ deleted = (IF wi.wf = "TERMINATED" THEN 1 ELSE 0)
    /\ wi.wf = "TERMINATED" =>
          /\ wi.pool = {} /\ wi.retrier = {}
          /\ \A t \in Tasks : wi.status[t] # "EXECUTING"

(* The tasks a job of the document stands for, its loops expanded. *)
Expected(job) ==
    LET jobs == IF job \in LoopedJobs THEN ToSet(Clones[job]) ELSE {job}
        ts == UNION {ToSet(TasksOf[j]) : j \in jobs}
    IN  (ts \ LoopedTasks) \cup UNION {ToSet(Clones[t]) : t \in ts \cap LoopedTasks}

HasRun(t) == wi.status[t] = "TERMINATED" /\ wi.retval[t] = 0

(* An instance that ends without errors has done its work: below the root, *)
(* and below every job all of whose tasks succeeded, each subjob has been  *)
(* skipped by its condition or all its tasks, one per node of its loops,   *)
(* have succeeded (WorkflowInstance.cpp:556-578, 1073-1273, 1473).         *)
SuccessMeansDone ==
    (wi.wf = "TERMINATED" /\ wi.error_tasks = 0) =>
        \A j \in Jobs \ LoopedJobs :
            (j = Root \/ (Expected(j) # {} /\ \A t \in Expected(j) : HasRun(t)))
            => \A s \in ToSet(Subjobs[j]) :
                  s \in wi.skipped \/ \A t \in Expected(s) : HasRun(t)

(* No task is touched before the job above it has succeeded, in whatever   *)
(* order its tasks end and are retried (WorkflowInstance.cpp:556-578).     *)
SubjobsInOrder ==
    \A j \in Jobs \ ({Root} \cup LoopedJobs) : \A s \in ToSet(Subjobs[j]) :
        (\E t \in Expected(s) : wi.status[t] # "none") =>
            \A t \in wi.present : JobOf[t] = j => HasRun(t)

\* The retries that the first k levels of a schedule allow.
RetriesUpTo(levels, k) ==
    LET total[i \in 0..Len(levels)] ==
            IF i = 0 THEN 0 ELSE total[i - 1] + levels[i].times
    IN  total[k]

Budget(p) ==
    IF p.schedule
    THEN RetriesUpTo(p.levels, Len(p.levels))
    ELSE IF p.delay \in {Absent, 0} \/ p.times = Absent THEN 0 ELSE p.times

(* A task that is given up after a failure has been executed once and then *)
(* as often as its retry attributes or all the levels of its schedule say, *)
(* and no task is ever executed more often (WorkflowInstance.cpp:995-1071, *)
(* 1409-1465).                                                             *)
RetriesAreUsedUp ==
    \A t \in Tasks :
        /\ tries[t] <= 1 + Budget(Policy[t])
        /\ (/\ wi.status[t] = "TERMINATED" /\ wi.retval[t] # 0
            /\ t \notin wi.retrier /\ ~ wi.is_cancelling
            /\ Policy[t].retval \in {0, wi.retval[t]})
           => tries[t] = 1 + Budget(Policy[t])

(* On level 3 the row is the document after every operation, so that a     *)
(* crash between two operations loses nothing that is in the document; on  *)
(* level 2 it is the document of an instance that has ended                *)
(* (WorkflowInstance.cpp:438, 584, 611, 884, 1488-1582).                   *)
SavedIsCurrent ==
    (Level = 3 \/ (Level = 2 /\ wi.wf = "TERMINATED")) =>
        saved.kind = "doc" /\ saved.doc = DocOf(wi)

(* A started instance ends (WorkflowInstance.cpp:1467-1486). *)
WorkflowEnds == wi.wf = "EXECUTING" ~> wi.wf = "TERMINATED"
=============================================================================
