-------------------------- MODULE ProcessManager ---------------------------
(***************************************************************************)
(* The execution engine: the Forker and Gatherer threads of                *)
(* ProcessManager.cpp, the monitor processes they start and reap           *)
(* (evqueue_monitor.cpp and the child branch of                            *)
(* WorkflowInstance::TaskExecute), the System V message queue between      *)
(* them, and the main thread that resumes tasks at boot and shuts the      *)
(* engine down.  Workflow instances appear as the clients that enqueue     *)
(* tasks, cancel them and are told that a task has stopped.                *)
(***************************************************************************)
EXTENDS QueuePool, Functions

CONSTANTS
    Pids,              \* process ids of monitors
    ResumeTid,         \* tid saved with each task found EXECUTING at boot
    Strays,            \* tids of monitors at boot whose task is not resumed
    MayCancel,         \* instances a user may cancel
    MaxRuns,           \* bound: times each task is enqueued (it is retried)
    SpuriousWakeups,   \* pthread_cond_wait may return without a signal
    ChildMayDie,       \* a child may exit before it runs the monitor
    MsgrcvMayFail,     \* msgrcv() may return an error, a signal's EINTR say
    LogsDelete         \* processmanager.logs.delete

Resumed == DOMAIN ResumeTid

ASSUME ManagerAssumption ==
    /\ 0 \notin Pids
    /\ Resumed \subseteq Tasks
    /\ \A t \in Resumed : ResumeTid[t] \in Tids
    /\ Strays \subseteq Tids
    /\ MayCancel \subseteq Workflows
    /\ MaxRuns \in [Tasks -> Nat]
    /\ SpuriousWakeups \in BOOLEAN
    /\ ChildMayDie \in BOOLEAN
    /\ MsgrcvMayFail \in BOOLEAN
    /\ LogsDelete \in BOOLEAN

VARIABLES
    forker,            \* [pc, task, queue, tid] of ProcessManager::Fork
    gatherer,          \* [pc, pid, tid, task, output] of ProcessManager::Gather
    main,              \* progress of the main thread
    pending,           \* EXECUTING tasks the main thread has yet to resume
    pm_shutting_down,  \* ProcessManager::is_shutting_down
    msgq,              \* System V queue of [pid, tid]; pid 0 asks for shutdown
    proc,              \* the monitor processes, by pid
    log,               \* whose output file <tid>.log holds, NoTask if absent
    status,            \* status attribute of each task node
    runs,              \* number of times each task was enqueued
    cancelling         \* instances whose is_cancelling is set

clientVars == <<status, runs, cancelling>>
procVars == <<msgq, proc, log>>
mainVars == <<main, pending, pm_shutting_down>>
vars == <<poolVars, forker, gatherer, mainVars, procVars, clientVars>>

ForkerPCs == {"off", "dequeue", "waiting", "register", "execute", "forked",
              "release", "exited", "crashed"}
GathererPCs == {"off", "receive", "reap", "read", "terminate", "stop", "exited"}
MainPCs == {"resuming", "serving", "flagged", "pool", "sent", "joining", "joined"}
Statuses == {"NONE", "QUEUED", "EXECUTING", "TERMINATED", "ABORTED"}
Stages == {"none", "forked", "running", "sent", "zombie"}

NoProc == [stage |-> "none", task |-> NoTask, tid |-> 0, child |-> FALSE]

\* A thread that begins a new turn of its loop has forgotten the last one.
ForkerAt(pc) == [pc |-> pc, task |-> NoTask, queue |-> 0, tid |-> 0]
GathererAt(pc) == [pc |-> pc, pid |-> 0, tid |-> 0, task |-> NoTask, output |-> NoTask]

ShutdownMsg == [pid |-> 0, tid |-> 0]

TypeOK ==
    /\ PoolTypeOK
    /\ forker \in [pc : ForkerPCs, task : Tasks \cup {NoTask},
                   queue : Queues \cup {0}, tid : Tids]
    /\ gatherer \in [pc : GathererPCs, pid : Pids \cup {0}, tid : Tids,
                     task : Tasks \cup {NoTask}, output : Tasks \cup {NoTask}]
    /\ main \in MainPCs
    /\ pending \subseteq Resumed
    /\ pm_shutting_down \in BOOLEAN
    /\ msgq \in Seq([pid : Pids \cup {0}, tid : Tids])
    /\ proc \in [Pids -> [stage : Stages, task : Tasks \cup {NoTask},
                          tid : Tids, child : BOOLEAN]]
    /\ log \in [Tids -> Tasks \cup {NoTask}]
    /\ status \in [Tasks -> Statuses]
    /\ runs \in [Tasks -> Nat]
    /\ cancelling \subseteq Workflows

\* A monitor that an earlier engine started.
LeftOver(t, k) == [stage |-> "running", task |-> t, tid |-> k, child |-> FALSE]

\* The tasks saved as EXECUTING still run, each under its own pid, when the
\* engine boots, and so may tasks that are not resumed, the tables having been
\* cleaned; a shutdown message of the previous engine may be left over.
Init ==
    /\ PoolInit
    /\ forker = ForkerAt("off")
    /\ gatherer = GathererAt("off")
    /\ main = "resuming"
    /\ pending = Resumed
    /\ pm_shutting_down = FALSE
    /\ msgq \in {<<>>, <<ShutdownMsg>>}
    /\ \E pid \in Injection(Resumed, Pids), stray \in Injection(Strays, Pids) :
         /\ \A t \in Resumed, k \in Strays : pid[t] # stray[k]
         /\ proc = [p \in Pids |->
                     IF \E t \in Resumed : pid[t] = p
                     THEN LET t == CHOOSE t \in Resumed : pid[t] = p
                          IN  LeftOver(t, ResumeTid[t])
                     ELSE IF \E k \in Strays : stray[k] = p
                     THEN LeftOver(NoTask, CHOOSE k \in Strays : stray[k] = p)
                     ELSE NoProc]
    /\ log = [k \in Tids |->
                IF \E t \in Resumed : ResumeTid[t] = k
                THEN CHOOSE t \in Resumed : ResumeTid[t] = k
                ELSE NoTask]
    /\ status = [t \in Tasks |-> IF t \in Resumed THEN "EXECUTING" ELSE "NONE"]
    /\ runs = [t \in Tasks |-> 0]
    /\ cancelling = {}

(***************************************************************************)
(* The engine process is alive: a crash of one thread ends all of them.    *)
(***************************************************************************)
Alive == forker.pc # "crashed"

\* The lock of an instance is held across fork() by TaskExecute.
InstanceLocked(w) == forker.pc = "forked" /\ WorkflowOf[forker.task] = w

-----------------------------------------------------------------------------
(* Clients: workflow instances and the users who cancel them.              *)

\* enqueue_task of a workflow instance, from Start, Resume, TaskStop (subjobs)
\* or TaskRestart (retries).
ClientEnqueue(t) ==
    /\ Alive
    /\ ~InstanceLocked(WorkflowOf[t])
    /\ status[t] \notin {"QUEUED", "EXECUTING"}
    /\ runs[t] < MaxRuns[t]
    /\ runs' = [runs EXCEPT ![t] = @ + 1]
    /\ \/ /\ WorkflowOf[t] \notin cancelling
          /\ QueueOf[t] # -1
          /\ EnqueueTask(t)
          /\ status' = [status EXCEPT ![t] = "QUEUED"]
       \/ /\ WorkflowOf[t] \in cancelling \/ QueueOf[t] = -1
          /\ status' = [status EXCEPT ![t] = "ABORTED"]
          /\ UNCHANGED poolVars
    /\ UNCHANGED <<forker, gatherer, mainVars, procVars, cancelling>>

\* WorkflowInstance::Cancel; the pool is told afterwards, in a step of its own.
ClientCancel(w) ==
    /\ Alive
    /\ main # "resuming"
    /\ ~InstanceLocked(w)
    /\ cancelling' = cancelling \cup {w}
    /\ UNCHANGED <<poolVars, forker, gatherer, mainVars, procVars, status, runs>>

ClientCancelTasks(w) ==
    /\ Alive
    /\ w \in cancelling
    /\ CancelTasks(w)
    /\ UNCHANGED <<forker, gatherer, mainVars, procVars, clientVars>>

-----------------------------------------------------------------------------
(* ProcessManager::Fork                                                    *)

ForkerWait ==
    /\ forker.pc = "dequeue"
    /\ DequeueWait
    /\ forker' = ForkerAt("waiting")
    /\ UNCHANGED <<gatherer, mainVars, procVars, clientVars>>

ForkerSpuriousWakeup ==
    /\ SpuriousWakeups
    /\ fork_lock
    /\ fork_lock' = FALSE
    /\ UNCHANGED <<queue, cell_task, tid_task, tid_queue_index, lasttid,
                   fork_locked, fork_possible, qp_shutting_down,
                   forker, gatherer, mainVars, procVars, clientVars>>

\* DequeueTask goes past its test of fork_possible: at once, or when the wait
\* has returned.
PastForkLock ==
    \/ forker.pc = "dequeue" /\ (fork_possible \/ qp_shutting_down)
    \/ forker.pc = "waiting" /\ ~fork_lock

ForkerDequeue ==
    /\ PastForkLock
    /\ \E i \in Queues, t \in Tasks :
         /\ DequeueTask(i, t)
         /\ forker' = [forker EXCEPT !.pc = "register", !.task = t, !.queue = i]
    /\ UNCHANGED <<gatherer, mainVars, procVars, clientVars>>

ForkerCrash ==
    /\ PastForkLock
    /\ DequeueCrash
    /\ forker' = ForkerAt("crashed")
    /\ UNCHANGED <<gatherer, mainVars, procVars, clientVars>>

ForkerExit ==
    /\ PastForkLock
    /\ DequeueFalse
    /\ forker' = ForkerAt("exited")
    /\ UNCHANGED <<gatherer, mainVars, procVars, clientVars>>

ForkerRegister ==
    /\ forker.pc = "register"
    /\ \E tid \in Tids :
         /\ ExecuteTask(forker.queue, forker.task, 0, tid)
         /\ forker' = [forker EXCEPT !.pc = "execute", !.tid = tid]
    /\ UNCHANGED <<gatherer, mainVars, procVars, clientVars>>

\* TaskExecute returning -1: the instance is cancelling, the task is unknown or
\* fork() fails.
ForkerAbort ==
    /\ forker.pc = "execute"
    /\ status' = [status EXCEPT ![forker.task] = "ABORTED"]
    /\ forker' = [forker EXCEPT !.pc = "release"]
    /\ UNCHANGED <<poolVars, gatherer, mainVars, procVars, runs, cancelling>>

\* TaskExecute up to fork(), which it calls with the instance locked ...
ForkerFork ==
    /\ forker.pc = "execute"
    /\ WorkflowOf[forker.task] \notin cancelling
    /\ \E p \in Pids :
         /\ proc[p].stage = "none"
         /\ proc' = [proc EXCEPT ![p] = [stage |-> "forked", task |-> forker.task,
                                         tid |-> forker.tid, child |-> TRUE]]
    /\ forker' = [forker EXCEPT !.pc = "forked"]
    /\ UNCHANGED <<poolVars, gatherer, mainVars, msgq, log, clientVars>>

\* Mutant: the id is released whatever TaskExecute returns.
ForkerExecutingReleasing ==
    /\ forker.pc = "forked"
    /\ status' = [status EXCEPT ![forker.task] = "EXECUTING"]
    /\ forker' = [forker EXCEPT !.pc = "release"]
    /\ UNCHANGED <<poolVars, gatherer, mainVars, procVars, runs, cancelling>>

\* ... and from there to the end, where the task is set EXECUTING.
ForkerExecuting ==
    /\ forker.pc = "forked"
    /\ status' = [status EXCEPT ![forker.task] = "EXECUTING"]
    /\ forker' = ForkerAt("dequeue")
    /\ UNCHANGED <<poolVars, gatherer, mainVars, procVars, runs, cancelling>>

ForkerRelease ==
    /\ forker.pc = "release"
    /\ TerminateTask(forker.tid) \/ TerminateNotFound(forker.tid)
    /\ forker' = ForkerAt("dequeue")
    /\ UNCHANGED <<gatherer, mainVars, procVars, clientVars>>

Forker ==
    \/ ForkerWait \/ ForkerDequeue \/ ForkerCrash \/ ForkerExit
    \/ ForkerRegister \/ ForkerAbort \/ ForkerFork \/ ForkerExecuting
    \/ ForkerRelease

-----------------------------------------------------------------------------
(* The child process: log file, monitor, exit message.                     *)

\* open(<tid>.log, O_TRUNC), then exec of the monitor.
MonitorStart(p) ==
    /\ proc[p].stage = "forked"
    /\ proc' = [proc EXCEPT ![p].stage = "running"]
    /\ log' = [log EXCEPT ![proc[p].tid] = proc[p].task]
    /\ UNCHANGED <<poolVars, forker, gatherer, mainVars, msgq, clientVars>>

\* The log file cannot be opened or the monitor cannot run: no message is sent.
MonitorDie(p) ==
    /\ ChildMayDie
    /\ proc[p].stage = "forked"
    /\ proc' = [proc EXCEPT ![p].stage = "zombie"]
    /\ UNCHANGED <<poolVars, forker, gatherer, mainVars, msgq, log, clientVars>>

MonitorSend(p) ==
    /\ proc[p].stage = "running"
    /\ proc' = [proc EXCEPT ![p].stage = "sent"]
    /\ msgq' = Append(msgq, [pid |-> p, tid |-> proc[p].tid])
    /\ UNCHANGED <<poolVars, forker, gatherer, mainVars, log, clientVars>>

\* A child stays as a zombie until it is waited for; a monitor started by an
\* earlier engine is not a child and disappears.
MonitorExit(p) ==
    /\ proc[p].stage = "sent"
    /\ proc' = [proc EXCEPT ![p] = IF @.child THEN [@ EXCEPT !.stage = "zombie"]
                                              ELSE NoProc]
    /\ UNCHANGED <<poolVars, forker, gatherer, mainVars, msgq, log, clientVars>>

Monitor(p) == MonitorStart(p) \/ MonitorSend(p) \/ MonitorExit(p)

-----------------------------------------------------------------------------
(* ProcessManager::Gather                                                  *)

\* Mutant: a left-over shutdown message ends the Gatherer.
GathererReceiveTrusting ==
    /\ Alive
    /\ gatherer.pc = "receive"
    /\ msgq # <<>>
    /\ msgq' = Tail(msgq)
    /\ gatherer' = IF Head(msgq).pid = 0
                   THEN GathererAt("exited")
                   ELSE [gatherer EXCEPT !.pc = "reap", !.pid = Head(msgq).pid,
                                         !.tid = Head(msgq).tid]
    /\ UNCHANGED <<poolVars, forker, mainVars, proc, log, clientVars>>

GathererReceive ==
    /\ Alive
    /\ gatherer.pc = "receive"
    /\ msgq # <<>>
    /\ msgq' = Tail(msgq)
    /\ \/ /\ Head(msgq).pid = 0
          /\ pm_shutting_down
          /\ gatherer' = GathererAt("exited")
       \/ /\ Head(msgq).pid = 0
          /\ ~pm_shutting_down
          /\ UNCHANGED gatherer
       \/ /\ Head(msgq).pid # 0
          /\ gatherer' = [gatherer EXCEPT !.pc = "reap", !.pid = Head(msgq).pid,
                                          !.tid = Head(msgq).tid]
    /\ UNCHANGED <<poolVars, forker, mainVars, proc, log, clientVars>>

\* Mutant: the id is released before the log file is read.
GathererReapReleasing ==
    /\ Alive
    /\ gatherer.pc = "reap"
    /\ proc[gatherer.pid].child => proc[gatherer.pid].stage = "zombie"
    /\ proc' = [proc EXCEPT ![gatherer.pid] = IF @.child THEN NoProc ELSE @]
    /\ TerminateTask(gatherer.tid)
    /\ gatherer' = [gatherer EXCEPT !.pc = "read"]
    /\ UNCHANGED <<forker, mainVars, msgq, log, clientVars>>

\* waitpid(pid): waits for a child that has not exited, reaps one that has, and
\* fails at once if pid is no child.
GathererReap ==
    /\ Alive
    /\ gatherer.pc = "reap"
    /\ \/ /\ proc[gatherer.pid].child
          /\ proc[gatherer.pid].stage = "zombie"
          /\ proc' = [proc EXCEPT ![gatherer.pid] = NoProc]
       \/ /\ ~proc[gatherer.pid].child
          /\ UNCHANGED proc
    /\ gatherer' = [gatherer EXCEPT !.pc = "read"]
    /\ UNCHANGED <<poolVars, forker, mainVars, msgq, log, clientVars>>

GathererRead ==
    /\ Alive
    /\ gatherer.pc = "read"
    /\ gatherer' = [gatherer EXCEPT !.pc = "terminate", !.output = log[gatherer.tid]]
    /\ log' = IF LogsDelete THEN [log EXCEPT ![gatherer.tid] = NoTask] ELSE log
    /\ UNCHANGED <<poolVars, forker, mainVars, msgq, proc, clientVars>>

GathererTerminate ==
    /\ Alive
    /\ gatherer.pc = "terminate"
    /\ \/ /\ TerminateTask(gatherer.tid)
          /\ gatherer' = [gatherer EXCEPT !.pc = "stop", !.task = tid_task[gatherer.tid]]
       \/ /\ TerminateNotFound(gatherer.tid)
          /\ gatherer' = GathererAt("receive")
    /\ UNCHANGED <<forker, mainVars, procVars, clientVars>>

\* Mutant: the lock of the instance is not taken.
GathererStopUnlocked ==
    /\ Alive
    /\ gatherer.pc = "stop"
    /\ status' = [status EXCEPT ![gatherer.task] = "TERMINATED"]
    /\ gatherer' = GathererAt("receive")
    /\ UNCHANGED <<poolVars, forker, mainVars, procVars, runs, cancelling>>

GathererStop ==
    /\ Alive
    /\ gatherer.pc = "stop"
    /\ ~InstanceLocked(WorkflowOf[gatherer.task])
    /\ status' = [status EXCEPT ![gatherer.task] = "TERMINATED"]
    /\ gatherer' = GathererAt("receive")
    /\ UNCHANGED <<poolVars, forker, mainVars, procVars, runs, cancelling>>

\* msgrcv() fails: the Gatherer leaves its loop for good.
GathererError ==
    /\ MsgrcvMayFail
    /\ Alive
    /\ gatherer.pc = "receive"
    /\ gatherer' = GathererAt("exited")
    /\ UNCHANGED <<poolVars, forker, mainVars, procVars, clientVars>>

Gatherer == \/ GathererReceive \/ GathererReap \/ GathererRead
            \/ GathererTerminate \/ GathererStop

-----------------------------------------------------------------------------
(* The main thread: resume at boot, start of the threads, shutdown.        *)

\* WorkflowInstance::Resume on an EXECUTING task: a task whose queue is unknown
\* is not registered.
MainResume(t) ==
    /\ main = "resuming"
    /\ t \in pending
    /\ pending' = pending \ {t}
    /\ \/ /\ QueueOf[t] # -1
          /\ \E ret \in Tids : ExecuteTask(QueueOf[t], t, ResumeTid[t], ret)
       \/ /\ QueueOf[t] = -1
          /\ UNCHANGED poolVars
    /\ UNCHANGED <<forker, gatherer, main, pm_shutting_down, procVars, clientVars>>

MainStart ==
    /\ main = "resuming"
    /\ pending = {}
    /\ main' = "serving"
    /\ forker' = ForkerAt("dequeue")
    /\ gatherer' = GathererAt("receive")
    /\ UNCHANGED <<poolVars, pending, pm_shutting_down, procVars, clientVars>>

MainShutdown ==
    /\ Alive
    /\ main = "serving"
    /\ main' = "flagged"
    /\ pm_shutting_down' = TRUE
    /\ UNCHANGED <<poolVars, forker, gatherer, pending, procVars, clientVars>>

MainShutdownPool ==
    /\ Alive
    /\ main = "flagged"
    /\ main' = "pool"
    /\ PoolShutdown
    /\ UNCHANGED <<forker, gatherer, pending, pm_shutting_down, procVars, clientVars>>

MainShutdownSend ==
    /\ Alive
    /\ main = "pool"
    /\ main' = "sent"
    /\ msgq' = Append(msgq, ShutdownMsg)
    /\ UNCHANGED <<poolVars, forker, gatherer, pending, pm_shutting_down,
                   proc, log, clientVars>>

\* WaitForShutdown joins the Forker, then the Gatherer.
MainJoin ==
    /\ \/ main = "sent" /\ forker.pc = "exited" /\ main' = "joining"
       \/ main = "joining" /\ gatherer.pc = "exited" /\ main' = "joined"
    /\ UNCHANGED <<poolVars, forker, gatherer, pending, pm_shutting_down,
                   procVars, clientVars>>

Shutdown == MainShutdownPool \/ MainShutdownSend \/ MainJoin

-----------------------------------------------------------------------------
Next ==
    \/ \E t \in Tasks : ClientEnqueue(t) \/ MainResume(t)
    \/ \E w \in MayCancel : ClientCancel(w) \/ ClientCancelTasks(w)
    \/ Forker
    \/ ForkerSpuriousWakeup
    \/ Gatherer
    \/ GathererError
    \/ \E p \in Pids : Monitor(p) \/ MonitorDie(p)
    \/ MainStart
    \/ MainShutdown
    \/ Shutdown

Spec == Init /\ [][Next]_vars

\* Threads that can run do run, and so do the monitors; nobody is obliged to
\* enqueue, to cancel or to ask for a shutdown.
Fairness ==
    /\ WF_vars(Forker)
    /\ WF_vars(Gatherer)
    /\ WF_vars(\E t \in Tasks : MainResume(t))
    /\ WF_vars(MainStart)
    /\ WF_vars(Shutdown)
    /\ \A p \in Pids : WF_vars(Monitor(p))

FairSpec == Spec /\ Fairness

\* What the resume at boot needs of the saved ids to restore them all: 0, which
\* ExecuteTask takes for "no id", is not among them, and no two are the same.
ResumeTidsUsable ==
    /\ \A t \in Resumed : ResumeTid[t] # 0
    /\ \A t, u \in Resumed : ResumeTid[t] = ResumeTid[u] => t = u

-----------------------------------------------------------------------------
(* Properties.                                                             *)

\* Monitors that have not sent their exit message.
Live(p) == proc[p].stage \in {"forked", "running"}

\* The Forker leaves its loop only because the engine shuts down, which is how
\* Fork() reads a DequeueTask that returns false.
ForkerExitsOnlyOnShutdown == forker.pc = "exited" => qp_shutting_down

\* No more monitors work for a queue than its concurrency allows.
ConcurrencyRespected ==
    \A i \in Queues :
        Cardinality({p \in Pids : Live(p) /\ proc[p].task # NoTask
                                          /\ QueueOf[proc[p].task] = i}) <= Concurrency[i]

\* From fork() until the Gatherer releases it, the id a monitor works under is
\* registered for the monitor's own task: the exit message of one task is never
\* taken for the end of another, and no task is run by two monitors at a time.
\* The monitor of a task that was not resumed (Strays) is the exception: its id
\* is nobody's, and its exit message is dropped by Gather, or ends the task that
\* was given the same id meanwhile.
TidOwnership ==
    main # "resuming" =>
      /\ \A p \in Pids : Live(p) => tid_task[proc[p].tid] = proc[p].task
      /\ \A p, r \in Pids : Live(p) /\ Live(r) /\ p # r => proc[p].task # proc[r].task
      /\ \A k \in 1 .. Len(msgq) : msgq[k].pid # 0 => tid_task[msgq[k].tid] # NoTask

\* The output handed to TaskStop was written by the task that is stopped: the
\* log file of an id is read before the id can be given to another task.
OutputBelongsToTask == gatherer.pc = "stop" => gatherer.output = gatherer.task

\* The cells that a list reaches and that carry t.
CellsHolding(t) ==
    {c \in UNION {Reachable(queue[i]) : i \in Queues} : cell_task[c] = t}

InForkersHands(t) == forker.task = t /\ forker.pc \in {"register", "execute", "forked"}

\* A task that is QUEUED is in exactly one place: one cell of its queue's lists
\* or the Forker's hands.
QueuedTaskIsHeld ==
    \A t \in Tasks : status[t] = "QUEUED" =>
        IF InForkersHands(t) THEN CellsHolding(t) = {}
                             ELSE Cardinality(CellsHolding(t)) = 1

\* A task that has stopped is not set EXECUTING by the TaskExecute that started
\* it: the exit message of a short task may overtake the end of TaskExecute.
StopIsFinal ==
    [][\A t \in Tasks : status[t] \in {"TERMINATED", "ABORTED"} =>
            status'[t] # "EXECUTING"]_vars

\* A shutdown that has begun ends with both threads joined.
ShutdownCompletes == pm_shutting_down ~> main = "joined"

\* A queued task is executed or aborted unless the engine shuts down.
QueuedTaskIsServed ==
    \A t \in Tasks : status[t] = "QUEUED" ~> status[t] # "QUEUED" \/ pm_shutting_down

\* A task that executes is reported as stopped unless the engine shuts down; a
\* task resumed with an unknown queue has no id, and its message finds nothing.
ExecutingTaskStops ==
    \A t \in Tasks :
        status[t] = "EXECUTING" /\ QueueOf[t] # -1
            ~> status[t] # "EXECUTING" \/ pm_shutting_down
=============================================================================
