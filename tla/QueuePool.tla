----------------------------- MODULE QueuePool -----------------------------
(***************************************************************************)
(* QueuePool.cpp: the queues of the engine, the table of the task ids in   *)
(* use, and the condition variable on which the Forker sleeps while no     *)
(* queue has anything to run.  Every operation is one critical section of  *)
(* QueuePool::mutex, hence one action; DequeueTask has two, since it gives *)
(* up the mutex while it waits.                                            *)
(***************************************************************************)
EXTENDS Queue

CONSTANTS
    Tasks,        \* task nodes of the workflow instances
    NoTask,       \* the null task
    Workflows,    \* workflow instances
    WorkflowOf,   \* the instance each task belongs to
    PoolSize,     \* number of queues
    QueueOf,      \* the index of the queue each task names, -1 if unknown
    Concurrency,  \* concurrency of each queue
    MaxPid        \* /proc/sys/kernel/pid_max, the number of task ids

Queues == 0 .. PoolSize - 1

Tids == 0 .. MaxPid - 1

ASSUME PoolAssumption ==
    /\ PoolSize \in Nat
    /\ MaxPid \in Nat \ {0}
    /\ MaxPid < UIntSpan
    /\ NoTask \notin Tasks
    /\ WorkflowOf \in [Tasks -> Workflows]
    /\ QueueOf \in [Tasks -> Queues \cup {-1}]
    /\ Concurrency \in [Queues -> UInt]

VARIABLES
    queue,             \* queue[i], with the lists as sequences of cells
    cell_task,         \* what each allocated cell carries, NoTask if free
    tid_task,          \* tid_task (and tid_workflow_instance), NoTask if free
    tid_queue_index,   \* queue of the task that has the id
    lasttid,           \* the last id given out
    fork_locked,       \* the flag that says the Forker sleeps
    fork_possible,     \* the cached answer of "is any queue unlocked?"
    fork_lock,         \* the Forker is blocked on the condition variable
    qp_shutting_down   \* QueuePool::is_shutting_down

poolVars == <<queue, cell_task, tid_task, tid_queue_index, lasttid,
              fork_locked, fork_possible, fork_lock, qp_shutting_down>>

PoolTypeOK ==
    /\ queue \in [Queues -> Queue]
    /\ cell_task \in [Cells -> Tasks \cup {NoTask}]
    /\ tid_task \in [Tids -> Tasks \cup {NoTask}]
    /\ tid_queue_index \in [Tids -> Queues \cup {0}]
    /\ lasttid \in Tids
    /\ fork_locked \in BOOLEAN
    /\ fork_possible \in BOOLEAN
    /\ fork_lock \in BOOLEAN
    /\ qp_shutting_down \in BOOLEAN

PoolInit ==
    /\ queue = [i \in Queues |-> EmptyQueue]
    /\ cell_task = [c \in Cells |-> NoTask]
    /\ tid_task = [k \in Tids |-> NoTask]
    /\ tid_queue_index = [k \in Tids |-> 0]
    /\ lasttid = 0
    /\ fork_locked = FALSE
    /\ fork_possible = FALSE
    /\ fork_lock = FALSE
    /\ qp_shutting_down = FALSE

PoolLocked(pool) == \A i \in Queues : IsLocked(pool[i], Concurrency[i])

\* Mutants: nobody is signalled; the signal is sent without asking whether
\* anything can run.
PublishQuietly(pool) ==
    /\ queue' = pool
    /\ fork_possible' = ~PoolLocked(pool)
    /\ UNCHANGED <<fork_lock, fork_locked, qp_shutting_down>>

PublishAlwaysSignal(pool) ==
    /\ queue' = pool
    /\ fork_possible' = ~PoolLocked(pool)
    /\ fork_lock' = (fork_lock /\ ~fork_locked)
    /\ UNCHANGED <<fork_locked, qp_shutting_down>>

\* The common tail of the operations: recompute fork_possible, and signal the
\* condition variable if the Forker has announced that it sleeps.
Publish(pool) ==
    /\ queue' = pool
    /\ fork_possible' = ~PoolLocked(pool)
    /\ fork_lock' = (fork_lock /\ (~fork_locked \/ PoolLocked(pool)))
    /\ UNCHANGED <<fork_locked, qp_shutting_down>>

\* EnqueueTask, for a task whose queue exists.
EnqueueTask(t) ==
    \E c \in Cells :
        /\ cell_task[c] = NoTask
        /\ cell_task' = [cell_task EXCEPT ![c] = t]
        /\ Publish(EnqueueCell(queue, QueueOf[t], c))
        /\ UNCHANGED <<tid_task, tid_queue_index, lasttid>>

\* First critical section of DequeueTask when there is nothing to run: the
\* Forker announces itself and blocks.
DequeueWait ==
    /\ ~qp_shutting_down
    /\ ~fork_possible
    /\ fork_locked' = TRUE
    /\ fork_lock' = TRUE
    /\ UNCHANGED <<queue, cell_task, tid_task, tid_queue_index, lasttid,
                   fork_possible, qp_shutting_down>>

\* The first queue of the pool that is not locked.
FirstUnlocked(i) ==
    /\ i \in Queues
    /\ ~IsLocked(queue[i], Concurrency[i])
    /\ \A j \in 0 .. i - 1 : IsLocked(queue[j], Concurrency[j])

\* Mutant: fork_possible is not recomputed.
DequeueTaskStale(i, t) ==
    /\ ~qp_shutting_down
    /\ FirstUnlocked(i)
    /\ ~NullFirstTask(queue[i])
    /\ t = cell_task[NextCell(queue[i])]
    /\ queue' = [queue EXCEPT ![i] = DequeueCell(@)]
    /\ cell_task' = [cell_task EXCEPT ![NextCell(queue[i])] = NoTask]
    /\ fork_locked' = FALSE
    /\ UNCHANGED <<tid_task, tid_queue_index, lasttid, fork_lock,
                   fork_possible, qp_shutting_down>>

\* The rest of DequeueTask, which takes task t from queue i and frees its cell.
DequeueTask(i, t) ==
    /\ ~qp_shutting_down
    /\ FirstUnlocked(i)
    /\ ~NullFirstTask(queue[i])
    /\ t = cell_task[NextCell(queue[i])]
    /\ LET pool == [queue EXCEPT ![i] = DequeueCell(@)]
       IN  /\ queue' = pool
           /\ fork_possible' = ~PoolLocked(pool)
    /\ cell_task' = [cell_task EXCEPT ![NextCell(queue[i])] = NoTask]
    /\ fork_locked' = FALSE
    /\ UNCHANGED <<tid_task, tid_queue_index, lasttid, fork_lock,
                   qp_shutting_down>>

\* The rest of DequeueTask when it dereferences a null first_task.
DequeueCrash ==
    /\ ~qp_shutting_down
    /\ \E i \in Queues : FirstUnlocked(i) /\ NullFirstTask(queue[i])
    /\ UNCHANGED poolVars

\* DequeueTask returning false: on shutdown, or because no queue was unlocked
\* when the wait returned.
DequeueFalse ==
    \/ /\ qp_shutting_down
       /\ UNCHANGED poolVars
    \/ /\ ~qp_shutting_down
       /\ PoolLocked(queue)
       /\ fork_locked' = FALSE
       /\ UNCHANGED <<queue, cell_task, tid_task, tid_queue_index, lasttid,
                      fork_possible, fork_lock, qp_shutting_down>>

\* The id search of ExecuteTask: the first free id after lasttid, cyclically.
Candidate(k) == (lasttid + 1 + k) % MaxPid

\* Mutant: the next id is taken whether it is free or not.
AnyNextTid(tid) == tid = Candidate(0)

FirstFreeTid(tid) ==
    \E k \in Tids :
        /\ tid = Candidate(k)
        /\ tid_task[tid] = NoTask
        /\ \A j \in 0 .. k - 1 : tid_task[Candidate(j)] # NoTask

NoFreeTid == \A tid \in Tids : tid_task[tid] # NoTask

\* Mutants: the queue is recorded one too far; the queue is not told that the
\* task runs.
RegisterTaskOffByOne(i, t, tid) ==
    /\ tid_task' = [tid_task EXCEPT ![tid] = t]
    /\ tid_queue_index' = [tid_queue_index EXCEPT ![tid] = i + 1]
    /\ Publish([queue EXCEPT ![i] = ExecuteInQueue(@)])
    /\ UNCHANGED cell_task

RegisterTaskUncounted(i, t, tid) ==
    /\ tid_task' = [tid_task EXCEPT ![tid] = t]
    /\ tid_queue_index' = [tid_queue_index EXCEPT ![tid] = i]
    /\ Publish(queue)
    /\ UNCHANGED cell_task

RegisterTask(i, t, tid) ==
    /\ tid_task' = [tid_task EXCEPT ![tid] = t]
    /\ tid_queue_index' = [tid_queue_index EXCEPT ![tid] = i]
    /\ Publish([queue EXCEPT ![i] = ExecuteInQueue(@)])
    /\ UNCHANGED cell_task

\* ExecuteTask(.., task_id) on queue i, returning ret.  A task_id of 0 asks for
\* a new id; when none is free nothing is registered and 0 is returned.
ExecuteTask(i, t, task_id, ret) ==
    \/ /\ task_id # 0
       /\ ret = task_id
       /\ RegisterTask(i, t, ret)
       /\ UNCHANGED lasttid
    \/ /\ task_id = 0
       /\ FirstFreeTid(ret)
       /\ lasttid' = ret
       /\ RegisterTask(i, t, ret)
    \/ /\ task_id = 0
       /\ NoFreeTid
       /\ ret = 0
       /\ UNCHANGED poolVars

\* Mutant: the id stays registered.
TerminateTaskKeepingTid(tid) ==
    /\ tid_task[tid] # NoTask
    /\ Publish([queue EXCEPT ![tid_queue_index[tid]] = TerminateInQueue(@)])
    /\ UNCHANGED <<cell_task, tid_task, tid_queue_index, lasttid>>

\* TerminateTask on a registered id, and on an id nobody holds.
TerminateTask(tid) ==
    /\ tid_task[tid] # NoTask
    /\ tid_task' = [tid_task EXCEPT ![tid] = NoTask]
    /\ tid_queue_index' = [tid_queue_index EXCEPT ![tid] = 0]
    /\ Publish([queue EXCEPT ![tid_queue_index[tid]] = TerminateInQueue(@)])
    /\ UNCHANGED <<cell_task, lasttid>>

TerminateNotFound(tid) ==
    /\ tid_task[tid] = NoTask
    /\ UNCHANGED poolVars

\* Cells of the instance's tasks; freed cells carry no task.
CellsOf(w) == {c \in Cells : cell_task[c] # NoTask /\ WorkflowOf[cell_task[c]] = w}

CancelTasks(w) ==
    /\ Publish([i \in Queues |-> CancelCells(queue[i], CellsOf(w))])
    /\ UNCHANGED <<cell_task, tid_task, tid_queue_index, lasttid>>

\* Mutant: the Forker is not woken up.
PoolShutdownQuietly ==
    /\ qp_shutting_down' = TRUE
    /\ UNCHANGED <<queue, cell_task, tid_task, tid_queue_index, lasttid,
                   fork_locked, fork_possible, fork_lock>>

PoolShutdown ==
    /\ qp_shutting_down' = TRUE
    /\ fork_lock' = (fork_lock /\ ~fork_locked)
    /\ UNCHANGED <<queue, cell_task, tid_task, tid_queue_index, lasttid,
                   fork_locked, fork_possible>>

-----------------------------------------------------------------------------
(* Properties of the pool, whoever its callers are.                       *)

\* While the Forker is blocked on fork_lock there is nothing it could run and
\* no shutdown it should see: no enqueue, release, cancel or shutdown forgets
\* to wake it up.
NoLostWakeup == fork_lock => PoolLocked(queue) /\ ~qp_shutting_down

\* fork_possible, which DequeueTask trusts without looking at the queues, is
\* never stale between two critical sections.
ForkPossibleFresh == fork_possible = ~PoolLocked(queue)

TidsOfQueue(i) == {k \in Tids : tid_task[k] # NoTask /\ tid_queue_index[k] = i}

\* running_tasks of each queue counts the ids registered for it: no slot leaks
\* and none is released twice, whatever the Forker, the Gatherer and the resume
\* do to the table.
RunningMatchesTids ==
    \A i \in Queues : queue[i].running_tasks = Cardinality(TidsOfQueue(i))
=============================================================================
