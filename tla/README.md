# evqueue-core: a TLA+ model of the engine

evqueue-core is a daemon that runs workflows. A workflow is an XML document of jobs and tasks;
tasks wait in named queues with a concurrency, are executed by monitor processes, may be retried
on a timer, and start the jobs below them when they succeed. This directory models the parts of
the daemon that decide *what runs, when, and when it is over*. Source paths are relative to
`src/`.

## 1. Inventory

| Part | State | Operations | Talks to | What makes it correct |
|---|---|---|---|---|
| `Queue.cpp` | two linked lists, `last_task`, two unsigned counters | enqueue, dequeue, execute, terminate, cancel, `IsLocked` | owned by QueuePool, no lock of its own | a task enqueued is given out once, in order, below the concurrency |
| `QueuePool.cpp` | the queues, the table of task ids, `fork_locked`, `fork_possible`, a condition variable | the same over all queues, shutdown | WorkflowInstance enqueues; Forker dequeues and registers; Gatherer terminates; a connection cancels | no lost wake-up, no leaked slot, an id belongs to one task |
| `ProcessManager.cpp` | Forker and Gatherer threads, the System V message queue | fork loop, gather loop, shutdown, join | QueuePool, WorkflowInstance, monitors | exit messages and outputs reach the task they belong to; shutdown ends both threads |
| `evqueue_monitor.cpp` | a process per execution | run the task, send the exit message | message queue, log file `<tid>.log` | one message per execution |
| `WorkflowInstance.cpp` | the document, three counters, `is_cancelling`, the saved row | start, task execute/stop/restart, cancel, resume, savepoint | QueuePool, Retrier, database | ends exactly once, when nothing is left to do, and says truthfully whether it succeeded |
| `Scheduler.cpp`, `Retrier.cpp` | a sorted list of timed events, retry threads | insert, flush, fire, shutdown | instances (retries), WorkflowScheduler (calendar) | every event is handed over once and not late |
| `WorkflowScheduler.cpp`, `WorkflowSchedule.cpp` | the table of the executing schedules, the objects of the schedules | alarm, schedule, stop, reload | its own event list, WorkflowInstance, database | one running instance per schedule; an object is deleted once and used only before |
| `WorkflowInstances.cpp` | map of running instances, a condition variable per instance waited for | add, remove, cancel, wait, kill, status, savepoint | connections, destructors, main | nobody uses a deleted instance through it; waiters are released |
| `handle_connection.cpp`, `SocketQuerySAX2Handler.cpp` | one detached thread per connection | launch, cancel, wait, kill, status | all of the above | an instance that exists is found, wherever it is |
| `Schedule.cpp` | the values allowed at six levels | next date | WorkflowSchedule | the next matching date, none skipped |
| `evqueue.cpp` | boot, signals, accept loop, shutdown | | all of the above | resume before the threads start; stop in an order that loses nothing |
| `GarbageCollector.cpp` | a thread with a flag | purge, shutdown | database, main | purges ended instances only, and lets the engine exit |
| `Statistics`, `SequenceGenerator` | counters under a mutex each | increment, reset | | never wrap around |
| `Tasks`, `Workflows`, `RetrySchedules` | caches under a mutex each | get, reload | | |
| `DB`, `Configuration`, `Logger`, ... | | input and output | | |

Hard to get right, and hard to test: five kinds of threads and an unbounded number of processes;
condition variables used without a loop; state read under one lock and used under another; task
ids reused while messages and log files of their last owner exist; a message queue that outlives
the engine; counters that decide when an object is deleted; restarts that rebuild everything from
a document saved earlier; signal handlers that lock mutexes; mutexes nested in different orders;
detached threads that outlive the shutdown. `PROJECT.json` lists each hazard at its line with the properties that
cover it.

## 2. Modules

```
Lists <- Queue <- QueuePool <- ProcessManager <- MCProcessManager
Lists, EventList <- Scheduler (refines EventList) <- MCScheduler
EventList <- WorkflowScheduler (uses it) <- MCWorkflowScheduler
Schedule <- MCSchedule
WorkflowInstance <- MCWorkflowInstance
WorkflowInstances <- Engine <- MCEngine
Locks <- MCLocks
```

and the proofs, each module extending the one it is about:

```
Lists_proofs <- ProcessManager_proofs (with QueuePool and Queue)
Lists_proofs <- Scheduler_proofs
Lists_proofs <- WorkflowInstance_proofs
Lists_proofs <- Schedule_proofs
WorkflowScheduler_proofs
Engine_proofs
Locks_proofs
```

**Lists** has the one operator that `Queue::CancelTasks` and `Scheduler::Flush` share: what is left of
a linked list when some of its cells are unlinked. It is `SelectSeq` by position, without a recursion,
so that its length, its range and its order can be proved.

**Queue** has no state of its own: a queue is a record and the operations are operators. A list is
the sequence of the *cells* (addresses) reached from its head. `EnqueueTask` stores through
`last_task` without asking where it points to, so `EnqueueCell` takes the whole pool and applies
the store to every list that runs through that cell; a freed cell may be allocated again. The
counters are modulo `UIntSpan`. An unlocked queue without a first cell is the null dereference of
`Queue.cpp:106` and crashes the engine (`ForkerCrash`). A store through a cell that is on no list
is a write into freed memory with no effect that the program can see later; that the allocator
might be damaged by it is not modelled.

**QueuePool** has one action per critical section of its mutex. `fork_lock` is true while the
Forker is blocked in `pthread_cond_wait`; `Publish` is the tail that every operation shares.

**ProcessManager** is the composition that carries the engine: Forker and Gatherer with their
program counters, the monitors, the message queue, the log files by id, the main thread (resume,
start, shutdown, join), and clients that stand for the instances. `TaskExecute` is split at
`fork()`, since the child runs from there on while the parent still holds the lock of the
instance (`InstanceLocked`); everything else an instance does is one step under that lock.
`waitpid` knows children from processes of an earlier engine. At boot the tasks found EXECUTING are
resumed, each with a monitor that still runs; `Strays` are the ids of monitors whose task is not, the
tables having been cleaned, and whose exit message `Gather` drops (`ProcessManager.cpp:201-205`) or,
when the id has been given out again, takes for the end of the other task. Options switch behaviour on that
the code must live with: spurious wake-ups, children that die before they run the monitor,
a `msgrcv` that fails, log files that are kept.

**Scheduler** has one action per critical section, and names the thread that keeps the mutex
after it: the loop with nothing to sleep (`Scheduler.cpp:193`) and the two returns on shutdown
(204, 215) do not unlock it. A caller settles when its event is due before it takes the mutex
(`WorkflowInstance.cpp:1068`, `WorkflowScheduler.cpp:89-97`): `Prepare` reads the time, `InsertEvent`
comes any time later, and an event that is due already when it is linked is noted in `late`. A thread is created on every insertion into an empty list, so several
exist at once. `event_removed` is a step without the mutex in the thread, and part of `Flush`
otherwise.

**WorkflowInstance** keeps the whole object in one record `wi` so that the private functions are
operators from instance to instance, composed as the code composes the calls; the queue pool and
the Retrier are the sets of tasks they hold. `enqueue_task` and `retry_task` take a set of tasks: the
calls of one loop touch different tasks, and their order makes no difference. The shape of the
workflow is a constant, a tree as every XML document (`DocumentAssumption`). XPath is
external: which conditions are false and which expression raises an exception are chosen in
`Passes`; a loop is the sequence of clones its nodes make. The evaluation order, and what stays
enqueued when an exception ends a pass, are kept (`Evaluated`, `Pass`). `Restart` is a stop of the
engine with its forced savepoint followed by the resume of the next one. The schedule a task names
is always found: the constructor fails otherwise (`WorkflowInstance.cpp:165-180`).

**EventList** is what the Scheduler class promises to its two subclasses, without threads, list or
mutex: an event leaves the list once, by a flush or, earliest first and never early, by an alarm, and
belongs to the handler of the alarm until that is done. `Scheduler` is checked to implement it
(`ImplementsEventList`): the pending events are those of the linked list, the handled ones those a
retry thread holds; the threads, the mutex and the shutdown are stutters.

**WorkflowScheduler** uses `EventList` for its events and models what it adds: the table
`wfs_ids`/`wfs_wi_ids`/`wfs_executing_instances` as one function `table`, the addresses of the
`WorkflowSchedule` objects (`heap`; an address is reused when nobody holds it), the alarm in its three
parts (build the instance without a lock, list it under `wfs_mutex`, start it), the end of an
instance, `Reload`, and the boot of `evqueue.cpp:217-262`. `Loaded` is the loop that `Reload` and the
boot share; the constructor of a schedule may throw for any of them. `astray` marks schedules a load
has left without an entry although something of theirs is under way; `dropped` those given up with a
log. `crashed` is the null pointer of `WorkflowScheduler.cpp:126`. `Reload` runs between critical
sections only, see section 5.

**WorkflowInstances** has the registry, the conditions of the waiters, the life of the objects
(built, executing, ended, removed from the registry, freed) and the requests of the connections, one
action per call that locks. An id read from a freed object may be any id. `Savepoint` is the table of
what a savepoint does to the row on each level; a savepoint may fail (`lost`).

**Engine** extends it with the garbage collector and the clean exit. Connection threads are detached:
they go on after the savepoint of the exit, until the process is gone. The stop of the threads of the
ProcessManager and of the schedulers is one step here; it is the subject of the other modules.

**Schedule** has the calendar of `Schedule.cpp` as operators, with the lengths of the levels as
constants; `localtime` and `mktime` are external. `Matches` says what a description means and is not
used by the search. The state machine sets, rings and sets the alarm again at any time.

**Locks** reduces every thread to the sequence of mutexes it locks and unlocks, all nested calls made,
because the other modules take a critical section for one step. A thread may do anything any thread of
the engine does in one round, round after round, so there are as many of each kind as one likes. The
list threads of `Scheduler.cpp` also idle (`Idle`): they test the list under its mutex, go round with
the mutex locked (line 193, `LoopBack`), or return with it locked (204 and 215, `Take`); `kept` has
the mutexes left so. A signal handler runs on any thread, at any point, as no thread blocks the
signals.


## 3. Runs

Runs expected to pass:

| Run | Question |
|---|---|
| `dispatch` | Is every enqueued task held in one place, run once, under an id of its own, within the concurrency, and the id and slot of a task that outlived the engine restored, when the instance is cancelled at any moment and children die early? |
| `accounting` | Do wake-ups and slots survive when no id is free, when a monitor of a task that is no longer known is left over, when `msgrcv` fails, with spurious wake-ups, and when cancelling one of two instances corrupts the lists of their queue, up to the crash on a null pointer? |
| `live` | Do shutdowns, queued tasks and executing tasks make progress, a task resumed without its queue among them? |
| `scheduler` | Is no event lost, handed over twice or left unwatched with three threads, flushes, a shutdown and insertions that come after the event was due; what makes a thread lock the mutex it holds; does the class implement `EventList`; does every event fire? |
| `instance` | End, order of jobs, retries and the meaning of success, on every error path. |
| `instance_restart` | Counters and end across cancellations and two restarts; level 3 is never behind; every started instance ends. |
| `workflow_scheduler` | Does every schedule object have one owner, every schedule one place, every instance that ends its schedule, through alarms, reloads between critical sections, edits, errors and boots with instances still executing? |
| `engine` | Is the registry exact, every waiter released, every instance found while it moves to the database, the state kept by the clean exit and the exit reached, with failed savepoints, spurious wake-ups, resets of the statistics and a garbage collector? |
| `calendar` | Is the next time found for every description a time of the description, and is none before it skipped? |
| `locks` | Which circles of threads waiting for each other are possible? Only those with a flush of the Retrier, a signal handler or a mutex kept by a retry thread in them. |

Runs that end in a violation; each contradicts a comment of the source, quoted in `PROJECT.json`:

| Run | What happens |
|---|---|
| `tail_cancel` | `CancelTasks` leaves `last_task` on the cancelled list: the next task is served from there, over the concurrency |
| `scheduler_shutdown_hangs` | a thread exits with the mutex locked; the joined one waits for it for ever |

### What the passing runs leave out on purpose

A passing run fixes some constants, or its property names a case, so that a known behaviour of the
code does not count; without the second column TLC finds the property violated:

| Property | Holds without | Because |
|---|---|---|
| `ConcurrencyRespected`, `QueuedTaskIsHeld` | cancelling an instance while tasks of another one are in the same queue (`WorkflowOf`, `MayCancel`) | `Queue.cpp:143`, `tail_cancel`; the same store can cut cancelled tasks off their list, so that they are never given back |
| `ForkerExitsOnlyOnShutdown` | `SpuriousWakeups = TRUE` | `pthread_cond_wait` is called once, and `DequeueTask` then returns false (`QueuePool.cpp:201`) |
| `TidOwnership` | a resumed id of 0 (`Resume0`), a resumed task of an unknown queue, fewer ids than monitors (`ResumeTid`, `QueueOf`, `MaxPid`) | `QueuePool.cpp:236, 241, 254` all return 0, which nobody checks, and 0 is an id: a task resumed with the saved id 0 is registered under another one, and its exit message finds nothing |
| `TidOwnership`, `OutputBelongsToTask`, `StopIsFinal`, `ExecutingTaskStops` | the monitor of a task that is not resumed (`Strays`) | its exit message finds no task, "this can happen on resume when tables have been cleaned" (`ProcessManager.cpp:201-205`), or finds the task its id was given to, ends that one and hands it the wrong output; when this one has an id and is not forked yet, its own exit message finds nothing and it is executing for ever |
| `ExecutingTaskStops` | `ChildMayDie = TRUE`, `MsgrcvMayFail = TRUE`; a resumed task of an unknown queue (the property names it) | no exit message is sent, nobody receives it, or it finds no task (`QueuePool.cpp:236`) |
| `OnlyLateEventsRelock` | an event that is due already when it is inserted (`late`; the property names it) | the time is read before the mutex is taken (`WorkflowInstance.cpp:1068`, `WorkflowScheduler.cpp:89-97`), so any delay may have passed by then; the thread that finds the event goes round with the mutex locked (`Scheduler.cpp:193`) and then waits for itself |
| `EveryEventFires` | the same, once a thread is `Stuck`; a shutdown | a thread that waits for itself fires nothing, and keeps the callers out |
| `EveryObjectHasOneOwner` | a `Reload` inside a section of `wfs_mutex` (not modelled) | it runs in a signal handler (`evqueue.cpp:71-76`) and the mutex is recursive (`WorkflowScheduler.cpp:48-51`): on a thread in `ScheduledWorkflowInstanceStop` it replaces the table under the index and the object read there (lines 117-136) |
| `SuccessMeansDone` | two loops in one job (`LoopTasks` and the other `Loop...` definitions); a `retry_retval` that excludes an exit code; cancellation and restarts (`MayCancel`, `MaxRestarts`) | `matching_nodes_index` is not reset for the second loop, whose first nodes are skipped (`WorkflowInstance.cpp:1075, 1120`); line 1055 neither retries nor counts the failure, nor does line 547 when cancelling; `error_tasks` is not saved and starts from 0 again |
| `RetriesAreUsedUp` | restarts (`MaxRestarts`); a schedule with an empty level behind its first, or a delay of 0 (`Usable`) | `retry_times` is decremented when a retry is planned, and `Resume` plans it again; `retry_task` gives up at such a level (`WorkflowInstance.cpp:1037-1051`) |
| `SavedIsCurrent` | level 2 and an instance that has not ended (the property excludes it) | the row has no savepoint until the instance ends or the engine stops (`WorkflowInstance.cpp:1503`), whereas `etc/evqueue.conf:64` says "Save workflows on start" |
| `OneRunPerSchedule`, `StopFindsItsSchedule`, `NoScheduleForgotten` | schedules that are `astray`, and, for the second, the time before the schedules are loaded | a load takes a schedule for idle ("currently inactive", `WorkflowScheduler.cpp:86`) while an instance of it is under way: a `Reload` between alarm and listing (line 160), a schedule deactivated and activated again by two reloads, a reload whose `new WorkflowSchedule` throws, and levels 0 and 1, where the rows that would tell are purged first (`evqueue.cpp:243`). It then runs twice, and the end of the first instance follows a null entry (line 126) |
| `NoScheduleForgotten` | schedules that are `dropped` | an exception in the constructor of the instance or of the schedule removes it until the next reload, with a log |
| `WaitEnds` | a synchronous launch whose instance ends in `Start` (`WaitsForItself`), and a shutdown | the thread waits for an instance that it would delete itself, after the wait (`handle_connection.cpp:174-180`) |
| `KnownInstanceIsFound` | level 0 and instances with a failed savepoint | ended instances are not stored on level 0 (`WorkflowInstance.cpp:1493`) |
| `ExitKeepsTheState` | instances with a failed savepoint; an instance that a connection starts after the savepoint of the exit, below level 3 (`late`); ended instances on levels 0 and 1 | below level 2 a savepoint is an INSERT, which fails when the exit has already stored the instance as executing: its end is lost and it is resumed again |
| `NothingSkipped` | `KeepsSeconds`, `OverflowsFar` | the retry after a wrong day of the week keeps `tm_sec` (`Schedule.cpp:211`); a date two or more days past the end of its month is carried past the first days of the next, where the search goes on (line 205, "try next possible time") |
| `CirclesAreKnown` | a flush of the Retrier, a signal handler or a wait for a mutex that was `kept` in the circle (the property names them) | `Flush` calls `TaskRestart` with the mutex of the list held, `TaskStop` inserts a retry with the lock of the instance held; a handler may lock what its own thread holds; a retry thread that went round or returned with the mutex of its list locked does not unlock it |

More of the kind, which no property states: `WaitForShutdown` of the Scheduler returns at once when the
list is empty although a retry thread may still be in `event_removed` (`Scheduler.cpp:154`); a
leaving retry thread may detach its successor, which is joined later (line 183); the connection
that launched an instance reads the id from the object after the instance may have been deleted
(`handle_connection.cpp:171-176`, against "to ensure noone is still using it",
`WorkflowInstance.cpp:321`). The look-up of an instance whose savepoints failed passes a NULL field to
`strlen` (`handle_connection.cpp:199`), `is_cancelling` is not in the document, so that an instance
that was being cancelled goes on after a restart (`WorkflowInstance.cpp:424`), and `SendStatistics`
reads the counters of the queues without the mutex (`QueuePool.cpp:357`).


### Bounds

* `Cells`: two to four cells, as many as tasks can be queued at once, so an allocation never has to
  wait; the corruption of the list in `tail_cancel` has four.
* `UIntSpan = 16`: more than the tasks of a run, so a wrap-around can only come from a release too
  many, and it is then visible.
* `MaxPid` of 3 or 4 makes the search of ids wrap around; 1 makes it fail.
* `Pids`: two or three monitors, of which the zombies keep their pid. A Forker that finds no free
  pid aborts the task, as on a failing `fork()`.
* `MaxRuns`: each task is enqueued once, in `dispatch` one of them twice, so that an id meets its old
  task again.
* `accounting`: one left-over monitor (`Strays`), under the id the other tasks are given; the other
  runs have none. In `live` the id of the resumed task, 0, is not given out again: with four ids the two
  executions get 1 and 2.
* `Horizon` 2 or 3 seconds and as many events: an event before, with and after another.
  `MaxLag` bounds how long a thread may be delayed between reading the time and using it: 1 second
  is enough to have events fall due in between. `MaxLateness` bounds how long after its time a caller
  may still insert an event; 0, due in the very second of the insertion, is enough to lock a thread out.
* `MaxRestarts = 2`: a resumed instance is resumed again.
* `WorkflowScheduler`: three instances and three objects for two schedules, so that a reload can hold
  an old and a new object of one schedule at once; object exhaustion only disables a load.
* `Engine`: one instance and two connections, every savepoint level. The safety invariants were also
  checked with two instances, two connections and levels 1 and 3 (2.4 million states).
* `Schedule`: two seconds, minutes and hours, months of 4 and 2 days with a leap year every second
  year, a week of 2 days, and every description over them (with one number out of range for every
  level), from every second of two years, one of them a leap year (`Horizon`).
  `Years` is far enough past it that a search never leaves the calendar.
* `Locks`: three threads, each in any role in every round, which is a circle of three; one signal, on
  any of them.
* Symmetry on cells, pids, threads, objects and instances is used in safety runs only.

`CHECK_DEADLOCK FALSE`: the engine stops after a shutdown or a crash, an instance ends, clients need
not enqueue anything, and the clock of the calendar ends. `Locks` has its deadlocks as a property.

### Fairness

Weak fairness on each thread (the kernel schedules a runnable thread), on the monitors (a task
that is executed ends: without it nothing can be promised), on the steps of a shutdown once begun,
on time, and on the insertion of an event whose caller has settled its time (the caller's thread is
scheduled, and is not let in while another thread keeps the mutex). In `Engine`: on the end of an instance while the engine is up (tasks end), its
destruction, each connection thread, the garbage collector and the shutdown once begun. Nobody is
obliged to connect, enqueue, insert, flush, cancel or restart, and spurious wake-ups,
dying children and failing system calls are never required. The Forker may abort any task, as a
failing `fork()` makes it do.

## 4. Proofs

Everything below holds for every value of the constants that satisfies the assumptions the modules
state: any number of queues, tasks, ids, processes, threads, events, schedules, instances and
connections. Every inductive invariant but that of `Locks`, which quantifies over functions, was
checked by TLC on instances like those of section 3 before it was proved (the dispatch, with all the
invariants of `ProcessManager_proofs`, on two instances of 2.1 million states each; `InstanceInv` on
two workflows, on every level, with cancellation and two restarts, up to 740 thousand states;
`TruthInv` on the workflow of the run and on one with a loop in the clone of a looped job).

### What is proved

| Module | Theorem | States | Beyond the modules' assumptions |
|---|---|---|---|
| `ProcessManager_proofs` | `TypeCorrect` | `TypeOK` | |
| | `ForkerNeverMissesWork` | `NoLostWakeup` | |
| | `CachedAnswerIsFresh` | `ForkPossibleFresh` | |
| | `SlotsAreCounted` | `RunningMatchesTids` | `ResumeTidsUsable` |
| | `ForkerStaysUntilShutdown` | `ForkerExitsOnlyOnShutdown` | `ResumeTidsUsable`, `~SpuriousWakeups`, `[]SizesFit` |
| | `OutputIsTheTasksOwn` | `OutputBelongsToTask` | `Resumable`, `[]~NoFreeTid` |
| | `IdsAreNeverConfused` | `TidOwnership` | `Resumable`, `QueuesUnshared`, `[]~NoFreeTid` |
| | `QueuedTasksAreNotLost` | `QueuedTaskIsHeld` | the same |
| | `StoppedTasksStayStopped` | `StopIsFinal` (an action property) | the same |
| | `ConcurrencyIsRespected` | `ConcurrencyRespected` | the same, `ResumedFit` |
| `Scheduler_proofs` | `ListAlwaysSound` | `ListIsSound` | |
| | `HeadAlwaysWatched` | `HeadIsWatched` | |
| | `EventsHaveOneOwner` | `EventHasOneOwner` | |
| | `OnlyLateEventsLockOut` | `OnlyLateEventsRelock` | |
| | `ListImplementsEventList` | `ImplementsEventList` (refinement) | |
| `WorkflowScheduler_proofs` | `ObjectsHaveOneOwner` | `EveryObjectHasOneOwner` | |
| | `SchedulesRunOnce` | `OneRunPerSchedule` | |
| | `StopAlwaysFindsItsSchedule` | `StopFindsItsSchedule` | |
| | `SchedulesAreNotForgotten` | `NoScheduleForgotten` | |
| `Engine_proofs` | `RegistryAlwaysExact` | `RegistryIsExact` | |
| | `WaitersAlwaysWatched` | `WaiterIsWatched` | |
| | `KnownInstanceAlwaysFound` | `KnownInstanceIsFound` | |
| | `CleanExitKeepsTheState` | `ExitKeepsTheState` | |
| | `CounterNeverOvercounts` | `ExecutingNeverOvercounts` | |
| `WorkflowInstance_proofs` | `InstanceTypes` | `TypeOK` (in no run) | |
| | `CountersAlwaysMatch` | `CountersMatch` | |
| | `EndIsFinal` | `NothingAfterTheEnd` | |
| | `JobsRunInOrder` | `SubjobsInOrder` | |
| | `RowIsCurrent` | `SavedIsCurrent` | |
| | `RetriesAlwaysUsedUp` | `RetriesAreUsedUp` | `MaxRestarts = 0`, `Usable` |
| | `ExecutionsAreBounded` | the bound of `RetriesAreUsedUp` on the executions, for any number of restarts | `Bare` |
| | `SuccessIsTrue` | `SuccessMeansDone` | `OneLoop`, `EveryFailureRetried`, `~MayCancel`, `MaxRestarts = 0` |
| `Schedule_proofs` | `AlarmsWellTyped` | `TypeOK` (in no run) | `SearchEnds` |
| | `AlarmsAreScheduled` | `AlarmIsScheduled` | `SearchEnds` |
| | `NoTimeIsSkipped` | `NothingSkipped` | `SearchEnds` |
| `Locks_proofs` | `LockOrder` | `CirclesAreKnown` | |

### The assumptions

Those in the modules (`QueueAssumption`, `PoolAssumption`, `ManagerAssumption` and the like) say that
null pointers differ from cells and tasks, `maxpid` is positive and fits an unsigned int, the queue of
a task is in the pool or unknown, saved ids are ids, the document of a workflow is a tree and every task is in a job of it. The others exclude, one by one, the cases of the
table "What the passing runs leave out on purpose", where the property is false:

* `ResumeTidsUsable`: saved ids are distinct and not 0. `Resumable` adds that the queue of a resumed
  task still exists, and that no monitor is left over whose task is not resumed (`Strays = {}`). The
  code provides none of these.
* `[]~NoFreeTid`: some id is free. There are as many ids as the kernel has process ids (`QueuePool.cpp:68-77`), so
  that they run out only after the processes do, unless slots of lost messages are never released; the
  code handles the case with a log and returns 0, which nobody checks (`QueuePool.cpp:249-254`).
* `QueuesUnshared`: an instance that may be cancelled has no queue in common with another one. It
  excludes the stale `last_task` of `Queue.cpp:143` (`tail_cancel`) and nothing else: within a queue
  of one instance every interleaving of enqueues, cancellations and dequeues remains.
* `ResumedFit`: the tasks found executing at boot fit the concurrency; they are registered whatever it
  says, and it may have been lowered in between.
* `~SpuriousWakeups`: `pthread_cond_wait` is called once, outside of a loop. `[]SizesFit`: an enqueue
  never takes the unsigned `size` of a queue to 0, which would make it look empty.
* `OneLoop`: a job has one looped task and one looped subjob at most; `EveryFailureRetried`: no
  `retry_retval` excludes an exit code. See the row of `SuccessMeansDone` in that table.
* `Usable`: a level of a retry schedule that allows retries has a delay, and no level before it but the
  first is empty. `retry_task` goes on to the next level once and gives up when that one has no times or
  no delay (`WorkflowInstance.cpp:1037-1051`), whatever the levels behind it allow.
* `Bare`: a task with a schedule of no levels has no `retry_delay` and `retry_times` of its own.
  Otherwise a resume, which finds the schedule begun, retries by these attributes.

* `SearchEnds`: from every second up to `Horizon` the search finds a time within the `Years` of the
  calendar. It stands for the calendar of the C library, which has no end that matters, and for the
  termination of the search: some day asked for falls on some day of the week asked for. The run
  `calendar` would stop with an error where it is false, so that it holds there.

The properties of `Scheduler`, `Locks`, `WorkflowScheduler` and `Engine` name their own exceptions
(`late` events, `kept` mutexes, `astray`, `dropped`, `lost`, `late` instances), so their theorems need
no assumption; those of `WorkflowScheduler` are about reloads between critical sections.

### The arguments

*Wake-ups and slots.* `NoLostWakeup` is not inductive: an enqueue wakes the Forker only if
`fork_locked` is set, and the Forker blocks only if `fork_possible` is false. `SignalInv` adds that
`fork_possible` is fresh and that a blocked Forker has set `fork_locked`; `ThreadInv` that only a
waiting Forker is blocked and what each thread holds at each program counter. `EngineInv` is their
conjunction with the types. For the slots, a registration must find its id free and a release must
find it taken: `SlotInv` adds that ids in use name a queue of the pool, `ResumeInv` that the ids
still to be resumed are free. The lemmas follow the modules: an operator of `Queue` yields a queue, an
operation of `QueuePool` preserves the pool's invariants whoever calls it, a step of a thread preserves
`EngineInv`. For the end of the Forker, `WakeInv` says that a Forker which a signal has released still
finds an unlocked queue: no operation but its own dequeue takes one away (`RelinkKeepsWork`,
`EnqueueKeepsWork`, `CancelKeepsWork`).

*Ids and outputs.* An id passes from the Forker to the monitor, to the exit message, to the Gatherer.
`TidInv` says that at most one of these holds it (`OneHolder`), that the holder's task is the one
registered (`HolderOwns`), and whose output is in the log file at each stage (`LogInv`).

*The dispatch.* `PlaceInv` says that the two lists of every queue are linked as the code means them
(`Proper`: no cell twice, none on both lists, `last_task` on the last one), that a cell carries a
QUEUED task of its queue that is nowhere else, and that every QUEUED task has a cell or is in the
Forker's hands. `OwnerInv` ties ids to statuses: the task of an id is executing unless the Forker is
between registration and `fork()`, and no task has two ids; this is what makes the exit of one run
never stop another run of the same task. For the concurrency, `RoomInv` counts the ids of each queue:
when the Forker has taken a task and not yet registered it there is room for it, as only the Forker
registers. One id more than the concurrency is possible after a cancellation, when cancelled tasks are
given out whatever the concurrency (`Queue.cpp:94-99`); it goes back without a `fork()`, and
`GoesNowhere` sets it apart.

*The timed list.* `SchedulerInv` has the list sorted and free of repetitions, the place of every event
tied to the list and to the thread that handles it, and the head watched by a thread that sleeps no
longer than its delay. The clock a thread has read may be old, never ahead (`TimeInv`), which
makes a shift hand over due events only, and so the step simulation of `EventList` go through: a
shift is the alarm, the end of `event_removed` is the end of the handler, the rest stutters. That only
late events lock a thread out: after its shift a thread knows that the events left were due later
than the time it goes by, and whatever is linked before them later is either due later too or `late`.

*The schedules.* `OwnerInv` (one owner per object) is inductive with the types; the table needs that
an executing instance is listed with its schedule (`TableInv`), that a schedule which is neither
`astray` nor `dropped` is waiting, handled or running (`PlaceInv`), and never two of these (`RunInv`).

*The registry.* `InstancesInv` ties the life of each object to the registry, to the
conditions of the waiters, to the row and to what each connection has read (`ConnInv`, `RowInv`);
`ExitInv` follows the savepoint of the exit through the steps that other threads still take after it.

*The instance.* `CountersMatch` is not inductive: when `TaskStop` runs the subjobs of a job, their tasks
are counted once more, and a task that is queued or executing already would be counted twice. `InOrder`
excludes it: a task is touched only when the job above its own has succeeded, and this job has not,
as the task that stops belongs to it and is still executing (`TaskStopPreserves`). This needs the
tree, and that success is final (no task with exit code 0 is enqueued again, `OrderFrame`). The other
parts of `Sound`: tasks under way are in the document, so that `Resume`, which searches the document,
finds all of them (`ResumeSound`), and the Retrier holds failed tasks only. In the middle of an
operation the counter is one ahead (`Counted(w, 1)`). That `run_subjobs` reaches tasks below its job
only is a statement about nested sequences: `EvaluatedType` derives it from the lemmas on
recursive functions over an interval of `Lists_proofs` (`RecursionExists`, `RecursionType`).

*The retries.* `RetryInv` is an equation for every task: its executions, the retries that its level and
its times still allow (`ToCome`), and one more while it is queued or its timer is running make up one
plus the budget. `RetrySettles` follows the two calls of `schedule_update` that one `retry_task` may
make, `RetriedOutcome` says that a retry is taken off what is to come and that giving up means that
nothing is. After a restart, or for an aborted task, the equation is an inequality, which still
bounds the executions. The sums over the levels are compared with a least counterexample
(`RetriesAddUp`, `RetriesGrow`).

*The meaning of success.* `TruthInv` says what an instance without errors has done so far: nothing is
ABORTED, what has failed is in the Retrier, templates of loops are gone once a task of their job is
touched, and every job that has finished has all its subjobs skipped or touched. In the
middle of `TaskStop` the last part has an exception, the job whose task has ended (`Truthful(w, x)`);
running its subjobs removes the exception (`SubjobsTruthful`), and if they are not run, the job has
not finished (`FinishedSucceeded`). That a pass without an exception leaves nothing out is
`PassComplete`, from `EvaluatedRange`: the range of the nested sequences, exactly, where `OneLoop`
comes in.

*The calendar.* The levels, the months and the years have any lengths, so a date is a number with digits
of different sizes (`Clock`, `MonthNumber`), and seconds are ordered as their digits (`ClockOrder`,
`DateOrder`). `FoundFacts` says what one level yields (`LevelDone`): the first allowed value from the
present one and the carry, or the very first one and a carry. Composed from the seconds up, the date
found is no earlier than the present (`DateFacts`) and the least one allowed (`LeastDate`), because a
level below one that moves starts again with its first value. What `mktime` makes of a date that does
not exist is later, and what lies between is the first days of a month (`NoneBefore`, where
`OverflowsFar` comes from); what lies before the next day is its first minute (`CallSkips`, where
`KeepsSeconds` comes from). Each call goes on from a later second, so that the function of the calls
exists (`SearchExists`), and its result is bounded from the end of the calendar (`SearchFacts`).

*The mutexes.* A program is the rest of what a thread has to lock and unlock. `LocksInv` gives it
heights, how often each mutex is locked before each operation, such that they end at zero, begin with
what the thread owns, and every lock is taken in the order of `Rank` or in a flush. Programs are nested
calls, and `WellNested` composes along the nesting (one lemma for a section, one for a sequence); a
signal handler puts its own heights on top of those of the thread it interrupts. A mutex that is taken
and never unlocked (`kept`) is not counted in the heights. In a circle without a flush, without a
handler and without a wait for a kept mutex the ranks of the mutexes waited for would grow all the
way round.

The lists are modelled with `Pick` (`Lists`), whose length, range and order `Lists_proofs` proves:
`NthInSet` finds the n-th position by a minimality argument instead of an induction over data, and so do
the lemmas on recursive functions, which bound their values and do not compute them.

### Only model-checked

* All liveness: fairness and `ENABLED` are out of the prover's reach.
* That the search of `Schedule` ends (`SearchEnds`): it needs the day of the week of every date, which
  depends on the lengths.

## 5. Not modelled, and assumptions

* XML, XPath, formatting, logging, the database protocol, the SAX parser, the socket and its timeouts.
* `DB.cpp`, `Configuration*.cpp`, `Logger.cpp`, `tools.cpp`: input and output without a protocol of
  their own. What a failing database does to the engine is in `WorkflowInstances` (savepoints),
  `WorkflowScheduler` (constructors that throw) and `Engine` (a purge that deletes nothing).
* A crash in the middle of an operation. Between two operations, level 3 makes it a `Restart`.
* `KillTask`: a signal to a monitor, which in the model may end at any time.
* The exit code truncated to a `char`, and the ssh and environment setup of the monitor.
* Signal handlers run in a thread of their own in `Scheduler` and `WorkflowScheduler`, and on any
  thread in `Locks`. In particular a `Reload` that interrupts a thread inside a section of the
  recursive `wfs_mutex` is not modelled, nor what it does to that thread's pointers.
* In `WorkflowScheduler`: the two queries of a reload are one; the deletion of a scheduled instance
  updates its row and tells the scheduler in one step; at boot a schedule has one EXECUTING row at
  most, although schedules that are `astray` may leave two.
* In `Engine`: the instances are launched by the connections; those resumed at boot and those of the
  schedules, whose end is the same, are in the other modules. The unlimited retries of a savepoint
  that fails (`WorkflowInstance.cpp:1570`), and a constructor that throws after the INSERT of the
  row (line 233), which leaves an EXECUTING row without an instance, are left out.
* In `Locks`: joins of threads, and waits on condition variables other than as sections of their own.
* Daylight saving time. A calendar with the real lengths is in the theorems only, which hold for any
  lengths; leap years come every `LeapEvery` years without an exception for centuries.
* `gc.enable = no`, an interval or a delay of 0 seconds of the garbage collector.

## 6. Plan

1. A crash inside an operation of `WorkflowInstance` (after `fork()`, before the savepoint).
2. The stop of the schedulers inside `Engine`, with retry threads that outlive `WaitForShutdown`.
3. An abstract queue (a bag of waiting and a set of running tasks), refined by `Queue` while nothing
   is cancelled.
