-------------------------------- MODULE Locks --------------------------------
(***************************************************************************)
(* Who locks what, and in which order: the mutexes of all the components   *)
(* at once.  The other modules take a critical section for one step; that  *)
(* is sound only if the sections end, which depends on how the components  *)
(* nest each other's mutexes.  A thread is reduced to the sequence of      *)
(* mutexes it locks and unlocks, with every nested call made; a wait on a  *)
(* condition unlocks its mutex and locks it again, in a section of its     *)
(* own.  The mutexes of the statistics, of the sequence generator and of   *)
(* the garbage collector are held around no call and are left out, and so  *)
(* are the joins of the clean exit, and the boot, when the main thread     *)
(* resumes instances before it accepts connections.                        *)
(***************************************************************************)
EXTENDS Integers, Sequences, FiniteSets

CONSTANTS
    Threads,        \* bound: threads at work at once
    MaxSignals,     \* bound: SIGHUP and SIGUSR1 received
    None

ASSUME LocksAssumption ==
    IsFiniteSet(Threads) /\ MaxSignals \in Nat /\ None \notin Threads \cup Nat

VARIABLES
    todo,           \* its locks and unlocks still to come
    below,          \* how many of them a signal handler has interrupted
    owner,          \* of each mutex
    depth,          \* how often its owner has locked it
    kept,           \* the mutexes whose owner went on without unlocking them
    signals

vars == <<todo, below, owner, depth, kept, signals>>

(* registry: WorkflowInstances; instance: a WorkflowInstance; pool:        *)
(* QueuePool; retrier and events: the Scheduler part of Retrier and of     *)
(* WorkflowScheduler; wfs: wfs_mutex, the one that is recursive; caches:   *)
(* Tasks, Workflows and RetrySchedules.                                    *)
Mutexes == {"registry", "instance", "pool", "retrier", "retrier_lock", "events", "wfs",
            "caches"}
Recursive == {"wfs"}
Lists == {"retrier", "events"}

-----------------------------------------------------------------------------
(* The nesting of the calls. *)

Section(m, body) == <<[op |-> "lock", on |-> m]>> \o body \o <<[op |-> "unlock", on |-> m]>>
Leaf(m) == Section(m, <<>>)

(* The mutex of an event list is locked, and nothing unlocks it.           *)
Take(m) == <<[op |-> "take", on |-> m]>>

InsertEvent == Leaf("events")
InsertTask == Leaf("retrier")
ScheduleWorkflow == Section("wfs", InsertEvent)
ScheduledWorkflowInstanceStop == Section("wfs", ScheduleWorkflow)

(* A description is copied out of its cache, or all are replaced. *)
GetTask == Leaf("caches")
GetWorkflow == Leaf("caches")
ReloadCaches == Leaf("caches")

(* new WorkflowInstance; ~WorkflowInstance. *)
NewInstance == GetWorkflow \o Leaf("registry")
DeleteInstance == Leaf("registry") \o ScheduledWorkflowInstanceStop

(* The operations of an instance. *)
Start == Section("instance", Leaf("pool"))
TaskRestart == Section("instance", Leaf("pool"))
TaskExecute == Section("instance", GetTask)

\* Mutant: the instance is deleted before its mutex is unlocked.
TaskStopDeleting == Section("instance", GetTask \o InsertTask \o Leaf("registry"))

TaskStop == Section("instance", GetTask \o InsertTask \o Leaf("pool"))

(* Scheduler::Flush of the Retrier, with the mutex held; of the            *)
(* WorkflowScheduler, where event_removed just deletes.                    *)
FlushRetrier == Section("retrier", TaskRestart \o DeleteInstance)
FlushSchedules == Leaf("events")

(* The threads of the engine: what each does in one round. *)
Fork == Leaf("pool") \o TaskExecute \o Leaf("pool") \o DeleteInstance
Gather == Leaf("pool") \o TaskStop \o DeleteInstance

(* Scheduler::retry_thread: an event is shifted and handled, which differs *)
(* between the two lists.  A thread with nothing due locks the mutex to    *)
(* find that out, to test the list and, woken up, to leave its sleep.  It  *)
(* loops back with the mutex locked when the first event became due before *)
(* the test, and returns with it locked when the list is shutting down.    *)
Retry == Leaf("retrier") \o TaskRestart \o DeleteInstance
Alarm == Leaf("events") \o NewInstance \o Leaf("wfs") \o Start \o DeleteInstance
LoopBack(m) == Take(m) \o Leaf(m)
Idle(m) == {Leaf(m), LoopBack(m), Take(m)}

(* The requests of a connection, and the calls of main to shut down.  What *)
(* Cancel and Shutdown call, they call with no mutex held: each call is a  *)
(* round of its own.                                                       *)
Launch == NewInstance \o Start \o Leaf("registry") \o DeleteInstance
SendStatus == Section("registry", Leaf("instance"))
SendStatusScheduler == Section("wfs", Leaf("events"))
Cancel == {SendStatus, Section("retrier_lock", FlushRetrier), Leaf("pool")}
Shutdown == {Leaf("pool"), Leaf("events"), Leaf("retrier")}

(* Any number of threads may do the same; a list may be idle, and shut     *)
(* down, at any time.                                                      *)
Rounds == {Fork, Gather, Retry, Alarm, Launch, SendStatus, SendStatusScheduler}
            \cup Idle("retrier") \cup Idle("events") \cup Cancel \cup Shutdown

(* The handlers of SIGHUP and SIGUSR1. *)
Reload == Section("wfs", FlushSchedules \o ScheduleWorkflow) \o ReloadCaches
Handlers == {Reload, FlushRetrier}

-----------------------------------------------------------------------------
Init ==
    /\ todo = [t \in Threads |-> <<>>]
    /\ below = [t \in Threads |-> None]
    /\ owner = [m \in Mutexes |-> None]
    /\ depth = [m \in Mutexes |-> 0]
    /\ kept = {}
    /\ signals = 0

InHandler(t) == below[t] # None

(* A retry_thread that returned with the mutex of its list locked. *)
Gone(t) == todo[t] = <<>> /\ \E m \in kept : owner[m] = t

Begin(t) ==
    /\ todo[t] = <<>> /\ ~ InHandler(t) /\ ~ Gone(t)
    /\ \E p \in Rounds : todo' = [todo EXCEPT ![t] = p]
    /\ UNCHANGED <<below, owner, depth, kept, signals>>

Wants(t) == IF todo[t] # <<>> /\ Head(todo[t]).op # "unlock" THEN Head(todo[t]).on ELSE None

Free(t, m) == owner[m] = None \/ (m \in Recursive /\ owner[m] = t)

Lock(t) ==
    LET m == Wants(t)
    IN  /\ m # None /\ Free(t, m)
        /\ owner' = [owner EXCEPT ![m] = t]
        /\ depth' = [depth EXCEPT ![m] = @ + 1]
        /\ kept' = IF Head(todo[t]).op = "take" THEN kept \cup {m} ELSE kept
        /\ todo' = [todo EXCEPT ![t] = Tail(@)]
        /\ UNCHANGED <<below, signals>>

Unlock(t) ==
    /\ todo[t] # <<>> /\ Head(todo[t]).op = "unlock"
    /\ LET m == Head(todo[t]).on
           rest == Tail(todo[t])
       IN  /\ depth' = [depth EXCEPT ![m] = @ - 1]
           /\ owner' = [owner EXCEPT ![m] = IF depth[m] = 1 THEN None ELSE t]
           /\ todo' = [todo EXCEPT ![t] = rest]
           /\ below' = [below EXCEPT ![t] = IF Len(rest) = @ THEN None ELSE @]
    /\ UNCHANGED <<kept, signals>>

(* No thread blocks the signals: any may run the handler, in the middle of *)
(* what it does.                                                           *)
Signal(t) ==
    /\ signals < MaxSignals /\ ~ InHandler(t) /\ ~ Gone(t)
    /\ \E h \in Handlers : todo' = [todo EXCEPT ![t] = h \o @]
    /\ below' = [below EXCEPT ![t] = Len(todo[t])]
    /\ signals' = signals + 1
    /\ UNCHANGED <<owner, depth, kept>>

Next ==
    \E t \in Threads : Begin(t) \/ Lock(t) \/ Unlock(t) \/ Signal(t)

Spec == Init /\ [][Next]_vars

-----------------------------------------------------------------------------
(* Properties. *)

TypeOK ==
    /\ owner \in [Mutexes -> Threads \cup {None}]
    /\ depth \in [Mutexes -> Nat]
    /\ kept \subseteq Lists
    /\ signals \in 0..MaxSignals
    /\ below \in [Threads -> Nat \cup {None}]

Blocked(t) == Wants(t) # None /\ ~ Free(t, Wants(t))

(* Threads each of which waits for a mutex of one of them. *)
CircularWait(T) == T # {} /\ \A t \in T : Blocked(t) /\ owner[Wants(t)] \in T

InFlush(t) == owner["retrier"] = t /\ "retrier" \notin kept

(* The threads of the engine and of the connections wait for each other in *)
(* a circle only if one of them flushes the Retrier, which calls           *)
(* TaskRestart with the mutex of the list held (Scheduler.cpp:97-138), was *)
(* interrupted by a signal whose handler locks mutexes                     *)
(* (evqueue.cpp:63-93), or waits for the mutex of an event list that its   *)
(* retry_thread did not unlock (Scheduler.cpp:193).  So a thread waits for *)
(* itself only in a handler or at a mutex that was kept.                   *)
CirclesAreKnown ==
    \A T \in SUBSET Threads :
        CircularWait(T) =>
            \E t \in T : \/ InHandler(t)
                        \/ Wants(t) \in kept
                        \/ (InFlush(t) /\ Cardinality(T) > 1)
=============================================================================
