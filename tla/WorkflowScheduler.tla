--------------------------- MODULE WorkflowScheduler ---------------------------
(***************************************************************************)
(* Scheduled workflows (WorkflowScheduler.cpp, WorkflowSchedule.cpp, the   *)
(* boot sequence of evqueue.cpp and the end of the destructor of           *)
(* WorkflowInstance).  A WorkflowSchedule object is owned in turn by an    *)
(* event of the Scheduler's list, by the thread that handles its alarm and *)
(* by the table of the executing instances, until the end of the instance  *)
(* puts it back into the list.                                             *)
(*                                                                         *)
(* The list of events is the one Scheduler implements, EventList; which of *)
(* its events is due next is left open, that is the business of Schedule.  *)
(* Whatever runs under wfs_mutex is one action.  Reload, which a signal    *)
(* handler calls (evqueue.cpp:71-76), is thereby only ever run by a thread *)
(* outside such a section; inside one, the mutex being recursive, it would *)
(* be let in, and that is not modelled.                                    *)
(***************************************************************************)
EXTENDS Integers, FiniteSets, Functions, TLC

CONSTANTS
    Schedules,      \* rows of t_workflow_schedule
    Suspends,       \* those whose workflow_schedule_onfailure is SUSPEND
    Instances,      \* bound: workflow instances alive at once
    Objects,        \* bound: WorkflowSchedule objects alive at once
    Levels,         \* values of workflowinstance.savepoint.level
    None

ASSUME WorkflowSchedulerAssumption ==
    /\ Suspends \subseteq Schedules
    /\ IsFiniteSet(Schedules) /\ IsFiniteSet(Instances) /\ IsFiniteSet(Objects)
    /\ None \notin Schedules \cup Instances \cup Objects
    /\ Levels \subseteq 0..3

VARIABLES
    main,           \* the main thread: "resuming", "loading", "up"
    active,         \* rows with workflow_schedule_active = 1
    rows,           \* EXECUTING rows of t_workflow_instance, during the boot
    table,          \* wfs_ids -> [wi: wfs_wi_ids, ws: wfs_executing_instances]
    due, handled,   \* the list of events, EventList
    heap,           \* the schedule each WorkflowSchedule object is of
    wi,             \* the instances started by a schedule
    crashed,        \* a null pointer was followed
    astray,         \* schedules a (re)load has left out of step: see Loaded
    dropped         \* schedules given up after a logged error

listVars == <<due, handled>>
vars == <<main, active, rows, table, listVars, heap, wi, crashed, astray, dropped>>

\* Every event of the list may be the next one: times are all equal.
List == INSTANCE EventList WITH Events <- Objects, clock <- 0

Pending == DOMAIN due

NoEntry == [wi |-> None, ws |-> None]
NoInstance == [st |-> "none", sid |-> None, ws |-> None]

Executing == {table[s].ws : s \in DOMAIN table} \ {None}

(* An address is handed out again once it is free and nobody holds it, so  *)
(* that a pointer to a deleted object stays visible.                       *)
FreeObjects == {o \in Objects : heap[o] = None} \ (Pending \cup handled \cup Executing)
FreeInstances == {i \in Instances : wi[i].st = "none"}
                    \ {table[s].wi : s \in DOMAIN table}

Of(s) == {o \in Objects : heap[o] = s}
InstancesOf(s) == {i \in Instances : wi[i].sid = s}
InProgress(s) == InstancesOf(s) # {} \/ Of(s) \cap handled # {}

TypeOK ==
    /\ main \in {"resuming", "loading", "up"}
    /\ active \subseteq Schedules
    /\ rows \subseteq Instances
    /\ DOMAIN table \subseteq Schedules
    /\ \A s \in DOMAIN table : table[s] \in [wi : Instances \cup {None},
                                             ws : Objects \cup {None}]
    /\ Pending \subseteq Objects /\ \A o \in Pending : due[o] = 0
    /\ handled \subseteq Objects
    /\ heap \in [Objects -> Schedules \cup {None}]
    /\ wi \in [Instances -> [st : {"none", "saved", "built", "listed", "running"},
                             sid : Schedules \cup {None},
                             ws : Objects \cup {None}]]
    /\ crashed \in BOOLEAN
    /\ astray \subseteq Schedules /\ dropped \subseteq Schedules

(* The engine boots with the rows of a previous one: one EXECUTING         *)
(* instance per schedule at most, none of its runs having been doubled.    *)
(* The constructor has loaded the table (init).                            *)
Init ==
    /\ main = "resuming"
    /\ active \in SUBSET Schedules
    /\ \E past \in SUBSET Schedules : \E id \in Injection(past, Instances) :
          /\ rows = Range(id)
          /\ wi = [i \in Instances |->
                      IF i \in Range(id)
                      THEN [st |-> "saved", ws |-> None,
                            sid |-> CHOOSE s \in past : id[s] = i]
                      ELSE NoInstance]
    /\ table = [s \in active |-> NoEntry]
    /\ due = <<>>
    /\ handled = {}
    /\ heap = [o \in Objects |-> None]
    /\ crashed = FALSE
    /\ astray = {}
    /\ dropped = {}

Running == ~ crashed

-----------------------------------------------------------------------------
(* The end of an instance. *)

\* Mutant: after a failure the schedule is given up, SUSPEND or not.
StopSuspendingAll(s, success) ==
    LET o == table[s].ws
    IN  \/ /\ s \notin DOMAIN table
           /\ UNCHANGED <<active, table, listVars, heap, crashed, dropped>>
        \/ /\ s \in DOMAIN table /\ o = None
           /\ crashed' = TRUE
           /\ UNCHANGED <<active, table, listVars, heap, dropped>>
        \/ /\ s \in DOMAIN table /\ o # None
           /\ table' = [table EXCEPT ![s] = NoEntry]
           /\ IF success THEN List!Insert(o, 0) /\ UNCHANGED heap
              ELSE heap' = [heap EXCEPT ![o] = None] /\ UNCHANGED listVars
           /\ UNCHANGED <<active, crashed, dropped>>

SetStatus(s, on) == active' = IF on THEN active \cup {s} ELSE active \ {s}

(* lookup_wfs, a binary search of wfs_ids. *)
lookup_wfs(s) == s \in DOMAIN table

(* ScheduledWorkflowInstanceStop: unknown schedules are ignored; an entry  *)
(* without object is a null pointer, followed on success (GetNextTime) and *)
(* on failure (GetOnFailureBehavior) alike.                                *)
ScheduledWorkflowInstanceStop(s, success) ==
    LET o == table[s].ws
    IN  \/ /\ ~ lookup_wfs(s)
           /\ UNCHANGED <<active, table, listVars, heap, crashed, dropped>>
        \/ /\ lookup_wfs(s) /\ o = None
           /\ crashed' = TRUE
           /\ UNCHANGED <<active, table, listVars, heap, dropped>>
        \/ /\ lookup_wfs(s) /\ o # None
           /\ table' = [table EXCEPT ![s] = NoEntry]
           /\ \/ /\ success \/ s \notin Suspends
                 /\ List!Insert(o, 0)
                 /\ UNCHANGED <<active, heap, dropped>>
              \/ /\ ~ success /\ s \in Suspends
                 /\ SetStatus(s, FALSE)
                 /\ dropped' = dropped \cup {s}
                 /\ heap' = [heap EXCEPT ![o] = None]
                 /\ UNCHANGED listVars
           /\ UNCHANGED crashed

(* delete wi, by whichever thread was told workflow_terminated: the row is *)
(* no longer EXECUTING, then the scheduler is told.                        *)
DeleteInstance(i) ==
    /\ Running /\ wi[i].st = "running"
    /\ \E success \in BOOLEAN : ScheduledWorkflowInstanceStop(wi[i].sid, success)
    /\ wi' = [wi EXCEPT ![i] = NoInstance]
    /\ rows' = rows \ {i}
    /\ UNCHANGED <<main, astray>>

-----------------------------------------------------------------------------
(* Loading the schedules, at boot and on SIGHUP. *)

\* Mutant: the list is not flushed before its objects are deleted.
LoadedUnflushed(ok, busy) ==
    LET idle == {s \in ok : busy[s] = None}
    IN  /\ \E new \in Injection(ok, FreeObjects) :
              /\ heap' = [o \in Objects |->
                             CASE o \in Range(new) -> CHOOSE s \in ok : new[s] = o
                               [] o \in (Pending \cup Executing) \ Range(new) -> None
                               [] OTHER -> heap[o]]
              /\ table' = [s \in active |->
                              IF s \in ok \ idle
                              THEN [wi |-> busy[s], ws |-> new[s]] ELSE NoEntry]
              /\ due' = [o \in {new[s] : s \in idle} \cup Pending |-> 0]
        /\ dropped' = (dropped \ ok) \cup (active \ ok)
        /\ UNCHANGED <<handled, astray>>

(* The list is empty or has been flushed, its objects deleted.  Then comes *)
(* new WorkflowSchedule for each schedule of `ok'; the constructor throws  *)
(* for the others.  `busy' gives the instance of those that execute: they  *)
(* go into the table, the others into the list.  The objects of the old    *)
(* table are deleted in the end.                                           *)
Loaded(ok, busy) ==
    LET idle == {s \in ok : busy[s] = None}
    IN  /\ \E new \in Injection(ok, FreeObjects \cup Pending) :
              /\ heap' = [o \in Objects |->
                             CASE o \in Range(new) -> CHOOSE s \in ok : new[s] = o
                               [] o \in (Pending \cup Executing) \ Range(new) -> None
                               [] OTHER -> heap[o]]
              /\ table' = [s \in active |->
                              IF s \in ok \ idle
                              THEN [wi |-> busy[s], ws |-> new[s]] ELSE NoEntry]
              /\ due' = [o \in {new[s] : s \in idle} |-> 0]
        /\ dropped' = (dropped \ ok) \cup (active \ ok)
        /\ astray' = astray \cup {s \in active : InProgress(s) /\ table'[s].ws = None}
        /\ UNCHANGED handled

(* evqueue.cpp: Resume of one instance.  It may find nothing left to do,   *)
(* in which case it is deleted at once (DeleteInstance).                   *)
ResumeInstance(i) ==
    /\ Running /\ main = "resuming" /\ wi[i].st = "saved"
    /\ wi' = [wi EXCEPT ![i].st = "running"]
    /\ UNCHANGED <<main, active, rows, table, listVars, heap, crashed, astray, dropped>>

(* An empty savepoint: the row is set TERMINATED and the constructor       *)
(* throws, before the instance is registered.                              *)
ResumeThrows(i) ==
    /\ Running /\ main = "resuming" /\ wi[i].st = "saved"
    /\ rows' = rows \ {i}
    /\ wi' = [wi EXCEPT ![i] = NoInstance]
    /\ UNCHANGED <<main, active, table, listVars, heap, crashed, astray, dropped>>

(* On level 0 or 1 the EXECUTING rows are purged once they are resumed. *)
PurgeResumed ==
    /\ Running /\ main = "resuming"
    /\ \A i \in Instances : wi[i].st # "saved"
    /\ \E level \in Levels : rows' = IF level <= 1 THEN {} ELSE rows
    /\ main' = "loading"
    /\ UNCHANGED <<active, table, listVars, heap, wi, crashed, astray, dropped>>

(* The schedules are loaded with the instance their EXECUTING row names.   *)
LoadSchedules ==
    /\ Running /\ main = "loading"
    /\ \E ok \in SUBSET active :
          Loaded(ok, [s \in active |->
                    IF \E i \in rows : wi[i].sid = s
                    THEN CHOOSE i \in rows : wi[i].sid = s ELSE None])
    /\ main' = "up"
    /\ rows' = {}
    /\ UNCHANGED <<active, wi, crashed>>

(* Reload, on SIGHUP: the list is flushed, its objects deleted, and every  *)
(* active schedule loaded again; the ones the table showed as executing    *)
(* stay in the table, with a new object for the old.                       *)
Reload ==
    /\ Running /\ main = "up"
    /\ \E ok \in SUBSET active :
          Loaded(ok, [s \in active |->
                    IF lookup_wfs(s) /\ table[s].ws # None
                    THEN table[s].wi ELSE None])
    /\ UNCHANGED <<main, active, rows, wi, crashed>>

-----------------------------------------------------------------------------
(* event_removed(ALARM), on a thread of the Scheduler, which holds the     *)
(* object without a lock until it has put it into the table.               *)

\* Mutant: the event stays in the list while it is handled.
FireKeeping(o) ==
    /\ Running /\ o \in Pending
    /\ handled' = handled \cup {o}
    /\ UNCHANGED <<main, active, rows, table, due, heap, wi, crashed, astray, dropped>>

Fire(o) ==
    /\ Running /\ List!Fire(o)
    /\ UNCHANGED <<main, active, rows, table, heap, wi, crashed, astray, dropped>>

BuildInstance(o) ==
    /\ Running /\ o \in handled /\ \A j \in Instances : wi[j].ws # o
    /\ \E i \in FreeInstances :
          wi' = [wi EXCEPT ![i] = [st |-> "built", sid |-> heap[o], ws |-> o]]
    /\ UNCHANGED <<main, active, rows, table, listVars, heap, crashed, astray, dropped>>

(* new WorkflowInstance throws: unknown workflow, wrong parameters... *)
BuildThrows(o) ==
    /\ Running /\ \A j \in Instances : wi[j].ws # o
    /\ List!Release(o)
    /\ heap' = [heap EXCEPT ![o] = None]
    /\ dropped' = dropped \cup {heap[o]}
    /\ UNCHANGED <<main, active, rows, table, wi, crashed, astray>>

(* The instance enters the table, if the schedule is still there; the      *)
(* thread does not use the object any more.                                *)
ListInstance(i) ==
    LET s == wi[i].sid  o == wi[i].ws
    IN  /\ Running /\ wi[i].st = "built"
        /\ table' = IF lookup_wfs(s)
                    THEN [table EXCEPT ![s] = [wi |-> i, ws |-> o]] ELSE table
        /\ List!Release(o)
        /\ wi' = [wi EXCEPT ![i].st = "listed", ![i].ws = None]
        /\ UNCHANGED <<main, active, rows, heap, crashed, astray, dropped>>

\* Mutant: the instance is started before it is in the table.
StartInstanceEarly(i) ==
    /\ Running /\ wi[i].st \in {"built", "listed"}
    /\ wi' = [wi EXCEPT ![i].st = "running"]
    /\ UNCHANGED <<main, active, rows, table, listVars, heap, crashed, astray, dropped>>

(* wi->Start: an instance that ends there is deleted by this thread, the   *)
(* others by the Gatherer, the Forker or the Retrier: DeleteInstance.      *)
StartInstance(i) ==
    /\ Running /\ wi[i].st = "listed"
    /\ wi' = [wi EXCEPT ![i].st = "running"]
    /\ UNCHANGED <<main, active, rows, table, listVars, heap, crashed, astray, dropped>>

(* The user edits t_workflow_schedule. *)
Edit(s) ==
    /\ Running /\ main = "up"
    /\ SetStatus(s, s \notin active)
    /\ UNCHANGED <<main, rows, table, listVars, heap, wi, crashed, astray, dropped>>

Next ==
    \/ \E i \in Instances :
          \/ ResumeInstance(i) \/ ResumeThrows(i)
          \/ ListInstance(i) \/ StartInstance(i) \/ DeleteInstance(i)
    \/ PurgeResumed
    \/ LoadSchedules
    \/ Reload
    \/ \E o \in Objects : Fire(o) \/ BuildInstance(o) \/ BuildThrows(o)
    \/ \E s \in Schedules : Edit(s)

Spec == Init /\ [][Next]_vars

-----------------------------------------------------------------------------
(* Properties. *)

(* Every pointer to a WorkflowSchedule is to a live object, and no object  *)
(* has two owners that would both delete it: an event of the list, the     *)
(* handler of an alarm, an entry of the table (WorkflowScheduler.cpp:      *)
(* 80-251).  It holds for a Reload between any two critical sections, of   *)
(* an alarm that is being handled too.  It is not claimed for a signal     *)
(* that interrupts a thread inside ScheduledWorkflowInstanceStop: there    *)
(* (117-137) the thread keeps an index into the table and a pointer to an  *)
(* object, which Reload, let in by the recursive mutex, makes stale.       *)
EveryObjectHasOneOwner ==
    /\ \A o \in Pending \cup handled \cup Executing : heap[o] # None
    /\ Pending \cap handled = {}
    /\ Executing \cap (Pending \cup handled) = {}
    /\ \A s, t \in DOMAIN table :
          s # t /\ table[s].ws # None => table[s].ws # table[t].ws

(* A schedule is in one place: waiting in the list, being started, or      *)
(* executing one instance, unless a load scheduled it while an instance of *)
(* it was under way (WorkflowScheduler.cpp:80-111, 157-169, 222-229).      *)
OneRunPerSchedule ==
    \A s \in Schedules \ astray :
        LET starting == {i \in Instances : wi[i].st = "built"}
        IN  Cardinality(Of(s) \cap (Pending \cup handled))
              + Cardinality(InstancesOf(s) \ starting) <= 1

(* Once the schedules are loaded, an instance that ends finds itself and a *)
(* live object of its own schedule in the table, or no entry at all:       *)
(* ScheduledWorkflowInstanceStop follows no null pointer, unless a load    *)
(* left its entry empty (WorkflowScheduler.cpp:113-140).                   *)
StopFindsItsSchedule ==
    main = "up" =>
        \A s \in DOMAIN table \ astray :
            \A i \in InstancesOf(s) :
                wi[i].st \in {"listed", "running"} =>
                    /\ table[s].wi = i
                    /\ table[s].ws # None /\ heap[table[s].ws] = s

(* No schedule of the table is forgotten: it waits, is being started or    *)
(* executes, unless an exception or its suspension was logged              *)
(* (WorkflowScheduler.cpp:126-137, 173-185, 217-238).                      *)
NoScheduleForgotten ==
    (main = "up" /\ ~ crashed) =>
        \A s \in (DOMAIN table \cap active) \ (dropped \cup astray) :
            (Of(s) \cap Pending # {}) \/ InProgress(s)
================================================================================
