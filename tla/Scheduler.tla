------------------------------ MODULE Scheduler ------------------------------
(***************************************************************************)
(* The timed event list behind the Retrier and the WorkflowScheduler       *)
(* (Scheduler.cpp).  Callers insert events; a retry_thread, created each   *)
(* time an event enters the empty list, sleeps until the first event is    *)
(* due and hands it to event_removed; Flush hands events over at once.     *)
(*                                                                         *)
(* The linked list is a sequence: it is only touched under the mutex.  A   *)
(* critical section is one action; `mutex' names the thread that keeps the *)
(* mutex after its step, which the code does in three places.              *)
(***************************************************************************)
EXTENDS Integers, FiniteSets, SequencesExt, Lists

CONSTANTS Events,       \* the events ever inserted, each once
          Owners, Owner,\* what flush_filter tells apart (workflow instances)
          Threads,      \* the retry_threads the run may create
          NoThread,
          Delays,       \* scheduled_at minus the time the caller has read
          MaxLateness,  \* bound: seconds past its due time an event is linked
          Horizon,      \* bound: no event is scheduled after this second
          MaxLag,       \* bound: seconds a curr_time may age before its use
          LateInserts   \* whether callers still insert during the shutdown:
                        \* not in the Retrier, whose caller, the Gatherer, has
                        \* been joined by then

ASSUME SchedulerAssumption ==
    /\ IsFiniteSet(Events) /\ IsFiniteSet(Threads)
    /\ Cardinality(Events) <= Cardinality(Threads)
    /\ Owner \in [Events -> Owners]
    /\ NoThread \notin Threads
    /\ Delays \subseteq Int
    /\ MaxLateness \in Int
    /\ Horizon \in Nat
    /\ MaxLag \in Nat
    /\ LateInserts \in BOOLEAN

VARIABLES clock,            \* time(0)
          events,           \* first_event and its successors
          number_of_events,
          scheduled_at,
          place,            \* where each event is
          late,             \* history: those of the list linked when due already
          mutex,
          is_shutting_down,
          retry_thread_handle,
          pc,               \* where each retry_thread is
          curr_time,        \* its local curr_time
          time_to_sleep,    \* its local time_to_sleep
          abstime,          \* the deadline of its pthread_cond_timedwait
          holding,          \* the event it passes to event_removed
          detached,
          main              \* Shutdown, then WaitForShutdown

listVars == <<events, number_of_events, scheduled_at>>
threadVars == <<curr_time, time_to_sleep, abstime, holding>>
vars == <<clock, events, number_of_events, scheduled_at, place, late, mutex,
          is_shutting_down, retry_thread_handle, pc, curr_time, time_to_sleep, abstime,
          holding, detached, main>>

Points == {"none", "time", "shift", "removed", "check", "asleep", "woken",
           "detach", "done"}

TypeOK ==
    /\ clock \in Nat
    /\ events \in Seq(Events)
    /\ number_of_events \in Nat
    /\ scheduled_at \in [Events -> Int]
    /\ place \in [Events -> {"new", "planned", "pending", "handled", "gone"}]
    /\ late \subseteq Events
    /\ mutex \in Threads \cup {NoThread}
    /\ is_shutting_down \in BOOLEAN
    /\ retry_thread_handle \in Threads \cup {NoThread}
    /\ pc \in [Threads -> Points]
    /\ curr_time \in [Threads -> Nat]
    /\ time_to_sleep \in [Threads -> Nat]
    /\ abstime \in [Threads -> Nat]
    /\ holding \in [Threads -> Events \cup {NoThread}]
    /\ detached \subseteq Threads
    /\ main \in {"running", "wait", "join", "exited"}

Init ==
    /\ clock = 0
    /\ events = <<>>
    /\ number_of_events = 0
    /\ scheduled_at = [e \in Events |-> 0]
    /\ place = [e \in Events |-> "new"]
    /\ late = {}
    /\ mutex = NoThread
    /\ is_shutting_down = FALSE
    /\ retry_thread_handle = NoThread
    /\ pc = [t \in Threads |-> "none"]
    /\ curr_time = [t \in Threads |-> 0]
    /\ time_to_sleep = [t \in Threads |-> 0]
    /\ abstime = [t \in Threads |-> 0]
    /\ holding = [t \in Threads |-> NoThread]
    /\ detached = {}
    /\ main = "running"

-----------------------------------------------------------------------------
(* Helpers. *)

\* The list after the insertion of e: before the first event due later.
Inserted(list, at, e) ==
    LET later == {k \in 1 .. Len(list) : at[list[k]] > at[e]}
    IN  IF later = {} THEN Append(list, e) ELSE InsertAt(list, Min(later), e)

\* pthread_cond_signal(&sleep_cond): one of the sleeping threads wakes up.
Signal(p) ==
    LET sleepers == {t \in Threads : p[t] = "asleep"}
    IN  IF sleepers = {} THEN {p}
        ELSE {[p EXCEPT ![t] = "woken"] : t \in sleepers}

\* pthread_create: a thread that does not exist yet; which one is immaterial.
NewThread == CHOOSE t \in Threads : pc[t] = "none"

FirstIsDue(t) ==
    events # <<>> /\ scheduled_at[events[1]] <= curr_time[t]

MutexFree == mutex = NoThread /\ main # "exited"

MayInsert(e) == MutexFree /\ place[e] = "planned"

(* e enters the list in the order given, due already or not. *)
Link(e, list) ==
    /\ place' = [place EXCEPT ![e] = "pending"]
    /\ events' = list
    /\ late' = IF scheduled_at[e] <= clock THEN late \cup {e} ELSE late

-----------------------------------------------------------------------------
(* The operations of the callers. *)

(* A caller (retry_task, ScheduleWorkflow) reads the time and settles when *)
(* its event is due; it takes the mutex later.                             *)
Prepare(e, d) ==
    /\ main # "exited" /\ place[e] = "new" /\ clock + d \in 0..Horizon
    /\ is_shutting_down => LateInserts
    /\ scheduled_at' = [scheduled_at EXCEPT ![e] = clock + d]
    /\ place' = [place EXCEPT ![e] = "planned"]
    /\ UNCHANGED <<clock, events, number_of_events, late, mutex,
                   is_shutting_down, retry_thread_handle, pc, threadVars,
                   detached, main>>

\* Mutant: the new first event does not wake the thread up.
InsertEventQuietly(e) ==
    /\ MayInsert(e) /\ Link(e, Inserted(events, scheduled_at, e))
    /\ number_of_events' = (IF events = <<>> THEN 0 ELSE number_of_events) + 1
    /\ IF events = <<>>
       THEN /\ retry_thread_handle' = NewThread
            /\ pc' = [pc EXCEPT ![NewThread] = "time"]
       ELSE UNCHANGED <<pc, retry_thread_handle>>
    /\ UNCHANGED <<clock, scheduled_at, mutex, is_shutting_down, threadVars,
                   detached, main>>

\* Mutant: the list is not kept sorted.
InsertEventAtEnd(e) ==
    /\ MayInsert(e) /\ Link(e, Append(events, e))
    /\ number_of_events' = (IF events = <<>> THEN 0 ELSE number_of_events) + 1
    /\ IF events = <<>>
       THEN /\ retry_thread_handle' = NewThread
            /\ pc' = [pc EXCEPT ![NewThread] = "time"]
       ELSE UNCHANGED <<pc, retry_thread_handle>>
    /\ UNCHANGED <<clock, scheduled_at, mutex, is_shutting_down, threadVars,
                   detached, main>>

\* Mutant: a thread is created for the first event ever only.
InsertEventOneThread(e) ==
    /\ MayInsert(e) /\ Link(e, Inserted(events, scheduled_at, e))
    /\ number_of_events' = number_of_events + 1
    /\ IF retry_thread_handle = NoThread
       THEN /\ retry_thread_handle' = NewThread
            /\ pc' = [pc EXCEPT ![NewThread] = "time"]
       ELSE UNCHANGED retry_thread_handle /\ pc' \in Signal(pc)
    /\ UNCHANGED <<clock, scheduled_at, mutex, is_shutting_down, threadVars,
                   detached, main>>

(* InsertEvent: an event entering the empty list creates a thread, whether *)
(* or not an earlier one is still there; a new first event signals.        *)
InsertEvent(e) ==
    /\ MayInsert(e) /\ Link(e, Inserted(events, scheduled_at, e))
    /\ number_of_events' = (IF events = <<>> THEN 0 ELSE number_of_events) + 1
    /\ \/ /\ events = <<>>
          /\ retry_thread_handle' = NewThread
          /\ pc' = [pc EXCEPT ![NewThread] = "time"]
       \/ /\ events # <<>> /\ events'[1] = e
          /\ pc' \in Signal(pc)
          /\ UNCHANGED retry_thread_handle
       \/ /\ events # <<>> /\ events'[1] # e
          /\ UNCHANGED <<pc, retry_thread_handle>>
    /\ UNCHANGED <<clock, scheduled_at, mutex, is_shutting_down, threadVars,
                   detached, main>>

(* Flush: event_removed(FLUSH) for every event the filter keeps, the mutex *)
(* held throughout.                                                        *)
Flush(filter) ==
    LET out == {e \in ToSet(events) : Owner[e] \in filter}
    IN  /\ MutexFree /\ number_of_events # 0
        /\ events' = Without(events, out)
        /\ number_of_events' = number_of_events - Cardinality(out)
        /\ place' = [e \in Events |-> IF e \in out THEN "gone" ELSE place[e]]
        /\ late' = late \ out
        /\ pc' \in IF events # <<>> /\ events[1] \in out
                   THEN Signal(pc) ELSE {pc}
        /\ scheduled_at' = [e \in Events |->
                               IF e \in out THEN 0 ELSE scheduled_at[e]]
        /\ UNCHANGED <<clock, mutex, is_shutting_down, retry_thread_handle,
                       threadVars, detached, main>>

(* Retrier::FlushWorkflowInstance, and the unfiltered Flush of SIGUSR1 and *)
(* of WorkflowScheduler::Reload.                                           *)
FlushWorkflowInstance == \E o \in Owners : Flush({o})
FlushAll == Flush(Owners)

-----------------------------------------------------------------------------
(* retry_thread. *)

ThreadTime(t) ==
    /\ pc[t] = "time" /\ main # "exited"
    /\ curr_time' = [curr_time EXCEPT ![t] = clock]
    /\ pc' = [pc EXCEPT ![t] = "shift"]
    /\ UNCHANGED <<clock, listVars, place, late, mutex, is_shutting_down,
                   retry_thread_handle, time_to_sleep, abstime, holding, detached, main>>

\* Mutant: an event due right now is left for later.
shift_eventStrict(t) ==
    /\ pc[t] = "shift" /\ MutexFree
    /\ \/ /\ FirstIsDue(t) /\ scheduled_at[events[1]] < curr_time[t]
          /\ events' = Tail(events)
          /\ number_of_events' = number_of_events - 1
          /\ place' = [place EXCEPT ![events[1]] = "handled"]
          /\ late' = late \ {events[1]}
          /\ holding' = [holding EXCEPT ![t] = events[1]]
          /\ pc' = [pc EXCEPT ![t] = "removed"]
       \/ /\ ~ (FirstIsDue(t) /\ scheduled_at[events[1]] < curr_time[t])
          /\ pc' = [pc EXCEPT ![t] = "check"]
          /\ UNCHANGED <<events, number_of_events, place, late, holding>>
    /\ UNCHANGED <<clock, scheduled_at, mutex, is_shutting_down,
                   retry_thread_handle, curr_time, time_to_sleep, abstime, detached, main>>

\* Mutant: the last event of the list is handed over without being unlinked.
shift_eventKeepingLast(t) ==
    /\ pc[t] = "shift" /\ MutexFree
    /\ \/ /\ FirstIsDue(t)
          /\ events' = IF Len(events) = 1 THEN events ELSE Tail(events)
          /\ number_of_events' = number_of_events - 1
          /\ place' = [place EXCEPT ![events[1]] = "handled"]
          /\ late' = late \ {events[1]}
          /\ holding' = [holding EXCEPT ![t] = events[1]]
          /\ pc' = [pc EXCEPT ![t] = "removed"]
       \/ /\ ~ FirstIsDue(t)
          /\ pc' = [pc EXCEPT ![t] = "check"]
          /\ UNCHANGED <<events, number_of_events, place, late, holding>>
    /\ UNCHANGED <<clock, scheduled_at, mutex, is_shutting_down,
                   retry_thread_handle, curr_time, time_to_sleep, abstime, detached, main>>

shift_event(t) ==
    /\ pc[t] = "shift" /\ MutexFree
    /\ \/ /\ FirstIsDue(t)
          /\ events' = Tail(events)
          /\ number_of_events' = number_of_events - 1
          /\ place' = [place EXCEPT ![events[1]] = "handled"]
          /\ late' = late \ {events[1]}
          /\ holding' = [holding EXCEPT ![t] = events[1]]
          /\ pc' = [pc EXCEPT ![t] = "removed"]
       \/ /\ ~ FirstIsDue(t)
          /\ pc' = [pc EXCEPT ![t] = "check"]
          /\ UNCHANGED <<events, number_of_events, place, late, holding>>
    /\ UNCHANGED <<clock, scheduled_at, mutex, is_shutting_down,
                   retry_thread_handle, curr_time, time_to_sleep, abstime, detached, main>>

(* event_removed(event, ALARM), outside the mutex; it deletes the event. *)
event_removed(t) ==
    /\ pc[t] = "removed" /\ main # "exited"
    /\ place' = [place EXCEPT ![holding[t]] = "gone"]
    /\ scheduled_at' = [scheduled_at EXCEPT ![holding[t]] = 0]
    /\ holding' = [holding EXCEPT ![t] = NoThread]
    /\ pc' = [pc EXCEPT ![t] = "shift"]
    /\ UNCHANGED <<clock, events, number_of_events, late, mutex, is_shutting_down,
                   retry_thread_handle, curr_time, time_to_sleep, abstime, detached, main>>

(* The locals of one turn of the loop, read again or set before any use. *)
Forget(t) ==
    /\ curr_time' = [curr_time EXCEPT ![t] = 0]
    /\ time_to_sleep' = [time_to_sleep EXCEPT ![t] = 0]
    /\ abstime' = [abstime EXCEPT ![t] = 0]

get_sleep_time(t) == scheduled_at[events[1]] - curr_time[t]

(* The test after the shift loop: leave, sleep, or loop.  The mutex stays  *)
(* locked when a shutdown is seen and when there is no time to sleep.      *)
ThreadCheck(t) ==
    /\ pc[t] = "check" /\ MutexFree
    /\ \/ /\ number_of_events = 0
          /\ pc' = [pc EXCEPT ![t] = "detach"]
          /\ Forget(t) /\ UNCHANGED mutex
       \/ /\ number_of_events # 0 /\ get_sleep_time(t) <= 0
          /\ mutex' = t
          /\ pc' = [pc EXCEPT ![t] = "time"]
          /\ Forget(t)
       \/ /\ number_of_events # 0 /\ get_sleep_time(t) > 0
          /\ is_shutting_down
          /\ mutex' = t
          /\ pc' = [pc EXCEPT ![t] = "done"]
          /\ Forget(t)
       \/ /\ number_of_events # 0 /\ get_sleep_time(t) > 0
          /\ ~ is_shutting_down
          /\ time_to_sleep' = [time_to_sleep EXCEPT ![t] = get_sleep_time(t)]
          /\ abstime' = [abstime EXCEPT ![t] = clock + get_sleep_time(t)]
          /\ pc' = [pc EXCEPT ![t] = "asleep"]
          /\ UNCHANGED <<curr_time, mutex>>
    /\ UNCHANGED <<clock, listVars, place, late, is_shutting_down,
                   retry_thread_handle, holding, detached, main>>

(* pthread_cond_timedwait gives up at abstime, or for no reason. *)
ThreadTimeout(t) ==
    /\ pc[t] = "asleep" /\ main # "exited"
    /\ clock >= abstime[t]
    /\ pc' = [pc EXCEPT ![t] = "woken"]
    /\ UNCHANGED <<clock, listVars, place, late, mutex, is_shutting_down,
                   retry_thread_handle, threadVars, detached, main>>

ThreadSpuriousWakeup(t) ==
    /\ pc[t] = "asleep" /\ main # "exited"
    /\ clock < abstime[t]
    /\ pc' = [pc EXCEPT ![t] = "woken"]
    /\ UNCHANGED <<clock, listVars, place, late, mutex, is_shutting_down,
                   retry_thread_handle, threadVars, detached, main>>

(* pthread_cond_timedwait returns, with the mutex locked again. *)
ThreadWake(t) ==
    /\ pc[t] = "woken" /\ MutexFree
    /\ IF is_shutting_down
       THEN mutex' = t /\ pc' = [pc EXCEPT ![t] = "done"]
       ELSE UNCHANGED mutex /\ pc' = [pc EXCEPT ![t] = "time"]
    /\ Forget(t)
    /\ UNCHANGED <<clock, listVars, place, late, is_shutting_down,
                   retry_thread_handle, holding, detached, main>>

(* pthread_detach of whatever thread the handle names by now. *)
ThreadDetach(t) ==
    /\ pc[t] = "detach" /\ main # "exited"
    /\ detached' = detached \cup {retry_thread_handle}
    /\ pc' = [pc EXCEPT ![t] = "done"]
    /\ UNCHANGED <<clock, listVars, place, late, mutex, is_shutting_down,
                   retry_thread_handle, threadVars, main>>

-----------------------------------------------------------------------------
(* The main thread, and time. *)

Shutdown ==
    /\ main = "running" /\ MutexFree
    /\ LateInserts \/ \A e \in Events : place[e] # "planned"
    /\ is_shutting_down' = TRUE
    /\ pc' \in IF number_of_events > 0 THEN Signal(pc) ELSE {pc}
    /\ main' = "wait"
    /\ UNCHANGED <<clock, listVars, place, late, mutex, retry_thread_handle,
                   threadVars, detached>>

(* WaitForShutdown reads number_of_events without the mutex. *)
WaitForShutdown ==
    /\ main = "wait"
    /\ main' = IF number_of_events = 0 THEN "exited" ELSE "join"
    /\ UNCHANGED <<clock, listVars, place, late, mutex, is_shutting_down,
                   retry_thread_handle, pc, threadVars, detached>>

(* pthread_join waits for the thread; of a detached one it returns EINVAL. *)
Join ==
    /\ main = "join"
    /\ pc[retry_thread_handle] = "done" \/ retry_thread_handle \in detached
    /\ main' = "exited"
    /\ UNCHANGED <<clock, listVars, place, late, mutex, is_shutting_down,
                   retry_thread_handle, pc, threadVars, detached>>

Tick ==
    /\ main # "exited"
    /\ \/ clock < Horizon
       \/ \E t \in Threads : pc[t] = "asleep" /\ clock < abstime[t]
    /\ \A t \in Threads :
          pc[t] \in {"shift", "removed", "check"} => clock < curr_time[t] + MaxLag
    /\ \A e \in Events : MayInsert(e) => clock < scheduled_at[e] + MaxLateness
    /\ clock' = clock + 1
    /\ UNCHANGED <<listVars, place, late, mutex, is_shutting_down,
                   retry_thread_handle, pc, threadVars, detached, main>>

ThreadStep(t) ==
    \/ ThreadTime(t)
    \/ shift_event(t)
    \/ event_removed(t)
    \/ ThreadCheck(t)
    \/ ThreadTimeout(t)
    \/ ThreadWake(t)
    \/ ThreadDetach(t)

Next ==
    \/ \E e \in Events : InsertEvent(e) \/ \E d \in Delays : Prepare(e, d)
    \/ FlushWorkflowInstance
    \/ FlushAll
    \/ \E t \in Threads : ThreadStep(t) \/ ThreadSpuriousWakeup(t)
    \/ Shutdown
    \/ WaitForShutdown
    \/ Join
    \/ Tick

Spec == Init /\ [][Next]_vars

(* The kernel runs the threads and time goes on; nobody has to prepare an  *)
(* event, flush or shut down, but a caller who has read the time goes on   *)
(* to the insertion, and main, once the shutdown has begun, to its end.    *)
Fairness ==
    /\ WF_vars(\E e \in Events : InsertEvent(e))
    /\ \A t \in Threads : WF_vars(ThreadStep(t))
    /\ WF_vars(WaitForShutdown \/ Join)
    /\ WF_vars(Tick)

FairSpec == Spec /\ Fairness

-----------------------------------------------------------------------------
(* Properties. *)

(* number_of_events counts the list, which has no event twice and is in    *)
(* the order of scheduled_at, whoever inserts, shifts or flushes           *)
(* (Scheduler.cpp:56-138, 229-245).                                        *)
ListIsSound ==
    /\ number_of_events = Len(events)
    /\ \A i, j \in 1..Len(events) :
          i < j => /\ events[i] # events[j]
                   /\ scheduled_at[events[i]] <= scheduled_at[events[j]]

(* An event is owned by exactly one party: the list, or one retry_thread   *)
(* which is handing it over, although several retry_threads may shift and  *)
(* a Flush may come in between (Scheduler.cpp:111-130, 173-176).  A second *)
(* owner would delete it a second time.                                    *)
EventHasOneOwner ==
    \A e \in Events :
        LET handlers == {t \in Threads : pc[t] = "removed" /\ holding[t] = e}
        IN  CASE place[e] = "pending" -> e \in ToSet(events) /\ handlers = {}
              [] place[e] = "handled" -> /\ e \notin ToSet(events)
                                         /\ Cardinality(handlers) = 1
              [] OTHER -> e \notin ToSet(events) /\ handlers = {}

(* While no shutdown is requested, the first event of the list is watched: *)
(* some thread is awake, or sleeps no longer than until that event is due  *)
(* (Scheduler.cpp:92, 133, 192-207).                                       *)
HeadIsWatched ==
    (events # <<>> /\ ~ is_shutting_down) =>
        \E t \in Threads :
            \/ pc[t] \in {"time", "shift", "removed", "check", "woken"}
            \/ /\ pc[t] = "asleep"
               /\ curr_time[t] + time_to_sleep[t] <= scheduled_at[events[1]]

(* Only an event linked when it was due already makes a retry_thread keep   *)
(* the mutex at the end of a turn without sleep (Scheduler.cpp:192-193): no *)
(* lag of a curr_time does, nor a flush, a spurious wake-up or another      *)
(* thread.  The thread then locks the mutex again in shift_event and stops  *)
(* for ever, with every caller.  Shutdown apart, nobody else keeps it.      *)
OnlyLateEventsRelock ==
    \A t \in Threads :
        mutex = t => pc[t] = "done" \/ (events # <<>> /\ events[1] \in late)

\* A retry_thread waits for the mutex it holds.
Stuck == \E t \in Threads : mutex = t /\ pc[t] # "done"

(* An event a caller has settled on reaches event_removed and is gone,     *)
(* unless a shutdown comes first or a thread locks itself and everybody    *)
(* out (Scheduler.cpp:56-95, 160-222).  An event never goes back to an     *)
(* earlier place, so it is enough that again and again none is under way.  *)
EveryEventFires ==
    []<>(\/ \A e \in Events : place[e] \in {"new", "gone"}
         \/ is_shutting_down \/ Stuck)

(* The threads, the list and the mutex implement EventList: an event is in *)
(* the list or in the hands of one alarm handler, leaves the list once,    *)
(* the earliest first, and no alarm comes before its time, although each   *)
(* thread decides on a curr_time it has read before it took the mutex      *)
(* (Scheduler.cpp:56-138, 160-245).                                        *)
Abstract == INSTANCE EventList WITH
    due <- [e \in ToSet(events) |-> scheduled_at[e]],
    handled <- {holding[t] : t \in {u \in Threads : pc[u] = "removed"}}

ImplementsEventList == Abstract!Spec

(* Shutdown releases the thread, so that WaitForShutdown returns           *)
(* (Scheduler.cpp:140-158).                                                *)
ShutdownCompletes == main = "wait" ~> main = "exited"
=============================================================================
