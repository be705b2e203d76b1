----------------------------- MODULE EventList -----------------------------
(***************************************************************************)
(* What the Scheduler class (Scheduler.h, Scheduler.cpp) promises to the   *)
(* Retrier and the WorkflowScheduler, without its threads, its linked list *)
(* and its mutex: an event that was inserted leaves the list once, by a    *)
(* flush or, earliest first and never before its time, by an alarm; the    *)
(* alarm handler owns it until it is done with it.                         *)
(***************************************************************************)
EXTENDS Integers, Functions

CONSTANT Events

VARIABLES clock,
          due,         \* the time of each event of the list
          handled      \* the events passed to event_removed(ALARM)

eventVars == <<clock, due, handled>>

Pending == DOMAIN due

Init == clock = 0 /\ due = <<>> /\ handled = {}

Insert(e, at) ==
    /\ e \notin Pending \cup handled
    /\ due' = [f \in Pending \cup {e} |-> IF f = e THEN at ELSE due[f]]
    /\ UNCHANGED <<clock, handled>>

Fire(e) ==
    /\ e \in Pending
    /\ due[e] <= clock
    /\ \A f \in Pending : due[e] <= due[f]
    /\ due' = Restrict(due, Pending \ {e})
    /\ handled' = handled \cup {e}
    /\ UNCHANGED clock

Release(e) ==
    /\ e \in handled
    /\ handled' = handled \ {e}
    /\ UNCHANGED <<clock, due>>

Flush(out) ==
    /\ out \subseteq Pending
    /\ due' = Restrict(due, Pending \ out)
    /\ UNCHANGED <<clock, handled>>

Tick == clock' = clock + 1 /\ UNCHANGED <<due, handled>>

Next ==
    \/ \E e \in Events :
          \/ e \in DOMAIN due' /\ Insert(e, due'[e])
          \/ Fire(e)
          \/ Release(e)
    \/ \E out \in SUBSET Pending : Flush(out)
    \/ Tick

Spec == Init /\ [][Next]_eventVars
=============================================================================
