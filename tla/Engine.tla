------------------------------- MODULE Engine -------------------------------
(***************************************************************************)
(* The process as a whole, from the first connection to the clean exit:    *)
(* the connections and instances of WorkflowInstances, the garbage         *)
(* collector (GarbageCollector.cpp) and the shutdown sequence of the main  *)
(* thread (evqueue.cpp).  The connection threads are detached: nobody      *)
(* waits for them.                                                         *)
(***************************************************************************)
EXTENDS WorkflowInstances

CONSTANT Limit        \* gc.limit, in rows

ASSUME EngineAssumption == Limit \in Nat \ {0}

VARIABLES
    main,             \* the shutdown sequence
    late,             \* instances that changed after the last savepoint
    gc                \* [pc, stop, lock] of the garbage collector

engineVars == <<wiVars, main, late, gc>>

EngineTypeOK ==
    /\ TypeOK
    /\ main \in {"serving", "stopped", "saved", "joining", "exited"}
    /\ late \subseteq Ids
    /\ gc \in [pc : {"sleep", "purge", "exited"},
               stop : BOOLEAN, lock : BOOLEAN]

Init ==
    /\ wiInit
    /\ main = "serving"
    /\ late = {}
    /\ gc = [pc |-> "sleep", stop |-> FALSE, lock |-> FALSE]

Up == main # "exited"

(* The instances a step touches once the savepoint has been recorded. *)
Noted == late' = IF main \in {"saved", "joining"}
                 THEN late \cup {k \in Ids : inst'[k] # inst[k]} ELSE late

(* The threads of the engine end instances until they are joined. *)
InstanceEnds(k) ==
    /\ main = "serving"
    /\ End(k)
    /\ UNCHANGED <<main, late, gc>>

InstanceIsDeleted(k) ==
    /\ Up /\ (Delete(k) \/ Free(k))
    /\ UNCHANGED <<main, late, gc>>

(* Nothing is accepted once the listening socket is closed. *)
Accept(c) ==
    /\ main = "serving" /\ Ask(c)
    /\ UNCHANGED <<main, late, gc>>

ConnectionThread(c) ==
    /\ Up /\ Proceed(c) /\ Noted
    /\ UNCHANGED <<main, gc>>

Spurious(c) ==
    /\ Up /\ SpuriousWakeup(c)
    /\ UNCHANGED <<main, late, gc>>

-----------------------------------------------------------------------------
(* The garbage collector. *)

\* Mutant: the flag is not polled.
SleepDeaf ==
    /\ Up /\ gc.pc = "sleep" /\ ~ gc.lock
    /\ gc' = [gc EXCEPT !.pc = "purge"]
    /\ UNCHANGED <<wiVars, main, late>>

(* The loop over the seconds of gc.interval or gc.delay, both at least 1:  *)
(* it polls the flag each second; a thread that sees the shutdown returns  *)
(* with the lock held.                                                     *)
Sleep ==
    /\ Up /\ gc.pc = "sleep" /\ ~ gc.lock
    /\ gc' = IF gc.stop THEN [gc EXCEPT !.pc = "exited", !.lock = TRUE]
                        ELSE [gc EXCEPT !.pc = "purge"]
    /\ UNCHANGED <<wiVars, main, late>>

(* purge: TERMINATED rows that are old enough, at most Limit of them. *)
Purge ==
    /\ Up /\ gc.pc = "purge"
    /\ \E old \in SUBSET {k \in Ids : row[k] = "TERMINATED"} :
          /\ Cardinality(old) <= Limit
          /\ row' = [k \in Ids |-> IF k \in old THEN "purged" ELSE row[k]]
    /\ gc' = [gc EXCEPT !.pc = "sleep"]
    /\ UNCHANGED <<level, registryVars, inst, lost, conn,
                   workflow_instance_executing, main, late>>

GarbageCollector == Sleep \/ Purge

-----------------------------------------------------------------------------
(* The main thread. *)

(* SIGTERM closes the socket; the ProcessManager, the WorkflowScheduler    *)
(* and the Retrier are shut down and waited for.                           *)
StopThreads ==
    /\ main = "serving"
    /\ main' = "stopped"
    /\ UNCHANGED <<wiVars, late, gc>>

\* Mutant: the savepoint at the exit is not forced.
RecordSavepointUnforced ==
    /\ main = "stopped"
    /\ main' = "saved"
    /\ row' = [k \in Ids |-> IF k \in wi THEN Savepoint(k, Status(k), FALSE) ELSE row[k]]
    /\ UNCHANGED <<level, registryVars, inst, lost, conn, workflow_instance_executing,
                   late, gc>>

(* WorkflowInstances::RecordSavepoint: a forced savepoint of every         *)
(* registered instance, under the lock of the registry.                    *)
RecordSavepoint ==
    /\ main = "stopped"
    /\ main' = "saved"
    /\ \E failed \in SUBSET wi :
          /\ row' = [k \in Ids |->
                        IF k \in wi \ failed THEN Savepoint(k, Status(k), TRUE)
                                            ELSE row[k]]
          /\ lost' = lost \cup failed /\ Cardinality(lost') <= MaxLost
    /\ UNCHANGED <<level, registryVars, inst, conn, workflow_instance_executing,
                   late, gc>>

StopCollector ==
    /\ main = "saved" /\ ~ gc.lock
    /\ gc' = [gc EXCEPT !.stop = TRUE]
    /\ main' = "joining"
    /\ UNCHANGED <<wiVars, late>>

Exit ==
    /\ main = "joining" /\ gc.pc = "exited"
    /\ main' = "exited"
    /\ UNCHANGED <<wiVars, late, gc>>

Shutdown == RecordSavepoint \/ StopCollector \/ Exit

Next ==
    \/ \E k \in Ids : InstanceEnds(k) \/ InstanceIsDeleted(k)
    \/ \E c \in Conns : Accept(c) \/ ConnectionThread(c) \/ Spurious(c)
    \/ GarbageCollector
    \/ StopThreads \/ Shutdown

Spec == Init /\ [][Next]_engineVars

(* Every thread runs; tasks end, so that instances do, while the engine is *)
(* not being stopped.  Nobody has to connect or to send a signal.          *)
Fairness ==
    /\ \A k \in Ids : WF_engineVars(InstanceEnds(k)) /\ WF_engineVars(InstanceIsDeleted(k))
    /\ \A c \in Conns : WF_engineVars(ConnectionThread(c))
    /\ WF_engineVars(GarbageCollector)
    /\ WF_engineVars(Shutdown)

FairSpec == Spec /\ Fairness

-----------------------------------------------------------------------------
(* Properties. *)

(* The registry points exactly to the objects that are not being           *)
(* destroyed, so that Cancel, KillTask, SendStatus and RecordSavepoint use *)
(* no freed instance, whoever ends one (WorkflowInstances.cpp:36-70,       *)
(* WorkflowInstance.cpp:256-261, 319-337).                                 *)
RegistryIsExact ==
    \A k \in Ids : k \in wi <=> inst[k] \in {"built", "executing", "ended"}

(* No wake-up is lost: a connection waits only for an instance that is     *)
(* still registered, on the condition its Remove will broadcast            *)
(* (WorkflowInstances.cpp:45-70, 91-125).                                  *)
WaiterIsWatched ==
    \A c \in Conns : conn[c].pc = "waiting" => conn[c].id \in wi \cap wi_wait

(* A client that asks for an instance that exists or has existed is told   *)
(* about it, although it moves from the registry to the database between   *)
(* the two look-ups; not on level 0, not after the garbage collector, not  *)
(* after a failed savepoint (handle_connection.cpp:186-205,                *)
(* WorkflowInstance.cpp:1488-1582).                                        *)
KnownInstanceIsFound ==
    \A c \in Conns :
        (/\ conn[c].pc = "database" /\ conn[c].known
         /\ level > 0 /\ conn[c].id \notin lost) => row[conn[c].id] # "none"

(* After a clean exit the next engine resumes what was executing, and, on  *)
(* the levels that update rows, nothing that has ended; what a connection  *)
(* still did after the last savepoint is safe on level 3 only              *)
(* (evqueue.cpp:317-336, WorkflowInstances.cpp:179-187).                   *)
ExitKeepsTheState ==
    main = "exited" =>
        \A k \in Ids \ lost :
            /\ (inst[k] = "executing" /\ (k \in late => level = 3)) => row[k] = "saved"
            /\ (inst[k] \in {"ended", "removed", "freed"} /\ level >= 2)
                  => row[k] \in {"TERMINATED", "purged"}

(* workflow_instance_executing never exceeds the objects that exist and    *)
(* never wraps around below 0, although RESET_GLOBAL_STATS zeroes it while *)
(* instances are executing and takes no lock (Statistics.cpp:101-115,      *)
(* 176-188).                                                               *)
ExecutingNeverOvercounts ==
    workflow_instance_executing <= Cardinality({k \in Ids : Allocated(k)})

(* A connection that waits for an instance is released, unless the engine  *)
(* is being stopped, or the instance ended in the Start of a synchronous   *)
(* launch, which waits for an instance only its own thread would delete    *)
(* (WorkflowInstances.cpp:91-125, handle_connection.cpp:169-180).          *)
WaitsForItself(k) ==
    \E c \in Launching(k) : conn[c].pc = "waiting"

WaitEnds ==
    \A c \in Conns :
        conn[c].pc = "waiting"
            ~> (\/ conn[c].pc # "waiting" \/ WaitsForItself(conn[c].id)
                \/ main # "serving")

(* Once the threads are stopped main reaches the clean exit: the garbage   *)
(* collector sees the flag, although it may have rows to purge             *)
(* (GarbageCollector.cpp:57-127, evqueue.cpp:332-359).                     *)
EngineExits == main = "stopped" ~> main = "exited"
=============================================================================
