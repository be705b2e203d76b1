-------------------------- MODULE WorkflowInstances --------------------------
(***************************************************************************)
(* The registry of the workflow instances (WorkflowInstances.cpp), the     *)
(* life of the objects it points to (constructor, Start, end and           *)
(* destructor of WorkflowInstance), the connection threads that use both   *)
(* (handle_connection.cpp) and the counters of Statistics.cpp.             *)
(*                                                                         *)
(* A critical section of the registry is one action.  What an instance     *)
(* does between Start and its end is the subject of WorkflowInstance and   *)
(* ProcessManager; here it just ends, or not.                              *)
(***************************************************************************)
EXTENDS Integers, FiniteSets

CONSTANTS
    Ids,              \* bound: the instances ever built
    Conns,            \* bound: connections served at once
    MaxLost,          \* bound: instances of which a savepoint fails
    Levels,           \* values of workflowinstance.savepoint.level
    UIntSpan,         \* number of values of an unsigned int
    SpuriousWakeups,  \* pthread_cond_wait may return without a broadcast
    None

ASSUME WorkflowInstancesAssumption ==
    /\ Ids \subseteq Nat /\ IsFiniteSet(Ids) /\ None \notin Ids
    /\ Levels \subseteq 0..3 /\ MaxLost \in Nat
    /\ UIntSpan \in Nat /\ UIntSpan > Cardinality(Ids)
    /\ SpuriousWakeups \in BOOLEAN

VARIABLES
    level,            \* savepoint_level
    inst,             \* the life of each WorkflowInstance object
    wi,               \* the ids registered
    wi_wait,          \* the ids with a wait condition
    row,              \* t_workflow_instance
    lost,             \* instances of which a savepoint failed, with a log
    conn,             \* the connection threads
    workflow_instance_executing

registryVars == <<wi, wi_wait>>
instanceVars == <<inst, row, lost>>
wiVars == <<level, registryVars, instanceVars, conn, workflow_instance_executing>>

(* "ended": a thread was told workflow_terminated and is to delete the     *)
(* object; "removed": the destructor has left the registry.                *)
Lives == {"none", "built", "executing", "ended", "removed", "freed"}
Allocated(k) == inst[k] \in {"built", "executing", "ended", "removed"}

(* "null": EXECUTING without savepoint; "saved": EXECUTING with one, to be *)
(* resumed; "blank": saved without a status, before Start.                 *)
RowStates == {"none", "null", "blank", "saved", "TERMINATED", "purged"}

(* A connection thread: the instance its request is about, whether it is a *)
(* synchronous launch, and what it knows: workflow_terminated, and whether *)
(* the instance of an info request existed when the request came.          *)
Points == {"idle", "start", "wait", "waiting", "reply", "cancelling", "database"}
Idle == [pc |-> "idle", id |-> None, sync |-> FALSE, terminated |-> FALSE,
         known |-> FALSE]

TypeOK ==
    /\ level \in Levels
    /\ inst \in [Ids -> Lives]
    /\ wi \subseteq Ids /\ wi_wait \subseteq Ids /\ lost \subseteq Ids
    /\ row \in [Ids -> RowStates]
    /\ conn \in [Conns -> [pc : Points, id : Ids \cup {None}, sync : BOOLEAN,
                           terminated : BOOLEAN, known : BOOLEAN]]
    /\ workflow_instance_executing \in 0..UIntSpan - 1

wiInit ==
    /\ level \in Levels
    /\ inst = [k \in Ids |-> "none"]
    /\ wi = {}
    /\ wi_wait = {}
    /\ row = [k \in Ids |-> "none"]
    /\ lost = {}
    /\ conn = [c \in Conns |-> Idle]
    /\ workflow_instance_executing = 0

-----------------------------------------------------------------------------
(* Helpers. *)

(* record_savepoint of an instance, by the status in its document: what    *)
(* becomes of its row.  Below level 2 a row is inserted, which fails if    *)
(* there is one; from level 2 on it was inserted before and is updated.    *)
Status(k) == CASE inst[k] = "built" -> "none"
               [] inst[k] = "executing" -> "EXECUTING"
               [] OTHER -> "TERMINATED"

\* Mutant: on level 1 the end of an instance is not saved either.
SavepointFromLevelTwo(k, status, force) ==
    IF status = "TERMINATED" /\ level <= 1 THEN row[k]
    ELSE IF status = "TERMINATED" \/ level = 3 \/ (force /\ level = 2)
         THEN IF status = "TERMINATED" THEN "TERMINATED" ELSE "saved"
    ELSE IF force /\ row[k] = "none" THEN "saved" ELSE row[k]

Savepoint(k, status, force) ==
    LET saved == [none |-> "blank", EXECUTING |-> "saved", TERMINATED |-> "TERMINATED"]
        inserted == IF row[k] \in {"none", "purged"} THEN saved[status] ELSE row[k]
        updated == CASE row[k] = "purged" -> "purged"
                     [] status = "TERMINATED" -> "TERMINATED"
                     [] OTHER -> "saved"
    IN  CASE status = "TERMINATED" /\ level = 0 -> row[k]
          [] status # "TERMINATED" /\ ~ force /\ level <= 2 -> row[k]
          [] OTHER -> IF level >= 2 THEN updated ELSE inserted

(* The same with a database that may fail: logged, then ignored. *)
RecordSavepointOf(k, status) ==
    \/ /\ row' = [row EXCEPT ![k] = Savepoint(k, status, FALSE)]
       /\ UNCHANGED lost
    \/ /\ lost' = lost \cup {k} /\ Cardinality(lost') <= MaxLost
       /\ UNCHANGED row

At(c, pc) == conn' = [conn EXCEPT ![c].pc = pc]
Serve(c, k, pc) == conn' = [conn EXCEPT ![c] = [Idle EXCEPT !.pc = pc, !.id = k]]
Close(c) == conn' = [conn EXCEPT ![c] = Idle]

(* wi->GetInstanceID(), read from the object: any id once it is freed. *)
GetInstanceID(k) == IF inst[k] = "freed" THEN Ids ELSE {k}

-----------------------------------------------------------------------------
(* The registry. *)

\* Mutant: the condition is destroyed without a broadcast.
RemoveQuietly(k) ==
    /\ wi' = wi \ {k}
    /\ wi_wait' = wi_wait \ {k}
    /\ UNCHANGED conn

(* pthread_cond_wait returns: a synchronous launch replies, a wait request *)
(* is over.                                                                *)
Released(c) == IF conn[c].sync THEN [conn[c] EXCEPT !.pc = "reply"] ELSE Idle

(* Remove, at the start of the destructor: the waiters are released and    *)
(* the condition destroyed.                                                *)
Remove(k) ==
    /\ wi' = wi \ {k}
    /\ wi_wait' = wi_wait \ {k}
    /\ conn' = [c \in Conns |->
                  IF conn[c].pc = "waiting" /\ conn[c].id = k /\ k \in wi_wait
                  THEN Released(c) ELSE conn[c]]

(* Wait of a registered id: the condition is created by the first waiter. *)
Wait(k) == wi_wait' = wi_wait \cup {k} /\ UNCHANGED wi

SpuriousWakeup(c) ==
    /\ SpuriousWakeups /\ conn[c].pc = "waiting"
    /\ conn' = [conn EXCEPT ![c] = Released(c)]
    /\ UNCHANGED <<level, registryVars, instanceVars, workflow_instance_executing>>

-----------------------------------------------------------------------------
(* The life of an instance. *)

(* TaskStop, TaskExecute, TaskRestart or the cancellation of its tasks     *)
(* leaves an instance without work: its end is saved under its lock.       *)
End(k) ==
    /\ inst[k] = "executing"
    /\ inst' = [inst EXCEPT ![k] = "ended"]
    /\ RecordSavepointOf(k, "TERMINATED")
    /\ UNCHANGED <<level, registryVars, conn, workflow_instance_executing>>

(* delete wi, by the thread that was told of the end: a connection if the  *)
(* instance ended in its Start, and only after it has replied.             *)
Launching(k) == {c \in Conns : conn[c].id = k /\ conn[c].terminated}

\* Mutant: the destructor does not leave the registry first.
DeleteRegistered(k) ==
    /\ inst[k] = "ended"
    /\ Launching(k) = {}
    /\ inst' = [inst EXCEPT ![k] = "removed"]
    /\ UNCHANGED <<level, registryVars, row, lost, conn, workflow_instance_executing>>

Delete(k) ==
    /\ inst[k] = "ended"
    /\ Launching(k) = {}
    /\ inst' = [inst EXCEPT ![k] = "removed"]
    /\ Remove(k)
    /\ UNCHANGED <<level, row, lost, workflow_instance_executing>>

\* Mutant: the counter is decremented whatever it is.
FreeUnguarded(k) ==
    /\ inst[k] = "removed"
    /\ inst' = [inst EXCEPT ![k] = "freed"]
    /\ workflow_instance_executing' = (workflow_instance_executing - 1) % UIntSpan
    /\ UNCHANGED <<level, registryVars, row, lost, conn>>

(* The rest of the destructor, up to DecWorkflowInstanceExecuting. *)
Free(k) ==
    /\ inst[k] = "removed"
    /\ inst' = [inst EXCEPT ![k] = "freed"]
    /\ workflow_instance_executing' =
          IF workflow_instance_executing > 0 THEN workflow_instance_executing - 1
          ELSE workflow_instance_executing
    /\ UNCHANGED <<level, registryVars, row, lost, conn>>

-----------------------------------------------------------------------------
(* handle_connection. *)

(* The next id, of the sequence generator or, from level 2 on, of the      *)
(* table: never one that was in use.                                       *)
GetInc == {k \in Ids : inst[k] = "none" /\ \A j \in Ids : inst[j] = "none" => k <= j}

(* QUERY_WORKFLOW_LAUNCH: a new instance, with the next id.  Its           *)
(* constructor inserts the row, from level 2 on, saves it, on level 3, and *)
(* registers it; if it throws, before that, the client is told and nothing *)
(* has changed.                                                            *)
Launch(c, sync) ==
    /\ conn[c].pc = "idle"
    /\ \E k \in GetInc :
             /\ inst' = [inst EXCEPT ![k] = "built"]
             /\ wi' = wi \cup {k}
             /\ \/ /\ row' = [row EXCEPT ![k] = CASE level <= 1 -> "none"
                                                  [] level = 2 -> "null"
                                                  [] level = 3 -> "saved"]
                   /\ UNCHANGED lost
                \/ /\ level = 3 /\ row' = [row EXCEPT ![k] = "null"]
                   /\ lost' = lost \cup {k} /\ Cardinality(lost') <= MaxLost
             /\ conn' = [conn EXCEPT ![c] =
                          [Idle EXCEPT !.pc = "start", !.id = k, !.sync = sync]]
             /\ workflow_instance_executing' = (workflow_instance_executing + 1) % UIntSpan
    /\ UNCHANGED <<level, wi_wait>>

(* wi->Start: an instance without tasks, or whose tasks cannot be queued,  *)
(* ends at once and stays with this thread.                                *)
LaunchStart(c) ==
    LET k == conn[c].id
    IN  /\ conn[c].pc = "start"
        /\ \E terminated \in BOOLEAN :
              /\ inst' = [inst EXCEPT ![k] = IF terminated THEN "ended" ELSE "executing"]
              /\ RecordSavepointOf(k, IF terminated THEN "TERMINATED" ELSE "EXECUTING")
              /\ conn' = [conn EXCEPT ![c].terminated = terminated,
                             ![c].pc = IF conn[c].sync THEN "wait" ELSE "reply"]
        /\ UNCHANGED <<level, registryVars, workflow_instance_executing>>

\* Mutant: Wait does not look whether the id is still registered.
LaunchWaitUnchecked(c) ==
    /\ conn[c].pc = "wait"
    /\ Wait(conn[c].id)
    /\ At(c, "waiting")
    /\ UNCHANGED <<level, instanceVars, workflow_instance_executing>>

(* A synchronous launch waits for the end of the instance; Wait returns    *)
(* FALSE, which nobody looks at, if the id is not registered any more.     *)
LaunchWait(c) ==
    /\ conn[c].pc = "wait"
    /\ \E k \in GetInstanceID(conn[c].id) :
          \/ /\ k \in wi
             /\ Wait(k)
             /\ conn' = [conn EXCEPT ![c].pc = "waiting", ![c].id = k]
          \/ k \notin wi /\ At(c, "reply") /\ UNCHANGED registryVars
    /\ UNCHANGED <<level, instanceVars, workflow_instance_executing>>

(* The reply, with the id read from the object once more; an instance that *)
(* ended in Start is deleted by this thread, next.                         *)
LaunchReply(c) ==
    /\ conn[c].pc = "reply"
    /\ Close(c)
    /\ UNCHANGED <<level, registryVars, instanceVars, workflow_instance_executing>>

(* QUERY_WORKFLOW_WAIT.  Here and below, a request about an instance that  *)
(* is not registered is answered UNKNOWN-WORKFLOW-INSTANCE at once; the    *)
(* requests that only read or send signals are left out.                   *)
WaitRequest(c, k) ==
    /\ conn[c].pc = "idle"
    /\ k \in wi /\ Wait(k)
    /\ Serve(c, k, "waiting")
    /\ UNCHANGED <<level, instanceVars, workflow_instance_executing>>

(* QUERY_WORKFLOW_CANCEL: first the flag of the instance, under the lock   *)
(* of the registry; then the retrier is flushed and the queued tasks are   *)
(* cancelled, which may end the instance, on this thread.                  *)
Cancel(c, k) ==
    /\ conn[c].pc = "idle"
    /\ k \in wi
    /\ Serve(c, k, "cancelling")
    /\ UNCHANGED <<level, registryVars, instanceVars, workflow_instance_executing>>

CancelTasks(c) ==
    LET k == conn[c].id
    IN  /\ conn[c].pc = "cancelling"
        /\ Close(c)
        /\ \/ UNCHANGED instanceVars
           \/ /\ inst[k] = "executing"
              /\ inst' = [inst EXCEPT ![k] = "ended"]
              /\ RecordSavepointOf(k, "TERMINATED")
        /\ UNCHANGED <<level, registryVars, workflow_instance_executing>>

(* QUERY_WORKFLOW_INFO: the registry first, then the database, where the   *)
(* answer is UNKNOWN-WORKFLOW-INSTANCE if there is no row.                 *)
Info(c, k) ==
    /\ conn[c].pc = "idle"
    /\ k \notin wi
    /\ conn' = [conn EXCEPT ![c] = [Idle EXCEPT !.pc = "database", !.id = k,
                                                !.known = inst[k] # "none"]]
    /\ UNCHANGED <<level, registryVars, instanceVars, workflow_instance_executing>>

InfoFromDatabase(c) ==
    /\ conn[c].pc = "database"
    /\ Close(c)
    /\ UNCHANGED <<level, registryVars, instanceVars, workflow_instance_executing>>

(* RESET_GLOBAL_STATS takes no lock: a counter another thread is just      *)
(* changing keeps the value that thread stores.                            *)
ResetGlobalStatistics(c) ==
    /\ conn[c].pc = "idle"
    /\ workflow_instance_executing' \in {0, workflow_instance_executing}
    /\ UNCHANGED <<level, registryVars, instanceVars, conn>>

(* What an accepted connection may ask for, and the steps of its thread. *)
Ask(c) ==
    \/ \E sync \in BOOLEAN : Launch(c, sync)
    \/ \E k \in Ids : WaitRequest(c, k) \/ Cancel(c, k) \/ Info(c, k)
    \/ ResetGlobalStatistics(c)

Proceed(c) ==
    \/ LaunchStart(c) \/ LaunchWait(c) \/ LaunchReply(c)
    \/ CancelTasks(c) \/ InfoFromDatabase(c)
=============================================================================
