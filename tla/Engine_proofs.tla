---------------------------- MODULE Engine_proofs ----------------------------
(***************************************************************************)
(* Theorems about the process as a whole, for any number of instances and  *)
(* connections and on every savepoint level: the registry is exact, no     *)
(* waiter is left behind, an instance that is looked for is found, the     *)
(* clean exit keeps the state, and the count of the executing instances    *)
(* neither exceeds the objects nor wraps around.                           *)
(***************************************************************************)
EXTENDS Engine, FiniteSetTheorems, TLAPS

USE WorkflowInstancesAssumption, EngineAssumption

-----------------------------------------------------------------------------
(* The inductive invariant, in parts.                                      *)

Over == {"ended", "removed", "freed"}

\* A connection is about an instance, except when it is idle; the instance
\* it is starting is built, and nobody else is starting it; one it knew and
\* did not find in the registry has been destroyed.
ConnInv ==
    /\ \A c \in Conns : conn[c].pc # "idle" => conn[c].id \in Ids
    /\ \A c \in Conns : conn[c].pc = "start" => inst[conn[c].id] = "built"
    /\ \A c, d \in Conns :
          (conn[c].pc = "start" /\ conn[d].pc = "start" /\ conn[c].id = conn[d].id)
             => c = d
    /\ \A c \in Conns :
          (conn[c].pc = "database" /\ conn[c].known)
             => inst[conn[c].id] \in {"removed", "freed"}

\* What is in the row of an instance, by its life and the level.
RowInv ==
    /\ \A k \in Ids : inst[k] \notin Over => row[k] \notin {"TERMINATED", "purged"}
    /\ \A k \in Ids \ lost :
          inst[k] \in Over =>
             /\ level > 0 => row[k] # "none"
             /\ level >= 2 => row[k] \in {"TERMINATED", "purged"}

\* Below level 2 nothing is stored of an instance under way before the exit
\* does; what the exit stored of an executing one is kept.
ExitInv ==
    /\ (main \in {"serving", "stopped"} /\ level < 2) =>
          \A k \in Ids : inst[k] \notin Over => row[k] = "none"
    /\ main \in {"saved", "joining", "exited"} =>
          \A k \in Ids \ lost :
             (inst[k] = "executing" /\ (k \in late => level = 3)) => row[k] = "saved"

\* What every operation on instances and connections preserves, whatever
\* the main thread does.
InstancesInv ==
    /\ TypeOK
    /\ RegistryIsExact /\ wi_wait \subseteq wi
    /\ ConnInv
    /\ WaiterIsWatched
    /\ RowInv
    /\ ExecutingNeverOvercounts

EngineInv == EngineTypeOK /\ InstancesInv /\ ExitInv

-----------------------------------------------------------------------------
(* Savepoints.                                                             *)

\* What a savepoint makes of a row: never nothing of something; an end is
\* stored from level 1 on and final from level 2 on; a status other than the
\* end is stored by a forced savepoint or on level 3 only.
LEMMA SavepointFacts ==
    ASSUME TypeOK, NEW k \in Ids, NEW force \in BOOLEAN,
           NEW status \in {"none", "EXECUTING", "TERMINATED"},
           NEW r, r = Savepoint(k, status, force)
    PROVE  /\ r \in RowStates
           /\ row[k] # "none" => r # "none"
           /\ status = "TERMINATED" =>
                 /\ level > 0 => r # "none"
                 /\ level >= 2 => r \in {"TERMINATED", "purged"}
           /\ (status # "TERMINATED" /\ row[k] \notin {"TERMINATED", "purged"}) =>
                 /\ r \notin {"TERMINATED", "purged"}
                 /\ (~ force /\ level < 3) => r = row[k]
                 /\ level = 3 => r = "saved"
                 /\ (force /\ level = 2) => r = "saved"
                 /\ (force /\ level < 2 /\ row[k] = "none" /\ status = "EXECUTING")
                       => r = "saved"
<1> level \in 0..3 /\ row[k] \in RowStates
  BY DEF TypeOK
<1>1. CASE status = "TERMINATED" /\ level = 0
  BY <1>1 DEF Savepoint, RowStates
<1>2. CASE status # "TERMINATED" /\ ~ force /\ level <= 2
  BY <1>2 DEF Savepoint, RowStates
<1>3. CASE ~ (status = "TERMINATED" /\ level = 0) /\ ~ (status # "TERMINATED" /\ ~ force /\ level <= 2)
           /\ level >= 2
  <2> r = CASE row[k] = "purged" -> "purged"
            [] status = "TERMINATED" -> "TERMINATED"
            [] OTHER -> "saved"
    BY <1>3 DEF Savepoint
  <2> QED
    BY <1>3 DEF RowStates
<1>4. CASE ~ (status = "TERMINATED" /\ level = 0) /\ ~ (status # "TERMINATED" /\ ~ force /\ level <= 2)
           /\ level < 2
  <2> r = IF row[k] \in {"none", "purged"}
          THEN [none |-> "blank", EXECUTING |-> "saved", TERMINATED |-> "TERMINATED"][status]
          ELSE row[k]
    BY <1>4 DEF Savepoint
  <2> QED
    BY <1>4 DEF RowStates
<1> QED
  BY <1>1, <1>2, <1>3, <1>4

\* A savepoint of one instance that may fail changes at most its row, or
\* marks it as lost.
LEMMA RecordSavepointOfFacts ==
    ASSUME TypeOK, NEW k \in Ids, NEW status \in {"EXECUTING", "TERMINATED"},
           RecordSavepointOf(k, status)
    PROVE  /\ row' \in [Ids -> RowStates]
           /\ lost' \subseteq Ids /\ lost \subseteq lost'
           /\ \A j \in Ids : j # k => row'[j] = row[j]
           /\ row'[k] = row[k] \/ row'[k] = Savepoint(k, status, FALSE)
           /\ k \notin lost' => row'[k] = Savepoint(k, status, FALSE)
  BY SavepointFacts DEF RecordSavepointOf, TypeOK

-----------------------------------------------------------------------------
(* The counter.                                                            *)

\* The objects that exist are finitely many.
LEMMA AllocatedFinite ==
    /\ IsFiniteSet({k \in Ids : Allocated(k)})
    /\ Cardinality({k \in Ids : Allocated(k)}) \in Nat
    /\ Cardinality({k \in Ids : Allocated(k)}) <= Cardinality(Ids)
    /\ Cardinality(Ids) \in Nat
<1> DEFINE A == {k \in Ids : Allocated(k)}
<1> A \subseteq Ids
  OBVIOUS
<1> HIDE DEF A
<1>1. IsFiniteSet(A) /\ Cardinality(A) <= Cardinality(Ids)
  BY FS_Subset
<1>2. Cardinality(A) \in Nat /\ Cardinality(Ids) \in Nat
  BY <1>1, FS_CardinalityType
<1> QED
  BY <1>1, <1>2 DEF A

\* The count stays right when no object comes or goes, and is not raised.
LEMMA CountKept ==
    ASSUME TypeOK, ExecutingNeverOvercounts,
           \A k \in Ids : Allocated(k)' <=> Allocated(k),
           workflow_instance_executing' \in {0, workflow_instance_executing}
    PROVE  ExecutingNeverOvercounts' /\ workflow_instance_executing' \in 0..UIntSpan - 1
<1> DEFINE A == {k \in Ids : Allocated(k)}
           B == {k \in Ids : Allocated(k)'}
<1>1. B = A
  OBVIOUS
<1>2. workflow_instance_executing \in 0..UIntSpan - 1
  BY DEF TypeOK
<1>3. Cardinality(A) \in Nat /\ workflow_instance_executing <= Cardinality(A)
  BY AllocatedFinite DEF ExecutingNeverOvercounts
<1> HIDE DEF A, B
<1>4. workflow_instance_executing' <= Cardinality(B) /\ workflow_instance_executing' \in 0..UIntSpan - 1
  BY <1>1, <1>2, <1>3
<1> QED
  BY <1>4 DEF B, ExecutingNeverOvercounts

\* A launch counts one more object: the counter does not wrap around, as it
\* is not above the number of objects.
LEMMA CountLaunched ==
    ASSUME TypeOK, ExecutingNeverOvercounts,
           NEW k \in Ids, inst[k] = "none", inst' = [inst EXCEPT ![k] = "built"],
           workflow_instance_executing' = (workflow_instance_executing + 1) % UIntSpan
    PROVE  ExecutingNeverOvercounts' /\ workflow_instance_executing' \in 0..UIntSpan - 1
<1> DEFINE A == {j \in Ids : Allocated(j)}
           B == {j \in Ids : Allocated(j)'}
<1>1. B = A \cup {k} /\ k \notin A
  BY DEF TypeOK, Allocated
<1>2. B \subseteq Ids /\ IsFiniteSet(A) /\ Cardinality(A) \in Nat /\ Cardinality(Ids) \in Nat
  BY AllocatedFinite
<1>3. workflow_instance_executing <= Cardinality(A)
  BY DEF ExecutingNeverOvercounts
<1> HIDE DEF A, B
<1>4. Cardinality(B) = Cardinality(A) + 1
  BY <1>1, <1>2, FS_AddElement
<1>5. Cardinality(B) <= Cardinality(Ids)
  BY <1>2, FS_Subset
<1>6. workflow_instance_executing \in 0..UIntSpan - 1
  BY DEF TypeOK
<1>7. workflow_instance_executing' = workflow_instance_executing + 1
  BY <1>2, <1>3, <1>4, <1>5, <1>6
<1>8. workflow_instance_executing' <= Cardinality(B) /\ workflow_instance_executing' \in 0..UIntSpan - 1
  BY <1>2, <1>3, <1>4, <1>5, <1>6, <1>7
<1> QED
  BY <1>8 DEF B, ExecutingNeverOvercounts

\* The destructor takes one object away, and one from the count unless a
\* reset has made that 0.
LEMMA CountFreed ==
    ASSUME TypeOK, ExecutingNeverOvercounts, NEW k \in Ids, Free(k)
    PROVE  ExecutingNeverOvercounts' /\ workflow_instance_executing' \in 0..UIntSpan - 1
<1> DEFINE A == {j \in Ids : Allocated(j)}
           B == {j \in Ids : Allocated(j)'}
<1>1. B = A \ {k} /\ k \in A
  BY DEF TypeOK, Allocated, Free
<1>2. IsFiniteSet(A) /\ Cardinality(A) \in Nat
  BY AllocatedFinite
<1>3. workflow_instance_executing <= Cardinality(A)
  BY DEF ExecutingNeverOvercounts
<1> HIDE DEF A, B
<1>4. Cardinality(B) = Cardinality(A) - 1
  BY <1>1, <1>2, FS_RemoveElement
<1>5. Cardinality(A) # 0
  BY <1>1, <1>2, FS_EmptySet
<1>6. workflow_instance_executing \in 0..UIntSpan - 1
  BY DEF TypeOK
<1>7. workflow_instance_executing' <= Cardinality(B) /\ workflow_instance_executing' \in 0..UIntSpan - 1
  BY <1>2, <1>3, <1>4, <1>5, <1>6 DEF Free
<1> QED
  BY <1>7 DEF B, ExecutingNeverOvercounts

-----------------------------------------------------------------------------
(* The operations on instances and connections, one by one.                *)

ConnType == [pc : Points, id : Ids \cup {None}, sync : BOOLEAN,
             terminated : BOOLEAN, known : BOOLEAN]

\* A thread that serves nobody is well typed.
LEMMA IdleType == Idle \in ConnType /\ Idle.pc = "idle"
  BY DEF Idle, ConnType, Points

\* A step that leaves the objects and their rows alone keeps what is said
\* of them.
LEMMA InstancesKept ==
    ASSUME InstancesInv, UNCHANGED <<level, instanceVars>>,
           workflow_instance_executing' \in {0, workflow_instance_executing}
    PROVE  RowInv' /\ ExecutingNeverOvercounts'
           /\ workflow_instance_executing' \in 0..UIntSpan - 1
<1>1. UNCHANGED <<level, inst, row, lost>>
  BY DEF instanceVars
<1>2. \A k \in Ids : Allocated(k)' <=> Allocated(k)
  BY <1>1 DEF Allocated
<1>3. RowInv'
  BY <1>1 DEF InstancesInv, RowInv
<1> QED
  BY <1>2, <1>3, CountKept DEF InstancesInv

\* A thread that closes its request, or goes on to reply.
LEMMA CloseStep ==
    ASSUME InstancesInv, NEW c \in Conns,
           conn' = [conn EXCEPT ![c] = Idle] \/ conn' = [conn EXCEPT ![c].pc = "reply"],
           conn[c].pc # "idle",
           UNCHANGED <<level, registryVars, instanceVars, workflow_instance_executing>>
    PROVE  InstancesInv'
<1> UNCHANGED <<level, wi, wi_wait, inst, row, lost, workflow_instance_executing>>
  BY DEF registryVars, instanceVars
<1>1. RowInv' /\ ExecutingNeverOvercounts'
  BY InstancesKept
<1>2. TypeOK'
  <2> conn' \in [Conns -> ConnType]
    BY IdleType DEF InstancesInv, TypeOK, ConnType, Points
  <2> QED
    BY DEF InstancesInv, TypeOK, ConnType
<1>3. conn \in [Conns -> ConnType]
  BY DEF InstancesInv, TypeOK, ConnType
<1>4. \A d \in Conns : conn'[d] = conn[d] \/ conn'[d] = Idle
                       \/ (conn'[d].pc = "reply" /\ conn'[d].id = conn[d].id /\ conn[d].pc # "idle")
  BY <1>3 DEF ConnType
<1>5. ConnInv' /\ WaiterIsWatched'
  BY <1>4, IdleType DEF InstancesInv, ConnInv, WaiterIsWatched
<1> QED
  BY <1>1, <1>2, <1>5 DEF InstancesInv, RegistryIsExact

\* The end of an instance, by whichever thread, is a savepoint and a change
\* of its life.
LEMMA EndStep ==
    ASSUME InstancesInv, NEW k \in Ids, inst[k] \in {"built", "executing"},
           NEW life \in {"executing", "ended"},
           inst' = [inst EXCEPT ![k] = life],
           RecordSavepointOf(k, IF life = "ended" THEN "TERMINATED" ELSE "EXECUTING"),
           UNCHANGED <<level, registryVars, workflow_instance_executing>>
    PROVE  /\ RegistryIsExact' /\ wi_wait' \subseteq wi'
           /\ RowInv' /\ ExecutingNeverOvercounts'
           /\ inst' \in [Ids -> Lives] /\ row' \in [Ids -> RowStates] /\ lost' \subseteq Ids
<1> DEFINE status == IF life = "ended" THEN "TERMINATED" ELSE "EXECUTING"
<1> USE DEF InstancesInv
<1> UNCHANGED <<level, wi, wi_wait, workflow_instance_executing>>
  BY DEF registryVars
<1>1. /\ row' \in [Ids -> RowStates]
      /\ lost' \subseteq Ids /\ lost \subseteq lost'
      /\ \A j \in Ids : j # k => row'[j] = row[j]
      /\ row'[k] = row[k] \/ row'[k] = Savepoint(k, status, FALSE)
      /\ k \notin lost' => row'[k] = Savepoint(k, status, FALSE)
  BY RecordSavepointOfFacts
<1>2. inst' \in [Ids -> Lives]
  BY DEF TypeOK, Lives
<1>3. RegistryIsExact' /\ wi_wait' \subseteq wi'
  BY DEF TypeOK, RegistryIsExact
<1>4. \A j \in Ids : Allocated(j)' <=> Allocated(j)
  BY DEF TypeOK, Allocated
<1>5. ExecutingNeverOvercounts'
  BY <1>4, CountKept
<1>6. ASSUME NEW j \in Ids
      PROVE  /\ inst'[j] \notin Over => row'[j] \notin {"TERMINATED", "purged"}
             /\ (j \notin lost' /\ inst'[j] \in Over) =>
                  /\ level > 0 => row'[j] # "none"
                  /\ level >= 2 => row'[j] \in {"TERMINATED", "purged"}
  <2>1. CASE j # k
    BY <2>1, <1>1 DEF RowInv, TypeOK
  <2>2. CASE j = k /\ life = "ended"
    <3> inst'[k] = "ended" /\ status = "TERMINATED"
      BY <2>2 DEF TypeOK
    <3> HIDE DEF status
    <3> QED
      BY <2>2, <1>1, SavepointFacts DEF Over
  <2>3. CASE j = k /\ life = "executing"
    <3> inst'[k] = "executing" /\ status = "EXECUTING" /\ row[k] \notin {"TERMINATED", "purged"}
      BY <2>3 DEF TypeOK, RowInv, Over
    <3> HIDE DEF status
    <3>1. Savepoint(k, status, FALSE) \notin {"TERMINATED", "purged"}
      BY SavepointFacts
    <3> QED
      BY <2>3, <3>1, <1>1 DEF Over
  <2> QED
    BY <2>1, <2>2, <2>3
<1>7. RowInv'
  BY <1>6 DEF RowInv
<1> QED
  BY <1>1, <1>2, <1>3, <1>5, <1>7

\* The types of the connections, as a named set.
LEMMA ConnTypeOK == InstancesInv => conn \in [Conns -> ConnType]
  BY DEF InstancesInv, TypeOK, ConnType

\* End: another thread than the launching one ends an executing instance.
LEMMA EndPreserves ==
    ASSUME InstancesInv, NEW k \in Ids, End(k)
    PROVE  InstancesInv'
<1>1. /\ RegistryIsExact' /\ wi_wait' \subseteq wi' /\ RowInv' /\ ExecutingNeverOvercounts'
      /\ inst' \in [Ids -> Lives] /\ row' \in [Ids -> RowStates] /\ lost' \subseteq Ids
  BY EndStep DEF End
<1>2. UNCHANGED <<level, wi, wi_wait, conn, workflow_instance_executing>>
  BY DEF End, registryVars
<1>3. TypeOK'
  BY <1>1, <1>2 DEF InstancesInv, TypeOK
<1>4. ConnInv' /\ WaiterIsWatched'
  BY <1>2 DEF InstancesInv, ConnInv, WaiterIsWatched, End, TypeOK
<1> QED
  BY <1>1, <1>3, <1>4 DEF InstancesInv

\* Delete: the object leaves the registry and its waiters are released.
LEMMA DeletePreserves ==
    ASSUME InstancesInv, NEW k \in Ids, Delete(k)
    PROVE  InstancesInv'
<1> USE ConnTypeOK
<1>1. /\ inst[k] = "ended" /\ inst' = [inst EXCEPT ![k] = "removed"]
      /\ wi' = wi \ {k} /\ wi_wait' = wi_wait \ {k}
      /\ UNCHANGED <<level, row, lost, workflow_instance_executing>>
  BY DEF Delete, Remove
<1>2. ASSUME NEW c \in Conns
      PROVE  /\ conn'[c] = conn[c] \/ conn'[c] = Idle \/
                (conn'[c] \in ConnType /\ conn'[c].pc = "reply" /\ conn'[c].id = conn[c].id
                 /\ conn[c].pc = "waiting")
             /\ ~ (conn'[c].pc = "waiting" /\ conn'[c].id = k)
  <2>1. conn'[c] = IF conn[c].pc = "waiting" /\ conn[c].id = k /\ k \in wi_wait
                   THEN Released(c) ELSE conn[c]
    BY DEF Delete, Remove
  <2>2. conn[c].pc = "waiting" => conn[c].id \in wi_wait
    BY DEF InstancesInv, WaiterIsWatched
  <2> QED
    BY <2>1, <2>2, IdleType DEF Released, ConnType, Points
<1>3. conn' \in [Conns -> ConnType]
  <2>1. conn' = [c \in Conns |-> conn'[c]]
    BY DEF Delete, Remove
  <2> QED
    BY <1>2, <2>1, IdleType
<1>4. TypeOK'
  BY <1>1, <1>3 DEF InstancesInv, TypeOK, Lives, ConnType
<1>5. RegistryIsExact' /\ wi_wait' \subseteq wi'
  BY <1>1 DEF InstancesInv, TypeOK, RegistryIsExact
<1>6. ConnInv'
  BY <1>1, <1>2, IdleType DEF InstancesInv, TypeOK, ConnInv
<1>7. WaiterIsWatched'
  BY <1>1, <1>2, IdleType DEF InstancesInv, WaiterIsWatched
<1>8. RowInv'
  BY <1>1 DEF InstancesInv, TypeOK, RowInv, Over
<1>9. \A j \in Ids : Allocated(j)' <=> Allocated(j)
  BY <1>1 DEF InstancesInv, TypeOK, Allocated
<1>10. ExecutingNeverOvercounts'
  BY <1>1, <1>9, CountKept DEF InstancesInv
<1> QED
  BY <1>4, <1>5, <1>6, <1>7, <1>8, <1>10 DEF InstancesInv

\* Free: the object is gone and no longer counted.
LEMMA FreePreserves ==
    ASSUME InstancesInv, NEW k \in Ids, Free(k)
    PROVE  InstancesInv'
<1>1. /\ inst[k] = "removed" /\ inst' = [inst EXCEPT ![k] = "freed"]
      /\ UNCHANGED <<level, wi, wi_wait, row, lost, conn>>
  BY DEF Free, registryVars
<1>2. ExecutingNeverOvercounts' /\ workflow_instance_executing' \in 0..UIntSpan - 1
  BY CountFreed DEF InstancesInv
<1>3. TypeOK'
  BY <1>1, <1>2 DEF InstancesInv, TypeOK, Lives
<1>4. RegistryIsExact'
  BY <1>1 DEF InstancesInv, TypeOK, RegistryIsExact
<1>5. ConnInv' /\ WaiterIsWatched'
  BY <1>1 DEF InstancesInv, TypeOK, ConnInv, WaiterIsWatched
<1>6. RowInv'
  BY <1>1 DEF InstancesInv, TypeOK, RowInv, Over
<1> QED
  BY <1>1, <1>2, <1>3, <1>4, <1>5, <1>6 DEF InstancesInv

\* Launch: a new object with a new id, registered.
LEMMA LaunchPreserves ==
    ASSUME InstancesInv, NEW c \in Conns, NEW sync \in BOOLEAN, Launch(c, sync)
    PROVE  InstancesInv'
<1> USE ConnTypeOK
<1>1. PICK k \in GetInc :
         /\ inst' = [inst EXCEPT ![k] = "built"]
         /\ wi' = wi \cup {k}
         /\ \/ /\ row' = [row EXCEPT ![k] = CASE level <= 1 -> "none"
                                              [] level = 2 -> "null"
                                              [] level = 3 -> "saved"]
               /\ UNCHANGED lost
            \/ /\ level = 3 /\ row' = [row EXCEPT ![k] = "null"]
               /\ lost' = lost \cup {k} /\ Cardinality(lost') <= MaxLost
         /\ conn' = [conn EXCEPT ![c] =
                       [Idle EXCEPT !.pc = "start", !.id = k, !.sync = sync]]
         /\ workflow_instance_executing' = (workflow_instance_executing + 1) % UIntSpan
  BY DEF Launch
<1>2. k \in Ids /\ inst[k] = "none" /\ level \in 0..3
  BY DEF GetInc, InstancesInv, TypeOK
<1>3. UNCHANGED <<level, wi_wait>> /\ conn[c].pc = "idle"
  BY DEF Launch
<1>4. /\ row' \in [Ids -> RowStates] /\ lost' \subseteq Ids /\ lost \subseteq lost'
      /\ \A j \in Ids : j # k => row'[j] = row[j]
      /\ row'[k] \in {"none", "null", "saved"}
  BY <1>1, <1>2 DEF InstancesInv, TypeOK, RowStates
<1>5. ExecutingNeverOvercounts' /\ workflow_instance_executing' \in 0..UIntSpan - 1
  BY <1>1, <1>2, CountLaunched DEF InstancesInv
<1>6. /\ conn' \in [Conns -> ConnType]
      /\ conn'[c].pc = "start" /\ conn'[c].id = k
      /\ \A d \in Conns : d # c => conn'[d] = conn[d]
  BY <1>1, <1>2, IdleType DEF ConnType, Points, Idle
<1>7. TypeOK'
  BY <1>1, <1>2, <1>3, <1>4, <1>5, <1>6 DEF InstancesInv, TypeOK, Lives, ConnType
<1>8. RegistryIsExact' /\ wi_wait' \subseteq wi'
  BY <1>1, <1>2, <1>3 DEF InstancesInv, TypeOK, RegistryIsExact
<1>9. ConnInv'
  BY <1>1, <1>2, <1>6 DEF InstancesInv, TypeOK, ConnInv
<1>10. WaiterIsWatched'
  BY <1>1, <1>3, <1>6 DEF InstancesInv, WaiterIsWatched
<1>11. RowInv'
  BY <1>1, <1>2, <1>3, <1>4 DEF InstancesInv, TypeOK, RowInv, Over
<1> QED
  BY <1>5, <1>7, <1>8, <1>9, <1>10, <1>11 DEF InstancesInv

\* Start: the instance of this connection executes, or ends at once.
LEMMA LaunchStartPreserves ==
    ASSUME InstancesInv, NEW c \in Conns, LaunchStart(c)
    PROVE  InstancesInv'
<1> DEFINE k == conn[c].id
<1> USE ConnTypeOK
<1>1. PICK terminated \in BOOLEAN :
         /\ inst' = [inst EXCEPT ![k] = IF terminated THEN "ended" ELSE "executing"]
         /\ RecordSavepointOf(k, IF terminated THEN "TERMINATED" ELSE "EXECUTING")
         /\ conn' = [conn EXCEPT ![c].terminated = terminated,
                        ![c].pc = IF conn[c].sync THEN "wait" ELSE "reply"]
  BY DEF LaunchStart
<1>2. /\ UNCHANGED <<level, registryVars, workflow_instance_executing>>
      /\ UNCHANGED <<wi, wi_wait>> /\ conn[c].pc = "start"
  BY DEF LaunchStart, registryVars
<1>3. k \in Ids /\ inst[k] = "built"
  BY <1>2 DEF InstancesInv, ConnInv
<1>4. PICK life \in {"executing", "ended"} :
         /\ life = IF terminated THEN "ended" ELSE "executing"
         /\ (IF terminated THEN "TERMINATED" ELSE "EXECUTING")
               = (IF life = "ended" THEN "TERMINATED" ELSE "EXECUTING")
  OBVIOUS
<1>5. /\ RegistryIsExact' /\ wi_wait' \subseteq wi' /\ RowInv' /\ ExecutingNeverOvercounts'
      /\ inst' \in [Ids -> Lives] /\ row' \in [Ids -> RowStates] /\ lost' \subseteq Ids
  BY <1>1, <1>2, <1>3, <1>4, EndStep
<1>6. /\ conn' \in [Conns -> ConnType]
      /\ conn'[c].pc \in {"wait", "reply"} /\ conn'[c].id = k
      /\ \A d \in Conns : d # c => conn'[d] = conn[d]
  <2> DEFINE pc == IF conn[c].sync THEN "wait" ELSE "reply"
             new == [conn[c] EXCEPT !.terminated = terminated, !.pc = pc]
  <2>1. conn' = [conn EXCEPT ![c] = new]
    BY <1>1
  <2>2. pc \in {"wait", "reply"}
    OBVIOUS
  <2> HIDE DEF pc
  <2>3. conn[c] \in ConnType
    OBVIOUS
  <2>4. new \in ConnType /\ new.pc = pc /\ new.id = k
    BY <2>2, <2>3 DEF ConnType, Points
  <2> HIDE DEF new
  <2> QED
    BY <2>1, <2>2, <2>4
<1>7. TypeOK'
  BY <1>2, <1>5, <1>6 DEF InstancesInv, TypeOK, ConnType
<1>8. ConnInv'
  BY <1>1, <1>2, <1>3, <1>6 DEF InstancesInv, TypeOK, ConnInv
<1>9. WaiterIsWatched'
  BY <1>2, <1>6 DEF InstancesInv, WaiterIsWatched
<1> QED
  BY <1>5, <1>7, <1>8, <1>9 DEF InstancesInv

\* A thread that waits, after the id it read was found in the registry.
LEMMA WaitStep ==
    ASSUME InstancesInv, NEW c \in Conns, NEW k \in wi, Wait(k),
           conn' \in [Conns -> ConnType],
           conn'[c].pc = "waiting", conn'[c].id = k,
           \A d \in Conns : d # c => conn'[d] = conn[d],
           UNCHANGED <<level, instanceVars, workflow_instance_executing>>
    PROVE  InstancesInv'
<1> k \in Ids
  BY DEF InstancesInv, TypeOK
<1> UNCHANGED <<level, wi, inst, row, lost, workflow_instance_executing>> /\ wi_wait' = wi_wait \cup {k}
  BY DEF instanceVars, Wait
<1>1. RowInv' /\ ExecutingNeverOvercounts'
  BY InstancesKept
<1>2. TypeOK'
  BY DEF InstancesInv, TypeOK, ConnType
<1>3. RegistryIsExact' /\ wi_wait' \subseteq wi'
  BY DEF InstancesInv, RegistryIsExact
<1>4. ConnInv' /\ WaiterIsWatched'
  BY DEF InstancesInv, ConnInv, WaiterIsWatched
<1> QED
  BY <1>1, <1>2, <1>3, <1>4 DEF InstancesInv

\* A synchronous launch waits, or finds the id gone; the id may be read from
\* a freed object.
LEMMA LaunchWaitPreserves ==
    ASSUME InstancesInv, NEW c \in Conns, LaunchWait(c)
    PROVE  InstancesInv'
<1> USE ConnTypeOK
<1>1. PICK k \in GetInstanceID(conn[c].id) :
          \/ /\ k \in wi
             /\ Wait(k)
             /\ conn' = [conn EXCEPT ![c].pc = "waiting", ![c].id = k]
          \/ k \notin wi /\ At(c, "reply") /\ UNCHANGED registryVars
  BY DEF LaunchWait
<1>2. conn[c].pc = "wait" /\ UNCHANGED <<level, instanceVars, workflow_instance_executing>>
  BY DEF LaunchWait
<1>3. k \in Ids
  BY <1>2 DEF GetInstanceID, InstancesInv, ConnInv
<1>4. CASE k \in wi /\ Wait(k) /\ conn' = [conn EXCEPT ![c].pc = "waiting", ![c].id = k]
  <2> /\ conn' \in [Conns -> ConnType] /\ conn'[c].pc = "waiting" /\ conn'[c].id = k
      /\ \A d \in Conns : d # c => conn'[d] = conn[d]
    BY <1>3, <1>4 DEF ConnType, Points
  <2> QED
    BY <1>2, <1>4, WaitStep
<1>5. CASE At(c, "reply") /\ UNCHANGED registryVars
  BY <1>2, <1>5, CloseStep DEF At
<1> QED
  BY <1>1, <1>4, <1>5

\* The requests that begin on an idle connection.
LEMMA RequestPreserves ==
    ASSUME InstancesInv, NEW c \in Conns, NEW k \in Ids,
           WaitRequest(c, k) \/ Cancel(c, k) \/ Info(c, k)
    PROVE  InstancesInv'
<1> USE ConnTypeOK
<1>1. CASE WaitRequest(c, k)
  <2> /\ conn' \in [Conns -> ConnType] /\ conn'[c].pc = "waiting" /\ conn'[c].id = k
      /\ \A d \in Conns : d # c => conn'[d] = conn[d]
    BY <1>1 DEF WaitRequest, Serve, ConnType, Points, Idle
  <2> QED
    BY <1>1, WaitStep DEF WaitRequest
<1>2. CASE Cancel(c, k) \/ Info(c, k)
  <2>1. UNCHANGED <<level, registryVars, instanceVars, workflow_instance_executing>>
    BY <1>2 DEF Cancel, Info
  <2>2. UNCHANGED <<level, wi, wi_wait, inst, row, lost, workflow_instance_executing>>
    BY <2>1 DEF registryVars, instanceVars
  <2>3. /\ conn' \in [Conns -> ConnType] /\ conn'[c].pc \in {"cancelling", "database"} /\ conn'[c].id = k
        /\ \A d \in Conns : d # c => conn'[d] = conn[d]
        /\ (conn'[c].pc = "database" /\ conn'[c].known) => (k \notin wi /\ inst[k] # "none")
    <3>1. CASE Cancel(c, k)
      BY <3>1 DEF Cancel, Serve, ConnType, Points, Idle
    <3>2. CASE Info(c, k)
      <4> DEFINE new == [Idle EXCEPT !.pc = "database", !.id = k, !.known = inst[k] # "none"]
      <4>1. conn' = [conn EXCEPT ![c] = new] /\ k \notin wi
        BY <3>2 DEF Info
      <4>2. new \in ConnType /\ new.pc = "database" /\ new.id = k
        BY DEF ConnType, Points, Idle
      <4>3. new.known => inst[k] # "none"
        BY DEF Idle
      <4> HIDE DEF new
      <4> QED
        BY <4>1, <4>2, <4>3
    <3> QED
      BY <1>2, <3>1, <3>2
  <2>4. RowInv' /\ ExecutingNeverOvercounts'
    BY <2>1, InstancesKept
  <2>5. TypeOK'
    BY <2>2, <2>3 DEF InstancesInv, TypeOK, ConnType
  <2>6. k \notin wi /\ inst[k] # "none" => inst[k] \in {"removed", "freed"}
    BY DEF InstancesInv, RegistryIsExact, TypeOK, Lives
  <2>7. ConnInv' /\ WaiterIsWatched'
    BY <2>2, <2>3, <2>6 DEF InstancesInv, ConnInv, WaiterIsWatched
  <2> QED
    BY <2>2, <2>4, <2>5, <2>7 DEF InstancesInv, RegistryIsExact
<1> QED
  BY <1>1, <1>2

\* The tasks of a cancelled instance are cancelled, which may end it.
LEMMA CancelTasksPreserves ==
    ASSUME InstancesInv, NEW c \in Conns, CancelTasks(c)
    PROVE  InstancesInv'
<1> DEFINE k == conn[c].id
<1>1. /\ conn[c].pc = "cancelling" /\ conn' = [conn EXCEPT ![c] = Idle]
      /\ UNCHANGED <<level, registryVars, workflow_instance_executing>>
  BY DEF CancelTasks, Close
<1>2. CASE UNCHANGED instanceVars
  BY <1>1, <1>2, CloseStep
<1>3. CASE ~ UNCHANGED instanceVars
  <2>1. /\ inst[k] = "executing"
        /\ inst' = [inst EXCEPT ![k] = "ended"]
        /\ RecordSavepointOf(k, "TERMINATED")
    BY <1>3 DEF CancelTasks
  <2>2. k \in Ids
    BY <1>1 DEF InstancesInv, ConnInv
  <2>3. /\ RegistryIsExact' /\ wi_wait' \subseteq wi' /\ RowInv' /\ ExecutingNeverOvercounts'
        /\ inst' \in [Ids -> Lives] /\ row' \in [Ids -> RowStates] /\ lost' \subseteq Ids
    BY <1>1, <2>1, <2>2, EndStep
  <2>4. UNCHANGED <<level, wi, wi_wait, workflow_instance_executing>>
    BY <1>1 DEF registryVars
  <2>5. /\ conn' \in [Conns -> ConnType]
        /\ \A d \in Conns : conn'[d] = conn[d] \/ conn'[d].pc = "idle"
    BY <1>1, IdleType, ConnTypeOK
  <2>6. TypeOK'
    BY <2>3, <2>4, <2>5 DEF InstancesInv, TypeOK, ConnType
  <2>7. ConnInv' /\ WaiterIsWatched'
    BY <2>1, <2>2, <2>4, <2>5 DEF InstancesInv, TypeOK, ConnInv, WaiterIsWatched
  <2> QED
    BY <2>3, <2>6, <2>7 DEF InstancesInv
<1> QED
  BY <1>2, <1>3

\* pthread_cond_wait returns by itself.
LEMMA SpuriousPreserves ==
    ASSUME InstancesInv, NEW c \in Conns, SpuriousWakeup(c)
    PROVE  InstancesInv'
<1> USE ConnTypeOK
<1>1. conn[c].pc = "waiting"
      /\ UNCHANGED <<level, registryVars, instanceVars, workflow_instance_executing>>
      /\ conn' = [conn EXCEPT ![c] = Released(c)]
  BY DEF SpuriousWakeup
<1>2. conn' = [conn EXCEPT ![c] = Idle] \/ conn' = [conn EXCEPT ![c].pc = "reply"]
  BY <1>1 DEF Released
<1> QED
  BY <1>1, <1>2, CloseStep

\* RESET_GLOBAL_STATS may zero the counter.
LEMMA ResetPreserves ==
    ASSUME InstancesInv, NEW c \in Conns, ResetGlobalStatistics(c)
    PROVE  InstancesInv'
<1>1. /\ UNCHANGED <<level, registryVars, instanceVars, conn>>
      /\ workflow_instance_executing' \in {0, workflow_instance_executing}
  BY DEF ResetGlobalStatistics
<1>2. UNCHANGED <<level, wi, wi_wait, inst, row, lost, conn>>
  BY <1>1 DEF registryVars, instanceVars
<1>3. RowInv' /\ ExecutingNeverOvercounts' /\ workflow_instance_executing' \in 0..UIntSpan - 1
  BY <1>1, InstancesKept
<1>4. TypeOK'
  BY <1>2, <1>3 DEF InstancesInv, TypeOK
<1> QED
  BY <1>2, <1>3, <1>4 DEF InstancesInv, RegistryIsExact, ConnInv, WaiterIsWatched

-----------------------------------------------------------------------------
(* The steps of the engine.                                                *)

\* A step of the registry and its instances that leaves main and the
\* collector alone keeps the types of the engine.
LEMMA EngineTypesKept ==
    ASSUME EngineTypeOK, TypeOK', UNCHANGED <<main, gc>>, late' \subseteq Ids
    PROVE  EngineTypeOK'
  BY DEF EngineTypeOK

\* ExitInv is kept when no life, row or failure changes.
LEMMA ExitKept ==
    ASSUME ExitInv, UNCHANGED <<level, instanceVars, late>>,
           main' = main \/ (main' = "stopped" /\ main = "serving")
                        \/ (main' \in {"joining", "exited"} /\ main \in {"saved", "joining"})
    PROVE  ExitInv'
  BY DEF ExitInv, instanceVars

\* An instance ends while the engine serves.
LEMMA InstanceEndsStep ==
    ASSUME EngineInv, NEW k \in Ids, InstanceEnds(k)
    PROVE  EngineInv'
<1> USE DEF EngineInv
<1>1. End(k) /\ main = "serving" /\ UNCHANGED <<main, late, gc>>
  BY DEF InstanceEnds
<1>2. InstancesInv'
  BY <1>1, EndPreserves
<1>3. EngineTypeOK'
  BY <1>1, <1>2, EngineTypesKept DEF EngineTypeOK, InstancesInv
<1>4. \A j \in Ids : j # k => row'[j] = row[j]
  BY <1>1, RecordSavepointOfFacts DEF End, InstancesInv
<1>5. ExitInv'
  BY <1>1, <1>4 DEF ExitInv, End, InstancesInv, TypeOK, Over
<1> QED
  BY <1>2, <1>3, <1>5

\* The destructor runs.
LEMMA InstanceIsDeletedStep ==
    ASSUME EngineInv, NEW k \in Ids, InstanceIsDeleted(k)
    PROVE  EngineInv'
<1> USE DEF EngineInv
<1>1. (Delete(k) \/ Free(k)) /\ UNCHANGED <<main, late, gc>>
  BY DEF InstanceIsDeleted
<1>2. InstancesInv'
  BY <1>1, DeletePreserves, FreePreserves
<1>3. EngineTypeOK'
  BY <1>1, <1>2, EngineTypesKept DEF EngineTypeOK, InstancesInv
<1>4. /\ UNCHANGED <<level, row, lost>>
      /\ inst[k] \in Over
      /\ \A j \in Ids : j # k => inst'[j] = inst[j]
      /\ inst'[k] \in Over
  BY <1>1 DEF Delete, Free, InstancesInv, TypeOK, Over
<1>5. ExitInv'
  BY <1>1, <1>4 DEF ExitInv, Over
<1> QED
  BY <1>2, <1>3, <1>5

\* A request arrives while the engine serves.
LEMMA AcceptStep ==
    ASSUME EngineInv, NEW c \in Conns, Accept(c)
    PROVE  EngineInv'
<1> USE DEF EngineInv
<1>1. Ask(c) /\ main = "serving" /\ UNCHANGED <<main, late, gc>>
  BY DEF Accept
<1>2. CASE \E sync \in BOOLEAN : Launch(c, sync)
  <2>1. PICK sync \in BOOLEAN : Launch(c, sync)
    BY <1>2
  <2>2. InstancesInv'
    BY <2>1, LaunchPreserves
  <2>3. UNCHANGED level
    BY <2>1 DEF Launch
  <2>4. \A j \in Ids : inst'[j] = inst[j] \/ inst'[j] = "built"
    BY <2>1 DEF Launch, InstancesInv, TypeOK
  <2>5. level < 2 => \A j \in Ids : row'[j] = row[j] \/ row'[j] = "none"
    <3> level \in 0..3
      BY DEF InstancesInv, TypeOK
    <3> QED
      BY <2>1 DEF Launch, InstancesInv, TypeOK
  <2>6. level < 2 => \A j \in Ids : inst[j] # inst'[j] => inst[j] = "none"
    BY <2>1 DEF Launch, GetInc, InstancesInv, TypeOK
  <2>7. ExitInv'
    BY <1>1, <2>3, <2>4, <2>5, <2>6 DEF ExitInv, Over
  <2>8. EngineTypeOK'
    BY <1>1, <2>2, EngineTypesKept DEF EngineTypeOK, InstancesInv
  <2> QED
    BY <2>2, <2>7, <2>8
<1>3. CASE (\E k \in Ids : WaitRequest(c, k) \/ Cancel(c, k) \/ Info(c, k)) \/ ResetGlobalStatistics(c)
  <2>1. InstancesInv'
    BY <1>3, RequestPreserves, ResetPreserves
  <2>2. UNCHANGED <<level, instanceVars>>
    BY <1>3 DEF WaitRequest, Cancel, Info, ResetGlobalStatistics
  <2>3. EngineTypeOK'
    BY <1>1, <2>1, EngineTypesKept DEF EngineTypeOK, InstancesInv
  <2> QED
    BY <1>1, <2>1, <2>2, <2>3, ExitKept
<1> QED
  BY <1>1, <1>2, <1>3 DEF Ask

\* A connection thread goes on, possibly after the last savepoint: what it
\* changes then is late.
LEMMA ConnectionThreadStep ==
    ASSUME EngineInv, NEW c \in Conns, ConnectionThread(c)
    PROVE  EngineInv'
<1> USE DEF EngineInv
<1> DEFINE k == conn[c].id
<1>1. Proceed(c) /\ Noted /\ main # "exited" /\ UNCHANGED <<main, gc>>
  BY DEF ConnectionThread, Up
<1>2. late \subseteq late' /\ late' \subseteq Ids
  BY <1>1 DEF Noted, EngineTypeOK
<1>3. main \in {"saved", "joining"} => \A j \in Ids : inst'[j] # inst[j] => j \in late'
  BY <1>1 DEF Noted
<1>4. InstancesInv'
  <2>1. CASE LaunchReply(c) \/ InfoFromDatabase(c)
    BY <2>1, CloseStep DEF LaunchReply, InfoFromDatabase, Close
  <2> QED
    BY <1>1, <2>1, LaunchStartPreserves, LaunchWaitPreserves, CancelTasksPreserves DEF Proceed
<1>5. EngineTypeOK'
  BY <1>1, <1>2, <1>4, EngineTypesKept DEF InstancesInv
<1>6. CASE UNCHANGED <<level, instanceVars>>
  <2> UNCHANGED <<level, inst, row, lost>>
    BY <1>6 DEF instanceVars
  <2> QED
    BY <1>1, <1>2, <1>4, <1>5 DEF ExitInv
<1>7. CASE LaunchStart(c)
  <2>1. PICK terminated \in BOOLEAN :
           /\ inst' = [inst EXCEPT ![k] = IF terminated THEN "ended" ELSE "executing"]
           /\ RecordSavepointOf(k, IF terminated THEN "TERMINATED" ELSE "EXECUTING")
    BY <1>7 DEF LaunchStart
  <2>2. k \in Ids /\ inst[k] = "built" /\ UNCHANGED level /\ level \in 0..3
    BY <1>7 DEF LaunchStart, InstancesInv, ConnInv, TypeOK
  <2>3. CASE terminated
    <3>1. /\ \A j \in Ids : j # k => row'[j] = row[j] /\ inst'[j] = inst[j]
          /\ inst'[k] = "ended" /\ lost \subseteq lost'
      BY <2>1, <2>2, <2>3, RecordSavepointOfFacts DEF InstancesInv, TypeOK
    <3>2. ExitInv'
      BY <1>1, <1>2, <2>2, <3>1 DEF ExitInv, Over
    <3> QED
      BY <1>4, <1>5, <3>2
  <2>4. CASE ~ terminated
    <3>1. /\ \A j \in Ids : j # k => row'[j] = row[j] /\ inst'[j] = inst[j]
          /\ inst'[k] = "executing" /\ lost \subseteq lost'
          /\ row'[k] = row[k] \/ row'[k] = Savepoint(k, "EXECUTING", FALSE)
          /\ k \notin lost' => row'[k] = Savepoint(k, "EXECUTING", FALSE)
      BY <2>1, <2>2, <2>4, RecordSavepointOfFacts DEF InstancesInv, TypeOK
    <3>2. row[k] \notin {"TERMINATED", "purged"}
      BY <2>2 DEF InstancesInv, RowInv, Over
    <3>3. /\ level < 3 => Savepoint(k, "EXECUTING", FALSE) = row[k]
          /\ level = 3 => Savepoint(k, "EXECUTING", FALSE) = "saved"
      BY <2>2, <3>2, SavepointFacts DEF InstancesInv
    <3>4. level < 3 => row'[k] = row[k]
      BY <3>1, <3>3
    <3>5. (level = 3 /\ k \notin lost') => row'[k] = "saved"
      BY <3>1, <3>3
    <3>6. main \in {"saved", "joining"} => k \in late'
      BY <1>3, <2>2, <3>1
    <3>7. ExitInv!1'
      BY <1>1, <2>2, <3>1, <3>4 DEF ExitInv, Over
    <3>8. ExitInv!2'
      BY <1>1, <1>2, <2>2, <3>1, <3>5, <3>6 DEF ExitInv
    <3> QED
      BY <1>4, <1>5, <3>7, <3>8 DEF ExitInv
  <2> QED
    BY <2>3, <2>4
<1>8. CASE CancelTasks(c) /\ ~ UNCHANGED instanceVars
  <2>1. /\ inst' = [inst EXCEPT ![k] = "ended"]
        /\ RecordSavepointOf(k, "TERMINATED")
        /\ UNCHANGED level /\ k \in Ids
    BY <1>8 DEF CancelTasks, InstancesInv, ConnInv
  <2>2. /\ \A j \in Ids : j # k => row'[j] = row[j] /\ inst'[j] = inst[j]
        /\ inst'[k] = "ended" /\ lost \subseteq lost'
    BY <2>1, RecordSavepointOfFacts DEF InstancesInv, TypeOK
  <2>3. ExitInv'
    BY <1>1, <1>2, <2>1, <2>2 DEF ExitInv, Over
  <2> QED
    BY <1>4, <1>5, <2>3
<1>9. LaunchWait(c) \/ LaunchReply(c) \/ InfoFromDatabase(c) => UNCHANGED <<level, instanceVars>>
  BY DEF LaunchWait, LaunchReply, InfoFromDatabase
<1>10. CancelTasks(c) => UNCHANGED level
  BY DEF CancelTasks
<1> QED
  BY <1>1, <1>6, <1>7, <1>8, <1>9, <1>10 DEF Proceed

\* The collector changes TERMINATED rows only, and those belong to instances
\* that are over.
LEMMA CollectorStep ==
    ASSUME EngineInv, GarbageCollector
    PROVE  EngineInv'
<1> USE DEF EngineInv
<1>1. CASE Sleep
  <2>1. UNCHANGED <<wiVars, main, late>>
    BY <1>1 DEF Sleep
  <2>2. UNCHANGED <<level, wi, wi_wait, inst, row, lost, conn, workflow_instance_executing, main, late>>
    BY <2>1 DEF wiVars, registryVars, instanceVars
  <2>3. InstancesInv'
    BY <2>2 DEF InstancesInv, TypeOK, RegistryIsExact, ConnInv, WaiterIsWatched, RowInv,
                ExecutingNeverOvercounts, Allocated
  <2>4. gc' \in [pc : {"sleep", "purge", "exited"}, stop : BOOLEAN, lock : BOOLEAN]
    BY <1>1 DEF Sleep, EngineTypeOK
  <2>5. EngineTypeOK'
    BY <2>2, <2>3, <2>4 DEF EngineTypeOK, InstancesInv
  <2> QED
    BY <2>2, <2>3, <2>5 DEF ExitInv
<1>2. CASE Purge
  <2>1. PICK old \in SUBSET {k \in Ids : row[k] = "TERMINATED"} :
            row' = [k \in Ids |-> IF k \in old THEN "purged" ELSE row[k]]
    BY <1>2 DEF Purge
  <2>2. UNCHANGED <<level, wi, wi_wait, inst, lost, conn, workflow_instance_executing, main, late>>
    BY <1>2 DEF Purge, registryVars
  <2>3. row' \in [Ids -> RowStates]
        /\ \A k \in Ids : row'[k] = row[k] \/ (row[k] = "TERMINATED" /\ row'[k] = "purged")
    BY <2>1 DEF InstancesInv, TypeOK, RowStates
  <2>4. gc' \in [pc : {"sleep", "purge", "exited"}, stop : BOOLEAN, lock : BOOLEAN]
    BY <1>2 DEF Purge, EngineTypeOK
  <2>5. TypeOK'
    BY <2>2, <2>3 DEF InstancesInv, TypeOK
  <2>6. RowInv'
    BY <2>2, <2>3 DEF InstancesInv, RowInv
  <2>7. InstancesInv'
    BY <2>2, <2>5, <2>6 DEF InstancesInv, RegistryIsExact, ConnInv, WaiterIsWatched,
                            ExecutingNeverOvercounts, Allocated
  <2>8. EngineTypeOK'
    BY <2>2, <2>4, <2>5 DEF EngineTypeOK
  <2>9. ExitInv'
    BY <2>2, <2>3 DEF ExitInv
  <2> QED
    BY <2>7, <2>8, <2>9
<1> QED
  BY <1>1, <1>2 DEF GarbageCollector

\* The savepoint of the exit stores every registered instance, and what it
\* stores of an executing one is its state.
LEMMA RecordSavepointStep ==
    ASSUME EngineInv, RecordSavepoint
    PROVE  EngineInv'
<1> USE DEF EngineInv
<1>1. PICK failed \in SUBSET wi :
          /\ row' = [k \in Ids |->
                        IF k \in wi \ failed THEN Savepoint(k, Status(k), TRUE)
                                            ELSE row[k]]
          /\ lost' = lost \cup failed
  BY DEF RecordSavepoint
<1>2. /\ UNCHANGED <<level, wi, wi_wait, inst, conn, workflow_instance_executing, late, gc>>
      /\ main = "stopped" /\ main' = "saved" /\ level \in 0..3
  BY DEF RecordSavepoint, registryVars, InstancesInv, TypeOK
<1>3. ASSUME NEW k \in Ids
      PROVE  /\ row'[k] \in RowStates
             /\ inst[k] \notin Over => row'[k] \notin {"TERMINATED", "purged"}
             /\ (k \notin lost' /\ inst[k] \in Over) =>
                   /\ level > 0 => row'[k] # "none"
                   /\ level >= 2 => row'[k] \in {"TERMINATED", "purged"}
             /\ (k \notin lost' /\ inst[k] = "executing") => row'[k] = "saved"
  <2> row[k] \in RowStates
    BY DEF InstancesInv, TypeOK
  <2>1. CASE k \notin wi \ failed
    <3> row'[k] = row[k]
      BY <1>1, <2>1
    <3> inst[k] = "executing" => k \in lost'
      BY <1>1, <2>1 DEF InstancesInv, RegistryIsExact
    <3> QED
      BY <1>1 DEF InstancesInv, RowInv
  <2>2. CASE k \in wi \ failed
    <3>1. row'[k] = Savepoint(k, Status(k), TRUE)
      BY <1>1, <2>2
    <3>2. inst[k] \in {"built", "executing", "ended"}
      BY <2>2 DEF InstancesInv, RegistryIsExact
    <3>3. CASE inst[k] = "ended"
      <4> Status(k) = "TERMINATED"
        BY <3>3 DEF Status
      <4> QED
        BY <3>1, <3>3, SavepointFacts DEF Over, InstancesInv
    <3>4. CASE inst[k] = "executing"
      <4>1. Status(k) = "EXECUTING"
        BY <3>4 DEF Status
      <4>2. row[k] \notin {"TERMINATED", "purged"} /\ (level < 2 => row[k] = "none")
        BY <1>2, <3>4 DEF Over, InstancesInv, RowInv, ExitInv
      <4>3. Savepoint(k, "EXECUTING", TRUE) = "saved"
        <5> level < 2 \/ level = 2 \/ level = 3
          BY <1>2
        <5> QED
          BY <4>2, SavepointFacts DEF InstancesInv
      <4> QED
        BY <3>1, <3>4, <4>1, <4>3 DEF Over, RowStates
    <3>5. CASE inst[k] = "built"
      <4>1. Status(k) = "none"
        BY <3>5 DEF Status
      <4>2. row[k] \notin {"TERMINATED", "purged"}
        BY <3>5 DEF Over, InstancesInv, RowInv
      <4> QED
        BY <3>1, <3>5, <4>1, <4>2, SavepointFacts DEF Over, InstancesInv
    <3> QED
      BY <3>2, <3>3, <3>4, <3>5
  <2> QED
    BY <2>1, <2>2
<1>4. TypeOK'
  BY <1>1, <1>2, <1>3 DEF InstancesInv, TypeOK
<1>5. RowInv'
  BY <1>2, <1>3 DEF RowInv
<1>6. InstancesInv'
  BY <1>2, <1>4, <1>5 DEF InstancesInv, RegistryIsExact, ConnInv, WaiterIsWatched,
                          ExecutingNeverOvercounts, Allocated
<1>7. EngineTypeOK'
  BY <1>2, <1>4 DEF EngineTypeOK
<1>8. ExitInv'
  BY <1>2, <1>3 DEF ExitInv
<1> QED
  BY <1>6, <1>7, <1>8

\* The other steps of the main thread, and a spurious wake-up, change no
\* instance.
LEMMA MainStep ==
    ASSUME EngineInv,
           StopThreads \/ StopCollector \/ Exit \/ UNCHANGED engineVars
    PROVE  EngineInv'
<1> USE DEF EngineInv
<1>1. UNCHANGED <<wiVars, late>>
  BY DEF StopThreads, StopCollector, Exit, engineVars
<1>2. UNCHANGED <<level, wi, wi_wait, inst, row, lost, conn, workflow_instance_executing, late>>
  BY <1>1 DEF wiVars, registryVars, instanceVars
<1>3. InstancesInv'
  BY <1>2 DEF InstancesInv, TypeOK, RegistryIsExact, ConnInv, WaiterIsWatched, RowInv,
              ExecutingNeverOvercounts, Allocated
<1>4. gc' \in [pc : {"sleep", "purge", "exited"}, stop : BOOLEAN, lock : BOOLEAN]
  BY DEF StopThreads, StopCollector, Exit, engineVars, EngineTypeOK
<1>5. main' \in {"serving", "stopped", "saved", "joining", "exited"}
      /\ (main' = main \/ (main' = "stopped" /\ main = "serving")
                       \/ (main' \in {"joining", "exited"} /\ main \in {"saved", "joining"}))
  BY DEF StopThreads, StopCollector, Exit, engineVars, EngineTypeOK
<1>6. EngineTypeOK'
  BY <1>2, <1>3, <1>4, <1>5 DEF EngineTypeOK, InstancesInv
<1>7. ExitInv'
  BY <1>2, <1>5 DEF ExitInv
<1> QED
  BY <1>3, <1>6, <1>7

\* Every step of the engine preserves the invariant.
LEMMA EngineStep == EngineInv /\ [Next]_engineVars => EngineInv'
<1> SUFFICES ASSUME EngineInv, [Next]_engineVars
             PROVE  EngineInv'
  OBVIOUS
<1>1. ASSUME NEW c \in Conns, Spurious(c)
      PROVE  EngineInv'
  <2>1. SpuriousWakeup(c) /\ UNCHANGED <<main, late, gc>>
    BY <1>1 DEF Spurious
  <2>2. InstancesInv'
    BY <2>1, SpuriousPreserves DEF EngineInv
  <2>3. ExitInv'
    BY <2>1, ExitKept DEF EngineInv, SpuriousWakeup
  <2>4. EngineTypeOK'
    BY <2>1, <2>2, EngineTypesKept DEF EngineInv, EngineTypeOK, InstancesInv
  <2> QED
    BY <2>2, <2>3, <2>4 DEF EngineInv
<1>2. CASE Next
  BY <1>1, <1>2, InstanceEndsStep, InstanceIsDeletedStep, AcceptStep, ConnectionThreadStep,
     CollectorStep, RecordSavepointStep, MainStep DEF Next, Shutdown
<1>3. CASE UNCHANGED engineVars
  BY <1>3, MainStep
<1> QED
  BY <1>2, <1>3

\* A new engine has no instance and no request.
LEMMA EngineInit == Init => EngineInv
<1> SUFFICES ASSUME Init PROVE EngineInv
  OBVIOUS
<1> USE DEF Init, wiInit
<1>1. TypeOK
  <2>1. conn \in [Conns -> ConnType]
    BY IdleType
  <2>2. 0 \in 0..UIntSpan - 1
    BY AllocatedFinite
  <2> QED
    BY <2>1, <2>2 DEF TypeOK, Lives, RowStates, ConnType
<1>2. EngineTypeOK
  BY <1>1 DEF EngineTypeOK
<1>3. ConnInv /\ WaiterIsWatched
  BY IdleType DEF ConnInv, WaiterIsWatched
<1>4. RegistryIsExact /\ RowInv /\ ExitInv
  BY DEF RegistryIsExact, RowInv, ExitInv, Over
<1>5. ExecutingNeverOvercounts
  BY AllocatedFinite DEF ExecutingNeverOvercounts
<1> QED
  BY <1>1, <1>2, <1>3, <1>4, <1>5 DEF EngineInv, InstancesInv

-----------------------------------------------------------------------------
(* Theorems.                                                               *)

\* The inductive invariant holds of every state of the engine.
THEOREM EngineIsSound == Spec => []EngineInv
  BY EngineInit, EngineStep, PTL DEF Spec

\* The registry holds exactly the objects that are not being destroyed,
\* whoever ends them: no request uses a freed instance through it.
THEOREM RegistryAlwaysExact == Spec => []RegistryIsExact
<1>1. EngineInv => RegistryIsExact
  BY DEF EngineInv, InstancesInv
<1> QED
  BY <1>1, EngineIsSound, PTL

\* No waiting connection is left behind: its instance is registered, and
\* there is a condition to broadcast when it goes.
THEOREM WaitersAlwaysWatched == Spec => []WaiterIsWatched
<1>1. EngineInv => WaiterIsWatched
  BY DEF EngineInv, InstancesInv
<1> QED
  BY <1>1, EngineIsSound, PTL

\* An instance that exists or existed is found in the registry or, then, in
\* the database, although it moves between the two look-ups.
THEOREM KnownInstanceAlwaysFound == Spec => []KnownInstanceIsFound
<1>1. EngineInv => KnownInstanceIsFound
  BY DEF EngineInv, InstancesInv, ConnInv, RowInv, KnownInstanceIsFound, Over
<1> QED
  BY <1>1, EngineIsSound, PTL

\* A clean exit leaves in the database what the next engine must resume, and
\* nothing else on the levels that update rows.
THEOREM CleanExitKeepsTheState == Spec => []ExitKeepsTheState
<1>1. EngineInv => ExitKeepsTheState
  BY DEF EngineInv, InstancesInv, RowInv, ExitInv, ExitKeepsTheState, Over
<1> QED
  BY <1>1, EngineIsSound, PTL

\* The count of executing instances never exceeds the objects and never
\* wraps around.
THEOREM CounterNeverOvercounts == Spec => []ExecutingNeverOvercounts
<1>1. EngineInv => ExecutingNeverOvercounts
  BY DEF EngineInv, InstancesInv
<1> QED
  BY <1>1, EngineIsSound, PTL
=============================================================================
