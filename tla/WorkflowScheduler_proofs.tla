------------------------ MODULE WorkflowScheduler_proofs ------------------------
(***************************************************************************)
(* Theorems about the scheduled workflows, for any number of schedules,    *)
(* objects and instances: every WorkflowSchedule object has one owner,     *)
(* whatever a reload interrupts; a schedule that no load has left out of   *)
(* step runs one instance at a time, the end of that instance finds the    *)
(* schedule, and no schedule is forgotten.                                 *)
(***************************************************************************)
EXTENDS WorkflowScheduler, FiniteSetTheorems, TLAPS

USE WorkflowSchedulerAssumption

-----------------------------------------------------------------------------
(* The inductive invariant, in parts.                                      *)

\* What the fields of an instance mean: only one that is built has a
\* schedule object in its hands, which the alarm's handler still owns.
InstanceInv ==
    /\ \A i \in Instances :
          /\ wi[i].st = "none" <=> wi[i].sid = None
          /\ wi[i].st = "built" => wi[i].ws \in handled /\ heap[wi[i].ws] = wi[i].sid
          /\ wi[i].st # "built" => wi[i].ws = None
          /\ wi[i].st = "saved" => main = "resuming"
    /\ \A i, j \in Instances :
          (wi[i].st = "built" /\ wi[j].st = "built" /\ wi[i].ws = wi[j].ws) => i = j

\* Until the schedules are loaded nothing is scheduled, and only instances
\* of the last engine execute.
BootInv ==
    main # "up" =>
        /\ Pending = {} /\ handled = {}
        /\ \A s \in DOMAIN table : table[s] = NoEntry
        /\ \A i \in rows : wi[i].st \in {"saved", "running"}

\* An entry of the table with an object is about that schedule and an
\* instance of it that has not ended.
TableInv ==
    \A s \in DOMAIN table :
        table[s].ws # None =>
            /\ heap[table[s].ws] = s
            /\ table[s].wi \in Instances
            /\ wi[table[s].wi].sid = s
            /\ wi[table[s].wi].st \in {"listed", "running"}

Started(i, s) == wi[i].sid = s /\ wi[i].st # "built"
Waits(o, s) == heap[o] = s /\ o \in Pending \cup handled

\* A schedule in step has one object that waits or one instance, not both;
\* the instance is in the table if the schedule is.
RunInv ==
    \A s \in Schedules \ astray :
        /\ \A o, p \in Objects : Waits(o, s) /\ Waits(p, s) => o = p
        /\ \A i, j \in Instances : Started(i, s) /\ Started(j, s) => i = j
        /\ \A i \in Instances, o \in Objects : ~ (Started(i, s) /\ Waits(o, s))
        /\ (main = "up" /\ s \in DOMAIN table) =>
              \A i \in Instances : Started(i, s) => table[s].ws # None

\* NoScheduleForgotten, of the inactive schedules too: the user may activate
\* them again.
PlaceInv ==
    (main = "up" /\ ~ crashed) =>
        \A s \in DOMAIN table \ (dropped \cup astray) :
            \/ \E o \in Objects : Waits(o, s)
            \/ \E i \in Instances : wi[i].sid = s

OwnerInv == TypeOK /\ InstanceInv /\ EveryObjectHasOneOwner
ScheduleInv == OwnerInv /\ BootInv /\ TableInv /\ RunInv /\ PlaceInv

-----------------------------------------------------------------------------
(* The operations on the list, as what they do to its events.              *)

\* An insertion adds the event to the list.
LEMMA InsertFacts ==
    ASSUME NEW o, List!Insert(o, 0), \A p \in Pending : due[p] = 0
    PROVE  /\ o \notin Pending \cup handled
           /\ Pending' = Pending \cup {o} /\ handled' = handled
           /\ \A p \in Pending' : due'[p] = 0
  BY DEF List!Insert, List!Pending, Pending

\* An alarm passes an event from the list to a handler.
LEMMA FireFacts ==
    ASSUME NEW o, List!Fire(o), \A p \in Pending : due[p] = 0
    PROVE  /\ o \in Pending
           /\ Pending' = Pending \ {o} /\ handled' = handled \cup {o}
           /\ \A p \in Pending' : due'[p] = 0
  BY DEF List!Fire, List!Pending, Pending, List!Restrict

\* The handler is done with an event.
LEMMA ReleaseFacts ==
    ASSUME NEW o, List!Release(o)
    PROVE  o \in handled /\ handled' = handled \ {o} /\ UNCHANGED due
  BY DEF List!Release

\* A load: each schedule of ok gets an object of its own that no handler
\* holds, in the table if the schedule is busy and in the list otherwise; the
\* handled objects stay as they are.
LoadedWith(new, ok, busy) ==
    /\ \A s \in ok : new[s] \notin handled /\ heap'[new[s]] = s
    /\ \A s, t \in ok : new[s] = new[t] => s = t
    /\ heap' \in [Objects -> Schedules \cup {None}]
    /\ \A o \in handled : heap'[o] = heap[o]
    /\ \A o \in Objects : (\A s \in ok : new[s] # o) =>
          heap'[o] = None \/ heap'[o] = heap[o]
    /\ DOMAIN table' = active
    /\ \A s \in active :
          table'[s] = IF s \in ok /\ busy[s] # None
                      THEN [wi |-> busy[s], ws |-> new[s]] ELSE NoEntry
    /\ \A o : o \in Pending' <=> \E s \in ok : busy[s] = None /\ o = new[s]
    /\ \A o \in Pending' : due'[o] = 0

\* That is what Loaded does.
LEMMA LoadedFacts ==
    ASSUME TypeOK, EveryObjectHasOneOwner, NEW ok \in SUBSET active, NEW busy,
           Loaded(ok, busy)
    PROVE  \E new \in [ok -> Objects] : LoadedWith(new, ok, busy)
<1> DEFINE idle == {s \in ok : busy[s] = None}
<1>1. PICK new \in Injection(ok, FreeObjects \cup Pending) :
         /\ heap' = [o \in Objects |->
                       CASE o \in Range(new) -> CHOOSE s \in ok : new[s] = o
                         [] o \in (Pending \cup Executing) \ Range(new) -> None
                         [] OTHER -> heap[o]]
         /\ table' = [s \in active |->
                        IF s \in ok \ idle
                        THEN [wi |-> busy[s], ws |-> new[s]] ELSE NoEntry]
         /\ due' = [o \in {new[s] : s \in idle} |-> 0]
  BY DEF Loaded
<1>2. /\ new \in [ok -> FreeObjects \cup Pending]
      /\ \A s, t \in ok : new[s] = new[t] => s = t
  BY DEF Injection, IsInjective
<1>3. FreeObjects \subseteq Objects /\ FreeObjects \cap handled = {} /\ Pending \subseteq Objects
      /\ Pending \cap handled = {}
  BY DEF FreeObjects, TypeOK, EveryObjectHasOneOwner
<1>4. new \in [ok -> Objects] /\ \A s \in ok : new[s] \notin handled
  BY <1>2, <1>3
<1>5. \A o : o \in Range(new) <=> \E s \in ok : new[s] = o
  BY <1>2 DEF Range
<1>6. ASSUME NEW s \in ok
      PROVE  heap'[new[s]] = s
  <2>1. new[s] \in Objects /\ new[s] \in Range(new)
    BY <1>4, <1>5
  <2>2. heap'[new[s]] = CHOOSE t \in ok : new[t] = new[s]
    BY <1>1, <2>1
  <2> QED
    BY <2>2, <1>2
<1>7. ASSUME NEW o \in Objects, \A s \in ok : new[s] # o
      PROVE  heap'[o] = None \/ heap'[o] = heap[o]
  <2>1. o \notin Range(new)
    BY <1>5, <1>7
  <2> QED
    BY <1>1, <2>1
<1>8. ASSUME NEW o \in handled
      PROVE  heap'[o] = heap[o]
  <2>1. o \in Objects /\ o \notin Range(new) /\ o \notin Pending \cup Executing
    BY <1>4, <1>5 DEF TypeOK, EveryObjectHasOneOwner
  <2> QED
    BY <1>1, <2>1
<1>9. heap' \in [Objects -> Schedules \cup {None}]
  <2>1. ASSUME NEW o \in Objects
        PROVE  heap'[o] \in Schedules \cup {None}
    <3>1. CASE \E s \in ok : new[s] = o
      BY <3>1, <1>6 DEF TypeOK
    <3>2. CASE \A s \in ok : new[s] # o
      BY <3>2, <1>7 DEF TypeOK
    <3> QED
      BY <3>1, <3>2
  <2> QED
    BY <2>1, <1>1
<1>10. /\ DOMAIN table' = active
       /\ \A s \in active :
             table'[s] = IF s \in ok /\ busy[s] # None
                         THEN [wi |-> busy[s], ws |-> new[s]] ELSE NoEntry
  BY <1>1
<1>11. /\ \A o : o \in Pending' <=> \E s \in ok : busy[s] = None /\ o = new[s]
       /\ \A o \in Pending' : due'[o] = 0
  BY <1>1 DEF Pending
<1> QED
  BY <1>2, <1>4, <1>6, <1>7, <1>8, <1>9, <1>10, <1>11 DEF LoadedWith

-----------------------------------------------------------------------------
(* The steps.  In each, the parts of the invariant that it can disturb.    *)

InstanceType == [st : {"none", "saved", "built", "listed", "running"},
                 sid : Schedules \cup {None}, ws : Objects \cup {None}]

\* Who owns an object, without the set of the executing ones.
OneOwner ==
    /\ \A o \in Pending \cup handled : heap[o] # None
    /\ \A o \in Pending : o \notin handled
    /\ \A s \in DOMAIN table :
          table[s].ws # None => /\ heap[table[s].ws] # None
                                /\ table[s].ws \notin Pending \cup handled
    /\ \A s, t \in DOMAIN table :
          s # t /\ table[s].ws # None => table[s].ws # table[t].ws

\* That is the same.
LEMMA OneOwnerIs == EveryObjectHasOneOwner <=> OneOwner
  BY DEF EveryObjectHasOneOwner, OneOwner, Executing

\* And it is the same after a step.
LEMMA OneOwnerWillBe == ASSUME OneOwner' PROVE EveryObjectHasOneOwner'
  BY DEF EveryObjectHasOneOwner, OneOwner, Executing

\* A step that changes neither instances nor owners.
LEMMA UnchangedStep ==
    ASSUME ScheduleInv,
           UNCHANGED <<main, rows, table, due, handled, heap, wi, crashed, astray, dropped>>,
           active' \subseteq Schedules
    PROVE  ScheduleInv'
<1> USE DEF ScheduleInv, OwnerInv
<1>1. TypeOK'
  BY DEF TypeOK, Pending
<1>2. InstanceInv'
  BY DEF InstanceInv
<1>3. EveryObjectHasOneOwner'
  BY DEF EveryObjectHasOneOwner, Pending, Executing
<1>4. BootInv' /\ TableInv'
  BY DEF BootInv, TableInv, Pending
<1>5. RunInv' /\ PlaceInv'
  BY DEF RunInv, PlaceInv, Waits, Started, Pending
<1> QED
  BY <1>1, <1>2, <1>3, <1>4, <1>5

\* An instance goes on to execute: resumed, or started by the alarm.
LEMMA RunningStep ==
    ASSUME ScheduleInv, NEW i \in Instances, wi[i].st \in {"saved", "listed"},
           wi' = [wi EXCEPT ![i].st = "running"],
           UNCHANGED <<main, active, rows, table, listVars, heap, crashed, astray, dropped>>
    PROVE  ScheduleInv'
<1> USE DEF ScheduleInv, OwnerInv
<1> UNCHANGED <<main, active, rows, table, due, handled, heap, crashed, astray, dropped>>
  BY DEF listVars
<1>1. /\ wi \in [Instances -> InstanceType] /\ wi' \in [Instances -> InstanceType]
      /\ wi'[i].st = "running" /\ wi'[i].sid = wi[i].sid /\ wi'[i].ws = wi[i].ws
      /\ \A j \in Instances : j # i => wi'[j] = wi[j]
  BY DEF TypeOK, InstanceType
<1>2. TypeOK'
  BY <1>1 DEF TypeOK, InstanceType, Pending
<1>3. InstanceInv'
  BY <1>1 DEF InstanceInv
<1>4. EveryObjectHasOneOwner'
  BY DEF EveryObjectHasOneOwner, Pending, Executing
<1>5. BootInv'
  BY <1>1 DEF BootInv, Pending
<1>6. TableInv'
  BY <1>1 DEF TableInv
<1>7. \A j \in Instances, s \in Schedules : Started(j, s)' <=> Started(j, s)
  BY <1>1 DEF Started
<1>8. \A o, s : Waits(o, s)' <=> Waits(o, s)
  BY DEF Waits, Pending
<1>9. RunInv'
  BY <1>7, <1>8 DEF RunInv
<1>10. PlaceInv'
  BY <1>1, <1>8 DEF PlaceInv
<1> QED
  BY <1>2, <1>3, <1>4, <1>5, <1>6, <1>9, <1>10

\* Resume fails: the instance is gone, as if it had never been.
LEMMA ResumeThrowsStep ==
    ASSUME ScheduleInv, NEW i \in Instances, ResumeThrows(i)
    PROVE  ScheduleInv'
<1> USE DEF ScheduleInv, OwnerInv
<1> /\ UNCHANGED <<main, active, table, due, handled, heap, crashed, astray, dropped>>
    /\ main = "resuming" /\ wi[i].st = "saved" /\ rows' = rows \ {i}
    /\ wi' = [wi EXCEPT ![i] = NoInstance]
  BY DEF listVars, ResumeThrows
<1>1. /\ wi \in [Instances -> InstanceType] /\ wi' \in [Instances -> InstanceType]
      /\ wi'[i].st = "none" /\ wi'[i].sid = None /\ wi'[i].ws = None
      /\ \A j \in Instances : j # i => wi'[j] = wi[j]
  BY DEF TypeOK, InstanceType, NoInstance
<1>2. TypeOK'
  BY <1>1 DEF TypeOK, InstanceType, Pending
<1>3. InstanceInv'
  BY <1>1 DEF InstanceInv
<1>4. EveryObjectHasOneOwner'
  BY DEF EveryObjectHasOneOwner, Pending, Executing
<1>5. BootInv'
  BY <1>1 DEF BootInv, Pending, TypeOK
<1>6. TableInv'
  BY <1>1 DEF TableInv, BootInv, NoEntry
<1>7. \A j \in Instances, s \in Schedules : Started(j, s)' => Started(j, s)
  BY <1>1 DEF Started
<1>8. \A o, s : Waits(o, s)' <=> Waits(o, s)
  BY DEF Waits, Pending
<1>9. RunInv'
  BY <1>7, <1>8 DEF RunInv
<1>10. PlaceInv'
  BY DEF PlaceInv
<1> QED
  BY <1>2, <1>3, <1>4, <1>5, <1>6, <1>9, <1>10

\* Every instance is resumed; the rows of levels 0 and 1 are purged.
LEMMA PurgeResumedStep ==
    ASSUME ScheduleInv, PurgeResumed
    PROVE  ScheduleInv'
<1> USE DEF ScheduleInv, OwnerInv
<1> /\ UNCHANGED <<active, table, due, handled, heap, wi, crashed, astray, dropped>>
    /\ main = "resuming" /\ main' = "loading" /\ rows' \subseteq rows
    /\ \A i \in Instances : wi[i].st # "saved"
  BY DEF listVars, PurgeResumed
<1>1. TypeOK'
  BY DEF TypeOK, Pending
<1>2. InstanceInv'
  BY DEF InstanceInv
<1>3. EveryObjectHasOneOwner'
  BY DEF EveryObjectHasOneOwner, Pending, Executing
<1>4. BootInv' /\ TableInv'
  BY DEF BootInv, TableInv, Pending
<1>5. RunInv' /\ PlaceInv'
  BY DEF RunInv, PlaceInv, Waits, Started, Pending
<1> QED
  BY <1>1, <1>2, <1>3, <1>4, <1>5

\* The alarm of a schedule: its object goes from the list to the handler.
LEMMA FireStep ==
    ASSUME ScheduleInv, NEW o \in Objects, Fire(o)
    PROVE  ScheduleInv'
<1> USE DEF ScheduleInv, OwnerInv
<1>1. /\ o \in Pending
      /\ Pending' = Pending \ {o} /\ handled' = handled \cup {o}
      /\ \A p \in Pending' : due'[p] = 0
  BY FireFacts DEF Fire, TypeOK
<1> UNCHANGED <<main, active, rows, table, heap, wi, crashed, astray, dropped>>
  BY DEF Fire
<1>2. TypeOK'
  BY <1>1 DEF TypeOK
<1>3. InstanceInv'
  BY <1>1 DEF InstanceInv
<1>4. OneOwner
  BY OneOwnerIs
<1>5. OneOwner'
  BY <1>1, <1>4 DEF OneOwner
<1>6. main = "up"
  BY <1>1 DEF BootInv
<1>7. BootInv' /\ TableInv'
  BY <1>6 DEF BootInv, TableInv
<1>8. \A p, s : Waits(p, s)' <=> Waits(p, s)
  BY <1>1 DEF Waits
<1>9. RunInv' /\ PlaceInv'
  BY <1>8 DEF RunInv, PlaceInv, Started
<1> QED
  BY <1>2, <1>3, <1>5, <1>7, <1>9, OneOwnerWillBe

\* The handler builds the instance of the object it holds.
LEMMA BuildInstanceStep ==
    ASSUME ScheduleInv, NEW o \in Objects, BuildInstance(o)
    PROVE  ScheduleInv'
<1> USE DEF ScheduleInv, OwnerInv
<1>1. PICK i \in FreeInstances : wi' = [wi EXCEPT ![i] = [st |-> "built", sid |-> heap[o], ws |-> o]]
  BY DEF BuildInstance
<1> /\ UNCHANGED <<main, active, rows, table, due, handled, heap, crashed, astray, dropped>>
    /\ o \in handled /\ \A j \in Instances : wi[j].ws # o
  BY DEF listVars, BuildInstance
<1>2. i \in Instances /\ wi[i].st = "none"
  BY DEF FreeInstances
<1>3. heap[o] \in Schedules
  BY DEF TypeOK, EveryObjectHasOneOwner
<1>4. /\ wi \in [Instances -> InstanceType] /\ wi' \in [Instances -> InstanceType]
      /\ wi'[i].st = "built" /\ wi'[i].sid = heap[o] /\ wi'[i].ws = o
      /\ \A j \in Instances : j # i => wi'[j] = wi[j]
  BY <1>1, <1>2, <1>3 DEF TypeOK, InstanceType
<1>5. TypeOK'
  BY <1>4 DEF TypeOK, InstanceType, Pending
<1>6. InstanceInv'
  BY <1>2, <1>3, <1>4 DEF InstanceInv
<1>7. EveryObjectHasOneOwner'
  BY DEF EveryObjectHasOneOwner, Pending, Executing
<1>8. main = "up"
  BY DEF BootInv
<1>9. BootInv'
  BY <1>8 DEF BootInv
<1>10. TableInv'
  BY <1>2, <1>4 DEF TableInv
<1>11. \A p, s : Waits(p, s)' <=> Waits(p, s)
  BY DEF Waits, Pending
<1>12. \A j \in Instances, s \in Schedules : Started(j, s)' => Started(j, s)
  BY <1>4 DEF Started
<1>13. RunInv'
  BY <1>11, <1>12 DEF RunInv
<1>14. \A j \in Instances, s \in Schedules : wi[j].sid = s => wi'[j].sid = s
  BY <1>2, <1>4 DEF InstanceInv
<1>15. PlaceInv'
  BY <1>11, <1>14 DEF PlaceInv, TypeOK
<1> QED
  BY <1>5, <1>6, <1>7, <1>9, <1>10, <1>13, <1>15

\* The constructor throws: the object is deleted and its schedule dropped.
LEMMA BuildThrowsStep ==
    ASSUME ScheduleInv, NEW o \in Objects, BuildThrows(o)
    PROVE  ScheduleInv'
<1> USE DEF ScheduleInv, OwnerInv
<1>1. o \in handled /\ handled' = handled \ {o} /\ UNCHANGED due
  BY ReleaseFacts DEF BuildThrows
<1> /\ UNCHANGED <<main, active, rows, table, wi, crashed, astray>>
    /\ heap' = [heap EXCEPT ![o] = None] /\ dropped' = dropped \cup {heap[o]}
    /\ \A j \in Instances : wi[j].ws # o
  BY DEF BuildThrows
<1>2. heap[o] \in Schedules
  BY <1>1 DEF TypeOK, EveryObjectHasOneOwner
<1>3. /\ heap' \in [Objects -> Schedules \cup {None}] /\ heap'[o] = None
      /\ \A p \in Objects : p # o => heap'[p] = heap[p]
  BY DEF TypeOK
<1>4. TypeOK'
  BY <1>1, <1>2, <1>3 DEF TypeOK, Pending
<1>5. InstanceInv'
  BY <1>1, <1>3 DEF InstanceInv, TypeOK
<1>6. OneOwner
  BY OneOwnerIs
<1>7. OneOwner'
  BY <1>1, <1>3, <1>6 DEF OneOwner, TypeOK, Pending
<1>8. main = "up"
  BY <1>1 DEF BootInv
<1>9. BootInv'
  BY <1>8 DEF BootInv
<1>10. TableInv'
  BY <1>1, <1>3, <1>6 DEF TableInv, OneOwner, TypeOK
<1>11. \A p \in Objects, s \in Schedules : Waits(p, s)' <=> p # o /\ Waits(p, s)
  BY <1>1, <1>2, <1>3 DEF Waits, Pending
<1>12. RunInv'
  BY <1>11 DEF RunInv, Started
<1>13. PlaceInv'
  BY <1>11 DEF PlaceInv, TypeOK, Waits
<1> QED
  BY <1>4, <1>5, <1>7, <1>9, <1>10, <1>12, <1>13, OneOwnerWillBe

\* The instance enters the table, with the object the handler held.
LEMMA ListInstanceStep ==
    ASSUME ScheduleInv, NEW i \in Instances, ListInstance(i)
    PROVE  ScheduleInv'
<1> USE DEF ScheduleInv, OwnerInv
<1> DEFINE s == wi[i].sid
           o == wi[i].ws
<1>1. o \in handled /\ handled' = handled \ {o} /\ UNCHANGED due
  BY ReleaseFacts DEF ListInstance
<1>2. /\ UNCHANGED <<main, active, rows, heap, crashed, astray, dropped>>
      /\ wi[i].st = "built"
      /\ table' = IF s \in DOMAIN table
                  THEN [table EXCEPT ![s] = [wi |-> i, ws |-> o]] ELSE table
      /\ wi' = [wi EXCEPT ![i].st = "listed", ![i].ws = None]
  BY DEF ListInstance, lookup_wfs
<1>3. s \in Schedules /\ heap[o] = s /\ o \in Objects /\ o # None
  BY <1>1, <1>2 DEF InstanceInv, TypeOK
<1>4. /\ wi \in [Instances -> InstanceType] /\ wi' \in [Instances -> InstanceType]
      /\ wi'[i].st = "listed" /\ wi'[i].sid = s /\ wi'[i].ws = None
      /\ \A j \in Instances : j # i => wi'[j] = wi[j]
  <2> DEFINE new == [wi[i] EXCEPT !.st = "listed", !.ws = None]
  <2>1. wi' = [wi EXCEPT ![i] = new]
    BY <1>2
  <2>2. wi \in [Instances -> InstanceType]
    BY DEF TypeOK, InstanceType
  <2>3. new \in InstanceType /\ new.st = "listed" /\ new.sid = s /\ new.ws = None
    BY <2>2 DEF InstanceType
  <2> HIDE DEF new
  <2> QED
    BY <2>1, <2>2, <2>3
<1>5. /\ DOMAIN table' = DOMAIN table
      /\ \A t \in DOMAIN table : t # s => table'[t] = table[t]
      /\ s \in DOMAIN table => table'[s].wi = i /\ table'[s].ws = o
                               /\ table'[s] \in [wi : Instances \cup {None}, ws : Objects \cup {None}]
  BY <1>2, <1>3
<1> HIDE DEF s, o
<1>6. TypeOK'
  BY <1>1, <1>2, <1>4, <1>5 DEF TypeOK, InstanceType, Pending
<1>7. InstanceInv'
  <2>1. \A j \in Instances : wi[j].st = "built" /\ j # i => wi[j].ws # o
    BY <1>2 DEF InstanceInv, o
  <2>2. wi[i].sid # None /\ s # None
    BY <1>2 DEF InstanceInv, s
  <2> QED
    BY <1>1, <1>2, <1>4, <2>1, <2>2 DEF InstanceInv
<1>8. OneOwner
  BY OneOwnerIs
<1>9. OneOwner'
  BY <1>1, <1>2, <1>3, <1>5, <1>8 DEF OneOwner, Pending
<1>10. main = "up"
  BY <1>1 DEF BootInv
<1>11. BootInv'
  BY <1>2, <1>10 DEF BootInv
<1>12. TableInv'
  BY <1>2, <1>3, <1>4, <1>5 DEF TableInv
<1>13. \A p \in Objects, t \in Schedules : Waits(p, t)' <=> p # o /\ Waits(p, t)
  BY <1>1, <1>2, <1>3, <1>8 DEF Waits, Pending, OneOwner
<1>14. \A j \in Instances, t \in Schedules : Started(j, t)' <=> Started(j, t) \/ (j = i /\ t = s)
  BY <1>2, <1>4 DEF Started
<1>15. Waits(o, s)
  BY <1>1, <1>3 DEF Waits
<1>16. RunInv'
  BY <1>2, <1>3, <1>5, <1>13, <1>14, <1>15 DEF RunInv
<1>17. PlaceInv'
  <2> SUFFICES ASSUME (main = "up" /\ ~ crashed)',
                      NEW t \in (DOMAIN table \ (dropped \cup astray))'
               PROVE  (\E p \in Objects : Waits(p, t)) ' \/ (\E j \in Instances : wi[j].sid = t)'
    BY DEF PlaceInv
  <2>1. CASE t = s
    BY <2>1, <1>4
  <2>2. CASE t # s
    <3> t \in Schedules
      BY <1>5 DEF TypeOK
    <3>1. CASE \E p \in Objects : Waits(p, t)
      BY <3>1, <2>2, <1>3, <1>13 DEF Waits
    <3>2. CASE \E j \in Instances : wi[j].sid = t
      BY <3>2, <2>2, <1>4 DEF s
    <3> QED
      BY <1>2, <1>5, <3>1, <3>2 DEF PlaceInv
  <2> QED
    BY <2>1, <2>2
<1> QED
  BY <1>6, <1>7, <1>9, <1>11, <1>12, <1>16, <1>17, OneOwnerWillBe

\* The end of an instance, when the table does not know its schedule or has
\* no object for it, which is the null pointer.
LEMMA DeleteUnknownStep ==
    ASSUME ScheduleInv, NEW i \in Instances, wi[i].st = "running",
           wi' = [wi EXCEPT ![i] = NoInstance], rows' = rows \ {i},
           UNCHANGED <<main, active, table, due, handled, heap, astray, dropped>>,
           \/ wi[i].sid \notin DOMAIN table /\ UNCHANGED crashed
           \/ table[wi[i].sid].ws = None /\ crashed' = TRUE
    PROVE  ScheduleInv'
<1> USE DEF ScheduleInv, OwnerInv
<1>1. /\ wi \in [Instances -> InstanceType] /\ wi' \in [Instances -> InstanceType]
      /\ wi'[i].st = "none" /\ wi'[i].sid = None /\ wi'[i].ws = None
      /\ \A j \in Instances : j # i => wi'[j] = wi[j]
  BY DEF TypeOK, InstanceType, NoInstance
<1>2. TypeOK'
  BY <1>1 DEF TypeOK, InstanceType, Pending
<1>3. InstanceInv'
  BY <1>1 DEF InstanceInv
<1>4. EveryObjectHasOneOwner'
  BY DEF EveryObjectHasOneOwner, Pending, Executing
<1>5. BootInv'
  BY <1>1 DEF BootInv, Pending, TypeOK
<1>6. TableInv'
  BY <1>1 DEF TableInv
<1>7. \A j \in Instances, s \in Schedules : Started(j, s)' => Started(j, s)
  BY <1>1 DEF Started
<1>8. \A o, s : Waits(o, s)' <=> Waits(o, s)
  BY DEF Waits, Pending
<1>9. RunInv'
  BY <1>7, <1>8 DEF RunInv
<1>10. PlaceInv'
  BY <1>1, <1>8 DEF PlaceInv
<1> QED
  BY <1>2, <1>3, <1>4, <1>5, <1>6, <1>9, <1>10

\* The end of an instance whose schedule is in the table: the object goes
\* back to the list, or is deleted and the schedule suspended.
LEMMA DeleteKnownStep ==
    ASSUME ScheduleInv, NEW i \in Instances, wi[i].st = "running",
           wi' = [wi EXCEPT ![i] = NoInstance], rows' = rows \ {i},
           UNCHANGED <<main, astray, crashed>>,
           NEW s, s = wi[i].sid, s \in DOMAIN table,
           NEW o, o = table[s].ws, o # None,
           table' = [table EXCEPT ![s] = NoEntry],
           \/ List!Insert(o, 0) /\ UNCHANGED <<active, heap, dropped>>
           \/ /\ active' = active \ {s} /\ dropped' = dropped \cup {s}
              /\ heap' = [heap EXCEPT ![o] = None]
              /\ UNCHANGED listVars
    PROVE  ScheduleInv'
<1> USE DEF ScheduleInv, OwnerInv
<1>1. /\ wi \in [Instances -> InstanceType] /\ wi' \in [Instances -> InstanceType]
      /\ wi'[i].st = "none" /\ wi'[i].sid = None /\ wi'[i].ws = None
      /\ \A j \in Instances : j # i => wi'[j] = wi[j]
  BY DEF TypeOK, InstanceType, NoInstance
<1>2. s \in Schedules /\ o \in Objects /\ heap[o] = s /\ s # None
  BY DEF TypeOK, TableInv
<1>3. /\ DOMAIN table' = DOMAIN table /\ table'[s] = NoEntry
      /\ \A t \in DOMAIN table : t # s => table'[t] = table[t]
  OBVIOUS
<1>4. main = "up"
  BY DEF BootInv, NoEntry
<1>5. OneOwner
  BY OneOwnerIs
<1>6. /\ o \notin Pending \cup handled /\ handled' = handled
      /\ \/ /\ Pending' = Pending \cup {o} /\ UNCHANGED <<active, heap, dropped>>
         \/ /\ UNCHANGED Pending
            /\ active' = active \ {s} /\ dropped' = dropped \cup {s}
            /\ heap' = [heap EXCEPT ![o] = None]
      /\ \A p \in Pending' : due'[p] = 0
  <2>1. CASE List!Insert(o, 0) /\ UNCHANGED <<active, heap, dropped>>
    BY <2>1, InsertFacts DEF TypeOK
  <2>2. CASE ~ (List!Insert(o, 0) /\ UNCHANGED <<active, heap, dropped>>)
    <3> UNCHANGED <<due, handled>>
      BY <2>2 DEF listVars
    <3> QED
      BY <2>2, <1>5 DEF OneOwner, TypeOK, Pending
  <2> QED
    BY <2>1, <2>2
<1>7. /\ heap' \in [Objects -> Schedules \cup {None}]
      /\ \A p \in Objects : p # o => heap'[p] = heap[p]
      /\ heap'[o] = s \/ heap'[o] = None
      /\ o \in Pending' => heap'[o] = s
  BY <1>2, <1>6 DEF TypeOK
<1>8. TypeOK'
  BY <1>1, <1>2, <1>3, <1>6, <1>7 DEF TypeOK, InstanceType, NoEntry
<1>9. InstanceInv'
  BY <1>1, <1>6, <1>7 DEF InstanceInv, TypeOK
<1>10. OneOwner'
  BY <1>2, <1>3, <1>5, <1>6, <1>7 DEF OneOwner, TypeOK, NoEntry
<1>11. BootInv'
  BY <1>4 DEF BootInv
<1>12. TableInv'
  BY <1>1, <1>3, <1>5, <1>6, <1>7 DEF TableInv, OneOwner, TypeOK, NoEntry
<1>13. \A p \in Objects, t \in Schedules : Waits(p, t)' <=> Waits(p, t) \/ (p = o /\ t = s /\ o \in Pending')
  BY <1>2, <1>6, <1>7 DEF Waits
<1>14. \A j \in Instances, t \in Schedules : Started(j, t)' <=> Started(j, t) /\ j # i
  BY <1>1 DEF Started
<1>15. Started(i, s)
  BY DEF Started
<1>16. RunInv'
  BY <1>2, <1>3, <1>13, <1>14, <1>15 DEF RunInv
<1>17. PlaceInv'
  <2> SUFFICES ASSUME (main = "up" /\ ~ crashed)',
                      NEW t \in (DOMAIN table \ (dropped \cup astray))'
               PROVE  (\E p \in Objects : Waits(p, t)) ' \/ (\E j \in Instances : wi[j].sid = t)'
    BY DEF PlaceInv
  <2> t \in Schedules
    BY <1>3 DEF TypeOK
  <2>1. CASE t = s
    BY <2>1, <1>2, <1>6, <1>13
  <2>2. CASE t # s
    <3>1. (\E p \in Objects : Waits(p, t)) \/ (\E j \in Instances : wi[j].sid = t)
      BY <1>3, <1>6 DEF PlaceInv
    <3> QED
      BY <3>1, <2>2, <1>1, <1>13
  <2> QED
    BY <2>1, <2>2
<1> QED
  BY <1>8, <1>9, <1>10, <1>11, <1>12, <1>16, <1>17, OneOwnerWillBe

\* delete wi, whatever the scheduler makes of it.
LEMMA DeleteInstanceStep ==
    ASSUME ScheduleInv, NEW i \in Instances, DeleteInstance(i)
    PROVE  ScheduleInv'
<1>1. PICK success \in BOOLEAN : ScheduledWorkflowInstanceStop(wi[i].sid, success)
  BY DEF DeleteInstance
<1>2. /\ wi[i].st = "running" /\ wi' = [wi EXCEPT ![i] = NoInstance]
      /\ rows' = rows \ {i} /\ UNCHANGED <<main, astray>>
  BY DEF DeleteInstance
<1>3. CASE /\ wi[i].sid \in DOMAIN table /\ table[wi[i].sid].ws # None
  <2> DEFINE s == wi[i].sid
             o == table[s].ws
  <2>1. /\ table' = [table EXCEPT ![s] = NoEntry]
        /\ \/ List!Insert(o, 0) /\ UNCHANGED <<active, heap, dropped>>
           \/ /\ active' = active \ {s} /\ dropped' = dropped \cup {s}
              /\ heap' = [heap EXCEPT ![o] = None]
              /\ UNCHANGED listVars
        /\ UNCHANGED crashed
    BY <1>1, <1>3 DEF ScheduledWorkflowInstanceStop, lookup_wfs, SetStatus
  <2> QED
    BY <1>2, <1>3, <2>1, DeleteKnownStep
<1>4. CASE ~ (wi[i].sid \in DOMAIN table /\ table[wi[i].sid].ws # None)
  <2>1. /\ UNCHANGED <<active, table, due, handled, heap, dropped>>
        /\ \/ wi[i].sid \notin DOMAIN table /\ UNCHANGED crashed
           \/ table[wi[i].sid].ws = None /\ crashed' = TRUE
    BY <1>1, <1>4 DEF ScheduledWorkflowInstanceStop, lookup_wfs, listVars
  <2> QED
    BY <1>2, <2>1, DeleteUnknownStep
<1> QED
  BY <1>3, <1>4

\* A load, with a busy schedule for every instance the loader knows of.
\* What it does not know of it leaves astray, which is why the invariant
\* survives.
LEMMA LoadStep ==
    ASSUME ScheduleInv, main # "resuming", main' = "up",
           NEW ok \in SUBSET active, NEW busy, Loaded(ok, busy),
           rows' \subseteq Instances, UNCHANGED <<active, wi, crashed>>,
           \A s \in active : busy[s] # None =>
              /\ busy[s] \in Instances /\ wi[busy[s]].sid = s
              /\ wi[busy[s]].st \in {"listed", "running"}
    PROVE  ScheduleInv'
<1> USE DEF ScheduleInv, OwnerInv
<1>0. PICK new \in [ok -> Objects] : LoadedWith(new, ok, busy)
  BY LoadedFacts
<1>1. /\ new \in [ok -> Objects]
      /\ \A s \in ok : new[s] \notin handled /\ heap'[new[s]] = s
      /\ \A s, t \in ok : new[s] = new[t] => s = t
      /\ heap' \in [Objects -> Schedules \cup {None}]
      /\ \A o \in handled : heap'[o] = heap[o]
      /\ \A o \in Objects : (\A s \in ok : new[s] # o) =>
            heap'[o] = None \/ heap'[o] = heap[o]
      /\ DOMAIN table' = active
      /\ \A s \in active :
            table'[s] = IF s \in ok /\ busy[s] # None
                        THEN [wi |-> busy[s], ws |-> new[s]] ELSE NoEntry
      /\ \A o : o \in Pending' <=> \E s \in ok : busy[s] = None /\ o = new[s]
      /\ \A o \in Pending' : due'[o] = 0
  BY <1>0 DEF LoadedWith
<1>2. /\ handled' = handled
      /\ dropped' = (dropped \ ok) \cup (active \ ok)
      /\ astray' = astray \cup {s \in active : InProgress(s) /\ table'[s].ws = None}
  BY DEF Loaded
<1>3. active \subseteq Schedules /\ ok \subseteq Schedules
  BY DEF TypeOK
<1>4. \A s \in active : table'[s] \in [wi : Instances \cup {None}, ws : Objects \cup {None}]
  BY <1>1 DEF NoEntry
<1>5. \A s \in active : table'[s].ws # None =>
         s \in ok /\ busy[s] # None /\ table'[s].wi = busy[s] /\ table'[s].ws = new[s]
  BY <1>1 DEF NoEntry
<1>6. TypeOK'
  BY <1>1, <1>2, <1>3, <1>4 DEF TypeOK
<1>7. InstanceInv'
  BY <1>1, <1>2 DEF InstanceInv
<1>8. OneOwner
  BY OneOwnerIs
<1>9. OneOwner'
  <2>1. \A o \in Pending' \cup handled' : heap'[o] # None
    BY <1>1, <1>2, <1>3, <1>8 DEF OneOwner
  <2>2. \A o \in Pending' : o \notin handled'
    BY <1>1, <1>2
  <2>3. \A s \in DOMAIN table' :
          table'[s].ws # None => /\ heap'[table'[s].ws] # None
                                 /\ table'[s].ws \notin Pending' \cup handled'
    BY <1>1, <1>2, <1>3, <1>5
  <2>4. \A s, t \in DOMAIN table' :
          s # t /\ table'[s].ws # None => table'[s].ws # table'[t].ws
    BY <1>1, <1>5
  <2> QED
    BY <2>1, <2>2, <2>3, <2>4 DEF OneOwner
<1>10. BootInv'
  BY DEF BootInv
<1>11. TableInv'
  BY <1>1, <1>5 DEF TableInv
<1>12. ASSUME NEW o \in Objects, NEW s \in Schedules, Waits(o, s)'
       PROVE  \/ s \in ok /\ o = new[s] /\ table'[s].ws = None
              \/ o \in handled /\ Waits(o, s)
  <2>1. CASE o \in Pending'
    <3>1. PICK t \in ok : busy[t] = None /\ o = new[t]
      BY <2>1, <1>1
    <3>2. t = s
      BY <3>1, <1>1, <1>12 DEF Waits
    <3>3. table'[s] = NoEntry
      BY <3>1, <3>2, <1>1
    <3> QED
      BY <3>1, <3>2, <3>3 DEF NoEntry
  <2>2. CASE o \in handled
    BY <2>2, <1>1, <1>12 DEF Waits
  <2> QED
    BY <2>1, <2>2, <1>2, <1>12 DEF Waits
<1>13. ASSUME NEW s \in Schedules \ astray'
       PROVE  /\ s \notin astray
              /\ (s \in active /\ table'[s].ws = None) =>
                    /\ \A i \in Instances : wi[i].sid # s
                    /\ \A o \in handled : heap[o] # s
  <2> s \in active /\ table'[s].ws = None => ~ InProgress(s)
    BY <1>2
  <2> handled \subseteq Objects
    BY DEF TypeOK
  <2> QED
    BY <1>2 DEF InProgress, InstancesOf, Of
<1>14. RunInv'
  <2> SUFFICES ASSUME NEW s \in Schedules \ astray'
               PROVE  /\ \A o, p \in Objects : Waits(o, s)' /\ Waits(p, s)' => o = p
                      /\ \A i, j \in Instances : Started(i, s)' /\ Started(j, s)' => i = j
                      /\ \A i \in Instances, o \in Objects : ~ (Started(i, s)' /\ Waits(o, s)')
                      /\ s \in DOMAIN table' =>
                            \A i \in Instances : Started(i, s)' => table'[s].ws # None
    BY DEF RunInv
  <2>1. \A i \in Instances : Started(i, s)' <=> Started(i, s)
    BY DEF Started
  <2>2. \A i \in Instances : Started(i, s) => wi[i].sid = s
    BY DEF Started
  <2>3. s \in Schedules \ astray
    BY <1>13
  <2>4. \A o, p \in Objects : Waits(o, s)' /\ Waits(p, s)' => o = p
    BY <1>12, <1>13, <2>3 DEF RunInv, Waits
  <2>5. \A i \in Instances, o \in Objects : ~ (Started(i, s)' /\ Waits(o, s)')
    BY <1>12, <1>13, <2>1, <2>2, <2>3 DEF RunInv
  <2>6. s \in DOMAIN table' => \A i \in Instances : Started(i, s)' => table'[s].ws # None
    BY <1>1, <1>13, <2>1, <2>2
  <2>7. \A i, j \in Instances : Started(i, s)' /\ Started(j, s)' => i = j
    BY <2>1, <2>3 DEF RunInv
  <2> QED
    BY <2>4, <2>5, <2>6, <2>7
<1>15. PlaceInv'
  <2> SUFFICES ASSUME NEW s \in DOMAIN table' \ (dropped' \cup astray')
               PROVE  (\E o \in Objects : Waits(o, s)') \/ (\E i \in Instances : wi'[i].sid = s)
    BY DEF PlaceInv
  <2>1. s \in ok
    BY <1>1, <1>2
  <2>2. CASE busy[s] = None
    BY <2>1, <2>2, <1>1 DEF Waits
  <2>3. CASE busy[s] # None
    BY <2>1, <2>3
  <2> QED
    BY <2>2, <2>3
<1> QED
  BY <1>6, <1>7, <1>9, <1>10, <1>11, <1>14, <1>15, OneOwnerWillBe

\* The first load names the instance of each EXECUTING row.
LEMMA LoadSchedulesStep ==
    ASSUME ScheduleInv, LoadSchedules
    PROVE  ScheduleInv'
<1> DEFINE busy == [s \in active |->
                      IF \E i \in rows : wi[i].sid = s
                      THEN CHOOSE i \in rows : wi[i].sid = s ELSE None]
<1>1. PICK ok \in SUBSET active : Loaded(ok, busy)
  BY DEF LoadSchedules
<1>2. main = "loading" /\ main' = "up" /\ rows' = {} /\ UNCHANGED <<active, wi, crashed>>
  BY DEF LoadSchedules
<1>3. ASSUME NEW s \in active, busy[s] # None
      PROVE  /\ busy[s] \in Instances /\ wi[busy[s]].sid = s
             /\ wi[busy[s]].st \in {"listed", "running"}
  <2>1. busy[s] \in rows /\ wi[busy[s]].sid = s
    BY <1>3
  <2> HIDE DEF busy
  <2>2. busy[s] \in Instances /\ wi[busy[s]].st \in {"saved", "running"} /\ wi[busy[s]].st # "saved"
    BY <1>2, <2>1 DEF ScheduleInv, OwnerInv, BootInv, TypeOK, InstanceInv
  <2> QED
    BY <2>1, <2>2
<1> HIDE DEF busy
<1> QED
  BY <1>1, <1>2, <1>3, LoadStep

\* A reload names the instances of the table.
LEMMA ReloadStep ==
    ASSUME ScheduleInv, Reload
    PROVE  ScheduleInv'
<1> DEFINE busy == [s \in active |->
                      IF lookup_wfs(s) /\ table[s].ws # None
                      THEN table[s].wi ELSE None]
<1>1. PICK ok \in SUBSET active : Loaded(ok, busy)
  BY DEF Reload
<1>2. main = "up" /\ UNCHANGED <<main, active, rows, wi, crashed>>
  BY DEF Reload
<1>3. ASSUME NEW s \in active, busy[s] # None
      PROVE  /\ busy[s] \in Instances /\ wi[busy[s]].sid = s
             /\ wi[busy[s]].st \in {"listed", "running"}
  <2>1. s \in DOMAIN table /\ table[s].ws # None /\ busy[s] = table[s].wi
    BY <1>3 DEF lookup_wfs
  <2> QED
    BY <2>1 DEF ScheduleInv, TableInv
<1>4. rows \subseteq Instances
  BY DEF ScheduleInv, OwnerInv, TypeOK
<1> HIDE DEF busy
<1> QED
  BY <1>1, <1>2, <1>3, <1>4, LoadStep

\* Every step of the scheduler preserves the invariant.
LEMMA ScheduleStep == ScheduleInv /\ [Next]_vars => ScheduleInv'
<1> SUFFICES ASSUME ScheduleInv, [Next]_vars
             PROVE  ScheduleInv'
  OBVIOUS
<1>1. ASSUME NEW i \in Instances, ResumeInstance(i) \/ StartInstance(i)
      PROVE  ScheduleInv'
  BY <1>1, RunningStep DEF ResumeInstance, StartInstance
<1>2. ASSUME NEW s \in Schedules, Edit(s)
      PROVE  ScheduleInv'
  <2>1. active' \subseteq Schedules
    BY <1>2 DEF Edit, SetStatus, ScheduleInv, OwnerInv, TypeOK
  <2> QED
    BY <1>2, <2>1, UnchangedStep DEF Edit, listVars
<1>3. ASSUME UNCHANGED vars
      PROVE  ScheduleInv'
  BY <1>3, UnchangedStep DEF vars, listVars, ScheduleInv, OwnerInv, TypeOK
<1>4. CASE Next
  BY <1>1, <1>2, <1>4, ResumeThrowsStep, ListInstanceStep, DeleteInstanceStep, PurgeResumedStep,
     LoadSchedulesStep, ReloadStep, FireStep, BuildInstanceStep, BuildThrowsStep DEF Next
<1> QED
  BY <1>3, <1>4

\* The engine boots with an EXECUTING row per schedule at most, and nothing
\* scheduled.
LEMMA ScheduleInit == Init => ScheduleInv
<1> SUFFICES ASSUME Init PROVE ScheduleInv
  OBVIOUS
<1>0. PICK past \in SUBSET Schedules : \E id \in Injection(past, Instances) :
          /\ rows = Range(id)
          /\ wi = [i \in Instances |->
                      IF i \in Range(id)
                      THEN [st |-> "saved", ws |-> None,
                            sid |-> CHOOSE s \in past : id[s] = i]
                      ELSE NoInstance]
  BY DEF Init
<1>1. PICK id \in Injection(past, Instances) :
          /\ rows = Range(id)
          /\ wi = [i \in Instances |->
                      IF i \in Range(id)
                      THEN [st |-> "saved", ws |-> None,
                            sid |-> CHOOSE s \in past : id[s] = i]
                      ELSE NoInstance]
  BY <1>0
<1>2. /\ main = "resuming" /\ active \subseteq Schedules
      /\ table = [s \in active |-> NoEntry] /\ due = <<>> /\ handled = {}
      /\ heap = [o \in Objects |-> None] /\ crashed = FALSE /\ astray = {} /\ dropped = {}
  BY DEF Init
<1>3. Pending = {}
  BY <1>2 DEF Pending
<1>4. id \in [past -> Instances] /\ Range(id) \subseteq Instances
      /\ \A i \in Range(id) : \E s \in past : id[s] = i
  BY DEF Injection, Range
<1>5. ASSUME NEW i \in Range(id)
      PROVE  /\ wi[i].st = "saved" /\ wi[i].ws = None
             /\ wi[i].sid \in past /\ id[wi[i].sid] = i
             /\ wi[i] \in InstanceType
  <2>1. PICK s \in past : id[s] = i
    BY <1>4
  <2> DEFINE sid == CHOOSE t \in past : id[t] = i
  <2>2. sid \in past /\ id[sid] = i
    BY <2>1
  <2>3. wi[i] = [st |-> "saved", ws |-> None, sid |-> sid]
    BY <1>1, <1>4
  <2> HIDE DEF sid
  <2> QED
    BY <2>2, <2>3 DEF InstanceType
<1>6. ASSUME NEW i \in Instances, i \notin Range(id)
      PROVE  wi[i] = NoInstance /\ wi[i] \in InstanceType
  BY <1>1, <1>6 DEF NoInstance, InstanceType
<1>7. wi \in [Instances -> InstanceType]
  <2> wi = [i \in Instances |-> wi[i]]
    BY <1>1
  <2> QED
    BY <1>5, <1>6
<1>8. TypeOK
  BY <1>1, <1>2, <1>3, <1>4, <1>7 DEF TypeOK, InstanceType, NoEntry
<1>9. InstanceInv
  BY <1>2, <1>5, <1>6 DEF InstanceInv, NoInstance
<1>10. EveryObjectHasOneOwner
  <2> OneOwner
    BY <1>2, <1>3 DEF OneOwner, NoEntry
  <2> QED
    BY OneOwnerIs
<1>11. BootInv /\ TableInv /\ PlaceInv
  BY <1>1, <1>2, <1>3, <1>5 DEF BootInv, TableInv, PlaceInv, NoEntry
<1>12. RunInv
  <2>1. \A o \in Objects, s \in Schedules : ~ Waits(o, s)
    BY <1>2 DEF Waits
  <2>2. \A i, j \in Instances, s \in Schedules : Started(i, s) /\ Started(j, s) => i = j
    BY <1>5, <1>6 DEF Started, NoInstance
  <2> QED
    BY <2>1, <2>2, <1>2 DEF RunInv
<1> QED
  BY <1>8, <1>9, <1>10, <1>11, <1>12 DEF ScheduleInv, OwnerInv

-----------------------------------------------------------------------------
(* Theorems.                                                               *)

\* The inductive invariant, types included, holds of every state.
THEOREM SchedulerIsSound == Spec => []ScheduleInv
  BY ScheduleInit, ScheduleStep, PTL DEF Spec

\* Every WorkflowSchedule object has exactly one owner that will delete it
\* or pass it on, whichever critical sections a Reload runs between (a handler
\* that runs inside one is not modelled).
THEOREM ObjectsHaveOneOwner == Spec => []EveryObjectHasOneOwner
<1>1. ScheduleInv => EveryObjectHasOneOwner
  BY DEF ScheduleInv, OwnerInv
<1> QED
  BY <1>1, SchedulerIsSound, PTL

\* A set whose elements are all equal has one at most.
LEMMA AtMostOne ==
    ASSUME NEW S, IsFiniteSet(S), \A x, y \in S : x = y
    PROVE  Cardinality(S) \in Nat /\ Cardinality(S) <= 1 /\ (S = {} => Cardinality(S) = 0)
<1>1. CASE S = {}
  BY <1>1, FS_EmptySet
<1>2. CASE S # {}
  <2>1. PICK x \in S : TRUE
    BY <1>2
  <2>2. S = {x}
    BY <2>1
  <2> QED
    BY <1>2, <2>2, FS_Singleton
<1> QED
  BY <1>1, <1>2

\* A schedule runs one instance at a time and is waiting in one place,
\* unless a load has left it out of step.
THEOREM SchedulesRunOnce == Spec => []OneRunPerSchedule
<1>1. ASSUME ScheduleInv PROVE OneRunPerSchedule
  <2> SUFFICES ASSUME NEW s \in Schedules \ astray
               PROVE  LET starting == {i \in Instances : wi[i].st = "built"}
                      IN  Cardinality(Of(s) \cap (Pending \cup handled))
                            + Cardinality(InstancesOf(s) \ starting) <= 1
    BY DEF OneRunPerSchedule
  <2> DEFINE A == Of(s) \cap (Pending \cup handled)
             B == InstancesOf(s) \ {i \in Instances : wi[i].st = "built"}
  <2>1. IsFiniteSet(A) /\ IsFiniteSet(B)
    <3> A \subseteq Objects /\ B \subseteq Instances
      BY DEF Of, InstancesOf
    <3> QED
      BY FS_Subset
  <2>2. /\ \A x, y \in A : x = y
        /\ \A x, y \in B : x = y
        /\ A = {} \/ B = {}
    BY <1>1 DEF ScheduleInv, RunInv, Waits, Started, Of, InstancesOf
  <2> HIDE DEF A, B
  <2>3. /\ Cardinality(A) \in Nat /\ Cardinality(A) <= 1 /\ (A = {} => Cardinality(A) = 0)
        /\ Cardinality(B) \in Nat /\ Cardinality(B) <= 1 /\ (B = {} => Cardinality(B) = 0)
    BY <2>1, <2>2, AtMostOne
  <2>4. Cardinality(A) + Cardinality(B) <= 1
    BY <2>2, <2>3
  <2> QED
    BY <2>4 DEF A, B
<1> QED
  BY <1>1, SchedulerIsSound, PTL

\* The end of an instance finds itself and a live object of its schedule in
\* the table, or no entry.
THEOREM StopAlwaysFindsItsSchedule == Spec => []StopFindsItsSchedule
<1>1. ScheduleInv => StopFindsItsSchedule
  BY DEF ScheduleInv, OwnerInv, TypeOK, TableInv, RunInv, Started, StopFindsItsSchedule, InstancesOf
<1> QED
  BY <1>1, SchedulerIsSound, PTL

\* No schedule of the table is forgotten without a log.
THEOREM SchedulesAreNotForgotten == Spec => []NoScheduleForgotten
<1>1. ScheduleInv => NoScheduleForgotten
  BY DEF ScheduleInv, PlaceInv, Waits, NoScheduleForgotten, InProgress, InstancesOf, Of
<1> QED
  BY <1>1, SchedulerIsSound, PTL
=============================================================================
