------------------------ MODULE ProcessManager_proofs -----------------------
(***************************************************************************)
(* Theorems about the execution engine, for any number of tasks, queues,   *)
(* task ids and processes: its state is well typed, the Forker never       *)
(* sleeps while there is something to run, running_tasks counts the ids in *)
(* use, and no task is lost, run twice or taken for another one.           *)
(*                                                                         *)
(* First the operators of Queue: every operation on a queue yields a       *)
(* queue, what it does to the counters, and what is left of the lists.     *)
(* Then what each operation of QueuePool preserves: the types of the pool, *)
(* the agreement of fork_possible and fork_lock with the queues, and the   *)
(* agreement of running_tasks with the table of task ids.                  *)
(***************************************************************************)
EXTENDS ProcessManager, Lists_proofs

\* Unsigned arithmetic stays in range, wrap-around included.
LEMMA UIntType ==
    ASSUME NEW n \in UInt, NEW k \in Nat
    PROVE  UIntPlus(n, k) \in UInt /\ UIntMinus(n, k) \in UInt
  BY QueueAssumption DEF UInt, UIntPlus, UIntMinus

\* Without wrap-around the unsigned operations are plain ones.
LEMMA UIntExact ==
    ASSUME NEW n \in UInt
    PROVE  /\ n + 1 < UIntSpan => UIntPlus(n, 1) = n + 1
           /\ n > 0 => UIntMinus(n, 1) = n - 1
  BY QueueAssumption DEF UInt, UIntPlus, UIntMinus

\* A store through a stale last_task leaves a list of cells a list of cells.
LEMMA RelinkType ==
    ASSUME NEW list \in Seq(Cells), NEW cell, NEW new \in Cells
    PROVE  Relink(list, cell, new) \in Seq(Cells)
<1>1. CASE cell \in ToSet(list)
  <2> DEFINE k == CHOOSE k \in DOMAIN list : list[k] = cell
  <2> k \in 1 .. Len(list)
    BY <1>1 DEF ToSet
  <2> HIDE DEF k
  <2> SubSeq(list, 1, k) \o <<new>> \in Seq(Cells)
    OBVIOUS
  <2> QED
    BY <1>1 DEF Relink, k
<1>2. CASE cell \notin ToSet(list)
  BY <1>2 DEF Relink
<1> QED
  BY <1>1, <1>2

\* EnqueueTask leaves a pool of queues and no running_tasks changed.
LEMMA EnqueueType ==
    ASSUME NEW I, NEW pool \in [I -> Queue], NEW i \in I, NEW new \in Cells
    PROVE  /\ EnqueueCell(pool, i, new) \in [I -> Queue]
           /\ \A j \in I : EnqueueCell(pool, i, new)[j].running_tasks = pool[j].running_tasks
<1>1. \A j \in I : pool[j] \in Queue
  OBVIOUS
<1>3. ASSUME NEW mid \in [I -> Queue],
             \A j \in I : mid[j].running_tasks = pool[j].running_tasks,
             EnqueueCell(pool, i, new)
               = [mid EXCEPT ![i].last_task = new, ![i].size = UIntPlus(@, 1)]
      PROVE  /\ EnqueueCell(pool, i, new) \in [I -> Queue]
             /\ \A j \in I : EnqueueCell(pool, i, new)[j].running_tasks
                             = pool[j].running_tasks
  <2> DEFINE r == [mid[i] EXCEPT !.last_task = new, !.size = UIntPlus(@, 1)]
  <2>1. mid[i] \in Queue /\ UIntPlus(mid[i].size, 1) \in UInt
    BY UIntType DEF Queue
  <2>2. r \in Queue /\ r.running_tasks = mid[i].running_tasks
    BY <2>1 DEF Queue
  <2>3. EnqueueCell(pool, i, new) = [mid EXCEPT ![i] = r]
    BY <1>3
  <2> HIDE DEF r
  <2> QED
    BY <1>3, <2>2, <2>3
<1>4. CASE pool[i].tasks = <<>>
  <2> DEFINE r == [pool[i] EXCEPT !.tasks = <<new>>]
             mid == [pool EXCEPT ![i] = r]
  <2>1. r \in Queue /\ r.running_tasks = pool[i].running_tasks
    <3> <<new>> \in Seq(Cells)
      OBVIOUS
    <3> QED
      BY <1>1 DEF Queue
  <2>2. EnqueueCell(pool, i, new)
            = [mid EXCEPT ![i].last_task = new, ![i].size = UIntPlus(@, 1)]
    BY <1>4 DEF EnqueueCell
  <2>3. mid \in [I -> Queue] /\ \A j \in I : mid[j].running_tasks = pool[j].running_tasks
    <3> HIDE DEF r
    <3> QED
      BY <2>1
  <2> HIDE DEF mid
  <2> QED
    BY <1>3, <2>2, <2>3
<1>5. CASE pool[i].tasks # <<>>
  <2> DEFINE last == pool[i].last_task
             mid == [j \in I |-> [pool[j] EXCEPT
                        !.tasks = Relink(@, last, new),
                        !.cancelled_tasks = Relink(@, last, new)]]
  <2>1. \A j \in I : /\ Relink(pool[j].tasks, last, new) \in Seq(Cells)
                     /\ Relink(pool[j].cancelled_tasks, last, new) \in Seq(Cells)
    <3> TAKE j \in I
    <3> pool[j].tasks \in Seq(Cells) /\ pool[j].cancelled_tasks \in Seq(Cells)
      BY <1>1 DEF Queue
    <3> QED
      BY RelinkType
  <2>2. mid \in [I -> Queue] /\ \A j \in I : mid[j].running_tasks = pool[j].running_tasks
    BY <1>1, <2>1 DEF Queue
  <2>3. EnqueueCell(pool, i, new)
            = [mid EXCEPT ![i].last_task = new, ![i].size = UIntPlus(@, 1)]
    BY <1>5 DEF EnqueueCell
  <2> HIDE DEF mid
  <2> QED
    BY <1>3, <2>2, <2>3
<1> QED
  BY <1>4, <1>5

\* Queue::DequeueTask leaves a queue and does not touch running_tasks.
LEMMA DequeueType ==
    ASSUME NEW q \in Queue, ~NullFirstTask(q)
    PROVE  DequeueCell(q) \in Queue /\ DequeueCell(q).running_tasks = q.running_tasks
<1>1. UIntMinus(q.size, 1) \in UInt
  BY UIntType DEF Queue
<1>2. CASE q.cancelled_tasks # <<>>
  <2> Tail(q.cancelled_tasks) \in Seq(Cells)
    BY <1>2 DEF Queue
  <2> QED
    BY <1>2 DEF Queue, DequeueCell
<1>3. CASE q.cancelled_tasks = <<>>
  <2> Tail(q.tasks) \in Seq(Cells)
    BY <1>3 DEF Queue, NullFirstTask
  <2> QED
    BY <1>1, <1>3 DEF Queue, DequeueCell
<1> QED
  BY <1>2, <1>3

\* A reversed list of cells is a list of cells.
LEMMA ReverseType ==
    ASSUME NEW S, NEW s \in Seq(S)
    PROVE  Reverse(s) \in Seq(S)
  BY DEF Reverse

\* Queue::CancelTasks leaves a queue and does not touch running_tasks.
LEMMA CancelType ==
    ASSUME NEW q \in Queue, NEW mine
    PROVE  CancelCells(q, mine) \in Queue /\ CancelCells(q, mine).running_tasks = q.running_tasks
<1> DEFINE hit == {k \in 1 .. Len(q.tasks) : q.tasks[k] \in mine}
<1>1. q.tasks \in Seq(Cells) /\ q.cancelled_tasks \in Seq(Cells) /\ q.size \in UInt
  BY DEF Queue
<1>2. /\ Pick(q.tasks, (1 .. Len(q.tasks)) \ hit) \in Seq(Cells)
      /\ Pick(q.tasks, hit) \in Seq(Cells)
      /\ Cardinality(hit) \in Nat
  BY <1>1, PickType
<1>3. UIntMinus(q.size, Cardinality(hit)) \in UInt
  BY <1>1, <1>2, UIntType
<1>4. Reverse(Pick(q.tasks, hit)) \o q.cancelled_tasks \in Seq(Cells)
  <2> Reverse(Pick(q.tasks, hit)) \in Seq(Cells)
    BY <1>2, ReverseType
  <2> QED
    BY <1>1
<1> HIDE DEF hit
<1>5. CancelCells(q, mine)
        = [q EXCEPT !.tasks = Pick(q.tasks, (1 .. Len(q.tasks)) \ hit),
                    !.cancelled_tasks = Reverse(Pick(q.tasks, hit)) \o q.cancelled_tasks,
                    !.size = UIntMinus(q.size, Cardinality(hit))]
  BY DEF CancelCells, hit
<1> QED
  BY <1>2, <1>3, <1>4, <1>5 DEF Queue

\* Queue::ExecuteTask and Queue::TerminateTask change running_tasks by one.
LEMMA RunningType ==
    ASSUME NEW q \in Queue
    PROVE  /\ ExecuteInQueue(q) \in Queue
           /\ TerminateInQueue(q) \in Queue
           /\ ExecuteInQueue(q).running_tasks = UIntPlus(q.running_tasks, 1)
           /\ TerminateInQueue(q).running_tasks = UIntMinus(q.running_tasks, 1)
<1> q.running_tasks \in UInt
  BY DEF Queue
<1> UIntPlus(q.running_tasks, 1) \in UInt /\ UIntMinus(q.running_tasks, 1) \in UInt
  BY UIntType
<1> QED
  BY DEF Queue, ExecuteInQueue, TerminateInQueue

-----------------------------------------------------------------------------
(* What unlocks a queue keeps it unlocked until its task is taken.         *)

\* A store through last_task never empties a list.
LEMMA RelinkKeepsWork ==
    ASSUME NEW list \in Seq(Cells), NEW cell, NEW new \in Cells, list # <<>>
    PROVE  Relink(list, cell, new) # <<>>
<1>1. CASE cell \in ToSet(list)
  <2> DEFINE k == CHOOSE k \in DOMAIN list : list[k] = cell
  <2> k \in 1 .. Len(list)
    BY <1>1 DEF ToSet
  <2> HIDE DEF k
  <2> SubSeq(list, 1, k) \in Seq(Cells)
    OBVIOUS
  <2> Len(SubSeq(list, 1, k) \o <<new>>) = Len(SubSeq(list, 1, k)) + 1
    OBVIOUS
  <2> QED
    BY <1>1 DEF Relink, k
<1>2. CASE cell \notin ToSet(list)
  BY <1>2 DEF Relink
<1> QED
  BY <1>1, <1>2

\* EnqueueTask makes a queue longer by one task or leaves its size, and leaves
\* no cancelled list empty that was not.
LEMMA EnqueueKeepsWork ==
    ASSUME NEW I, NEW pool \in [I -> Queue], NEW i \in I, NEW new \in Cells, NEW j \in I
    PROVE  /\ pool[j].cancelled_tasks # <<>>
                => EnqueueCell(pool, i, new)[j].cancelled_tasks # <<>>
           /\ EnqueueCell(pool, i, new)[j].size \in {pool[j].size, UIntPlus(pool[j].size, 1)}
<1>1. \A k \in I : pool[k] \in Queue
  OBVIOUS
<1>2. ASSUME NEW mid \in [I -> Queue],
             \A k \in I : mid[k].size = pool[k].size,
             pool[j].cancelled_tasks # <<>> => mid[j].cancelled_tasks # <<>>,
             EnqueueCell(pool, i, new)
               = [mid EXCEPT ![i].last_task = new, ![i].size = UIntPlus(@, 1)]
      PROVE  /\ pool[j].cancelled_tasks # <<>>
                  => EnqueueCell(pool, i, new)[j].cancelled_tasks # <<>>
             /\ EnqueueCell(pool, i, new)[j].size \in {pool[j].size, UIntPlus(pool[j].size, 1)}
  <2> DEFINE r == [mid[i] EXCEPT !.last_task = new, !.size = UIntPlus(@, 1)]
  <2>1. mid[i] \in Queue
    OBVIOUS
  <2>2. /\ r.size = UIntPlus(mid[i].size, 1)
        /\ r.cancelled_tasks = mid[i].cancelled_tasks
    BY <2>1 DEF Queue
  <2>3. EnqueueCell(pool, i, new) = [mid EXCEPT ![i] = r]
    BY <1>2
  <2> HIDE DEF r
  <2>4. CASE i = j
    BY <1>2, <2>2, <2>3, <2>4
  <2>5. CASE i # j
    BY <1>2, <2>3, <2>5
  <2> QED
    BY <2>4, <2>5
<1>3. CASE pool[i].tasks = <<>>
  <2> DEFINE r == [pool[i] EXCEPT !.tasks = <<new>>]
             mid == [pool EXCEPT ![i] = r]
  <2>1. /\ r \in Queue /\ r.size = pool[i].size
        /\ r.cancelled_tasks = pool[i].cancelled_tasks
    <3> <<new>> \in Seq(Cells)
      OBVIOUS
    <3> QED
      BY <1>1 DEF Queue
  <2>2. EnqueueCell(pool, i, new)
            = [mid EXCEPT ![i].last_task = new, ![i].size = UIntPlus(@, 1)]
    BY <1>3 DEF EnqueueCell
  <2>3. /\ mid \in [I -> Queue] /\ \A k \in I : mid[k].size = pool[k].size
        /\ mid[j].cancelled_tasks = pool[j].cancelled_tasks
    <3> HIDE DEF r
    <3> QED
      BY <2>1
  <2> HIDE DEF mid
  <2> QED
    BY <1>2, <2>2, <2>3
<1>4. CASE pool[i].tasks # <<>>
  <2> DEFINE last == pool[i].last_task
             mid == [k \in I |-> [pool[k] EXCEPT
                        !.tasks = Relink(@, last, new),
                        !.cancelled_tasks = Relink(@, last, new)]]
  <2>1. \A k \in I : /\ Relink(pool[k].tasks, last, new) \in Seq(Cells)
                     /\ Relink(pool[k].cancelled_tasks, last, new) \in Seq(Cells)
    <3> TAKE k \in I
    <3> pool[k].tasks \in Seq(Cells) /\ pool[k].cancelled_tasks \in Seq(Cells)
      BY <1>1 DEF Queue
    <3> QED
      BY RelinkType
  <2>2. mid \in [I -> Queue] /\ \A k \in I : mid[k].size = pool[k].size
    BY <1>1, <2>1 DEF Queue
  <2>3. mid[j].cancelled_tasks = Relink(pool[j].cancelled_tasks, last, new)
    BY <1>1 DEF Queue
  <2>4. pool[j].cancelled_tasks # <<>> => mid[j].cancelled_tasks # <<>>
    <3> pool[j].cancelled_tasks \in Seq(Cells)
      BY <1>1 DEF Queue
    <3> HIDE DEF last
    <3> QED
      BY <2>3, RelinkKeepsWork
  <2>5. EnqueueCell(pool, i, new)
            = [mid EXCEPT ![i].last_task = new, ![i].size = UIntPlus(@, 1)]
    BY <1>4 DEF EnqueueCell
  <2> HIDE DEF mid
  <2> QED
    BY <1>2, <2>2, <2>4, <2>5
<1> QED
  BY <1>3, <1>4

\* CancelTasks takes no task from a queue without leaving it on the cancelled
\* list.
LEMMA CancelKeepsWork ==
    ASSUME NEW q \in Queue, NEW mine
    PROVE  \/ CancelCells(q, mine).cancelled_tasks # <<>>
           \/ /\ q.cancelled_tasks = <<>>
              /\ CancelCells(q, mine).size = q.size
<1> DEFINE hit == {k \in 1 .. Len(q.tasks) : q.tasks[k] \in mine}
           gone == Reverse(Pick(q.tasks, hit))
<1>1. q.tasks \in Seq(Cells) /\ q.cancelled_tasks \in Seq(Cells) /\ q.size \in UInt
  BY DEF Queue
<1>2. /\ Pick(q.tasks, hit) \in Seq(Cells)
      /\ Len(Pick(q.tasks, hit)) = Cardinality(hit)
      /\ Cardinality(hit) \in Nat
  BY <1>1, PickType
<1>3. gone \in Seq(Cells) /\ Len(gone) = Cardinality(hit)
  <2> DEFINE s == Pick(q.tasks, hit)
  <2> s \in Seq(Cells) /\ Len(s) = Cardinality(hit)
    BY <1>2
  <2> HIDE DEF s, hit
  <2> Reverse(s) \in Seq(Cells) /\ Len(Reverse(s)) = Len(s)
    BY DEF Reverse
  <2> QED
    BY DEF s
<1> HIDE DEF hit, gone
<1>4. /\ CancelCells(q, mine).cancelled_tasks = gone \o q.cancelled_tasks
      /\ CancelCells(q, mine).size = UIntMinus(q.size, Cardinality(hit))
  <2> CancelCells(q, mine)
        = [q EXCEPT !.tasks = Pick(q.tasks, (1 .. Len(q.tasks)) \ hit),
                    !.cancelled_tasks = gone \o q.cancelled_tasks,
                    !.size = UIntMinus(q.size, Cardinality(hit))]
    BY DEF CancelCells, hit, gone
  <2> QED
    BY DEF Queue
<1>5. CASE Cardinality(hit) = 0
  <2>1. UIntMinus(q.size, 0) = q.size
    <3>1. ASSUME NEW n \in Nat, n < UIntSpan
          PROVE  (n + UIntSpan - (0 % UIntSpan)) % UIntSpan = n
      <4>1. 0 % UIntSpan = 0
        BY QueueAssumption
      <4>2. (n + UIntSpan) % UIntSpan = n
        BY <3>1, QueueAssumption
      <4> QED
        BY <3>1, <4>1, <4>2, QueueAssumption
    <3>2. q.size \in Nat /\ q.size < UIntSpan
      BY <1>1, QueueAssumption DEF UInt
    <3> QED
      BY <3>1, <3>2 DEF UIntMinus
  <2>2. q.cancelled_tasks # <<>> => gone \o q.cancelled_tasks # <<>>
    BY <1>1, <1>3
  <2> QED
    BY <1>4, <1>5, <2>1, <2>2
<1>6. CASE Cardinality(hit) # 0
  <2>1. Len(gone \o q.cancelled_tasks) # 0
    BY <1>1, <1>2, <1>3, <1>6
  <2> QED
    BY <1>4, <2>1
<1> QED
  BY <1>5, <1>6

\* A queue that could give out a task still can after an enqueue, unless its
\* size wraps around to 0, after a cancellation and after a release.
LEMMA StaysUnlocked ==
    ASSUME NEW q \in Queue, NEW q2 \in Queue, NEW concurrency \in UInt,
           ~IsLocked(q, concurrency),
           \/ /\ q.cancelled_tasks # <<>> => q2.cancelled_tasks # <<>>
              /\ q2.size \in {q.size, UIntPlus(q.size, 1)}
              /\ q.size # UIntSpan - 1
              /\ q2.running_tasks = q.running_tasks
           \/ /\ \/ q2.cancelled_tasks # <<>>
                 \/ q.cancelled_tasks = <<>> /\ q2.size = q.size
              /\ q2.running_tasks = q.running_tasks
           \/ /\ q2.cancelled_tasks = q.cancelled_tasks
              /\ q2.size = q.size
              /\ q2.running_tasks <= q.running_tasks
    PROVE  ~IsLocked(q2, concurrency)
<1> /\ q.size \in UInt /\ q2.size \in UInt
    /\ q.running_tasks \in UInt /\ q2.running_tasks \in UInt
  BY DEF Queue
<1> q.size # UIntSpan - 1 => UIntPlus(q.size, 1) = q.size + 1
  BY QueueAssumption, UIntExact DEF UInt
<1> HIDE DEF Queue
<1> QED
  BY QueueAssumption DEF IsLocked, UInt

-----------------------------------------------------------------------------
(* Queues whose lists are linked as the code means them.                   *)

\* A list reaches no cell twice.
NoRepeat(list) == \A k, m \in 1 .. Len(list) : k # m => list[k] # list[m]

\* The lists of a queue share no cell, and last_task is the last cell of the
\* list of pending tasks.
Proper(q) ==
    /\ NoRepeat(q.tasks) /\ NoRepeat(q.cancelled_tasks)
    /\ ToSet(q.tasks) \cap ToSet(q.cancelled_tasks) = {}
    /\ q.tasks # <<>> => q.last_task = q.tasks[Len(q.tasks)]

\* The cells of a list are its elements.
LEMMA ToSetOfList ==
    ASSUME NEW S, NEW list \in Seq(S)
    PROVE  /\ \A k \in 1 .. Len(list) : list[k] \in ToSet(list)
           /\ \A c \in ToSet(list) : \E k \in 1 .. Len(list) : list[k] = c
           /\ list = <<>> => ToSet(list) = {}
           /\ list # <<>> => Len(list) \in 1 .. Len(list)
  BY DEF ToSet

\* Appending a new cell.
LEMMA AppendProper ==
    ASSUME NEW list \in Seq(Cells), NEW new \in Cells, NoRepeat(list), new \notin ToSet(list)
    PROVE  /\ NoRepeat(Append(list, new))
           /\ ToSet(Append(list, new)) = ToSet(list) \cup {new}
           /\ Append(list, new) # <<>>
           /\ Append(list, new)[Len(Append(list, new))] = new
           /\ Append(list, new) \in Seq(Cells)
<1> DEFINE app == Append(list, new)
<1>1. /\ app \in Seq(Cells) /\ Len(app) = Len(list) + 1 /\ Len(list) \in Nat
      /\ app[Len(list) + 1] = new
      /\ \A k \in 1 .. Len(list) : app[k] = list[k]
  OBVIOUS
<1>2. /\ \A k \in 1 .. Len(list) : list[k] \in ToSet(list)
      /\ \A c \in ToSet(list) : \E k \in 1 .. Len(list) : list[k] = c
  BY ToSetOfList
<1> HIDE DEF app
<1>3. /\ \A k \in 1 .. Len(app) : app[k] \in ToSet(app)
      /\ \A c \in ToSet(app) : \E k \in 1 .. Len(app) : app[k] = c
  BY <1>1, ToSetOfList
<1>4. NoRepeat(app)
  BY <1>1, <1>2 DEF NoRepeat
<1>5. ToSet(app) \subseteq ToSet(list) \cup {new}
  BY <1>1, <1>2, <1>3
<1>6. ToSet(list) \cup {new} \subseteq ToSet(app)
  <2>1. new \in ToSet(app)
    <3> Len(list) + 1 \in 1 .. Len(app)
      BY <1>1
    <3> QED
      BY <1>1, <1>3
  <2>2. ASSUME NEW c \in ToSet(list) PROVE c \in ToSet(app)
    <3> PICK k \in 1 .. Len(list) : list[k] = c
      BY <1>2
    <3> k \in 1 .. Len(app) /\ app[k] = c
      BY <1>1
    <3> QED
      BY <1>3
  <2> QED
    BY <2>1, <2>2
<1>7. app # <<>> /\ app[Len(app)] = new
  BY <1>1
<1> QED
  BY <1>1, <1>4, <1>5, <1>6, <1>7 DEF app

\* The store through last_task appends when last_task is the last cell, and
\* lists without that cell do not notice.
LEMMA RelinkAtEnd ==
    ASSUME NEW list \in Seq(Cells), NEW cell, NEW new \in Cells, NoRepeat(list)
    PROVE  /\ list # <<>> /\ cell = list[Len(list)] => Relink(list, cell, new) = Append(list, new)
           /\ cell \notin ToSet(list) => Relink(list, cell, new) = list
<1>1. ASSUME list # <<>>, cell = list[Len(list)]
      PROVE  Relink(list, cell, new) = Append(list, new)
  <2> DEFINE n == CHOOSE k \in DOMAIN list : list[k] = cell
  <2>1. DOMAIN list = 1 .. Len(list) /\ Len(list) \in 1 .. Len(list) /\ cell \in ToSet(list)
    BY <1>1, ToSetOfList
  <2>2. n \in 1 .. Len(list) /\ list[n] = cell
    BY <1>1, <2>1
  <2>3. Relink(list, cell, new) = SubSeq(list, 1, n) \o <<new>>
    BY <2>1 DEF Relink
  <2> HIDE DEF n
  <2>4. n = Len(list)
    BY <1>1, <2>1, <2>2 DEF NoRepeat
  <2>5. SubSeq(list, 1, Len(list)) = list
    OBVIOUS
  <2>6. list \o <<new>> = Append(list, new)
    OBVIOUS
  <2> QED
    BY <2>3, <2>4, <2>5, <2>6
<1> QED
  BY <1>1 DEF Relink

\* The queues are proper, share no cell with queue i, and new is on no list.
CanLink(I, pool, i, new) ==
    /\ \A j \in I : Proper(pool[j]) /\ new \notin Reachable(pool[j])
    /\ \A j \in I : j # i => Reachable(pool[j]) \cap Reachable(pool[i]) = {}

\* EnqueueTask on proper queues that share no cell: the queue has one cell more,
\* the other queues and the cancelled tasks stay as they are.
LEMMA EnqueueProper ==
    ASSUME NEW I, NEW pool \in [I -> Queue], NEW i \in I, NEW new \in Cells,
           CanLink(I, pool, i, new), NEW j \in I
    PROVE  /\ Proper(EnqueueCell(pool, i, new)[j])
           /\ EnqueueCell(pool, i, new)[j].cancelled_tasks = pool[j].cancelled_tasks
           /\ j = i => Reachable(EnqueueCell(pool, i, new)[j]) = Reachable(pool[i]) \cup {new}
           /\ j # i => Reachable(EnqueueCell(pool, i, new)[j]) = Reachable(pool[j])
<1> DEFINE R == EnqueueCell(pool, i, new)
           last == pool[i].last_task
<1> USE DEF CanLink
<1>1. \A k \in I : /\ pool[k] \in Queue
                   /\ pool[k].tasks \in Seq(Cells) /\ pool[k].cancelled_tasks \in Seq(Cells)
  BY DEF Queue
<1>2. /\ new \notin ToSet(pool[i].tasks) /\ NoRepeat(pool[i].tasks)
      /\ new \notin ToSet(pool[i].cancelled_tasks)
  BY DEF Proper, Reachable
<1>3. SUFFICES /\ R[j].cancelled_tasks = pool[j].cancelled_tasks
               /\ j # i => /\ R[j].tasks = pool[j].tasks
                           /\ R[j].last_task = pool[j].last_task
               /\ j = i => /\ R[i].tasks = Append(pool[i].tasks, new)
                           /\ R[i].last_task = new
  <2>1. CASE j # i
    BY <1>3, <2>1 DEF Proper, Reachable
  <2>2. CASE j = i
    <3>1. /\ NoRepeat(Append(pool[i].tasks, new))
          /\ ToSet(Append(pool[i].tasks, new)) = ToSet(pool[i].tasks) \cup {new}
          /\ Append(pool[i].tasks, new)[Len(Append(pool[i].tasks, new))] = new
      BY <1>1, <1>2, AppendProper
    <3>2. R[i].tasks = Append(pool[i].tasks, new) /\ R[i].last_task = new
          /\ R[i].cancelled_tasks = pool[i].cancelled_tasks
      BY <1>3, <2>2
    <3> HIDE DEF R
    <3>3. Proper(R[i])
      BY <1>2, <3>1, <3>2 DEF Proper
    <3>4. Reachable(R[i]) = Reachable(pool[i]) \cup {new}
      BY <3>1, <3>2 DEF Reachable
    <3> QED
      BY <1>3, <2>2, <3>3, <3>4 DEF R
  <2> QED
    BY <2>1, <2>2
<1>4. ASSUME NEW mid \in [I -> Queue],
             mid[j].cancelled_tasks = pool[j].cancelled_tasks,
             j # i => mid[j].tasks = pool[j].tasks /\ mid[j].last_task = pool[j].last_task,
             j = i => mid[i].tasks = Append(pool[i].tasks, new),
             R = [mid EXCEPT ![i].last_task = new, ![i].size = UIntPlus(@, 1)]
      PROVE  /\ R[j].cancelled_tasks = pool[j].cancelled_tasks
             /\ j # i => /\ R[j].tasks = pool[j].tasks
                         /\ R[j].last_task = pool[j].last_task
             /\ j = i => /\ R[i].tasks = Append(pool[i].tasks, new)
                         /\ R[i].last_task = new
  <2> DEFINE r == [mid[i] EXCEPT !.last_task = new, !.size = UIntPlus(@, 1)]
  <2>1. mid[i] \in Queue
    OBVIOUS
  <2>2. /\ r.last_task = new /\ r.tasks = mid[i].tasks
        /\ r.cancelled_tasks = mid[i].cancelled_tasks
    BY <2>1 DEF Queue
  <2>3. R = [mid EXCEPT ![i] = r]
    BY <1>4
  <2> HIDE DEF r, R
  <2>4. CASE i = j
    BY <1>4, <2>2, <2>3, <2>4
  <2>5. CASE i # j
    BY <1>4, <2>3, <2>5
  <2> QED
    BY <2>4, <2>5
<1>5. CASE pool[i].tasks = <<>>
  <2> DEFINE r == [pool[i] EXCEPT !.tasks = <<new>>]
             mid == [pool EXCEPT ![i] = r]
  <2>1. /\ r \in Queue /\ r.tasks = <<new>>
        /\ r.cancelled_tasks = pool[i].cancelled_tasks
    <3> <<new>> \in Seq(Cells)
      OBVIOUS
    <3> QED
      BY <1>1 DEF Queue
  <2>2. R = [mid EXCEPT ![i].last_task = new, ![i].size = UIntPlus(@, 1)]
    BY <1>5 DEF EnqueueCell
  <2>3. /\ mid \in [I -> Queue] /\ mid[j].cancelled_tasks = pool[j].cancelled_tasks
        /\ j # i => mid[j] = pool[j]
        /\ j = i => mid[i].tasks = <<new>>
    <3> HIDE DEF r
    <3> QED
      BY <2>1
  <2>4. <<new>> = Append(pool[i].tasks, new)
    BY <1>5
  <2> HIDE DEF mid, R
  <2> QED
    BY <1>4, <2>2, <2>3, <2>4
<1>6. CASE pool[i].tasks # <<>>
  <2> DEFINE mid == [k \in I |-> [pool[k] EXCEPT
                        !.tasks = Relink(@, last, new),
                        !.cancelled_tasks = Relink(@, last, new)]]
  <2>1. \A k \in I : /\ Relink(pool[k].tasks, last, new) \in Seq(Cells)
                     /\ Relink(pool[k].cancelled_tasks, last, new) \in Seq(Cells)
    BY <1>1, RelinkType
  <2>2. mid \in [I -> Queue]
    BY <1>1, <2>1 DEF Queue
  <2>3. /\ mid[j].cancelled_tasks = Relink(pool[j].cancelled_tasks, last, new)
        /\ mid[j].tasks = Relink(pool[j].tasks, last, new)
        /\ mid[j].last_task = pool[j].last_task
    BY <1>1 DEF Queue
  <2>4. R = [mid EXCEPT ![i].last_task = new, ![i].size = UIntPlus(@, 1)]
    BY <1>6 DEF EnqueueCell
  <2>5. last = pool[i].tasks[Len(pool[i].tasks)] /\ last \in ToSet(pool[i].tasks)
    BY <1>1, <1>6, ToSetOfList DEF Proper
  <2> HIDE DEF mid, R, last
  <2>6. last \notin ToSet(pool[j].cancelled_tasks)
    <3>1. CASE j = i
      BY <2>5, <3>1 DEF Proper
    <3>2. CASE j # i
      BY <2>5, <3>2 DEF Reachable
    <3> QED
      BY <3>1, <3>2
  <2>7. j # i => last \notin ToSet(pool[j].tasks)
    BY <2>5 DEF Reachable
  <2>8. NoRepeat(pool[j].tasks) /\ NoRepeat(pool[j].cancelled_tasks)
    BY DEF Proper
  <2>9. Relink(pool[j].cancelled_tasks, last, new) = pool[j].cancelled_tasks
    BY <1>1, <2>6, <2>8, RelinkAtEnd
  <2>10. j # i => Relink(pool[j].tasks, last, new) = pool[j].tasks
    BY <1>1, <2>7, <2>8, RelinkAtEnd
  <2>11. j = i => Relink(pool[i].tasks, last, new) = Append(pool[i].tasks, new)
    BY <1>1, <1>2, <1>6, <2>5, RelinkAtEnd
  <2> QED
    BY <1>4, <2>2, <2>3, <2>4, <2>9, <2>10, <2>11
<1> HIDE DEF R
<1> QED
  BY <1>5, <1>6

\* The rest of a list.
LEMMA TailProper ==
    ASSUME NEW list \in Seq(Cells), list # <<>>, NoRepeat(list)
    PROVE  /\ NoRepeat(Tail(list))
           /\ ToSet(Tail(list)) = ToSet(list) \ {Head(list)}
           /\ Head(list) \in ToSet(list)
           /\ Tail(list) # <<>> => Tail(list)[Len(Tail(list))] = list[Len(list)]
<1> DEFINE rest == Tail(list)
<1>1. /\ rest \in Seq(Cells) /\ Len(list) \in Nat /\ Len(list) > 0
      /\ Len(rest) = Len(list) - 1
      /\ \A k \in 1 .. Len(rest) : rest[k] = list[k + 1]
      /\ Head(list) = list[1]
  OBVIOUS
<1>2. /\ \A k \in 1 .. Len(list) : list[k] \in ToSet(list)
      /\ \A c \in ToSet(list) : \E k \in 1 .. Len(list) : list[k] = c
  BY ToSetOfList
<1>0. rest # <<>> => Len(rest) > 0
  BY <1>1
<1> HIDE DEF rest
<1>3. /\ \A k \in 1 .. Len(rest) : rest[k] \in ToSet(rest)
      /\ \A c \in ToSet(rest) : \E k \in 1 .. Len(rest) : rest[k] = c
  BY <1>1, ToSetOfList
<1>4. NoRepeat(rest)
  BY <1>1 DEF NoRepeat
<1>5. ASSUME NEW c \in ToSet(rest) PROVE c \in ToSet(list) /\ c # Head(list)
  <2>1. PICK k \in 1 .. Len(rest) : rest[k] = c
    BY <1>3
  <2>2. k + 1 \in 1 .. Len(list) /\ 1 \in 1 .. Len(list) /\ k + 1 # 1 /\ list[k + 1] = c
    BY <1>1, <2>1
  <2> QED
    BY <1>1, <1>2, <2>2 DEF NoRepeat
<1>6. ASSUME NEW c \in ToSet(list), c # Head(list) PROVE c \in ToSet(rest)
  <2>1. PICK k \in 1 .. Len(list) : list[k] = c
    BY <1>2
  <2>2. k - 1 \in 1 .. Len(rest) /\ (k - 1) + 1 = k
    BY <1>1, <1>6, <2>1
  <2>3. rest[k - 1] = c
    BY <1>1, <2>1, <2>2
  <2> QED
    BY <1>3, <2>2, <2>3
<1>7. Head(list) \in ToSet(list)
  BY <1>1, <1>2
<1>8. rest # <<>> => rest[Len(rest)] = list[Len(list)]
  BY <1>0, <1>1
<1> QED
  BY <1>4, <1>5, <1>6, <1>7, <1>8 DEF rest

\* DequeueTask takes one cell out of a proper queue and leaves a proper one.
LEMMA DequeueProper ==
    ASSUME NEW q \in Queue, ~NullFirstTask(q), Proper(q)
    PROVE  /\ Proper(DequeueCell(q))
           /\ NextCell(q) \in Reachable(q)
           /\ Reachable(DequeueCell(q)) = Reachable(q) \ {NextCell(q)}
           /\ ToSet(DequeueCell(q).cancelled_tasks) \subseteq ToSet(q.cancelled_tasks)
           /\ q.cancelled_tasks # <<>> => NextCell(q) \in ToSet(q.cancelled_tasks)
<1>1. q.tasks \in Seq(Cells) /\ q.cancelled_tasks \in Seq(Cells)
  BY DEF Queue
<1>2. CASE q.cancelled_tasks # <<>>
  <2> DEFINE r == DequeueCell(q)
             rest == Tail(q.cancelled_tasks)
             c == Head(q.cancelled_tasks)
  <2>1. NextCell(q) = c
    BY <1>2 DEF NextCell
  <2>2. /\ r.cancelled_tasks = rest /\ r.tasks = q.tasks /\ r.last_task = q.last_task
    BY <1>2 DEF DequeueCell, Queue
  <2>3. /\ NoRepeat(rest) /\ ToSet(rest) = ToSet(q.cancelled_tasks) \ {c}
        /\ c \in ToSet(q.cancelled_tasks)
    BY <1>1, <1>2, TailProper DEF Proper
  <2> HIDE DEF r, rest, c
  <2>4. Proper(r)
    BY <2>2, <2>3 DEF Proper
  <2>5. Reachable(r) = Reachable(q) \ {c} /\ c \in Reachable(q)
    BY <2>2, <2>3 DEF Proper, Reachable
  <2> QED
    BY <2>1, <2>2, <2>3, <2>4, <2>5 DEF r
<1>3. CASE q.cancelled_tasks = <<>>
  <2> DEFINE r == DequeueCell(q)
             rest == Tail(q.tasks)
             c == Head(q.tasks)
  <2>0. q.tasks # <<>>
    BY <1>3 DEF NullFirstTask
  <2>1. NextCell(q) = c
    BY <1>3 DEF NextCell
  <2>2. /\ r.cancelled_tasks = q.cancelled_tasks /\ r.tasks = rest /\ r.last_task = q.last_task
    BY <1>3 DEF DequeueCell, Queue
  <2>3. /\ NoRepeat(rest) /\ ToSet(rest) = ToSet(q.tasks) \ {c}
        /\ c \in ToSet(q.tasks)
        /\ rest # <<>> => rest[Len(rest)] = q.tasks[Len(q.tasks)]
    BY <1>1, <2>0, TailProper DEF Proper
  <2> HIDE DEF r, rest, c
  <2>4. Proper(r)
    BY <2>0, <2>2, <2>3 DEF Proper
  <2>5. Reachable(r) = Reachable(q) \ {c} /\ c \in Reachable(q)
    BY <2>2, <2>3 DEF Proper, Reachable
  <2> QED
    BY <1>3, <2>1, <2>2, <2>4, <2>5 DEF r
<1> QED
  BY <1>2, <1>3

\* A list read backwards, in front of another list it shares no cell with.
LEMMA ReverseProper ==
    ASSUME NEW a \in Seq(Cells), NEW b \in Seq(Cells), NoRepeat(a), NoRepeat(b),
           ToSet(a) \cap ToSet(b) = {}
    PROVE  /\ NoRepeat(Reverse(a) \o b)
           /\ ToSet(Reverse(a) \o b) = ToSet(a) \cup ToSet(b)
<1> DEFINE s == Reverse(a) \o b
           n == Len(a)
<1>1. /\ n \in Nat /\ Len(b) \in Nat
      /\ Reverse(a) \in Seq(Cells) /\ Len(Reverse(a)) = n
      /\ \A k \in 1 .. n : Reverse(a)[k] = a[(n - k) + 1]
  BY ReverseType DEF Reverse
<1>2. /\ s \in Seq(Cells) /\ Len(s) = n + Len(b)
      /\ \A k \in 1 .. n : s[k] = Reverse(a)[k]
      /\ \A k \in 1 .. Len(b) : s[n + k] = b[k]
  <2> DEFINE back == Reverse(a)
  <2>1. back \in Seq(Cells) /\ Len(back) = n
    BY <1>1
  <2> HIDE DEF n, back
  <2>2. /\ back \o b \in Seq(Cells) /\ Len(back \o b) = Len(back) + Len(b)
        /\ \A k \in 1 .. Len(back) + Len(b) :
              (back \o b)[k] = IF k <= Len(back) THEN back[k] ELSE b[k - Len(back)]
    BY <2>1, ConcatProperties
  <2>3. /\ s \in Seq(Cells) /\ Len(s) = n + Len(b)
        /\ \A k \in 1 .. n + Len(b) : s[k] = IF k <= n THEN back[k] ELSE b[k - n]
    BY <2>1, <2>2 DEF back
  <2> HIDE DEF s
  <2>4. \A k \in 1 .. n : s[k] = back[k]
    BY <1>1, <2>3
  <2>5. ASSUME NEW k \in 1 .. Len(b) PROVE s[n + k] = b[k]
    <3> n + k \in 1 .. n + Len(b) /\ ~(n + k <= n) /\ (n + k) - n = k
      BY <1>1
    <3> QED
      BY <2>3
  <2> QED
    BY <2>3, <2>4, <2>5 DEF back
<1>3. /\ \A k \in 1 .. n : a[k] \in ToSet(a)
      /\ \A c \in ToSet(a) : \E k \in 1 .. n : a[k] = c
      /\ \A k \in 1 .. Len(b) : b[k] \in ToSet(b)
      /\ \A c \in ToSet(b) : \E k \in 1 .. Len(b) : b[k] = c
  <2>1. /\ \A k \in 1 .. Len(a) : a[k] \in ToSet(a)
        /\ \A c \in ToSet(a) : \E k \in 1 .. Len(a) : a[k] = c
    BY ToSetOfList
  <2>2. /\ \A k \in 1 .. Len(b) : b[k] \in ToSet(b)
        /\ \A c \in ToSet(b) : \E k \in 1 .. Len(b) : b[k] = c
    BY ToSetOfList
  <2> QED
    BY <2>1, <2>2
<1> HIDE DEF s, n
<1>4. /\ \A k \in 1 .. Len(s) : s[k] \in ToSet(s)
      /\ \A c \in ToSet(s) : \E k \in 1 .. Len(s) : s[k] = c
  BY <1>2, ToSetOfList
<1>5. \A k \in 1 .. n : (n - k) + 1 \in 1 .. n /\ s[k] = a[(n - k) + 1] /\ s[k] \in ToSet(a)
  BY <1>1, <1>2, <1>3
<1>6. \A k \in 1 .. Len(s) : k > n => /\ k - n \in 1 .. Len(b)
                                      /\ s[k] = b[k - n] /\ s[k] \in ToSet(b)
  <2> TAKE k \in 1 .. Len(s)
  <2> HAVE k > n
  <2>1. k - n \in 1 .. Len(b) /\ n + (k - n) = k
    BY <1>1, <1>2
  <2> QED
    BY <1>2, <1>3, <2>1
<1>7. NoRepeat(s)
  <2> SUFFICES ASSUME NEW k \in 1 .. Len(s), NEW m \in 1 .. Len(s), k < m
               PROVE  s[k] # s[m]
    BY <1>1, <1>2 DEF NoRepeat
  <2>1. CASE m <= n
    <3>1. k \in 1 .. n /\ m \in 1 .. n /\ (n - k) + 1 # (n - m) + 1
      BY <1>1, <2>1
    <3> QED
      BY <1>5, <3>1 DEF NoRepeat, n
  <2>2. CASE k <= n /\ m > n
    <3> k \in 1 .. n
      BY <1>1, <2>2
    <3> QED
      BY <1>5, <1>6, <2>2
  <2>3. CASE k > n
    <3>1. m > n /\ k - n # m - n
      BY <1>1, <2>3
    <3> QED
      BY <1>6, <2>3, <3>1 DEF NoRepeat
  <2> QED
    BY <1>1, <2>1, <2>2, <2>3
<1>8. ToSet(s) \subseteq ToSet(a) \cup ToSet(b)
  <2> SUFFICES ASSUME NEW k \in 1 .. Len(s) PROVE s[k] \in ToSet(a) \cup ToSet(b)
    BY <1>4
  <2>1. k > n \/ k \in 1 .. n
    BY <1>1
  <2> QED
    BY <1>5, <1>6, <2>1
<1>9. ToSet(a) \subseteq ToSet(s)
  <2> SUFFICES ASSUME NEW k \in 1 .. n PROVE a[k] \in ToSet(s)
    BY <1>3
  <2>1. /\ (n - k) + 1 \in 1 .. n /\ (n - k) + 1 \in 1 .. Len(s)
        /\ (n - ((n - k) + 1)) + 1 = k
    BY <1>1, <1>2
  <2> QED
    BY <1>4, <1>5, <2>1
<1>10. ToSet(b) \subseteq ToSet(s)
  <2> SUFFICES ASSUME NEW k \in 1 .. Len(b) PROVE b[k] \in ToSet(s)
    BY <1>3
  <2>1. n + k \in 1 .. Len(s)
    BY <1>1, <1>2
  <2> QED
    BY <1>2, <1>4, <2>1
<1> QED
  BY <1>7, <1>8, <1>9, <1>10 DEF s

\* CancelTasks on a queue whose pending tasks are all the instance's, or none:
\* every cell stays on a list, and the queue proper.
LEMMA CancelProper ==
    ASSUME NEW q \in Queue, NEW mine, Proper(q),
           ToSet(q.tasks) \subseteq mine \/ ToSet(q.tasks) \cap mine = {}
    PROVE  /\ Proper(CancelCells(q, mine))
           /\ Reachable(CancelCells(q, mine)) = Reachable(q)
           /\ ToSet(CancelCells(q, mine).cancelled_tasks)
                \subseteq ToSet(q.cancelled_tasks) \cup (ToSet(q.tasks) \cap mine)
<1> DEFINE hit == {k \in 1 .. Len(q.tasks) : q.tasks[k] \in mine}
           r == CancelCells(q, mine)
<1>1. q.tasks \in Seq(Cells) /\ q.cancelled_tasks \in Seq(Cells)
  BY DEF Queue
<1>2. /\ r.tasks = Pick(q.tasks, (1 .. Len(q.tasks)) \ hit)
      /\ r.cancelled_tasks = Reverse(Pick(q.tasks, hit)) \o q.cancelled_tasks
      /\ r.last_task = q.last_task
  BY DEF CancelCells, Queue
<1>3. \A k \in 1 .. Len(q.tasks) : q.tasks[k] \in ToSet(q.tasks)
  BY <1>1, ToSetOfList
<1>4. ToSet(<<>>) = {} /\ NoRepeat(<<>>)
  <2>1. <<>> \in Seq(Cells) /\ Len(<<>>) = 0
    OBVIOUS
  <2>2. ToSet(<<>>) = {}
    BY <2>1, ToSetOfList
  <2> QED
    BY <2>1, <2>2 DEF NoRepeat
<1>5. CASE ToSet(q.tasks) \subseteq mine
  <2>1. hit = 1 .. Len(q.tasks) /\ (1 .. Len(q.tasks)) \ hit = {}
    BY <1>3, <1>5
  <2> HIDE DEF hit, r
  <2>2. r.tasks = <<>> /\ r.cancelled_tasks = Reverse(q.tasks) \o q.cancelled_tasks
    BY <1>1, <1>2, <2>1, PickAll, PickNone
  <2>3. /\ NoRepeat(Reverse(q.tasks) \o q.cancelled_tasks)
        /\ ToSet(Reverse(q.tasks) \o q.cancelled_tasks) = ToSet(q.tasks) \cup ToSet(q.cancelled_tasks)
    BY <1>1, ReverseProper DEF Proper
  <2>4. Proper(r)
    BY <1>4, <2>2, <2>3 DEF Proper
  <2>5. Reachable(r) = Reachable(q)
    BY <1>4, <2>2, <2>3 DEF Reachable
  <2> QED
    BY <1>5, <2>2, <2>3, <2>4, <2>5 DEF r
<1>6. CASE ToSet(q.tasks) \cap mine = {}
  <2>1. hit = {} /\ (1 .. Len(q.tasks)) \ hit = 1 .. Len(q.tasks)
    BY <1>3, <1>6
  <2> HIDE DEF hit, r
  <2>2. r.tasks = q.tasks /\ r.cancelled_tasks = Reverse(<<>>) \o q.cancelled_tasks
    BY <1>1, <1>2, <2>1, PickAll, PickNone
  <2>3. r.cancelled_tasks = q.cancelled_tasks
    <3> Reverse(<<>>) = <<>>
      BY Reverse(<<>>) \in Seq(Cells), Len(Reverse(<<>>)) = 0 DEF Reverse
    <3> <<>> \o q.cancelled_tasks = q.cancelled_tasks
      BY <1>1
    <3> QED
      BY <2>2
  <2> QED
    BY <1>2, <2>2, <2>3 DEF Proper, Reachable, r
<1> QED
  BY <1>5, <1>6

-----------------------------------------------------------------------------
(* The pool.                                                               *)

\* The invariant behind NoLostWakeup: the cached answer is right, and a Forker
\* that is blocked has announced itself.
SignalInv ==
    /\ ForkPossibleFresh
    /\ NoLostWakeup
    /\ fork_lock => fork_locked

\* Registered ids belong to a queue of the pool.
TidIndexInv == \A k \in Tids : tid_task[k] # NoTask => tid_queue_index[k] \in Queues

SlotInv == TidIndexInv /\ RunningMatchesTids

USE QueueAssumption, PoolAssumption

-----------------------------------------------------------------------------
(* Steps that leave the id table alone keep running_tasks as it was.       *)

\* Steps that touch neither the queues nor the id table leave the slots
\* counted.
LEMMA SlotFrame ==
    ASSUME SlotInv, UNCHANGED <<tid_task, tid_queue_index>>,
           \A i \in Queues : queue'[i].running_tasks = queue[i].running_tasks
    PROVE  SlotInv'
  BY DEF SlotInv, TidIndexInv, RunningMatchesTids, TidsOfQueue

\* Publish, the tail of the operations, re-establishes the signalling
\* invariant.
LEMMA PublishSignal ==
    ASSUME SignalInv, PoolTypeOK, NEW pool, Publish(pool)
    PROVE  SignalInv'
  BY DEF SignalInv, ForkPossibleFresh, NoLostWakeup, Publish, PoolTypeOK, PoolLocked

\* Publish preserves the types when it is given a pool of queues.
LEMMA PublishType ==
    ASSUME PoolTypeOK, NEW pool \in [Queues -> Queue], Publish(pool),
           cell_task' \in [Cells -> Tasks \cup {NoTask}],
           tid_task' \in [Tids -> Tasks \cup {NoTask}],
           tid_queue_index' \in [Tids -> Queues \cup {0}],
           lasttid' \in Tids
    PROVE  PoolTypeOK'
  BY DEF PoolTypeOK, Publish

\* QueuePool::EnqueueTask keeps the types, the signalling and the slots.
LEMMA EnqueueTaskPreserves ==
    ASSUME PoolTypeOK, NEW t \in Tasks, QueueOf[t] # -1, EnqueueTask(t)
    PROVE  /\ PoolTypeOK'
           /\ SignalInv => SignalInv'
           /\ SlotInv => SlotInv'
<1>1. PICK c \in Cells :
        /\ cell_task' = [cell_task EXCEPT ![c] = t]
        /\ Publish(EnqueueCell(queue, QueueOf[t], c))
        /\ UNCHANGED <<tid_task, tid_queue_index, lasttid>>
  BY DEF EnqueueTask
<1> DEFINE pool == EnqueueCell(queue, QueueOf[t], c)
<1>2. queue \in [Queues -> Queue] /\ QueueOf[t] \in Queues
  BY DEF PoolTypeOK
<1>3. /\ pool \in [Queues -> Queue]
      /\ \A j \in Queues : pool[j].running_tasks = queue[j].running_tasks
  BY <1>2, EnqueueType
<1> HIDE DEF pool
<1>4. Publish(pool)
  BY <1>1 DEF pool
<1>5. PoolTypeOK'
  BY <1>1, <1>3, <1>4, PublishType DEF PoolTypeOK
<1>6. SignalInv => SignalInv'
  BY <1>4, PublishSignal
<1>7. SlotInv => SlotInv'
  BY <1>1, <1>3, <1>4, SlotFrame DEF Publish
<1> QED
  BY <1>5, <1>6, <1>7

\* QueuePool::CancelTasks does too: it only moves cells between lists.
LEMMA CancelTasksPreserves ==
    ASSUME PoolTypeOK, NEW w, CancelTasks(w)
    PROVE  /\ PoolTypeOK'
           /\ SignalInv => SignalInv'
           /\ SlotInv => SlotInv'
<1> DEFINE pool == [i \in Queues |-> CancelCells(queue[i], CellsOf(w))]
<1>1. \A i \in Queues : queue[i] \in Queue
  BY DEF PoolTypeOK
<1>2. /\ pool \in [Queues -> Queue]
      /\ \A j \in Queues : pool[j].running_tasks = queue[j].running_tasks
  BY <1>1, CancelType
<1>3. Publish(pool) /\ UNCHANGED <<cell_task, tid_task, tid_queue_index, lasttid>>
  BY DEF CancelTasks
<1> HIDE DEF pool
<1>4. PoolTypeOK'
  BY <1>2, <1>3, PublishType DEF PoolTypeOK
<1>5. SignalInv => SignalInv'
  BY <1>3, PublishSignal
<1>6. SlotInv => SlotInv'
  BY <1>2, <1>3, SlotFrame DEF Publish
<1> QED
  BY <1>4, <1>5, <1>6

\* The Forker takes a task only when it is not blocked.
LEMMA DequeueTaskPreserves ==
    ASSUME PoolTypeOK, NEW i, NEW t, DequeueTask(i, t)
    PROVE  /\ PoolTypeOK'
           /\ SignalInv /\ ~fork_lock => SignalInv'
           /\ SlotInv => SlotInv'
<1> DEFINE q == DequeueCell(queue[i])
<1>1. i \in Queues /\ queue[i] \in Queue /\ ~NullFirstTask(queue[i])
  BY DEF DequeueTask, FirstUnlocked, PoolTypeOK
<1>2. q \in Queue /\ q.running_tasks = queue[i].running_tasks
  BY <1>1, DequeueType
<1>3. /\ queue' = [queue EXCEPT ![i] = q]
      /\ fork_possible' = ~PoolLocked(queue')
      /\ cell_task' = [cell_task EXCEPT ![NextCell(queue[i])] = NoTask]
      /\ fork_locked' = FALSE
      /\ UNCHANGED <<tid_task, tid_queue_index, lasttid, fork_lock, qp_shutting_down>>
  BY DEF DequeueTask
<1> HIDE DEF q
<1>4. PoolTypeOK'
  <2> queue' \in [Queues -> Queue] /\ fork_possible' \in BOOLEAN
    BY <1>1, <1>2, <1>3 DEF PoolTypeOK
  <2> cell_task' \in [Cells -> Tasks \cup {NoTask}]
    BY <1>3 DEF PoolTypeOK
  <2> QED
    BY <1>3 DEF PoolTypeOK
<1>5. SignalInv /\ ~fork_lock => SignalInv'
  BY <1>3 DEF SignalInv, ForkPossibleFresh, NoLostWakeup, PoolLocked
<1>6. SlotInv => SlotInv'
  BY <1>1, <1>2, <1>3, SlotFrame DEF PoolTypeOK
<1> QED
  BY <1>4, <1>5, <1>6

\* The Forker blocks only when fork_possible, which is fresh, is false.
LEMMA DequeueWaitPreserves ==
    ASSUME PoolTypeOK, DequeueWait
    PROVE  /\ PoolTypeOK'
           /\ SignalInv => SignalInv'
           /\ SlotInv => SlotInv'
<1>1. PoolTypeOK'
  BY DEF PoolTypeOK, DequeueWait
<1>2. SignalInv => SignalInv'
  BY DEF SignalInv, ForkPossibleFresh, NoLostWakeup, DequeueWait, PoolLocked, PoolTypeOK
<1>3. SlotInv => SlotInv'
  BY SlotFrame DEF DequeueWait
<1> QED
  BY <1>1, <1>2, <1>3

\* DequeueTask returning false keeps them.
LEMMA DequeueFalsePreserves ==
    ASSUME PoolTypeOK, DequeueFalse
    PROVE  /\ PoolTypeOK'
           /\ SignalInv /\ ~fork_lock => SignalInv'
           /\ SlotInv => SlotInv'
<1>1. PoolTypeOK'
  BY DEF PoolTypeOK, DequeueFalse, poolVars
<1>2. SignalInv /\ ~fork_lock => SignalInv'
  BY DEF SignalInv, ForkPossibleFresh, NoLostWakeup, DequeueFalse, poolVars, PoolLocked
<1>3. SlotInv => SlotInv'
  BY SlotFrame DEF DequeueFalse, poolVars
<1> QED
  BY <1>1, <1>2, <1>3

\* QueuePool::Shutdown wakes a sleeping Forker.
LEMMA PoolShutdownPreserves ==
    ASSUME PoolTypeOK, PoolShutdown
    PROVE  /\ PoolTypeOK'
           /\ SignalInv => SignalInv'
           /\ SlotInv => SlotInv'
<1>1. PoolTypeOK'
  BY DEF PoolTypeOK, PoolShutdown
<1>2. SignalInv => SignalInv'
  BY DEF SignalInv, ForkPossibleFresh, NoLostWakeup, PoolShutdown, PoolLocked, PoolTypeOK
<1>3. SlotInv => SlotInv'
  BY SlotFrame DEF PoolShutdown
<1> QED
  BY <1>1, <1>2, <1>3

\* Steps that leave the pool alone keep its invariants.
LEMMA PoolFrame ==
    ASSUME PoolTypeOK, UNCHANGED poolVars
    PROVE  /\ PoolTypeOK'
           /\ SignalInv => SignalInv'
           /\ SlotInv => SlotInv'
<1>1. PoolTypeOK'
  BY DEF PoolTypeOK, poolVars
<1>2. SignalInv => SignalInv'
  BY DEF SignalInv, ForkPossibleFresh, NoLostWakeup, poolVars, PoolLocked
<1>3. SlotInv => SlotInv'
  BY SlotFrame DEF poolVars
<1> QED
  BY <1>1, <1>2, <1>3

-----------------------------------------------------------------------------
(* Steps that register or release an id.                                   *)

\* The ids of a queue are finitely many, and so are all the ids.
LEMMA TidsOfQueueFinite ==
    ASSUME NEW i
    PROVE  /\ IsFiniteSet(TidsOfQueue(i))
           /\ Cardinality(TidsOfQueue(i)) \in Nat
           /\ IsFiniteSet(Tids) /\ Cardinality(Tids) = MaxPid
<1>1. IsFiniteSet(Tids) /\ Cardinality(Tids) = MaxPid
  <2> MaxPid - 1 \in Int /\ 0 \in Int /\ ~(0 > MaxPid - 1) /\ (MaxPid - 1) - 0 + 1 = MaxPid
    OBVIOUS
  <2> QED
    BY FS_Interval DEF Tids
<1>2. TidsOfQueue(i) \in SUBSET Tids
  BY DEF TidsOfQueue
<1>3. IsFiniteSet(TidsOfQueue(i))
  BY <1>1, <1>2, FS_Subset
<1> QED
  BY <1>1, <1>3, FS_CardinalityType

\* The registration of a task keeps the types.
LEMMA RegisterTaskType ==
    ASSUME PoolTypeOK, NEW i \in Queues \cup {0}, NEW t \in Tasks \cup {NoTask},
           NEW tid \in Tids, RegisterTask(i, t, tid), lasttid' \in Tids
    PROVE  PoolTypeOK'
<1> DEFINE pool == [queue EXCEPT ![i] = ExecuteInQueue(@)]
<1>1. \A j \in Queues : queue[j] \in Queue /\ ExecuteInQueue(queue[j]) \in Queue
  BY RunningType DEF PoolTypeOK
<1>2. pool \in [Queues -> Queue]
  BY <1>1 DEF PoolTypeOK
<1>3. Publish(pool) /\ UNCHANGED cell_task
  BY DEF RegisterTask
<1> HIDE DEF pool
<1>4. /\ tid_task' \in [Tids -> Tasks \cup {NoTask}]
      /\ tid_queue_index' \in [Tids -> Queues \cup {0}]
  BY DEF RegisterTask, PoolTypeOK
<1> QED
  BY <1>2, <1>3, <1>4, PublishType DEF PoolTypeOK

\* Registering a free id adds one to both sides of RunningMatchesTids.
LEMMA RegisterTaskSlots ==
    ASSUME PoolTypeOK, SlotInv, NEW i \in Queues, NEW t \in Tasks,
           NEW tid \in Tids, tid_task[tid] = NoTask, RegisterTask(i, t, tid)
    PROVE  SlotInv'
<1>1. /\ tid_task' = [tid_task EXCEPT ![tid] = t]
      /\ tid_queue_index' = [tid_queue_index EXCEPT ![tid] = i]
      /\ queue' = [queue EXCEPT ![i] = ExecuteInQueue(queue[i])]
  BY DEF RegisterTask, Publish
<1>2. t # NoTask
  OBVIOUS
<1>3. TidIndexInv'
  BY <1>1, <1>2 DEF SlotInv, TidIndexInv, PoolTypeOK
<1>4. ASSUME NEW j \in Queues
      PROVE  queue'[j].running_tasks = Cardinality(TidsOfQueue(j)')
  <2>1. queue[j].running_tasks = Cardinality(TidsOfQueue(j)) /\ queue[j] \in Queue
    BY DEF SlotInv, RunningMatchesTids, PoolTypeOK
  <2>2. CASE j = i
    <3>1. TidsOfQueue(j)' = TidsOfQueue(j) \cup {tid} /\ tid \notin TidsOfQueue(j)
      BY <1>1, <1>2, <2>2 DEF TidsOfQueue, PoolTypeOK
    <3>2. Cardinality(TidsOfQueue(j)') = Cardinality(TidsOfQueue(j)) + 1
      BY <3>1, TidsOfQueueFinite, FS_AddElement
    <3>3. Cardinality(TidsOfQueue(j)') <= MaxPid
      <4> TidsOfQueue(j)' \in SUBSET Tids
        BY DEF TidsOfQueue
      <4> QED
        BY TidsOfQueueFinite, FS_Subset
    <3>4. queue'[j].running_tasks = UIntPlus(queue[j].running_tasks, 1)
      BY <1>1, <2>1, <2>2, RunningType DEF PoolTypeOK
    <3>5. queue[j].running_tasks \in UInt
      BY <2>1 DEF Queue
    <3>6. queue[j].running_tasks + 1 < UIntSpan
      BY <2>1, <3>2, <3>3, <3>5 DEF UInt
    <3> QED
      BY <2>1, <3>2, <3>4, <3>5, <3>6, UIntExact
  <2>3. CASE j # i
    <3>1. TidsOfQueue(j)' = TidsOfQueue(j)
      BY <1>1, <2>3 DEF TidsOfQueue, PoolTypeOK
    <3>2. queue'[j] = queue[j]
      BY <1>1, <2>3 DEF PoolTypeOK
    <3> QED
      BY <2>1, <3>1, <3>2
  <2> QED
    BY <2>2, <2>3
<1> QED
  BY <1>3, <1>4 DEF SlotInv, RunningMatchesTids

\* QueuePool::TerminateTask takes one off both sides of RunningMatchesTids.
LEMMA TerminateTaskPreserves ==
    ASSUME PoolTypeOK, NEW tid \in Tids, TerminateTask(tid)
    PROVE  /\ PoolTypeOK'
           /\ SignalInv => SignalInv'
           /\ SlotInv => SlotInv'
<1> DEFINE i == tid_queue_index[tid]
           pool == [queue EXCEPT ![i] = TerminateInQueue(@)]
<1>1. /\ tid_task[tid] # NoTask
      /\ tid_task' = [tid_task EXCEPT ![tid] = NoTask]
      /\ tid_queue_index' = [tid_queue_index EXCEPT ![tid] = 0]
      /\ Publish(pool)
      /\ UNCHANGED <<cell_task, lasttid>>
  BY DEF TerminateTask
<1>2. PoolTypeOK'
  <2>1. \A j \in Queues : queue[j] \in Queue /\ TerminateInQueue(queue[j]) \in Queue
    BY RunningType DEF PoolTypeOK
  <2>2. pool \in [Queues -> Queue]
    BY <2>1 DEF PoolTypeOK
  <2>3. /\ tid_task' \in [Tids -> Tasks \cup {NoTask}]
        /\ tid_queue_index' \in [Tids -> Queues \cup {0}]
    BY <1>1 DEF PoolTypeOK
  <2> HIDE DEF pool
  <2> QED
    BY <1>1, <2>2, <2>3, PublishType DEF PoolTypeOK
<1>3. SignalInv => SignalInv'
  <2> HIDE DEF pool
  <2> QED
    BY <1>1, PublishSignal
<1>4. ASSUME SlotInv PROVE SlotInv'
  <2>0. i \in Queues /\ queue' = [queue EXCEPT ![i] = TerminateInQueue(queue[i])]
    BY <1>1, <1>4 DEF SlotInv, TidIndexInv, Publish
  <2>1. TidIndexInv'
    BY <1>1, <1>4 DEF SlotInv, TidIndexInv, PoolTypeOK
  <2>2. ASSUME NEW j \in Queues
        PROVE  queue'[j].running_tasks = Cardinality(TidsOfQueue(j)')
    <3>1. queue[j].running_tasks = Cardinality(TidsOfQueue(j)) /\ queue[j] \in Queue
      BY <1>4 DEF SlotInv, RunningMatchesTids, PoolTypeOK
    <3>2. CASE j = i
      <4>1. TidsOfQueue(j)' = TidsOfQueue(j) \ {tid} /\ tid \in TidsOfQueue(j)
        BY <1>1, <3>2 DEF TidsOfQueue, PoolTypeOK
      <4>2. Cardinality(TidsOfQueue(j)') = Cardinality(TidsOfQueue(j)) - 1
        <5>1. IsFiniteSet(TidsOfQueue(j))
          BY TidsOfQueueFinite
        <5>2. Cardinality(TidsOfQueue(j) \ {tid}) = Cardinality(TidsOfQueue(j)) - 1
          BY <4>1, <5>1, FS_RemoveElement
        <5> QED
          BY <4>1, <5>2
      <4>3. Cardinality(TidsOfQueue(j)) \in Nat /\ Cardinality(TidsOfQueue(j)) # 0
        BY <4>1, TidsOfQueueFinite, FS_EmptySet
      <4>4. queue'[j].running_tasks = UIntMinus(queue[j].running_tasks, 1)
        BY <2>0, <3>1, <3>2, RunningType DEF PoolTypeOK
      <4>5. queue[j].running_tasks \in UInt /\ queue[j].running_tasks > 0
        BY <3>1, <4>3 DEF Queue, UInt
      <4> QED
        BY <3>1, <4>2, <4>4, <4>5, UIntExact
    <3>3. CASE j # i
      <4>1. TidsOfQueue(j)' = TidsOfQueue(j)
        BY <1>1, <3>3 DEF TidsOfQueue, PoolTypeOK
      <4>2. queue'[j] = queue[j]
        BY <2>0, <3>3 DEF PoolTypeOK
      <4> QED
        BY <3>1, <4>1, <4>2
    <3> QED
      BY <3>2, <3>3
  <2> QED
    BY <2>1, <2>2 DEF SlotInv, RunningMatchesTids
<1> QED
  BY <1>2, <1>3, <1>4

\* ExecuteTask keeps the pool; the slots need a queue, a task and, when the id
\* is given by the caller, an id that nobody holds.
LEMMA ExecuteTaskPreserves ==
    ASSUME PoolTypeOK, NEW i \in Queues \cup {0}, NEW t \in Tasks \cup {NoTask},
           NEW task_id \in Tids, NEW ret \in Tids, ExecuteTask(i, t, task_id, ret)
    PROVE  /\ PoolTypeOK'
           /\ SignalInv => SignalInv'
           /\ SlotInv /\ i \in Queues /\ t \in Tasks
                /\ (task_id # 0 => tid_task[task_id] = NoTask) => SlotInv'
<1>1. CASE task_id # 0 /\ ret = task_id /\ RegisterTask(i, t, ret) /\ UNCHANGED lasttid
  <2> lasttid' \in Tids
    BY <1>1 DEF PoolTypeOK
  <2>1. PoolTypeOK'
    BY <1>1, RegisterTaskType
  <2>2. SignalInv => SignalInv'
    BY <1>1, PublishSignal DEF RegisterTask
  <2> QED
    BY <1>1, <2>1, <2>2, RegisterTaskSlots
<1>2. CASE task_id = 0 /\ FirstFreeTid(ret) /\ lasttid' = ret /\ RegisterTask(i, t, ret)
  <2>1. PoolTypeOK'
    BY <1>2, RegisterTaskType
  <2>2. SignalInv => SignalInv'
    BY <1>2, PublishSignal DEF RegisterTask
  <2>3. tid_task[ret] = NoTask
    BY <1>2 DEF FirstFreeTid
  <2> QED
    BY <1>2, <2>1, <2>2, <2>3, RegisterTaskSlots
<1>3. CASE task_id = 0 /\ NoFreeTid /\ ret = 0 /\ UNCHANGED poolVars
  BY <1>3, PoolFrame
<1> QED
  BY <1>1, <1>2, <1>3 DEF ExecuteTask

-----------------------------------------------------------------------------
(* The execution engine.                                                   *)

USE ManagerAssumption

\* The variables that are not the pool's are well typed.
ManagerTypeOK ==
    /\ forker \in [pc : ForkerPCs, task : Tasks \cup {NoTask},
                   queue : Queues \cup {0}, tid : Tids]
    /\ gatherer \in [pc : GathererPCs, pid : Pids \cup {0}, tid : Tids,
                     task : Tasks \cup {NoTask}, output : Tasks \cup {NoTask}]
    /\ main \in MainPCs
    /\ pending \subseteq Resumed
    /\ pm_shutting_down \in BOOLEAN
    /\ msgq \in Seq([pid : Pids \cup {0}, tid : Tids])
    /\ proc \in [Pids -> [stage : Stages, task : Tasks \cup {NoTask},
                          tid : Tids, child : BOOLEAN]]
    /\ log \in [Tids -> Tasks \cup {NoTask}]
    /\ status \in [Tasks -> Statuses]
    /\ runs \in [Tasks -> Nat]
    /\ cancelling \subseteq Workflows

\* The type invariant is the pool's and the manager's, which the steps
\* disturb apart.
LEMMA TypeParts == TypeOK <=> PoolTypeOK /\ ManagerTypeOK
  BY DEF TypeOK, ManagerTypeOK

\* Where the threads are: the Forker is blocked only inside DequeueTask, it
\* carries a task of a queue of the pool, and both threads start after the
\* resume.
ThreadInv ==
    /\ fork_lock => forker.pc = "waiting"
    /\ forker.pc = "register" => forker.queue \in Queues /\ forker.task \in Tasks
    /\ main = "resuming" => forker.pc = "off" /\ gatherer.pc = "off"

\* Ids still to be restored at boot are free.
ResumeInv ==
    main = "resuming" => \A t \in pending : tid_task[ResumeTid[t]] = NoTask

-----------------------------------------------------------------------------
(* Small facts used throughout.                                            *)

\* 0, the request for a new id, is itself an id: the value ExecuteTask
\* returns when none is free.
LEMMA ZeroTid == 0 \in Tids
  BY PoolAssumption DEF Tids

\* The record a thread keeps when it begins a turn of its loop is well typed.
LEMMA AtTypes ==
    /\ \A pc \in ForkerPCs : ForkerAt(pc) \in [pc : ForkerPCs, task : Tasks \cup {NoTask},
                                               queue : Queues \cup {0}, tid : Tids]
    /\ \A pc \in GathererPCs :
          GathererAt(pc) \in [pc : GathererPCs, pid : Pids \cup {0}, tid : Tids,
                              task : Tasks \cup {NoTask}, output : Tasks \cup {NoTask}]
    /\ NoProc \in [stage : Stages, task : Tasks \cup {NoTask}, tid : Tids, child : BOOLEAN]
    /\ ShutdownMsg \in [pid : Pids \cup {0}, tid : Tids]
  BY ZeroTid DEF ForkerAt, GathererAt, NoProc, ShutdownMsg, Stages

\* The constructor of QueuePool establishes the pool's part of the invariant.
LEMMA InitPool ==
    ASSUME PoolInit
    PROVE  PoolTypeOK /\ SignalInv /\ SlotInv
<1>1. EmptyQueue \in Queue /\ EmptyQueue.running_tasks = 0
  <2> <<>> \in Seq(Cells) /\ 0 \in UInt
    BY DEF UInt
  <2> QED
    BY DEF EmptyQueue, Queue
<1>2. PoolTypeOK
  BY <1>1, ZeroTid DEF PoolInit, PoolTypeOK
<1>3. SignalInv
  <2> PoolLocked(queue)
    BY DEF PoolInit, PoolLocked, IsLocked, EmptyQueue
  <2> QED
    BY DEF PoolInit, SignalInv, ForkPossibleFresh, NoLostWakeup
<1>4. SlotInv
  <2>1. \A i \in Queues : TidsOfQueue(i) = {}
    BY DEF PoolInit, TidsOfQueue
  <2>2. RunningMatchesTids
    BY <1>1, <2>1, FS_EmptySet DEF PoolInit, RunningMatchesTids
  <2> QED
    BY <2>2 DEF PoolInit, SlotInv, TidIndexInv
<1> QED
  BY <1>2, <1>3, <1>4

\* Boot establishes the manager's part, whatever was left running or in the
\* message queue.
LEMMA InitManager ==
    ASSUME Init
    PROVE  ManagerTypeOK /\ ThreadInv /\ ResumeInv
<1>1. msgq \in Seq([pid : Pids \cup {0}, tid : Tids])
  <2> msgq = <<>> \/ msgq = <<ShutdownMsg>>
    BY DEF Init
  <2> DEFINE M == [pid : Pids \cup {0}, tid : Tids]
  <2> ShutdownMsg \in M
    BY AtTypes
  <2> HIDE DEF M
  <2> <<>> \in Seq(M) /\ <<ShutdownMsg>> \in Seq(M)
    OBVIOUS
  <2> QED
    BY DEF M
<1>2. proc \in [Pids -> [stage : Stages, task : Tasks \cup {NoTask},
                         tid : Tids, child : BOOLEAN]]
  <2>1. PICK pid \in Injection(Resumed, Pids), stray \in Injection(Strays, Pids) :
         proc = [p \in Pids |->
                   IF \E t \in Resumed : pid[t] = p
                   THEN LET t == CHOOSE t \in Resumed : pid[t] = p
                        IN  LeftOver(t, ResumeTid[t])
                   ELSE IF \E k \in Strays : stray[k] = p
                   THEN LeftOver(NoTask, CHOOSE k \in Strays : stray[k] = p)
                   ELSE NoProc]
    BY DEF Init
  <2>2. ASSUME NEW p \in Pids
        PROVE  proc[p] \in [stage : Stages, task : Tasks \cup {NoTask},
                            tid : Tids, child : BOOLEAN]
    <3>1. CASE \E t \in Resumed : pid[t] = p
      <4> DEFINE t == CHOOSE t \in Resumed : pid[t] = p
      <4>1. t \in Resumed
        BY <3>1
      <4> HIDE DEF t
      <4>2. proc[p] = LeftOver(t, ResumeTid[t])
        BY <2>1, <3>1 DEF t
      <4>3. t \in Tasks /\ ResumeTid[t] \in Tids
        BY <4>1, ManagerAssumption
      <4> QED
        BY <4>2, <4>3 DEF Stages, LeftOver
    <3>2. CASE ~(\E t \in Resumed : pid[t] = p) /\ \E k \in Strays : stray[k] = p
      <4> DEFINE k == CHOOSE k \in Strays : stray[k] = p
      <4>1. k \in Tids
        BY <3>2, ManagerAssumption
      <4>2. proc[p] = LeftOver(NoTask, k)
        BY <2>1, <3>2
      <4> HIDE DEF k
      <4> QED
        BY <4>1, <4>2 DEF Stages, LeftOver
    <3>3. CASE ~(\E t \in Resumed : pid[t] = p) /\ ~\E k \in Strays : stray[k] = p
      BY <2>1, <3>3, AtTypes
    <3> QED
      BY <3>1, <3>2, <3>3
  <2> QED
    BY <2>1, <2>2
<1>3. log \in [Tids -> Tasks \cup {NoTask}]
  BY DEF Init
<1>4. ManagerTypeOK
  BY <1>1, <1>2, <1>3, AtTypes
     DEF Init, ManagerTypeOK, ForkerPCs, GathererPCs, MainPCs, Statuses
<1>5. ThreadInv
  BY DEF Init, PoolInit, ThreadInv, ForkerAt, GathererAt
<1>6. ResumeInv
  BY DEF Init, PoolInit, ResumeInv
<1> QED
  BY <1>4, <1>5, <1>6

-----------------------------------------------------------------------------
(* Type correctness and the wake-up of the Forker: one step per action.    *)

EngineInv == TypeOK /\ SignalInv /\ ThreadInv

\* enqueue_task, Cancel and CancelTasks preserve the invariant of the engine.
LEMMA ClientSteps ==
    ASSUME EngineInv,
           \/ \E t \in Tasks : ClientEnqueue(t)
           \/ \E w \in MayCancel : ClientCancel(w) \/ ClientCancelTasks(w)
    PROVE  EngineInv'
<1> PoolTypeOK /\ ManagerTypeOK /\ SignalInv /\ ThreadInv
  BY TypeParts DEF EngineInv
<1> SUFFICES PoolTypeOK' /\ ManagerTypeOK' /\ SignalInv' /\ ThreadInv'
  BY TypeParts DEF EngineInv, TypeOK, ManagerTypeOK
<1>1. ASSUME NEW t \in Tasks, ClientEnqueue(t)
      PROVE  PoolTypeOK' /\ ManagerTypeOK' /\ SignalInv' /\ ThreadInv'
  <2>1. /\ UNCHANGED <<forker, gatherer, mainVars, procVars, cancelling>>
        /\ runs' = [runs EXCEPT ![t] = @ + 1]
        /\ \/ QueueOf[t] # -1 /\ EnqueueTask(t) /\ status' = [status EXCEPT ![t] = "QUEUED"]
           \/ status' = [status EXCEPT ![t] = "ABORTED"] /\ UNCHANGED poolVars
    BY <1>1 DEF ClientEnqueue
  <2>2. PoolTypeOK' /\ SignalInv'
    BY <2>1, EnqueueTaskPreserves, PoolFrame
  <2>3. ManagerTypeOK'
    <3>1. runs' \in [Tasks -> Nat]
      BY <2>1 DEF ManagerTypeOK
    <3>2. status' \in [Tasks -> Statuses]
      BY <2>1 DEF ManagerTypeOK, Statuses
    <3> QED
      BY <2>1, <3>1, <3>2 DEF ManagerTypeOK, mainVars, procVars
  <2>4. fork_lock' => fork_lock
    BY <2>1 DEF EnqueueTask, Publish, poolVars
  <2> QED
    BY <2>1, <2>2, <2>3, <2>4 DEF ThreadInv, mainVars
<1>2. ASSUME NEW w \in MayCancel, ClientCancel(w)
      PROVE  PoolTypeOK' /\ ManagerTypeOK' /\ SignalInv' /\ ThreadInv'
  <2>1. /\ UNCHANGED <<poolVars, forker, gatherer, mainVars, procVars, status, runs>>
        /\ cancelling' = cancelling \cup {w}
    BY <1>2 DEF ClientCancel
  <2>2. PoolTypeOK' /\ SignalInv'
    BY <2>1, PoolFrame
  <2>3. ManagerTypeOK'
    BY <2>1 DEF ManagerTypeOK, mainVars, procVars
  <2> QED
    BY <2>1, <2>2, <2>3 DEF ThreadInv, mainVars, poolVars
<1>3. ASSUME NEW w \in MayCancel, ClientCancelTasks(w)
      PROVE  PoolTypeOK' /\ ManagerTypeOK' /\ SignalInv' /\ ThreadInv'
  <2>1. /\ UNCHANGED <<forker, gatherer, mainVars, procVars, clientVars>>
        /\ CancelTasks(w)
    BY <1>3 DEF ClientCancelTasks
  <2>2. PoolTypeOK' /\ SignalInv'
    BY <2>1, CancelTasksPreserves
  <2>3. ManagerTypeOK'
    BY <2>1 DEF ManagerTypeOK, mainVars, procVars, clientVars
  <2>4. fork_lock' => fork_lock
    BY <2>1 DEF CancelTasks, Publish
  <2> QED
    BY <2>1, <2>2, <2>3, <2>4 DEF ThreadInv, mainVars
<1> QED
  BY <1>1, <1>2, <1>3

\* Every step of ProcessManager::Fork, a spurious wake-up included, preserves
\* it.
LEMMA ForkerSteps ==
    ASSUME EngineInv, Forker \/ ForkerSpuriousWakeup
    PROVE  EngineInv'
<1> PoolTypeOK /\ ManagerTypeOK /\ SignalInv /\ ThreadInv
  BY TypeParts DEF EngineInv
<1> SUFFICES PoolTypeOK' /\ ManagerTypeOK' /\ SignalInv' /\ ThreadInv'
  BY TypeParts DEF EngineInv, TypeOK, ManagerTypeOK
<1>0. PastForkLock => ~fork_lock
  BY DEF PastForkLock, ThreadInv
<1>1. CASE ForkerWait
  <2>1. PoolTypeOK' /\ SignalInv'
    BY <1>1, DequeueWaitPreserves DEF ForkerWait
  <2>2. forker' = ForkerAt("waiting") /\ forker.pc = "dequeue"
        /\ UNCHANGED <<gatherer, mainVars, procVars, clientVars>>
    BY <1>1 DEF ForkerWait
  <2>3. ManagerTypeOK'
    BY <2>2, AtTypes DEF ForkerPCs, ManagerTypeOK, mainVars, procVars, clientVars
  <2> QED
    BY <2>1, <2>2, <2>3 DEF ThreadInv, ForkerAt, mainVars
<1>2. CASE ForkerDequeue
  <2>1. PICK i \in Queues, t \in Tasks :
          /\ DequeueTask(i, t)
          /\ forker' = [forker EXCEPT !.pc = "register", !.task = t, !.queue = i]
          /\ UNCHANGED <<gatherer, mainVars, procVars, clientVars>>
    BY <1>2 DEF ForkerDequeue
  <2>2. ~fork_lock /\ forker.pc # "off"
    BY <1>0, <1>2 DEF ForkerDequeue, PastForkLock
  <2>3. PoolTypeOK' /\ SignalInv' /\ ~fork_lock'
    BY <2>1, <2>2, DequeueTaskPreserves DEF DequeueTask
  <2>4. ManagerTypeOK'
    BY <2>1 DEF ForkerPCs, ManagerTypeOK, mainVars, procVars, clientVars
  <2>5. forker'.pc = "register" /\ forker'.task = t /\ forker'.queue = i
    BY <2>1 DEF ManagerTypeOK
  <2> QED
    BY <2>1, <2>2, <2>3, <2>4, <2>5 DEF ThreadInv, mainVars
<1>3. CASE ForkerCrash
  <2>1. forker' = ForkerAt("crashed") /\ UNCHANGED <<poolVars, gatherer, mainVars, procVars, clientVars>>
    BY <1>3 DEF ForkerCrash, DequeueCrash
  <2>2. ~fork_lock /\ forker.pc # "off"
    BY <1>0, <1>3 DEF ForkerCrash, PastForkLock
  <2>3. PoolTypeOK' /\ SignalInv'
    BY <2>1, PoolFrame
  <2>4. ManagerTypeOK'
    BY <2>1, AtTypes DEF ForkerPCs, ManagerTypeOK, mainVars, procVars, clientVars
  <2> QED
    BY <2>1, <2>2, <2>3, <2>4 DEF ThreadInv, ForkerAt, mainVars, poolVars
<1>4. CASE ForkerExit
  <2>1. forker' = ForkerAt("exited") /\ UNCHANGED <<gatherer, mainVars, procVars, clientVars>>
    BY <1>4 DEF ForkerExit
  <2>2. ~fork_lock /\ forker.pc # "off"
    BY <1>0, <1>4 DEF ForkerExit, PastForkLock
  <2>3. PoolTypeOK' /\ SignalInv' /\ ~fork_lock'
    <3>1. DequeueFalse
      BY <1>4 DEF ForkerExit
    <3>2. PoolTypeOK' /\ SignalInv'
      BY <2>2, <3>1, DequeueFalsePreserves
    <3> QED
      BY <2>2, <3>1, <3>2 DEF DequeueFalse, poolVars
  <2>4. ManagerTypeOK'
    BY <2>1, AtTypes DEF ForkerPCs, ManagerTypeOK, mainVars, procVars, clientVars
  <2> QED
    BY <2>1, <2>2, <2>3, <2>4 DEF ThreadInv, ForkerAt, mainVars
<1>5. CASE ForkerRegister
  <2>1. PICK tid \in Tids :
          /\ ExecuteTask(forker.queue, forker.task, 0, tid)
          /\ forker' = [forker EXCEPT !.pc = "execute", !.tid = tid]
          /\ UNCHANGED <<gatherer, mainVars, procVars, clientVars>>
    BY <1>5 DEF ForkerRegister
  <2>2. forker.queue \in Queues \cup {0} /\ forker.task \in Tasks \cup {NoTask}
    BY DEF ManagerTypeOK
  <2>3. PoolTypeOK' /\ SignalInv'
    BY <2>1, <2>2, ZeroTid, ExecuteTaskPreserves
  <2>4. ManagerTypeOK'
    BY <2>1 DEF ForkerPCs, ManagerTypeOK, mainVars, procVars, clientVars
  <2>5. forker.pc = "register" /\ forker'.pc = "execute"
    BY <1>5, <2>1 DEF ForkerRegister, ManagerTypeOK
  <2>6. ~fork_lock'
    BY <2>1, <2>5 DEF ThreadInv, ExecuteTask, RegisterTask, Publish, poolVars
  <2> QED
    BY <2>1, <2>3, <2>4, <2>5, <2>6 DEF ThreadInv, mainVars
<1>6. CASE ForkerAbort \/ ForkerFork \/ ForkerExecuting
  <2>1. PoolTypeOK' /\ SignalInv' /\ UNCHANGED poolVars
    BY <1>6, PoolFrame DEF ForkerAbort, ForkerFork, ForkerExecuting
  <2>2. ManagerTypeOK'
    <3>1. CASE ForkerAbort
      <4>1. status' \in [Tasks -> Statuses]
        BY <3>1 DEF ForkerAbort, ManagerTypeOK, Statuses
      <4> QED
        BY <3>1, <4>1 DEF ForkerAbort, ForkerPCs, ManagerTypeOK, mainVars, procVars, clientVars
    <3>2. CASE ForkerFork
      <4>1. PICK p \in Pids :
              proc' = [proc EXCEPT ![p] = [stage |-> "forked", task |-> forker.task,
                                           tid |-> forker.tid, child |-> TRUE]]
        BY <3>2 DEF ForkerFork
      <4>2. proc' \in [Pids -> [stage : Stages, task : Tasks \cup {NoTask},
                                tid : Tids, child : BOOLEAN]]
        BY <4>1 DEF ManagerTypeOK, Stages
      <4> QED
        BY <3>2, <4>2 DEF ForkerFork, ForkerPCs, ManagerTypeOK, mainVars, procVars, clientVars
    <3>3. CASE ForkerExecuting
      <4>1. status' \in [Tasks -> Statuses]
        BY <3>3 DEF ForkerExecuting, ManagerTypeOK, Statuses
      <4> QED
        BY <3>3, <4>1, AtTypes DEF ForkerExecuting, ForkerPCs, ManagerTypeOK, mainVars, procVars, clientVars
    <3> QED
      BY <1>6, <3>1, <3>2, <3>3
  <2>3. /\ forker.pc \notin {"off", "waiting"}
        /\ forker'.pc \in {"release", "forked", "dequeue"}
        /\ UNCHANGED <<gatherer, mainVars>>
    BY <1>6 DEF ForkerAbort, ForkerFork, ForkerExecuting, ForkerAt, ManagerTypeOK
  <2> QED
    BY <2>1, <2>2, <2>3 DEF ThreadInv, mainVars, poolVars
<1>7. CASE ForkerRelease
  <2>1. /\ forker.pc = "release"
        /\ TerminateTask(forker.tid) \/ UNCHANGED poolVars
        /\ forker' = ForkerAt("dequeue")
        /\ UNCHANGED <<gatherer, mainVars, procVars, clientVars>>
    BY <1>7 DEF ForkerRelease, TerminateNotFound
  <2>2. forker.tid \in Tids
    BY DEF ManagerTypeOK
  <2>3. PoolTypeOK' /\ SignalInv'
    BY <2>1, <2>2, TerminateTaskPreserves, PoolFrame
  <2>4. ManagerTypeOK'
    BY <2>1, AtTypes DEF ForkerPCs, ManagerTypeOK, mainVars, procVars, clientVars
  <2>5. ~fork_lock'
    BY <2>1 DEF ThreadInv, TerminateTask, Publish, poolVars
  <2> QED
    BY <2>1, <2>3, <2>4, <2>5 DEF ThreadInv, ForkerAt, mainVars
<1>8. CASE ForkerSpuriousWakeup
  <2>1. /\ fork_lock /\ ~fork_lock'
        /\ UNCHANGED <<queue, cell_task, tid_task, tid_queue_index, lasttid, fork_locked,
                       fork_possible, qp_shutting_down,
                       forker, gatherer, mainVars, procVars, clientVars>>
    BY <1>8 DEF ForkerSpuriousWakeup
  <2>2. PoolTypeOK' /\ SignalInv'
    BY <1>8 DEF ForkerSpuriousWakeup, PoolTypeOK, SignalInv, ForkPossibleFresh,
                NoLostWakeup, PoolLocked
  <2>3. ManagerTypeOK'
    BY <2>1 DEF ManagerTypeOK, mainVars, procVars, clientVars
  <2> QED
    BY <2>1, <2>2, <2>3 DEF ThreadInv, mainVars
<1> QED
  BY <1>1, <1>2, <1>3, <1>4, <1>5, <1>6, <1>7, <1>8 DEF Forker

\* Every step of a monitor or of a child that dies preserves it.
LEMMA MonitorSteps ==
    ASSUME EngineInv, NEW p \in Pids, Monitor(p) \/ MonitorDie(p)
    PROVE  EngineInv'
<1> PoolTypeOK /\ ManagerTypeOK /\ SignalInv /\ ThreadInv
  BY TypeParts DEF EngineInv
<1> SUFFICES PoolTypeOK' /\ ManagerTypeOK' /\ SignalInv' /\ ThreadInv'
  BY TypeParts DEF EngineInv, TypeOK, ManagerTypeOK
<1> DEFINE Proc == [stage : Stages, task : Tasks \cup {NoTask}, tid : Tids, child : BOOLEAN]
<1>1. UNCHANGED <<poolVars, forker, gatherer, mainVars, clientVars>>
  BY DEF Monitor, MonitorStart, MonitorSend, MonitorExit, MonitorDie
<1>2. PoolTypeOK' /\ SignalInv' /\ ThreadInv'
  BY <1>1, PoolFrame DEF ThreadInv, mainVars, poolVars
<1>3. proc[p] \in Proc /\ proc[p].tid \in Tids /\ proc[p].task \in Tasks \cup {NoTask}
  BY DEF ManagerTypeOK
<1>4. proc' \in [Pids -> Proc]
  <2>1. CASE MonitorExit(p)
    <3>1. [proc[p] EXCEPT !.stage = "zombie"] \in Proc
      BY <1>3 DEF Stages
    <3>2. proc' = [proc EXCEPT ![p] = IF proc[p].child THEN [proc[p] EXCEPT !.stage = "zombie"]
                                                       ELSE NoProc]
      BY <2>1 DEF MonitorExit
    <3>3. NoProc \in Proc /\ proc \in [Pids -> Proc]
      BY AtTypes DEF ManagerTypeOK
    <3> HIDE DEF Proc
    <3> QED
      BY <3>1, <3>2, <3>3
  <2>2. CASE MonitorStart(p) \/ MonitorSend(p) \/ MonitorDie(p)
    <3>1. PICK st \in Stages : proc' = [proc EXCEPT ![p].stage = st]
      BY <2>2 DEF MonitorStart, MonitorSend, MonitorDie, Stages
    <3>2. [proc[p] EXCEPT !.stage = st] \in Proc
      BY <1>3
    <3>3. proc' = [proc EXCEPT ![p] = [proc[p] EXCEPT !.stage = st]] /\ proc \in [Pids -> Proc]
      BY <3>1 DEF ManagerTypeOK
    <3> HIDE DEF Proc
    <3> QED
      BY <3>2, <3>3
  <2> QED
    BY <2>1, <2>2 DEF Monitor
<1>5. log' \in [Tids -> Tasks \cup {NoTask}]
  BY <1>3 DEF Monitor, MonitorStart, MonitorSend, MonitorExit, MonitorDie, ManagerTypeOK
<1>6. msgq' \in Seq([pid : Pids \cup {0}, tid : Tids])
  <2>1. CASE MonitorSend(p)
    <3>1. [pid |-> p, tid |-> proc[p].tid] \in [pid : Pids \cup {0}, tid : Tids]
      BY <1>3
    <3> QED
      BY <2>1, <3>1, AppendProperties DEF MonitorSend, ManagerTypeOK
  <2>2. CASE UNCHANGED msgq
    BY <2>2 DEF ManagerTypeOK
  <2> QED
    BY <2>1, <2>2 DEF Monitor, MonitorStart, MonitorExit, MonitorDie
<1> QED
  BY <1>1, <1>2, <1>4, <1>5, <1>6 DEF ManagerTypeOK, mainVars, clientVars

\* Every step of ProcessManager::Gather, a failing msgrcv included, preserves
\* it.
LEMMA GathererSteps ==
    ASSUME EngineInv, Gatherer \/ GathererError
    PROVE  EngineInv'
<1> PoolTypeOK /\ ManagerTypeOK /\ SignalInv /\ ThreadInv
  BY TypeParts DEF EngineInv
<1> SUFFICES PoolTypeOK' /\ ManagerTypeOK' /\ SignalInv' /\ ThreadInv'
  BY TypeParts DEF EngineInv, TypeOK, ManagerTypeOK
<1> DEFINE Msg == [pid : Pids \cup {0}, tid : Tids]
<1>1. CASE GathererReceive
  <2>1. msgq \in Seq(Msg) /\ msgq # <<>> /\ msgq' = Tail(msgq)
    BY <1>1 DEF GathererReceive, ManagerTypeOK
  <2>2. msgq' \in Seq(Msg) /\ Head(msgq) \in Msg
    <3> HIDE DEF Msg
    <3> QED
      BY <2>1
  <2>3. /\ gatherer.pc = "receive"
        /\ \/ gatherer' = GathererAt("exited")
           \/ gatherer' = gatherer
           \/ gatherer' = [gatherer EXCEPT !.pc = "reap", !.pid = Head(msgq).pid,
                                           !.tid = Head(msgq).tid]
        /\ UNCHANGED <<poolVars, forker, mainVars, proc, log, clientVars>>
    BY <1>1 DEF GathererReceive
  <2>4. Head(msgq).pid \in Pids \cup {0} /\ Head(msgq).tid \in Tids
    BY <2>2
  <2>5. gatherer' \in [pc : GathererPCs, pid : Pids \cup {0}, tid : Tids,
                       task : Tasks \cup {NoTask}, output : Tasks \cup {NoTask}]
    BY <2>3, <2>4, AtTypes DEF GathererPCs, ManagerTypeOK
  <2>6. ManagerTypeOK'
    BY <2>2, <2>3, <2>5 DEF ManagerTypeOK, mainVars, clientVars
  <2> QED
    BY <2>3, <2>6, PoolFrame DEF ThreadInv, mainVars, poolVars
<1>2. CASE GathererReap
  <2>1. /\ gatherer.pc = "reap"
        /\ proc' = [proc EXCEPT ![gatherer.pid] = NoProc] \/ proc' = proc
        /\ gatherer' = [gatherer EXCEPT !.pc = "read"]
        /\ UNCHANGED <<poolVars, forker, mainVars, msgq, log, clientVars>>
    BY <1>2 DEF GathererReap
  <2>2. proc' \in [Pids -> [stage : Stages, task : Tasks \cup {NoTask},
                            tid : Tids, child : BOOLEAN]]
    BY <2>1, AtTypes DEF ManagerTypeOK
  <2>3. ManagerTypeOK'
    BY <2>1, <2>2 DEF GathererPCs, ManagerTypeOK, mainVars, clientVars
  <2> QED
    BY <2>1, <2>3, PoolFrame DEF ThreadInv, mainVars, poolVars
<1>3. CASE GathererRead
  <2>1. /\ gatherer.pc = "read"
        /\ gatherer' = [gatherer EXCEPT !.pc = "terminate", !.output = log[gatherer.tid]]
        /\ log' = [log EXCEPT ![gatherer.tid] = NoTask] \/ log' = log
        /\ UNCHANGED <<poolVars, forker, mainVars, msgq, proc, clientVars>>
    BY <1>3 DEF GathererRead
  <2>2. log[gatherer.tid] \in Tasks \cup {NoTask}
    BY DEF ManagerTypeOK
  <2>3. log' \in [Tids -> Tasks \cup {NoTask}]
    BY <2>1 DEF ManagerTypeOK
  <2>4. ManagerTypeOK'
    BY <2>1, <2>2, <2>3 DEF GathererPCs, ManagerTypeOK, mainVars, clientVars
  <2> QED
    BY <2>1, <2>4, PoolFrame DEF ThreadInv, mainVars, poolVars
<1>4. CASE GathererTerminate
  <2>1. /\ gatherer.pc = "terminate"
        /\ TerminateTask(gatherer.tid) \/ UNCHANGED poolVars
        /\ \/ gatherer' = [gatherer EXCEPT !.pc = "stop", !.task = tid_task[gatherer.tid]]
           \/ gatherer' = GathererAt("receive")
        /\ UNCHANGED <<forker, mainVars, procVars, clientVars>>
    BY <1>4 DEF GathererTerminate, TerminateNotFound
  <2>2. gatherer.tid \in Tids /\ tid_task[gatherer.tid] \in Tasks \cup {NoTask}
    BY DEF ManagerTypeOK, PoolTypeOK
  <2>3. PoolTypeOK' /\ SignalInv'
    BY <2>1, <2>2, TerminateTaskPreserves, PoolFrame
  <2>4. ManagerTypeOK'
    BY <2>1, <2>2, AtTypes DEF GathererPCs, ManagerTypeOK, mainVars, procVars, clientVars
  <2>5. fork_lock' => fork_lock
    BY <2>1 DEF TerminateTask, Publish, poolVars
  <2> QED
    BY <2>1, <2>3, <2>4, <2>5 DEF ThreadInv, mainVars
<1>5. CASE GathererStop
  <2>1. /\ gatherer.pc = "stop"
        /\ status' = [status EXCEPT ![gatherer.task] = "TERMINATED"]
        /\ gatherer' = GathererAt("receive")
        /\ UNCHANGED <<poolVars, forker, mainVars, procVars, runs, cancelling>>
    BY <1>5 DEF GathererStop
  <2>2. status' \in [Tasks -> Statuses]
    BY <2>1 DEF ManagerTypeOK, Statuses
  <2>3. ManagerTypeOK'
    BY <2>1, <2>2, AtTypes DEF GathererPCs, ManagerTypeOK, mainVars, procVars, clientVars
  <2> QED
    BY <2>1, <2>3, PoolFrame DEF ThreadInv, mainVars, poolVars
<1>6. CASE GathererError
  <2>1. /\ gatherer.pc = "receive"
        /\ gatherer' = GathererAt("exited")
        /\ UNCHANGED <<poolVars, forker, mainVars, procVars, clientVars>>
    BY <1>6 DEF GathererError
  <2>2. ManagerTypeOK'
    BY <2>1, AtTypes DEF GathererPCs, ManagerTypeOK, mainVars, procVars, clientVars
  <2> QED
    BY <2>1, <2>2, PoolFrame DEF ThreadInv, mainVars, poolVars
<1> QED
  BY <1>1, <1>2, <1>3, <1>4, <1>5, <1>6 DEF Gatherer

\* Resume at boot, start and shutdown preserve it.
LEMMA MainSteps ==
    ASSUME EngineInv,
           (\E t \in Tasks : MainResume(t)) \/ MainStart \/ MainShutdown \/ Shutdown
    PROVE  EngineInv'
<1> PoolTypeOK /\ ManagerTypeOK /\ SignalInv /\ ThreadInv
  BY TypeParts DEF EngineInv
<1> SUFFICES PoolTypeOK' /\ ManagerTypeOK' /\ SignalInv' /\ ThreadInv'
  BY TypeParts DEF EngineInv, TypeOK, ManagerTypeOK
<1>1. ASSUME NEW t \in Tasks, MainResume(t)
      PROVE  PoolTypeOK' /\ ManagerTypeOK' /\ SignalInv' /\ ThreadInv'
  <2>1. /\ main = "resuming" /\ t \in Resumed
        /\ pending' = pending \ {t}
        /\ \/ QueueOf[t] # -1 /\ \E ret \in Tids : ExecuteTask(QueueOf[t], t, ResumeTid[t], ret)
           \/ UNCHANGED poolVars
        /\ UNCHANGED <<forker, gatherer, main, pm_shutting_down, procVars, clientVars>>
    BY <1>1 DEF MainResume, ManagerTypeOK
  <2>2. PoolTypeOK' /\ SignalInv' /\ (fork_lock' => fork_lock)
    <3>1. CASE UNCHANGED poolVars
      BY <3>1, PoolFrame DEF poolVars
    <3>2. CASE QueueOf[t] # -1 /\ \E ret \in Tids : ExecuteTask(QueueOf[t], t, ResumeTid[t], ret)
      <4>1. QueueOf[t] \in Queues \cup {0} /\ ResumeTid[t] \in Tids
        BY <2>1, <3>2
      <4>2. PICK ret \in Tids : ExecuteTask(QueueOf[t], t, ResumeTid[t], ret)
        BY <3>2
      <4>3. PoolTypeOK' /\ SignalInv'
        BY <4>1, <4>2, ExecuteTaskPreserves
      <4>4. UNCHANGED poolVars \/ RegisterTask(QueueOf[t], t, ret)
        BY <4>2 DEF ExecuteTask
      <4>5. fork_lock' => fork_lock
        BY <4>4 DEF RegisterTask, Publish, poolVars
      <4> QED
        BY <4>3, <4>5
    <3> QED
      BY <2>1, <3>1, <3>2
  <2>3. ManagerTypeOK'
    BY <2>1 DEF ManagerTypeOK, procVars, clientVars
  <2> QED
    BY <2>1, <2>2, <2>3 DEF ThreadInv
<1>2. CASE MainStart
  <2>1. /\ main = "resuming" /\ main' = "serving"
        /\ forker' = ForkerAt("dequeue") /\ gatherer' = GathererAt("receive")
        /\ UNCHANGED <<poolVars, pending, pm_shutting_down, procVars, clientVars>>
    BY <1>2 DEF MainStart
  <2>2. ManagerTypeOK'
    BY <2>1, AtTypes DEF ForkerPCs, GathererPCs, MainPCs, ManagerTypeOK, procVars, clientVars
  <2> QED
    BY <2>1, <2>2, PoolFrame DEF ThreadInv, ForkerAt, poolVars
<1>3. CASE MainShutdown \/ MainJoin
  <2>1. /\ main' \in MainPCs \ {"resuming"}
        /\ pm_shutting_down' \in BOOLEAN
        /\ UNCHANGED <<poolVars, forker, gatherer, pending, procVars, clientVars>>
    BY <1>3 DEF MainShutdown, MainJoin, MainPCs, ManagerTypeOK
  <2>2. ManagerTypeOK'
    BY <2>1 DEF ManagerTypeOK, procVars, clientVars
  <2> QED
    BY <2>1, <2>2, PoolFrame DEF ThreadInv, poolVars
<1>4. CASE MainShutdownPool
  <2>1. /\ main' = "pool" /\ PoolShutdown
        /\ UNCHANGED <<forker, gatherer, pending, pm_shutting_down, procVars, clientVars>>
    BY <1>4 DEF MainShutdownPool
  <2>2. PoolTypeOK' /\ SignalInv'
    BY <2>1, PoolShutdownPreserves
  <2>3. ManagerTypeOK'
    BY <2>1 DEF MainPCs, ManagerTypeOK, procVars, clientVars
  <2> QED
    BY <2>1, <2>2, <2>3 DEF ThreadInv, PoolShutdown
<1>5. CASE MainShutdownSend
  <2>1. /\ main' = "sent" /\ msgq' = Append(msgq, ShutdownMsg)
        /\ UNCHANGED <<poolVars, forker, gatherer, pending, pm_shutting_down, proc, log, clientVars>>
    BY <1>5 DEF MainShutdownSend
  <2>2. msgq' \in Seq([pid : Pids \cup {0}, tid : Tids])
    BY <2>1, AtTypes, AppendProperties DEF ManagerTypeOK
  <2>3. ManagerTypeOK'
    BY <2>1, <2>2 DEF MainPCs, ManagerTypeOK, clientVars
  <2> QED
    BY <2>1, <2>3, PoolFrame DEF ThreadInv, poolVars
<1> QED
  BY <1>1, <1>2, <1>3, <1>4, <1>5 DEF Shutdown

\* EngineInv is inductive.
LEMMA EngineStep ==
    ASSUME EngineInv, [Next]_vars
    PROVE  EngineInv'
<1>1. CASE UNCHANGED vars
  BY <1>1 DEF vars, EngineInv, TypeOK, PoolTypeOK, SignalInv, ForkPossibleFresh, NoLostWakeup,
              PoolLocked, ThreadInv, poolVars, mainVars, procVars, clientVars
<1>2. CASE Next
  BY <1>2, ClientSteps, ForkerSteps, MonitorSteps, GathererSteps, MainSteps DEF Next
<1> QED
  BY <1>1, <1>2

\* Every state the engine reaches is well typed; in particular the counters
\* stay unsigned integers and the lists stay lists of cells.
THEOREM TypeCorrect == Spec => []TypeOK
<1>1. Init => EngineInv
  BY InitPool, InitManager, TypeParts DEF Init, EngineInv
<1>2. EngineInv /\ [Next]_vars => EngineInv'
  BY EngineStep
<1>3. EngineInv => TypeOK
  BY DEF EngineInv
<1> QED
  BY <1>1, <1>2, <1>3, PTL DEF Spec

\* No operation of QueuePool forgets to wake the Forker up: while it is blocked
\* in DequeueTask every queue is locked and no shutdown is under way, also when
\* the condition variable wakes it for no reason.
THEOREM ForkerNeverMissesWork == Spec => []NoLostWakeup
<1>1. Init => EngineInv
  BY InitPool, InitManager, TypeParts DEF Init, EngineInv
<1>2. EngineInv /\ [Next]_vars => EngineInv'
  BY EngineStep
<1>3. EngineInv => NoLostWakeup
  BY DEF EngineInv, SignalInv
<1> QED
  BY <1>1, <1>2, <1>3, PTL DEF Spec

\* The cached fork_possible agrees with the queues whenever the mutex is free.
THEOREM CachedAnswerIsFresh == Spec => []ForkPossibleFresh
<1>1. Init => EngineInv
  BY InitPool, InitManager, TypeParts DEF Init, EngineInv
<1>2. EngineInv /\ [Next]_vars => EngineInv'
  BY EngineStep
<1>3. EngineInv => ForkPossibleFresh
  BY DEF EngineInv, SignalInv
<1> QED
  BY <1>1, <1>2, <1>3, PTL DEF Spec

-----------------------------------------------------------------------------
(* running_tasks and the table of ids.                                     *)

\* Steps that leave the id table and the resume alone.
LEMMA ResumeFrame ==
    ASSUME ResumeInv, UNCHANGED <<tid_task, main, pending>>
    PROVE  ResumeInv'
  BY DEF ResumeInv

\* The count of the slots and the ids still to be resumed are kept by every
\* step.
LEMMA SlotStep ==
    ASSUME EngineInv, SlotInv, ResumeInv, ResumeTidsUsable, [Next]_vars
    PROVE  SlotInv' /\ ResumeInv'
<1> PoolTypeOK /\ ManagerTypeOK /\ ThreadInv
  BY TypeParts DEF EngineInv
<1>1. ASSUME NEW t \in Tasks, ClientEnqueue(t) PROVE SlotInv' /\ ResumeInv'
  <2>1. \/ QueueOf[t] # -1 /\ EnqueueTask(t)
        \/ UNCHANGED poolVars
    BY <1>1 DEF ClientEnqueue
  <2>2. UNCHANGED <<tid_task, main, pending>>
    BY <1>1 DEF ClientEnqueue, EnqueueTask, mainVars, poolVars
  <2> QED
    BY <2>1, <2>2, EnqueueTaskPreserves, PoolFrame, ResumeFrame
<1>2. ASSUME NEW w \in MayCancel, ClientCancelTasks(w) PROVE SlotInv' /\ ResumeInv'
  <2>1. CancelTasks(w) /\ UNCHANGED <<tid_task, main, pending>>
    BY <1>2 DEF ClientCancelTasks, CancelTasks, mainVars
  <2> QED
    BY <2>1, CancelTasksPreserves, ResumeFrame
<1>3. CASE ForkerWait
  <2>1. DequeueWait /\ UNCHANGED <<tid_task, main, pending>>
    BY <1>3 DEF ForkerWait, DequeueWait, mainVars
  <2> QED
    BY <2>1, DequeueWaitPreserves, ResumeFrame
<1>4. CASE ForkerDequeue
  <2>1. PICK i \in Queues, t \in Tasks : DequeueTask(i, t)
    BY <1>4 DEF ForkerDequeue
  <2>2. UNCHANGED <<tid_task, main, pending>>
    BY <1>4, <2>1 DEF ForkerDequeue, DequeueTask, mainVars
  <2> QED
    BY <2>1, <2>2, DequeueTaskPreserves, ResumeFrame
<1>5. CASE ForkerExit
  <2>1. DequeueFalse /\ UNCHANGED <<tid_task, main, pending>>
    BY <1>5 DEF ForkerExit, DequeueFalse, poolVars, mainVars
  <2> QED
    BY <2>1, DequeueFalsePreserves, ResumeFrame
<1>6. CASE ForkerRegister
  <2>1. PICK tid \in Tids : ExecuteTask(forker.queue, forker.task, 0, tid)
    BY <1>6 DEF ForkerRegister
  <2>2. forker.queue \in Queues /\ forker.task \in Tasks /\ main # "resuming" /\ main' = main
    BY <1>6 DEF ForkerRegister, ThreadInv, mainVars
  <2>3. SlotInv'
    BY <2>1, <2>2, ZeroTid, ExecuteTaskPreserves
  <2> QED
    BY <2>2, <2>3 DEF ResumeInv
<1>7. CASE ForkerRelease
  <2>1. /\ TerminateTask(forker.tid) \/ UNCHANGED poolVars
        /\ main # "resuming" /\ main' = main
    BY <1>7 DEF ForkerRelease, TerminateNotFound, ThreadInv, mainVars
  <2>2. forker.tid \in Tids
    BY DEF ManagerTypeOK
  <2> QED
    BY <2>1, <2>2, TerminateTaskPreserves, PoolFrame DEF ResumeInv
<1>8. CASE ForkerSpuriousWakeup
  <2>1. UNCHANGED <<queue, tid_task, tid_queue_index, main, pending>>
    BY <1>8 DEF ForkerSpuriousWakeup, mainVars
  <2> QED
    BY <2>1, SlotFrame, ResumeFrame
<1>9. CASE GathererTerminate
  <2>1. /\ TerminateTask(gatherer.tid) \/ UNCHANGED poolVars
        /\ main # "resuming" /\ main' = main
    BY <1>9 DEF GathererTerminate, TerminateNotFound, ThreadInv, mainVars
  <2>2. gatherer.tid \in Tids
    BY DEF ManagerTypeOK
  <2> QED
    BY <2>1, <2>2, TerminateTaskPreserves, PoolFrame DEF ResumeInv
<1>10. ASSUME NEW t \in Tasks, MainResume(t) PROVE SlotInv' /\ ResumeInv'
  <2>1. /\ main = "resuming" /\ t \in pending /\ t \in Resumed
        /\ pending' = pending \ {t}
        /\ \/ QueueOf[t] # -1 /\ \E ret \in Tids : ExecuteTask(QueueOf[t], t, ResumeTid[t], ret)
           \/ UNCHANGED poolVars
    BY <1>10 DEF MainResume, ManagerTypeOK
  <2>2. ResumeTid[t] \in Tids /\ ResumeTid[t] # 0 /\ tid_task[ResumeTid[t]] = NoTask
    BY <2>1 DEF ResumeTidsUsable, ResumeInv
  <2>3. CASE UNCHANGED poolVars
    <3>1. SlotInv'
      BY <2>3, PoolFrame
    <3> QED
      BY <2>1, <2>3, <3>1 DEF ResumeInv, poolVars
  <2>4. CASE QueueOf[t] # -1 /\ \E ret \in Tids : ExecuteTask(QueueOf[t], t, ResumeTid[t], ret)
    <3>1. PICK ret \in Tids : ExecuteTask(QueueOf[t], t, ResumeTid[t], ret)
      BY <2>4
    <3>2. QueueOf[t] \in Queues
      BY <2>4
    <3>3. SlotInv'
      BY <2>2, <3>1, <3>2, ExecuteTaskPreserves
    <3>4. tid_task' = [tid_task EXCEPT ![ResumeTid[t]] = t]
      BY <2>2, <3>1 DEF ExecuteTask, RegisterTask
    <3>5. \A u \in pending' : ResumeTid[u] # ResumeTid[t] /\ u \in pending /\ ResumeTid[u] \in Tids
      BY <2>1 DEF ResumeTidsUsable, ManagerTypeOK
    <3>6. ResumeInv'
      BY <2>1, <3>4, <3>5 DEF ResumeInv, PoolTypeOK
    <3> QED
      BY <3>3, <3>6
  <2> QED
    BY <2>1, <2>3, <2>4
<1>11. CASE MainShutdownPool
  <2>1. PoolShutdown /\ main' # "resuming"
    BY <1>11 DEF MainShutdownPool
  <2> QED
    BY <2>1, PoolShutdownPreserves DEF ResumeInv
<1>12. CASE MainStart \/ MainShutdown \/ MainShutdownSend \/ MainJoin
  <2>1. UNCHANGED poolVars /\ main' # "resuming"
    BY <1>12 DEF MainStart, MainShutdown, MainShutdownSend, MainJoin
  <2> QED
    BY <2>1, PoolFrame DEF ResumeInv
<1>13. ASSUME UNCHANGED <<poolVars, mainVars>> PROVE SlotInv' /\ ResumeInv'
  BY <1>13, PoolFrame, ResumeFrame DEF poolVars, mainVars
<1>14. CASE \E w \in MayCancel : ClientCancel(w)
  BY <1>13, <1>14 DEF ClientCancel
<1>15. CASE ForkerCrash \/ ForkerAbort \/ ForkerFork \/ ForkerExecuting
  BY <1>13, <1>15 DEF ForkerCrash, DequeueCrash, ForkerAbort, ForkerFork, ForkerExecuting
<1>16. CASE \E p \in Pids : Monitor(p) \/ MonitorDie(p)
  BY <1>13, <1>16 DEF Monitor, MonitorStart, MonitorSend, MonitorExit, MonitorDie
<1>17. CASE \/ GathererReceive \/ GathererReap \/ GathererRead \/ GathererStop
            \/ GathererError
  BY <1>13, <1>17 DEF GathererReceive, GathererReap, GathererRead, GathererStop,
                      GathererError
<1>18. CASE UNCHANGED vars
  BY <1>13, <1>18 DEF vars
<1> QED
  BY <1>1, <1>2, <1>3, <1>4, <1>5, <1>6, <1>7, <1>8, <1>9, <1>10, <1>11, <1>12,
     <1>14, <1>15, <1>16, <1>17, <1>18
     DEF Next, Forker, Gatherer, Shutdown

\* If the ids saved with the tasks found executing at boot can all be restored,
\* running_tasks of every queue is at all times the number of ids registered
\* for it: releases by the Forker and by the Gatherer never count twice, also
\* when ids run out or instances are cancelled.
THEOREM SlotsAreCounted == ASSUME ResumeTidsUsable PROVE Spec => []RunningMatchesTids
<1>1. Init => EngineInv /\ SlotInv /\ ResumeInv
  BY InitPool, InitManager, TypeParts DEF Init, EngineInv
<1>2. EngineInv /\ SlotInv /\ ResumeInv /\ [Next]_vars => (EngineInv /\ SlotInv /\ ResumeInv)'
  BY EngineStep, SlotStep
<1>3. SlotInv => RunningMatchesTids
  BY DEF SlotInv
<1> QED
  BY <1>1, <1>2, <1>3, PTL DEF Spec

-----------------------------------------------------------------------------
(* The end of the Forker.                                                  *)

\* No queue is so long that one more task makes its unsigned size 0.
SizesFit == \A i \in Queues : queue[i].size # UIntSpan - 1

\* A Forker that a signal has released finds an unlocked queue, or a shutdown,
\* when it gets the mutex back, whatever happens to the pool in between.
WakeInv ==
    forker.pc = "waiting" /\ ~fork_lock => ~PoolLocked(queue) \/ qp_shutting_down

ForkerEndInv == WakeInv /\ ForkerExitsOnlyOnShutdown

\* An operation of another thread keeps the promise of the signal if it locks
\* no queue that was unlocked.
LEMMA PublishWakes ==
    ASSUME SignalInv, ForkerEndInv, NEW pool, Publish(pool), UNCHANGED forker,
           ~PoolLocked(queue) => ~PoolLocked(pool)
    PROVE  ForkerEndInv'
<1> /\ queue' = pool
    /\ fork_lock' = (fork_lock /\ (~fork_locked \/ PoolLocked(pool)))
    /\ qp_shutting_down' = qp_shutting_down
  BY DEF Publish
<1> fork_lock => fork_locked
  BY DEF SignalInv
<1>1. WakeInv'
  <2> SUFFICES ASSUME forker.pc = "waiting", ~fork_lock'
               PROVE  ~PoolLocked(pool) \/ qp_shutting_down
    BY DEF WakeInv, PoolLocked
  <2> QED
    BY DEF ForkerEndInv, WakeInv
<1>2. ForkerExitsOnlyOnShutdown'
  BY DEF ForkerEndInv, ForkerExitsOnlyOnShutdown
<1> QED
  BY <1>1, <1>2 DEF ForkerEndInv

\* EnqueueTask and CancelTasks lock no unlocked queue.
LEMMA ClientsUnlock ==
    ASSUME PoolTypeOK, SizesFit, ~PoolLocked(queue), NEW pool,
           \/ \E i \in Queues, c \in Cells : pool = EnqueueCell(queue, i, c)
           \/ \E w : pool = [i \in Queues |-> CancelCells(queue[i], CellsOf(w))]
    PROVE  ~PoolLocked(pool)
<1>1. PICK j \in Queues : ~IsLocked(queue[j], Concurrency[j])
  BY DEF PoolLocked
<1>2. queue \in [Queues -> Queue] /\ queue[j] \in Queue /\ Concurrency[j] \in UInt
  BY DEF PoolTypeOK
<1> SUFFICES ~IsLocked(pool[j], Concurrency[j])
  BY DEF PoolLocked
<1>3. CASE \E i \in Queues, c \in Cells : pool = EnqueueCell(queue, i, c)
  <2>1. PICK i \in Queues, c \in Cells : pool = EnqueueCell(queue, i, c)
    BY <1>3
  <2>2. pool[j] \in Queue /\ pool[j].running_tasks = queue[j].running_tasks
    BY <1>2, <2>1, EnqueueType
  <2>3. /\ queue[j].cancelled_tasks # <<>> => pool[j].cancelled_tasks # <<>>
        /\ pool[j].size \in {queue[j].size, UIntPlus(queue[j].size, 1)}
    BY <1>2, <2>1, EnqueueKeepsWork
  <2>4. queue[j].size # UIntSpan - 1
    BY DEF SizesFit
  <2> QED
    BY <1>1, <1>2, <2>2, <2>3, <2>4, StaysUnlocked
<1>4. CASE \E w : pool = [i \in Queues |-> CancelCells(queue[i], CellsOf(w))]
  <2>1. PICK w : pool = [i \in Queues |-> CancelCells(queue[i], CellsOf(w))]
    BY <1>4
  <2>2. pool[j] = CancelCells(queue[j], CellsOf(w))
    BY <2>1
  <2>3. pool[j] \in Queue /\ pool[j].running_tasks = queue[j].running_tasks
    BY <1>2, <2>2, CancelType
  <2>4. \/ pool[j].cancelled_tasks # <<>>
        \/ queue[j].cancelled_tasks = <<>> /\ pool[j].size = queue[j].size
    BY <1>2, <2>2, CancelKeepsWork
  <2> QED
    BY <1>1, <1>2, <2>3, <2>4, StaysUnlocked
<1> QED
  BY <1>3, <1>4

\* TerminateTask locks no unlocked queue: the slot it releases was counted.
LEMMA TerminateUnlocks ==
    ASSUME PoolTypeOK, SlotInv, ~PoolLocked(queue), NEW tid \in Tids, TerminateTask(tid)
    PROVE  ~PoolLocked(queue')
<1> DEFINE i == tid_queue_index[tid]
<1>1. PICK j \in Queues : ~IsLocked(queue[j], Concurrency[j])
  BY DEF PoolLocked
<1>2. /\ i \in Queues
      /\ queue' = [queue EXCEPT ![i] = TerminateInQueue(queue[i])]
      /\ tid \in TidsOfQueue(i)
  BY DEF TerminateTask, Publish, SlotInv, TidIndexInv, TidsOfQueue
<1>3. queue \in [Queues -> Queue] /\ queue[i] \in Queue /\ Concurrency[j] \in UInt
  BY <1>2 DEF PoolTypeOK
<1> SUFFICES ~IsLocked(queue'[j], Concurrency[j])
  BY DEF PoolLocked
<1>4. CASE j # i
  BY <1>1, <1>2, <1>3, <1>4
<1>5. CASE j = i
  <2> DEFINE q2 == TerminateInQueue(queue[i])
  <2>1. /\ q2 \in Queue /\ q2.running_tasks = UIntMinus(queue[i].running_tasks, 1)
        /\ q2.size = queue[i].size /\ q2.cancelled_tasks = queue[i].cancelled_tasks
    BY <1>3, RunningType DEF TerminateInQueue, Queue
  <2>2. queue[i].running_tasks \in UInt /\ queue[i].running_tasks # 0
    <3>1. queue[i].running_tasks = Cardinality(TidsOfQueue(i))
      BY <1>2 DEF SlotInv, RunningMatchesTids
    <3>2. Cardinality(TidsOfQueue(i)) # 0
      BY <1>2, TidsOfQueueFinite, FS_EmptySet
    <3> QED
      BY <1>3, <3>1, <3>2 DEF Queue
  <2>3. q2.running_tasks <= queue[i].running_tasks
    <3> queue[i].running_tasks > 0
      BY <2>2 DEF UInt
    <3> QED
      BY <2>1, <2>2, UIntExact DEF UInt
  <2>4. queue'[j] = q2
    BY <1>2, <1>3, <1>5
  <2> HIDE DEF q2, i
  <2> QED
    BY <1>1, <1>3, <1>5, <2>1, <2>3, <2>4, StaysUnlocked
<1> QED
  BY <1>4, <1>5

\* Without spurious wake-ups every step keeps the promise of the signal, and
\* the Forker ends its loop on a shutdown only.
LEMMA ForkerEndStep ==
    ASSUME EngineInv, SlotInv, ForkerEndInv, SizesFit, ~SpuriousWakeups, [Next]_vars
    PROVE  ForkerEndInv'
<1> PoolTypeOK /\ ManagerTypeOK /\ SignalInv /\ ThreadInv
  BY TypeParts DEF EngineInv
<1>1. ASSUME UNCHANGED <<queue, fork_lock, forker>>, qp_shutting_down => qp_shutting_down'
      PROVE  ForkerEndInv'
  BY <1>1 DEF ForkerEndInv, WakeInv, ForkerExitsOnlyOnShutdown, PoolLocked
<1>2. ASSUME forker'.pc \notin {"waiting", "exited"} PROVE ForkerEndInv'
  BY <1>2 DEF ForkerEndInv, WakeInv, ForkerExitsOnlyOnShutdown
<1>3. ASSUME NEW t \in Tasks, ClientEnqueue(t) PROVE ForkerEndInv'
  <2>1. CASE QueueOf[t] # -1 /\ EnqueueTask(t)
    <3>1. PICK c \in Cells : Publish(EnqueueCell(queue, QueueOf[t], c))
      BY <2>1 DEF EnqueueTask
    <3>2. QueueOf[t] \in Queues /\ UNCHANGED forker
      BY <1>3, <2>1 DEF ClientEnqueue
    <3> DEFINE pool == EnqueueCell(queue, QueueOf[t], c)
    <3>3. \E i \in Queues, d \in Cells : pool = EnqueueCell(queue, i, d)
      BY <3>2
    <3>4. Publish(pool)
      BY <3>1
    <3> HIDE DEF pool
    <3> QED
      BY <3>2, <3>3, <3>4, ClientsUnlock, PublishWakes
  <2>2. CASE UNCHANGED poolVars
    BY <1>1, <1>3, <2>2 DEF ClientEnqueue, poolVars
  <2> QED
    BY <1>3, <2>1, <2>2 DEF ClientEnqueue
<1>4. ASSUME NEW w \in MayCancel, ClientCancelTasks(w) PROVE ForkerEndInv'
  <2> DEFINE pool == [i \in Queues |-> CancelCells(queue[i], CellsOf(w))]
  <2>1. Publish(pool) /\ UNCHANGED forker
    BY <1>4 DEF ClientCancelTasks, CancelTasks
  <2>2. \E v : pool = [i \in Queues |-> CancelCells(queue[i], CellsOf(v))]
    OBVIOUS
  <2> HIDE DEF pool
  <2> QED
    BY <2>1, <2>2, ClientsUnlock, PublishWakes
<1>5. CASE GathererTerminate
  <2>1. CASE TerminateTask(gatherer.tid)
    <3>1. gatherer.tid \in Tids /\ UNCHANGED forker
      BY <1>5 DEF GathererTerminate, ManagerTypeOK
    <3> DEFINE pool == [queue EXCEPT ![tid_queue_index[gatherer.tid]] = TerminateInQueue(@)]
    <3>2. Publish(pool) /\ queue' = pool
      BY <2>1 DEF TerminateTask, Publish
    <3> HIDE DEF pool
    <3>3. ~PoolLocked(queue) => ~PoolLocked(pool)
      BY <2>1, <3>1, <3>2, TerminateUnlocks
    <3> QED
      BY <3>1, <3>2, <3>3, PublishWakes
  <2>2. CASE UNCHANGED poolVars
    BY <1>1, <1>5, <2>2 DEF GathererTerminate, poolVars
  <2> QED
    BY <1>5, <2>1, <2>2 DEF GathererTerminate, TerminateNotFound
<1>6. CASE ForkerWait
  BY <1>6 DEF ForkerWait, DequeueWait, ForkerAt, ForkerEndInv, WakeInv, ForkerExitsOnlyOnShutdown
<1>7. CASE ForkerExit
  <2>1. PastForkLock /\ DequeueFalse /\ forker'.pc = "exited"
    BY <1>7 DEF ForkerExit, ForkerAt
  <2>2. ~PoolLocked(queue) \/ qp_shutting_down
    BY <2>1 DEF PastForkLock, ForkerEndInv, WakeInv, SignalInv, ForkPossibleFresh
  <2>3. qp_shutting_down'
    BY <2>1, <2>2 DEF DequeueFalse, poolVars
  <2> QED
    BY <2>1, <2>3 DEF ForkerEndInv, WakeInv, ForkerExitsOnlyOnShutdown
<1>8. CASE \/ ForkerDequeue \/ ForkerCrash \/ ForkerRegister \/ ForkerAbort \/ ForkerFork
           \/ ForkerExecuting \/ ForkerRelease
  <2>1. \A pc : ForkerAt(pc).pc = pc
    BY DEF ForkerAt
  <2>2. CASE ForkerDequeue
    <3> forker'.pc = "register"
      BY <2>2 DEF ForkerDequeue, ManagerTypeOK
    <3> QED
      BY <1>2
  <2>3. CASE ForkerRegister
    <3> forker'.pc = "execute"
      BY <2>3 DEF ForkerRegister, ManagerTypeOK
    <3> QED
      BY <1>2
  <2>4. CASE ForkerAbort \/ ForkerFork
    <3> forker'.pc \in {"release", "forked"}
      BY <2>4 DEF ForkerAbort, ForkerFork, ManagerTypeOK
    <3> QED
      BY <1>2
  <2>5. CASE ForkerCrash \/ ForkerExecuting \/ ForkerRelease
    <3> forker'.pc \in {"crashed", "dequeue"}
      BY <2>1, <2>5 DEF ForkerCrash, ForkerExecuting, ForkerRelease
    <3> QED
      BY <1>2
  <2> QED
    BY <1>8, <2>2, <2>3, <2>4, <2>5
<1>9. CASE ForkerSpuriousWakeup
  BY <1>9 DEF ForkerSpuriousWakeup
<1>10. CASE \E t \in Tasks : MainResume(t)
  <2> forker'.pc = "off"
    BY <1>10 DEF MainResume, ThreadInv
  <2> QED
    BY <1>2
<1>11. CASE MainStart
  <2> forker'.pc = "dequeue"
    BY <1>11 DEF MainStart, ForkerAt
  <2> QED
    BY <1>2
<1>12. CASE MainShutdownPool
  <2> qp_shutting_down' = TRUE
    BY <1>12 DEF MainShutdownPool, PoolShutdown
  <2> QED
    BY DEF ForkerEndInv, WakeInv, ForkerExitsOnlyOnShutdown
<1>13. ASSUME UNCHANGED <<poolVars, forker>> PROVE ForkerEndInv'
  BY <1>1, <1>13 DEF poolVars
<1>14. CASE MainShutdown \/ MainShutdownSend \/ MainJoin
  BY <1>13, <1>14 DEF MainShutdown, MainShutdownSend, MainJoin
<1>15. CASE \E w \in MayCancel : ClientCancel(w)
  BY <1>13, <1>15 DEF ClientCancel
<1>16. CASE \E p \in Pids : Monitor(p) \/ MonitorDie(p)
  BY <1>13, <1>16 DEF Monitor, MonitorStart, MonitorSend, MonitorExit, MonitorDie
<1>17. CASE \/ GathererReceive \/ GathererReap \/ GathererRead \/ GathererStop
            \/ GathererError
  BY <1>13, <1>17 DEF GathererReceive, GathererReap, GathererRead, GathererStop, GathererError
<1>18. CASE UNCHANGED vars
  BY <1>13, <1>18 DEF vars
<1> QED
  BY <1>3, <1>4, <1>5, <1>6, <1>7, <1>8, <1>9, <1>10, <1>11, <1>12, <1>14, <1>15,
     <1>16, <1>17, <1>18
     DEF Next, Forker, Gatherer, Shutdown

\* If pthread_cond_wait returns on a signal only, the Forker leaves its loop on
\* a shutdown only: between the signal and the moment the Forker gets the mutex
\* back, enqueues, cancellations and releases take away nothing of what it was
\* signalled for.  The size of no queue is at the end of an unsigned int.
THEOREM ForkerStaysUntilShutdown ==
    ASSUME ~SpuriousWakeups, ResumeTidsUsable
    PROVE  Spec /\ []SizesFit => []ForkerExitsOnlyOnShutdown
<1> DEFINE Inv == EngineInv /\ SlotInv /\ ResumeInv /\ ForkerEndInv
<1>1. Init => Inv
  <2> SUFFICES ASSUME Init PROVE Inv
    OBVIOUS
  <2>1. EngineInv /\ SlotInv /\ ResumeInv
    BY InitPool, InitManager, TypeParts DEF Init, EngineInv
  <2>2. ForkerEndInv
    BY DEF Init, ForkerAt, ForkerEndInv, WakeInv, ForkerExitsOnlyOnShutdown
  <2> QED
    BY <2>1, <2>2
<1>2. Inv /\ SizesFit /\ [Next]_vars => Inv'
  BY EngineStep, SlotStep, ForkerEndStep
<1>3. Inv => ForkerExitsOnlyOnShutdown
  BY DEF ForkerEndInv
<1> QED
  BY <1>1, <1>2, <1>3, PTL DEF Spec

-----------------------------------------------------------------------------
(* Whose id it is.                                                         *)

\* The task each id stands for: the one registered, or the one that the resume at
\* boot will register under it.
TidOwner ==
  [k \in Tids |->
    IF tid_task[k] # NoTask THEN tid_task[k]
    ELSE IF \E t \in pending : ResumeTid[t] = k
         THEN CHOOSE t \in pending : ResumeTid[t] = k
         ELSE NoTask]

\* An id in use is in the hands of one party at a time: the Forker until it
\* forks, the monitor until it sends its exit message, the message, the
\* Gatherer until it releases the id.
ForkerHasTid == forker.pc \in {"execute", "release"}
GathererHasTid == gatherer.pc \in {"reap", "read", "terminate"}
ExitMsgs == {k \in 1 .. Len(msgq) : msgq[k].pid # 0}

OneHolder ==
    /\ \A p, r \in Pids : Live(p) /\ Live(r) /\ p # r => proc[p].tid # proc[r].tid
    /\ \A p \in Pids, k \in ExitMsgs : Live(p) => proc[p].tid # msgq[k].tid
    /\ \A k, m \in ExitMsgs : k # m => msgq[k].tid # msgq[m].tid
    /\ GathererHasTid =>
          /\ \A p \in Pids : Live(p) => proc[p].tid # gatherer.tid
          /\ \A k \in ExitMsgs : msgq[k].tid # gatherer.tid
    /\ ForkerHasTid =>
          /\ \A p \in Pids : Live(p) => proc[p].tid # forker.tid
          /\ \A k \in ExitMsgs : msgq[k].tid # forker.tid
          /\ GathererHasTid => gatherer.tid # forker.tid

\* Whoever holds an id, it stands for a task: the holder's own, where it
\* knows it.
HolderOwns ==
    /\ \A p \in Pids : Live(p) => /\ TidOwner[proc[p].tid] = proc[p].task
                                  /\ proc[p].task \in Tasks
    /\ \A k \in ExitMsgs : TidOwner[msgq[k].tid] # NoTask
    /\ GathererHasTid => TidOwner[gatherer.tid] # NoTask
    /\ ForkerHasTid => TidOwner[forker.tid] = forker.task /\ forker.task \in Tasks

\* The log file of an id is the owner's from the start of the monitor until
\* the Gatherer has read it; then the Gatherer has the output.
LogInv ==
    /\ \A p \in Pids : proc[p].stage = "running" => log[proc[p].tid] = TidOwner[proc[p].tid]
    /\ \A k \in ExitMsgs : log[msgq[k].tid] = TidOwner[msgq[k].tid]
    /\ gatherer.pc \in {"reap", "read"} => log[gatherer.tid] = TidOwner[gatherer.tid]
    /\ gatherer.pc = "terminate" => gatherer.output = TidOwner[gatherer.tid]
    /\ OutputBelongsToTask

\* The resume is over when the threads run.
ResumeOver == main # "resuming" => pending = {}

TidInv == OneHolder /\ HolderOwns /\ LogInv /\ ResumeOver

\* Every task found executing at boot can be given back its id, and no other
\* monitor of an earlier engine still runs: the exit message of a task that is
\* no longer known (ProcessManager.cpp:201-205) carries an id that may have been
\* given to another task.
Resumable == /\ ResumeTidsUsable
             /\ \A t \in Resumed : QueueOf[t] # -1
             /\ Strays = {}

\* The types of what the holders of an id keep.
LEMMA HolderTypes ==
    ASSUME ManagerTypeOK
    PROVE  /\ \A p \in Pids : proc[p].tid \in Tids
           /\ \A k \in 1 .. Len(msgq) : msgq[k].tid \in Tids
           /\ gatherer.tid \in Tids /\ forker.tid \in Tids
<1> DEFINE M == [pid : Pids \cup {0}, tid : Tids]
<1>1. \A k \in 1 .. Len(msgq) : msgq[k] \in M
  <2> msgq \in Seq(M)
    BY DEF ManagerTypeOK
  <2> HIDE DEF M
  <2> QED
    OBVIOUS
<1> QED
  BY <1>1 DEF ManagerTypeOK

\* After the resume the owner of an id is the task registered for it.
LEMMA OwnerIsRegistered ==
    ASSUME PoolTypeOK, pending = {}
    PROVE  TidOwner = tid_task
<1> \A k \in Tids : TidOwner[k] = tid_task[k]
  BY DEF TidOwner
<1> QED
  BY DEF TidOwner, PoolTypeOK

\* At boot it is the task that was saved with it.
LEMMA OwnerIsPending ==
    ASSUME ResumeTidsUsable, ManagerTypeOK, NEW t \in pending,
           tid_task[ResumeTid[t]] = NoTask
    PROVE  TidOwner[ResumeTid[t]] = t
<1> DEFINE u == CHOOSE u \in pending : ResumeTid[u] = ResumeTid[t]
<1>0. t \in Resumed /\ ResumeTid[t] \in Tids
  BY DEF ManagerTypeOK
<1>1. u \in pending /\ ResumeTid[u] = ResumeTid[t]
  OBVIOUS
<1>2. u = t
  <2> HIDE DEF u
  <2> QED
    BY <1>0, <1>1 DEF ResumeTidsUsable, ManagerTypeOK
<1> QED
  BY <1>0, <1>2 DEF TidOwner

\* Steps in which no id changes hands, though a holder may let go of one that
\* nobody needs any more.
LEMMA TidFrame ==
    ASSUME TidInv, UNCHANGED TidOwner,
           \A p \in Pids : Live(p)' => proc'[p] = proc[p],
           UNCHANGED <<log, msgq>>,
           GathererHasTid' \/ gatherer'.pc = "stop" => gatherer' = gatherer,
           ForkerHasTid' => /\ ForkerHasTid
                            /\ forker'.tid = forker.tid /\ forker'.task = forker.task,
           ResumeOver'
    PROVE  TidInv'
<1>2. ExitMsgs' = ExitMsgs
  BY DEF ExitMsgs
<1>3. \A p \in Pids : Live(p)' => Live(p)
  BY DEF Live
<1>4. GathererHasTid' => GathererHasTid
  BY DEF GathererHasTid
<1> USE DEF TidInv
<1>5. OneHolder'
  <2>1. \A p, r \in Pids : Live(p)' /\ Live(r)' /\ p # r => proc'[p].tid # proc'[r].tid
    BY <1>3 DEF OneHolder
  <2>2. \A p \in Pids, k \in ExitMsgs' : Live(p)' => proc'[p].tid # msgq'[k].tid
    BY <1>2, <1>3 DEF OneHolder
  <2>3. \A k, m \in ExitMsgs' : k # m => msgq'[k].tid # msgq'[m].tid
    BY <1>2 DEF OneHolder
  <2>4. GathererHasTid' =>
          /\ \A p \in Pids : Live(p)' => proc'[p].tid # gatherer'.tid
          /\ \A k \in ExitMsgs' : msgq'[k].tid # gatherer'.tid
    BY <1>2, <1>3, <1>4 DEF OneHolder
  <2>5. ForkerHasTid' =>
          /\ \A p \in Pids : Live(p)' => proc'[p].tid # forker'.tid
          /\ \A k \in ExitMsgs' : msgq'[k].tid # forker'.tid
          /\ GathererHasTid' => gatherer'.tid # forker'.tid
    BY <1>2, <1>3, <1>4 DEF OneHolder
  <2> QED
    BY <2>1, <2>2, <2>3, <2>4, <2>5 DEF OneHolder
<1>6. HolderOwns'
  <2>1. \A p \in Pids : Live(p)' => /\ TidOwner'[proc'[p].tid] = proc'[p].task
                                    /\ proc'[p].task \in Tasks
    BY <1>3 DEF HolderOwns
  <2>2. \A k \in ExitMsgs' : TidOwner'[msgq'[k].tid] # NoTask
    BY <1>2 DEF HolderOwns
  <2>3. GathererHasTid' => TidOwner'[gatherer'.tid] # NoTask
    BY <1>4 DEF HolderOwns
  <2>4. ForkerHasTid' => TidOwner'[forker'.tid] = forker'.task /\ forker'.task \in Tasks
    BY DEF HolderOwns
  <2> QED
    BY <2>1, <2>2, <2>3, <2>4 DEF HolderOwns
<1>7. LogInv'
  <2>1. \A p \in Pids : proc'[p].stage = "running" => log'[proc'[p].tid] = TidOwner'[proc'[p].tid]
    <3> \A p \in Pids : proc'[p].stage = "running" => proc'[p] = proc[p]
      BY DEF Live
    <3> QED
      BY DEF LogInv
  <2>2. \A k \in ExitMsgs' : log'[msgq'[k].tid] = TidOwner'[msgq'[k].tid]
    BY <1>2 DEF LogInv
  <2>3. /\ gatherer'.pc \in {"reap", "read"} => log'[gatherer'.tid] = TidOwner'[gatherer'.tid]
        /\ gatherer'.pc = "terminate" => gatherer'.output = TidOwner'[gatherer'.tid]
    BY DEF LogInv, GathererHasTid
  <2>4. OutputBelongsToTask'
    BY DEF LogInv, OutputBelongsToTask
  <2> QED
    BY <2>1, <2>2, <2>3, <2>4 DEF LogInv
<1> QED
  BY <1>5, <1>6, <1>7

\* Boot finds every id it is given back with the monitor that runs under it.
LEMMA InitTids ==
    ASSUME Init, Resumable
    PROVE  TidInv
<1>0. ResumeTidsUsable
  BY DEF Resumable
<1>1. PICK pid \in Injection(Resumed, Pids) :
        proc = [p \in Pids |->
                  IF \E t \in Resumed : pid[t] = p
                  THEN LET t == CHOOSE t \in Resumed : pid[t] = p
                       IN  LeftOver(t, ResumeTid[t])
                  ELSE NoProc]
  <2>1. PICK pid \in Injection(Resumed, Pids), stray \in Injection(Strays, Pids) :
         proc = [p \in Pids |->
                   IF \E t \in Resumed : pid[t] = p
                   THEN LET t == CHOOSE t \in Resumed : pid[t] = p
                        IN  LeftOver(t, ResumeTid[t])
                   ELSE IF \E k \in Strays : stray[k] = p
                   THEN LeftOver(NoTask, CHOOSE k \in Strays : stray[k] = p)
                   ELSE NoProc]
    BY DEF Init
  <2>2. \A p \in Pids : ~ \E k \in Strays : stray[k] = p
    BY DEF Resumable
  <2> QED
    BY <2>1, <2>2
<1>2. /\ pid \in [Resumed -> Pids]
      /\ \A t, u \in Resumed : pid[t] = pid[u] => t = u
  BY DEF Injection, IsInjective
<1>3. ASSUME NEW p \in Pids, Live(p)
      PROVE  \E t \in Resumed : /\ pid[t] = p /\ proc[p].task = t
                                /\ proc[p].tid = ResumeTid[t]
  <2>1. CASE \E t \in Resumed : pid[t] = p
    <3> DEFINE t == CHOOSE t \in Resumed : pid[t] = p
    <3>1. t \in Resumed /\ pid[t] = p
      BY <2>1
    <3>2. proc[p] = LeftOver(t, ResumeTid[t])
      BY <1>1, <2>1
    <3> HIDE DEF t
    <3> QED
      BY <3>1, <3>2 DEF LeftOver
  <2>2. CASE ~\E t \in Resumed : pid[t] = p
    <3> proc[p].stage = "none"
      BY <1>1, <2>2 DEF NoProc
    <3> QED
      BY <1>3 DEF Live
  <2> QED
    BY <2>1, <2>2
<1>4. /\ ExitMsgs = {} /\ forker.pc = "off" /\ gatherer.pc = "off"
      /\ main = "resuming" /\ pending = Resumed
      /\ tid_task = [k \in Tids |-> NoTask]
  <2> msgq = <<>> \/ msgq = <<ShutdownMsg>>
    BY DEF Init
  <2> ExitMsgs = {}
    BY DEF ExitMsgs, ShutdownMsg
  <2> QED
    BY DEF Init, PoolInit, ForkerAt, GathererAt
<1>5. \A t \in Resumed : TidOwner[ResumeTid[t]] = t
  BY <1>0, <1>4, InitManager, OwnerIsPending
<1>6. \A t \in Resumed : log[ResumeTid[t]] = t
  <2> TAKE t \in Resumed
  <2> DEFINE u == CHOOSE u \in Resumed : ResumeTid[u] = ResumeTid[t]
  <2>1. u \in Resumed /\ ResumeTid[u] = ResumeTid[t]
    OBVIOUS
  <2>2. log[ResumeTid[t]] = u
    BY DEF Init
  <2> HIDE DEF u
  <2> QED
    BY <1>0, <2>1, <2>2 DEF ResumeTidsUsable
<1>7. OneHolder
  <2>1. ASSUME NEW p \in Pids, NEW r \in Pids, Live(p), Live(r), p # r
        PROVE  proc[p].tid # proc[r].tid
    <3>1. PICK t \in Resumed : pid[t] = p /\ proc[p].tid = ResumeTid[t]
      BY <1>3, <2>1
    <3>2. PICK u \in Resumed : pid[u] = r /\ proc[r].tid = ResumeTid[u]
      BY <1>3, <2>1
    <3> QED
      BY <1>0, <2>1, <3>1, <3>2 DEF ResumeTidsUsable
  <2> QED
    BY <1>4, <2>1 DEF OneHolder, GathererHasTid, ForkerHasTid
<1>8. HolderOwns
  <2> \A p \in Pids : Live(p) => TidOwner[proc[p].tid] = proc[p].task /\ proc[p].task \in Tasks
    BY <1>3, <1>5
  <2> QED
    BY <1>4 DEF HolderOwns, GathererHasTid, ForkerHasTid
<1>9. LogInv
  <2> \A p \in Pids : proc[p].stage = "running" => log[proc[p].tid] = TidOwner[proc[p].tid]
    <3> \A p \in Pids : proc[p].stage = "running" => Live(p)
      BY DEF Live
    <3> QED
      BY <1>3, <1>5, <1>6
  <2> QED
    BY <1>4 DEF LogInv, OutputBelongsToTask
<1> QED
  BY <1>4, <1>7, <1>8, <1>9 DEF TidInv, ResumeOver

\* A task that is resumed is registered for the id it owns already.
LEMMA ResumeKeepsOwners ==
    ASSUME PoolTypeOK, ManagerTypeOK, ResumeInv, Resumable, NEW t \in Tasks, MainResume(t)
    PROVE  UNCHANGED TidOwner
<1>1. /\ main = "resuming" /\ t \in pending /\ t \in Resumed
      /\ pending \subseteq Resumed /\ pending' = pending \ {t}
      /\ ResumeTid[t] \in Tids /\ ResumeTid[t] # 0 /\ tid_task[ResumeTid[t]] = NoTask
  BY DEF MainResume, ManagerTypeOK, Resumable, ResumeTidsUsable, ResumeInv
<1>2. tid_task' = [tid_task EXCEPT ![ResumeTid[t]] = t]
  <2> PICK ret \in Tids : ExecuteTask(QueueOf[t], t, ResumeTid[t], ret)
    BY <1>1 DEF MainResume, Resumable
  <2> QED
    BY <1>1 DEF ExecuteTask, RegisterTask
<1>3. TidOwner[ResumeTid[t]] = t
  BY <1>1, OwnerIsPending DEF Resumable
<1>4. t # NoTask
  OBVIOUS
<1>5. ASSUME NEW k \in Tids PROVE TidOwner'[k] = TidOwner[k]
  <2>1. CASE k = ResumeTid[t]
    <3> tid_task'[k] = t
      BY <1>2, <2>1 DEF PoolTypeOK
    <3> QED
      BY <1>3, <1>4, <2>1 DEF TidOwner
  <2>2. CASE k # ResumeTid[t]
    <3>1. tid_task'[k] = tid_task[k]
      BY <1>2, <2>2 DEF PoolTypeOK
    <3>2. CASE \E u \in pending : ResumeTid[u] = k
      <4>1. PICK u \in pending : ResumeTid[u] = k
        BY <3>2
      <4>2. u \in pending'
        BY <1>1, <2>2, <4>1
      <4>3. \A v \in pending : ResumeTid[v] = k => v = u
        BY <1>1, <4>1 DEF Resumable, ResumeTidsUsable
      <4>4. (CHOOSE v \in pending : ResumeTid[v] = k) = u
        BY <4>1, <4>3
      <4>5. (CHOOSE v \in pending' : ResumeTid[v] = k) = u
        BY <1>1, <4>1, <4>2, <4>3
      <4> QED
        BY <3>1, <4>1, <4>2, <4>4, <4>5 DEF TidOwner
    <3>3. CASE ~\E u \in pending : ResumeTid[u] = k
      <4> ~\E u \in pending' : ResumeTid[u] = k
        BY <1>1, <3>3
      <4> QED
        BY <3>1, <3>3 DEF TidOwner
    <3> QED
      BY <3>2, <3>3
  <2> QED
    BY <2>1, <2>2
<1> QED
  BY <1>5 DEF TidOwner

\* The Forker's steps pass an id on: it registers one that nobody holds, gives
\* it to the child it forks, or releases it.
LEMMA ForkerTids ==
    ASSUME PoolTypeOK, ManagerTypeOK, ThreadInv, TidInv, ~NoFreeTid,
           ForkerRegister \/ ForkerFork \/ ForkerRelease
    PROVE  TidInv'
<1>1. main # "resuming" /\ UNCHANGED <<gatherer, main, pending, msgq, log>>
  BY DEF ForkerRegister, ForkerFork, ForkerRelease, ThreadInv, mainVars, procVars
<1>2. pending = {} /\ ResumeOver'
  BY <1>1 DEF TidInv, ResumeOver
<1>3. TidOwner = tid_task
  BY <1>2, OwnerIsRegistered
<1>5. /\ \A p \in Pids : proc[p].tid \in Tids
      /\ \A k \in ExitMsgs : msgq[k].tid \in Tids
      /\ gatherer.tid \in Tids /\ forker.tid \in Tids
  BY HolderTypes DEF ExitMsgs
<1>6. ExitMsgs' = ExitMsgs /\ GathererHasTid' = GathererHasTid
      /\ (OutputBelongsToTask => OutputBelongsToTask')
  BY <1>1 DEF ExitMsgs, GathererHasTid, OutputBelongsToTask
<1> USE DEF TidInv
<1>7. CASE ForkerRegister
  <2>1. PICK tid \in Tids :
          /\ ExecuteTask(forker.queue, forker.task, 0, tid)
          /\ forker' = [forker EXCEPT !.pc = "execute", !.tid = tid]
    BY <1>7 DEF ForkerRegister
  <2>2. /\ tid_task[tid] = NoTask /\ tid_task' = [tid_task EXCEPT ![tid] = forker.task]
        /\ proc' = proc /\ forker.task \in Tasks
    <3> FirstFreeTid(tid) /\ RegisterTask(forker.queue, forker.task, tid)
      BY <2>1 DEF ExecuteTask
    <3> QED
      BY <1>7 DEF FirstFreeTid, RegisterTask, ForkerRegister, procVars, ThreadInv
  <2>3. forker'.pc = "execute" /\ forker'.tid = tid /\ forker'.task = forker.task
    BY <2>1 DEF ManagerTypeOK
  <2>4. TidOwner' = tid_task'
    BY <1>1, <1>2, <2>2 DEF TidOwner, PoolTypeOK
  <2>5. /\ \A p \in Pids : Live(p) => proc[p].tid # tid
        /\ \A k \in ExitMsgs : msgq[k].tid # tid
        /\ GathererHasTid => gatherer.tid # tid
    BY <1>3, <2>2 DEF HolderOwns
  <2>6. \A p \in Pids : Live(p)' = Live(p)
    BY <2>2 DEF Live
  <2>7. OneHolder'
    BY <1>1, <1>6, <2>2, <2>3, <2>5, <2>6 DEF OneHolder
  <2>8. \A k \in Tids : k # tid => TidOwner'[k] = TidOwner[k]
    BY <1>3, <2>2, <2>4 DEF PoolTypeOK
  <2>9. HolderOwns'
    <3>1. TidOwner'[tid] = forker.task
      BY <2>2, <2>4 DEF PoolTypeOK
    <3>2. \A p \in Pids : Live(p)' => /\ TidOwner'[proc'[p].tid] = proc'[p].task
                                      /\ proc'[p].task \in Tasks
      BY <1>5, <2>2, <2>5, <2>6, <2>8 DEF HolderOwns
    <3>3. /\ \A k \in ExitMsgs' : TidOwner'[msgq'[k].tid] # NoTask
          /\ GathererHasTid' => TidOwner'[gatherer'.tid] # NoTask
      BY <1>1, <1>5, <1>6, <2>5, <2>8 DEF HolderOwns
    <3> QED
      BY <2>2, <2>3, <3>1, <3>2, <3>3 DEF HolderOwns
  <2>10. LogInv'
    <3>1. \A p \in Pids : proc[p].stage = "running" => Live(p)
      BY DEF Live
    <3>2. \A p \in Pids : proc'[p].stage = "running" => log'[proc'[p].tid] = TidOwner'[proc'[p].tid]
      BY <1>1, <1>5, <2>2, <2>5, <2>8, <3>1 DEF LogInv
    <3>3. \A k \in ExitMsgs' : log'[msgq'[k].tid] = TidOwner'[msgq'[k].tid]
      BY <1>1, <1>5, <1>6, <2>5, <2>8 DEF LogInv
    <3>4. /\ gatherer'.pc \in {"reap", "read"} => log'[gatherer'.tid] = TidOwner'[gatherer'.tid]
          /\ gatherer'.pc = "terminate" => gatherer'.output = TidOwner'[gatherer'.tid]
      BY <1>1, <1>5, <2>5, <2>8 DEF LogInv, GathererHasTid
    <3> QED
      BY <1>6, <3>2, <3>3, <3>4 DEF LogInv
  <2> QED
    BY <1>2, <2>7, <2>9, <2>10
<1>8. CASE ForkerFork
  <2>1. PICK p \in Pids :
          /\ proc[p].stage = "none"
          /\ proc' = [proc EXCEPT ![p] = [stage |-> "forked", task |-> forker.task,
                                          tid |-> forker.tid, child |-> TRUE]]
    BY <1>8 DEF ForkerFork
  <2>2. /\ ForkerHasTid /\ ~ForkerHasTid'
        /\ UNCHANGED <<tid_task, TidOwner>>
    BY <1>1, <1>8 DEF ForkerFork, ForkerHasTid, poolVars, TidOwner, ManagerTypeOK
  <2>3. /\ Live(p)' /\ proc'[p].tid = forker.tid /\ proc'[p].task = forker.task
        /\ proc'[p].stage = "forked"
    BY <2>1 DEF Live, ManagerTypeOK
  <2>4. \A r \in Pids : r # p => proc'[r] = proc[r] /\ Live(r)' = Live(r)
    BY <2>1 DEF Live, ManagerTypeOK
  <2>5. OneHolder'
    <3>1. \A r, s \in Pids : Live(r)' /\ Live(s)' /\ r # s => proc'[r].tid # proc'[s].tid
      BY <2>2, <2>3, <2>4 DEF OneHolder
    <3>2. \A r \in Pids, k \in ExitMsgs' : Live(r)' => proc'[r].tid # msgq'[k].tid
      BY <1>1, <1>6, <2>2, <2>3, <2>4 DEF OneHolder
    <3>3. GathererHasTid' => \A r \in Pids : Live(r)' => proc'[r].tid # gatherer'.tid
      BY <1>1, <1>6, <2>2, <2>3, <2>4 DEF OneHolder
    <3> QED
      BY <1>1, <1>6, <2>2, <3>1, <3>2, <3>3 DEF OneHolder
  <2>6. HolderOwns'
    <3>1. \A r \in Pids : Live(r)' => /\ TidOwner'[proc'[r].tid] = proc'[r].task
                                      /\ proc'[r].task \in Tasks
      BY <2>2, <2>3, <2>4 DEF HolderOwns
    <3> QED
      BY <1>1, <1>6, <2>2, <3>1 DEF HolderOwns
  <2>7. LogInv'
    <3>1. \A r \in Pids : proc'[r].stage = "running" => log'[proc'[r].tid] = TidOwner'[proc'[r].tid]
      BY <1>1, <2>2, <2>3, <2>4 DEF LogInv
    <3> QED
      BY <1>1, <1>6, <2>2, <3>1 DEF LogInv
  <2> QED
    BY <1>2, <2>5, <2>6, <2>7
<1>9. CASE ForkerRelease
  <2>1. /\ ForkerHasTid /\ ~ForkerHasTid' /\ proc' = proc
    BY <1>9 DEF ForkerRelease, ForkerHasTid, ForkerAt, procVars
  <2>2. TerminateTask(forker.tid)
    <3> tid_task[forker.tid] # NoTask
      BY <1>3, <2>1 DEF HolderOwns
    <3> QED
      BY <1>9 DEF ForkerRelease, TerminateNotFound
  <2>3. tid_task' = [tid_task EXCEPT ![forker.tid] = NoTask]
    BY <2>2 DEF TerminateTask
  <2>4. \A k \in Tids : k # forker.tid => TidOwner'[k] = TidOwner[k]
    BY <1>1, <1>2, <1>3, <2>3 DEF TidOwner, PoolTypeOK
  <2>5. \A p \in Pids : Live(p)' = Live(p)
    BY <2>1 DEF Live
  <2>6. OneHolder'
    BY <1>1, <1>6, <2>1, <2>5 DEF OneHolder
  <2>7. HolderOwns'
    <3>1. \A p \in Pids : Live(p)' => /\ TidOwner'[proc'[p].tid] = proc'[p].task
                                      /\ proc'[p].task \in Tasks
      BY <1>5, <2>1, <2>4, <2>5 DEF HolderOwns, OneHolder
    <3>2. /\ \A k \in ExitMsgs' : TidOwner'[msgq'[k].tid] # NoTask
          /\ GathererHasTid' => TidOwner'[gatherer'.tid] # NoTask
      BY <1>1, <1>5, <1>6, <2>1, <2>4 DEF HolderOwns, OneHolder
    <3> QED
      BY <2>1, <3>1, <3>2 DEF HolderOwns
  <2>8. LogInv'
    <3>1. \A p \in Pids : proc[p].stage = "running" => Live(p)
      BY DEF Live
    <3>2. \A p \in Pids : proc'[p].stage = "running" => log'[proc'[p].tid] = TidOwner'[proc'[p].tid]
      BY <1>1, <1>5, <2>1, <2>4, <3>1 DEF LogInv, OneHolder
    <3>3. \A k \in ExitMsgs' : log'[msgq'[k].tid] = TidOwner'[msgq'[k].tid]
      BY <1>1, <1>5, <1>6, <2>1, <2>4 DEF LogInv, OneHolder
    <3>4. /\ gatherer'.pc \in {"reap", "read"} => log'[gatherer'.tid] = TidOwner'[gatherer'.tid]
          /\ gatherer'.pc = "terminate" => gatherer'.output = TidOwner'[gatherer'.tid]
      BY <1>1, <1>5, <2>1, <2>4 DEF LogInv, OneHolder, GathererHasTid
    <3> QED
      BY <1>6, <3>2, <3>3, <3>4 DEF LogInv
  <2> QED
    BY <1>2, <2>6, <2>7, <2>8
<1> QED
  BY <1>7, <1>8, <1>9

\* The monitor truncates the log file of an id that nobody else holds, and
\* hands the id over to its exit message.
LEMMA MonitorTids ==
    ASSUME ManagerTypeOK, TidInv, NEW p \in Pids, MonitorStart(p) \/ MonitorSend(p)
    PROVE  TidInv'
<1>1. UNCHANGED <<tid_task, pending, main, gatherer, forker>>
  BY DEF MonitorStart, MonitorSend, poolVars, mainVars
<1>2. UNCHANGED <<TidOwner, GathererHasTid, ForkerHasTid>> /\ (ResumeOver => ResumeOver')
      /\ (OutputBelongsToTask => OutputBelongsToTask')
  BY <1>1 DEF TidOwner, GathererHasTid, ForkerHasTid, ResumeOver, OutputBelongsToTask
<1>3. /\ \A r \in Pids : proc[r].tid \in Tids
      /\ \A k \in ExitMsgs : msgq[k].tid \in Tids
      /\ gatherer.tid \in Tids
  BY HolderTypes DEF ExitMsgs
<1>4. Live(p) /\ proc[p].tid \in Tids
  BY <1>3 DEF MonitorStart, MonitorSend, Live
<1> USE DEF TidInv
<1>5. CASE MonitorStart(p)
  <2>1. /\ proc[p].stage = "forked" /\ msgq' = msgq
        /\ proc' = [proc EXCEPT ![p].stage = "running"]
        /\ log' = [log EXCEPT ![proc[p].tid] = proc[p].task]
    BY <1>5 DEF MonitorStart
  <2>2. \A r \in Pids : /\ proc'[r].tid = proc[r].tid /\ proc'[r].task = proc[r].task
                        /\ r # p => proc'[r] = proc[r]
                        /\ Live(r)' = Live(r)
    BY <1>4, <2>1 DEF ManagerTypeOK, Live
  <2>3. ExitMsgs' = ExitMsgs
    BY <2>1 DEF ExitMsgs
  <2>4. OneHolder'
    BY <1>1, <1>2, <2>1, <2>2, <2>3 DEF OneHolder
  <2>5. HolderOwns'
    BY <1>1, <1>2, <2>1, <2>2, <2>3 DEF HolderOwns
  <2>6. /\ log'[proc[p].tid] = proc[p].task
        /\ \A k \in Tids : k # proc[p].tid => log'[k] = log[k]
    BY <1>4, <2>1 DEF ManagerTypeOK
  <2>7. LogInv'
    <3>1. ASSUME NEW r \in Pids, proc'[r].stage = "running"
          PROVE  log'[proc'[r].tid] = TidOwner'[proc'[r].tid]
      <4>1. CASE r = p
        BY <1>2, <1>4, <2>2, <2>6, <4>1 DEF HolderOwns
      <4>2. CASE r # p
        <5> Live(r) /\ proc[r].stage = "running"
          BY <2>2, <3>1, <4>2 DEF Live
        <5> QED
          BY <1>2, <1>3, <1>4, <2>2, <2>6, <4>2 DEF LogInv, OneHolder
      <4> QED
        BY <4>1, <4>2
    <3>2. \A k \in ExitMsgs' : log'[msgq'[k].tid] = TidOwner'[msgq'[k].tid]
      BY <1>2, <1>3, <1>4, <2>1, <2>3, <2>6 DEF LogInv, OneHolder
    <3>3. gatherer.pc \in {"reap", "read"} => log'[gatherer.tid] = TidOwner'[gatherer.tid]
      BY <1>2, <1>3, <1>4, <2>6 DEF LogInv, OneHolder, GathererHasTid
    <3> QED
      BY <1>1, <1>2, <3>1, <3>2, <3>3 DEF LogInv
  <2> QED
    BY <1>2, <2>4, <2>5, <2>7
<1>6. CASE MonitorSend(p)
  <2> DEFINE new == Len(msgq) + 1
             M == [pid : Pids \cup {0}, tid : Tids]
  <2>1. /\ proc[p].stage = "running" /\ log' = log
        /\ proc' = [proc EXCEPT ![p].stage = "sent"]
        /\ msgq' = Append(msgq, [pid |-> p, tid |-> proc[p].tid])
    BY <1>6 DEF MonitorSend
  <2>2. ~Live(p)' /\ \A r \in Pids : r # p => proc'[r] = proc[r] /\ Live(r)' = Live(r)
    BY <2>1 DEF ManagerTypeOK, Live
  <2>3. /\ Len(msgq) \in Nat /\ Len(msgq') = new
        /\ \A k \in 1 .. Len(msgq) : msgq'[k] = msgq[k]
        /\ msgq'[new] = [pid |-> p, tid |-> proc[p].tid]
    <3>1. msgq \in Seq(M) /\ [pid |-> p, tid |-> proc[p].tid] \in M
      BY <1>4 DEF ManagerTypeOK
    <3> HIDE DEF M
    <3> QED
      BY <2>1, <3>1
  <2>4. /\ ExitMsgs' = ExitMsgs \cup {new} /\ new \notin ExitMsgs
        /\ \A k \in ExitMsgs : msgq'[k] = msgq[k]
        /\ msgq'[new].tid = proc[p].tid
    BY <2>3 DEF ExitMsgs
  <2> HIDE DEF new
  <2>5. OneHolder'
    <3>1. \A r, s \in Pids : Live(r)' /\ Live(s)' /\ r # s => proc'[r].tid # proc'[s].tid
      BY <2>2 DEF OneHolder
    <3>2. \A r \in Pids, k \in ExitMsgs' : Live(r)' => proc'[r].tid # msgq'[k].tid
      BY <1>4, <2>2, <2>4 DEF OneHolder
    <3>3. \A k, m \in ExitMsgs' : k # m => msgq'[k].tid # msgq'[m].tid
      BY <1>4, <2>4 DEF OneHolder
    <3>4. GathererHasTid' =>
            /\ \A r \in Pids : Live(r)' => proc'[r].tid # gatherer'.tid
            /\ \A k \in ExitMsgs' : msgq'[k].tid # gatherer'.tid
      BY <1>1, <1>2, <1>4, <2>2, <2>4 DEF OneHolder
    <3>5. ForkerHasTid' =>
            /\ \A r \in Pids : Live(r)' => proc'[r].tid # forker'.tid
            /\ \A k \in ExitMsgs' : msgq'[k].tid # forker'.tid
            /\ GathererHasTid' => gatherer'.tid # forker'.tid
      BY <1>1, <1>2, <1>4, <2>2, <2>4 DEF OneHolder
    <3> QED
      BY <3>1, <3>2, <3>3, <3>4, <3>5 DEF OneHolder
  <2>6. HolderOwns'
    <3>1. \A r \in Pids : Live(r)' => /\ TidOwner'[proc'[r].tid] = proc'[r].task
                                      /\ proc'[r].task \in Tasks
      BY <1>2, <2>2 DEF HolderOwns
    <3>2. \A k \in ExitMsgs' : TidOwner'[msgq'[k].tid] # NoTask
      BY <1>2, <1>4, <2>4 DEF HolderOwns
    <3> QED
      BY <1>1, <1>2, <3>1, <3>2 DEF HolderOwns
  <2>7. LogInv'
    <3>1. \A r \in Pids : proc'[r].stage = "running" => r # p
      BY <2>2 DEF Live
    <3>2. \A r \in Pids : proc'[r].stage = "running" => log'[proc'[r].tid] = TidOwner'[proc'[r].tid]
      BY <1>2, <2>1, <2>2, <3>1 DEF LogInv
    <3>3. ASSUME NEW k \in ExitMsgs' PROVE log'[msgq'[k].tid] = TidOwner'[msgq'[k].tid]
      <4>1. CASE k = new
        <5> log[proc[p].tid] = TidOwner[proc[p].tid]
          BY <2>1 DEF LogInv
        <5> QED
          BY <1>2, <2>1, <2>4, <4>1
      <4>2. CASE k \in ExitMsgs
        <5> log[msgq[k].tid] = TidOwner[msgq[k].tid]
          BY <4>2 DEF LogInv
        <5> QED
          BY <1>2, <2>1, <2>4, <4>2
      <4> QED
        BY <2>4, <4>1, <4>2
    <3> QED
      BY <1>1, <1>2, <2>1, <3>2, <3>3 DEF LogInv
  <2> QED
    BY <1>2, <2>5, <2>6, <2>7
<1> QED
  BY <1>5, <1>6

\* The exit messages that are left when the first message has been received.
LEMMA ReceivedMsgs ==
    ASSUME ManagerTypeOK, msgq # <<>>, msgq' = Tail(msgq)
    PROVE  /\ \E f \in [ExitMsgs' -> ExitMsgs \ {1}] :
                /\ \A k \in ExitMsgs' : msgq'[k] = msgq[f[k]]
                /\ \A k, m \in ExitMsgs' : k # m => f[k] # f[m]
           /\ msgq[1] = Head(msgq)
           /\ msgq[1].pid # 0 => 1 \in ExitMsgs
<1> DEFINE M == [pid : Pids \cup {0}, tid : Tids]
           f == [k \in ExitMsgs' |-> k + 1]
<1>1. msgq \in Seq(M)
  BY DEF ManagerTypeOK
<1> HIDE DEF M
<1>2. /\ Len(msgq) \in Nat /\ Len(msgq) > 0 /\ Len(msgq') = Len(msgq) - 1
      /\ \A k \in 1 .. Len(msgq') : msgq'[k] = msgq[k + 1]
      /\ msgq[1] = Head(msgq)
  BY <1>1
<1>3. \A k \in ExitMsgs' : k \in Nat /\ k + 1 \in ExitMsgs \ {1} /\ msgq'[k] = msgq[k + 1]
  BY <1>2 DEF ExitMsgs
<1>4. /\ f \in [ExitMsgs' -> ExitMsgs \ {1}]
      /\ \A k \in ExitMsgs' : msgq'[k] = msgq[f[k]]
      /\ \A k, m \in ExitMsgs' : k # m => f[k] # f[m]
  <2>1. \A k \in ExitMsgs' : f[k] = k + 1
    OBVIOUS
  <2>2. f \in [ExitMsgs' -> ExitMsgs \ {1}]
    BY <1>3
  <2> HIDE DEF f
  <2>3. \A k \in ExitMsgs' : msgq'[k] = msgq[f[k]]
    BY <1>3, <2>1
  <2>4. \A k, m \in ExitMsgs' : k # m => f[k] # f[m]
    BY <1>3, <2>1
  <2> QED
    BY <2>2, <2>3, <2>4
<1>5. msgq[1].pid # 0 => 1 \in ExitMsgs
  BY <1>2 DEF ExitMsgs
<1> HIDE DEF f
<1> QED
  BY <1>2, <1>4, <1>5

\* The Gatherer takes the id over from the message, reads the log file before
\* anybody else can hold the id, and releases it.
LEMMA GathererTids ==
    ASSUME PoolTypeOK, ManagerTypeOK, ThreadInv, TidInv,
           GathererReceive \/ GathererReap \/ GathererRead \/ GathererTerminate
    PROVE  TidInv'
<1>1. main # "resuming" /\ UNCHANGED <<forker, main, pending>>
  BY DEF GathererReceive, GathererReap, GathererRead, GathererTerminate, ThreadInv, mainVars
<1>2. pending = {} /\ ResumeOver' /\ ForkerHasTid' = ForkerHasTid
  BY <1>1 DEF TidInv, ResumeOver, ForkerHasTid
<1>3. TidOwner = tid_task
  BY <1>2, OwnerIsRegistered
<1>4. /\ \A r \in Pids : proc[r].tid \in Tids
      /\ \A k \in ExitMsgs : msgq[k].tid \in Tids
      /\ gatherer.tid \in Tids /\ forker.tid \in Tids
  BY HolderTypes DEF ExitMsgs
<1>5. \A r \in Pids : proc[r].stage = "running" => Live(r)
  BY DEF Live
<1> USE DEF TidInv
<1>6. CASE GathererReceive
  <2>0. msgq # <<>> /\ msgq' = Tail(msgq)
    BY <1>6 DEF GathererReceive
  <2>1. /\ gatherer.pc = "receive"
        /\ UNCHANGED <<tid_task, proc, log>>
        /\ \/ gatherer' = GathererAt("exited") \/ gatherer' = gatherer
           \/ /\ msgq[1].pid # 0
              /\ gatherer' = [gatherer EXCEPT !.pc = "reap", !.pid = msgq[1].pid,
                                              !.tid = msgq[1].tid]
    <3> Head(msgq) = msgq[1]
      BY <2>0, ReceivedMsgs
    <3> QED
      BY <1>6 DEF GathererReceive, poolVars
  <2>2. UNCHANGED TidOwner /\ \A r \in Pids : Live(r)' = Live(r)
    BY <1>1, <2>1 DEF TidOwner, Live
  <2>3. PICK f \in [ExitMsgs' -> ExitMsgs \ {1}] :
          /\ \A k \in ExitMsgs' : msgq'[k] = msgq[f[k]]
          /\ \A k, m \in ExitMsgs' : k # m => f[k] # f[m]
    BY <2>0, ReceivedMsgs
  <2>9. msgq[1].pid # 0 => 1 \in ExitMsgs
    BY <2>0, ReceivedMsgs
  <2>4. /\ gatherer'.pc \in {"exited", "receive", "reap"}
        /\ gatherer'.pc = "reap" => 1 \in ExitMsgs /\ gatherer'.tid = msgq[1].tid
    <3>1. CASE gatherer' = GathererAt("exited") \/ gatherer' = gatherer
      BY <2>1, <3>1 DEF GathererAt
    <3>2. ASSUME NEW m, gatherer' = [gatherer EXCEPT !.pc = "reap", !.pid = m.pid, !.tid = m.tid]
          PROVE  gatherer'.pc = "reap" /\ gatherer'.tid = m.tid
      BY <3>2 DEF ManagerTypeOK
    <3> QED
      BY <2>1, <2>9, <3>1, <3>2
  <2>5. GathererHasTid' => gatherer'.pc = "reap"
    BY <2>4 DEF GathererHasTid
  <2>6. OneHolder'
    <3>1. \A r, s \in Pids : Live(r)' /\ Live(s)' /\ r # s => proc'[r].tid # proc'[s].tid
      BY <2>1, <2>2 DEF OneHolder
    <3>2. \A r \in Pids, k \in ExitMsgs' : Live(r)' => proc'[r].tid # msgq'[k].tid
      BY <2>1, <2>2, <2>3 DEF OneHolder
    <3>3. \A k, m \in ExitMsgs' : k # m => msgq'[k].tid # msgq'[m].tid
      BY <2>3 DEF OneHolder
    <3>4. GathererHasTid' =>
            /\ \A r \in Pids : Live(r)' => proc'[r].tid # gatherer'.tid
            /\ \A k \in ExitMsgs' : msgq'[k].tid # gatherer'.tid
      BY <2>1, <2>2, <2>3, <2>4, <2>5 DEF OneHolder
    <3>5. ForkerHasTid' =>
            /\ \A r \in Pids : Live(r)' => proc'[r].tid # forker'.tid
            /\ \A k \in ExitMsgs' : msgq'[k].tid # forker'.tid
            /\ GathererHasTid' => gatherer'.tid # forker'.tid
      BY <1>1, <1>2, <2>1, <2>2, <2>3, <2>4, <2>5 DEF OneHolder
    <3> QED
      BY <3>1, <3>2, <3>3, <3>4, <3>5 DEF OneHolder
  <2>7. HolderOwns'
    BY <1>1, <1>2, <2>1, <2>2, <2>3, <2>4, <2>5 DEF HolderOwns
  <2>8. LogInv'
    BY <2>1, <2>2, <2>3, <2>4 DEF LogInv, OutputBelongsToTask
  <2> QED
    BY <1>2, <2>6, <2>7, <2>8
<1>7. CASE GathererReap
  <2>1. /\ gatherer.pc = "reap" /\ UNCHANGED <<tid_task, msgq, log>>
        /\ proc' = [proc EXCEPT ![gatherer.pid] = NoProc] \/ proc' = proc
        /\ gatherer' = [gatherer EXCEPT !.pc = "read"]
    BY <1>7 DEF GathererReap, poolVars
  <2>2. UNCHANGED TidOwner /\ ExitMsgs' = ExitMsgs
    BY <1>1, <2>1 DEF TidOwner, ExitMsgs
  <2>3. gatherer'.pc = "read" /\ gatherer'.tid = gatherer.tid
        /\ GathererHasTid /\ GathererHasTid'
    BY <2>1 DEF GathererHasTid, ManagerTypeOK
  <2>4. ASSUME NEW r \in Pids, Live(r)' PROVE proc'[r] = proc[r] /\ Live(r)
    <3>1. NoProc.stage = "none"
      BY DEF NoProc
    <3>2. r # gatherer.pid \/ proc' = proc
      BY <2>1, <2>4, <3>1 DEF Live, ManagerTypeOK
    <3>3. proc'[r] = proc[r]
      BY <2>1, <3>2 DEF ManagerTypeOK
    <3> QED
      BY <2>4, <3>3 DEF Live
  <2>5. OneHolder'
    BY <1>1, <1>2, <2>1, <2>2, <2>3, <2>4 DEF OneHolder
  <2>6. HolderOwns'
    BY <1>1, <1>2, <2>1, <2>2, <2>3, <2>4 DEF HolderOwns
  <2>7. LogInv'
    <3>1. \A r \in Pids : proc'[r].stage = "running" => proc'[r] = proc[r]
      BY <2>4 DEF Live
    <3> QED
      BY <2>1, <2>2, <2>3, <3>1 DEF LogInv, OutputBelongsToTask
  <2> QED
    BY <1>2, <2>5, <2>6, <2>7
<1>8. CASE GathererRead
  <2>1. /\ gatherer.pc = "read" /\ UNCHANGED <<tid_task, msgq, proc>>
        /\ gatherer' = [gatherer EXCEPT !.pc = "terminate", !.output = log[gatherer.tid]]
        /\ log' = [log EXCEPT ![gatherer.tid] = NoTask] \/ log' = log
    BY <1>8 DEF GathererRead, poolVars
  <2>2. /\ UNCHANGED TidOwner /\ ExitMsgs' = ExitMsgs
        /\ \A r \in Pids : Live(r)' = Live(r)
    BY <1>1, <2>1 DEF TidOwner, ExitMsgs, Live
  <2>3. gatherer'.pc = "terminate" /\ gatherer'.tid = gatherer.tid
        /\ gatherer'.output = log[gatherer.tid] /\ GathererHasTid /\ GathererHasTid'
    BY <2>1 DEF GathererHasTid, ManagerTypeOK
  <2>4. \A k \in Tids : k # gatherer.tid => log'[k] = log[k]
    BY <2>1 DEF ManagerTypeOK
  <2>5. OneHolder'
    BY <1>1, <1>2, <2>1, <2>2, <2>3 DEF OneHolder
  <2>6. HolderOwns'
    BY <1>1, <1>2, <2>1, <2>2, <2>3 DEF HolderOwns
  <2>7. LogInv'
    <3>1. \A r \in Pids : proc'[r].stage = "running" => log'[proc'[r].tid] = TidOwner'[proc'[r].tid]
      BY <1>4, <1>5, <2>1, <2>2, <2>3, <2>4 DEF LogInv, OneHolder
    <3>2. \A k \in ExitMsgs' : log'[msgq'[k].tid] = TidOwner'[msgq'[k].tid]
      BY <1>4, <2>1, <2>2, <2>3, <2>4 DEF LogInv, OneHolder
    <3>3. gatherer'.output = TidOwner'[gatherer'.tid]
      BY <2>1, <2>2, <2>3 DEF LogInv
    <3> QED
      BY <2>3, <3>1, <3>2, <3>3 DEF LogInv, OutputBelongsToTask
  <2> QED
    BY <1>2, <2>5, <2>6, <2>7
<1>9. CASE GathererTerminate
  <2>1. gatherer.pc = "terminate" /\ GathererHasTid /\ UNCHANGED <<msgq, proc, log>>
    BY <1>9 DEF GathererTerminate, GathererHasTid, procVars
  <2>2. tid_task[gatherer.tid] # NoTask
    BY <1>3, <2>1 DEF HolderOwns
  <2>3. /\ gatherer' = [gatherer EXCEPT !.pc = "stop", !.task = tid_task[gatherer.tid]]
        /\ tid_task' = [tid_task EXCEPT ![gatherer.tid] = NoTask]
    BY <1>9, <2>2 DEF GathererTerminate, TerminateNotFound, TerminateTask
  <2>4. \A k \in Tids : k # gatherer.tid => TidOwner'[k] = TidOwner[k]
    BY <1>1, <1>2, <1>3, <2>3 DEF TidOwner, PoolTypeOK
  <2>5. gatherer'.pc = "stop" /\ ~GathererHasTid' /\ OutputBelongsToTask'
    <3> gatherer'.pc = "stop" /\ gatherer'.task = tid_task[gatherer.tid]
        /\ gatherer'.output = gatherer.output
      BY <2>3 DEF ManagerTypeOK
    <3> QED
      BY <1>3, <2>1 DEF GathererHasTid, OutputBelongsToTask, LogInv
  <2>6. ExitMsgs' = ExitMsgs /\ \A r \in Pids : Live(r)' = Live(r)
    BY <2>1 DEF ExitMsgs, Live
  <2>7. OneHolder'
    BY <1>1, <1>2, <2>1, <2>5, <2>6 DEF OneHolder
  <2>8. HolderOwns'
    <3>1. \A r \in Pids : Live(r)' => /\ TidOwner'[proc'[r].tid] = proc'[r].task
                                      /\ proc'[r].task \in Tasks
      BY <1>4, <2>1, <2>4, <2>6 DEF HolderOwns, OneHolder
    <3>2. \A k \in ExitMsgs' : TidOwner'[msgq'[k].tid] # NoTask
      BY <1>4, <2>1, <2>4, <2>6 DEF HolderOwns, OneHolder
    <3>3. ForkerHasTid' => TidOwner'[forker'.tid] = forker'.task /\ forker'.task \in Tasks
      BY <1>1, <1>2, <1>4, <2>1, <2>4 DEF HolderOwns, OneHolder
    <3> QED
      BY <2>5, <3>1, <3>2, <3>3 DEF HolderOwns
  <2>9. LogInv'
    <3>1. \A r \in Pids : proc'[r].stage = "running" => log'[proc'[r].tid] = TidOwner'[proc'[r].tid]
      BY <1>4, <1>5, <2>1, <2>4 DEF LogInv, OneHolder
    <3>2. \A k \in ExitMsgs' : log'[msgq'[k].tid] = TidOwner'[msgq'[k].tid]
      BY <1>4, <2>1, <2>4, <2>6 DEF LogInv, OneHolder
    <3> QED
      BY <2>5, <3>1, <3>2 DEF LogInv
  <2> QED
    BY <1>2, <2>7, <2>8, <2>9
<1> QED
  BY <1>6, <1>7, <1>8, <1>9

\* Every step keeps the ids in one hand, as long as an id is free for the
\* Forker to register.
LEMMA TidStep ==
    ASSUME EngineInv, ResumeInv, TidInv, Resumable, ~NoFreeTid, [Next]_vars
    PROVE  TidInv'
<1> PoolTypeOK /\ ManagerTypeOK /\ ThreadInv /\ ResumeOver
  BY TypeParts DEF EngineInv, TidInv
<1>0. ASSUME UNCHANGED <<tid_task, pending>> PROVE UNCHANGED TidOwner
  BY <1>0 DEF TidOwner
<1>1. ASSUME UNCHANGED <<tid_task, pending, main, gatherer, procVars>>,
             ForkerHasTid' => /\ ForkerHasTid
                              /\ forker'.tid = forker.tid /\ forker'.task = forker.task
      PROVE  TidInv'
  <2> ResumeOver' /\ UNCHANGED <<TidOwner, proc, log, msgq>>
    BY <1>0, <1>1 DEF ResumeOver, procVars
  <2> QED
    BY <1>1, TidFrame
<1>2. ASSUME UNCHANGED <<tid_task, pending, main, gatherer, procVars, forker>> PROVE TidInv'
  BY <1>1, <1>2 DEF ForkerHasTid
<1>3. ASSUME NEW t \in Tasks, ClientEnqueue(t) PROVE TidInv'
  BY <1>2, <1>3 DEF ClientEnqueue, EnqueueTask, poolVars, mainVars
<1>4. ASSUME NEW w \in MayCancel, ClientCancel(w) \/ ClientCancelTasks(w) PROVE TidInv'
  BY <1>2, <1>4 DEF ClientCancel, ClientCancelTasks, CancelTasks, poolVars, mainVars
<1>5. CASE ForkerWait \/ ForkerExit \/ ForkerCrash \/ ForkerExecuting
  <2>1. ForkerAt("waiting").pc = "waiting" /\ ForkerAt("exited").pc = "exited"
        /\ ForkerAt("crashed").pc = "crashed" /\ ForkerAt("dequeue").pc = "dequeue"
    BY DEF ForkerAt
  <2>2. ~ForkerHasTid'
    BY <1>5, <2>1 DEF ForkerWait, ForkerExit, ForkerCrash, ForkerExecuting, ForkerHasTid
  <2>3. UNCHANGED <<tid_task, pending, main, gatherer, procVars>>
    BY <1>5 DEF ForkerWait, DequeueWait, ForkerExit, DequeueFalse, ForkerCrash, DequeueCrash,
                ForkerExecuting, poolVars, mainVars
  <2> QED
    BY <1>1, <2>2, <2>3
<1>6. CASE ForkerDequeue
  <2>1. ~ForkerHasTid'
    BY <1>6 DEF ForkerDequeue, ForkerHasTid, ManagerTypeOK
  <2>2. UNCHANGED <<tid_task, pending, main, gatherer, procVars>>
    BY <1>6 DEF ForkerDequeue, DequeueTask, mainVars
  <2> QED
    BY <1>1, <2>1, <2>2
<1>7. CASE ForkerAbort
  <2>1. ForkerHasTid /\ forker'.tid = forker.tid /\ forker'.task = forker.task
    BY <1>7 DEF ForkerAbort, ForkerHasTid, ManagerTypeOK
  <2>2. UNCHANGED <<tid_task, pending, main, gatherer, procVars>>
    BY <1>7 DEF ForkerAbort, poolVars, mainVars
  <2> QED
    BY <1>1, <2>1, <2>2
<1>8. CASE ForkerRegister \/ ForkerFork \/ ForkerRelease
  BY <1>8, ForkerTids
<1>9. CASE ForkerSpuriousWakeup
  BY <1>2, <1>9 DEF ForkerSpuriousWakeup, mainVars
<1>10. ASSUME NEW p \in Pids, Monitor(p) \/ MonitorDie(p) PROVE TidInv'
  <2>1. CASE MonitorStart(p) \/ MonitorSend(p)
    BY <2>1, MonitorTids
  <2>2. CASE MonitorExit(p) \/ MonitorDie(p)
    <3>1. /\ UNCHANGED <<tid_task, pending, main, gatherer, forker, msgq, log>>
          /\ \/ proc' = [proc EXCEPT ![p].stage = "zombie"]
             \/ proc' = [proc EXCEPT ![p] = [proc[p] EXCEPT !.stage = "zombie"]]
             \/ proc' = [proc EXCEPT ![p] = NoProc]
      BY <2>2 DEF MonitorExit, MonitorDie, poolVars, mainVars
    <3>2. ~Live(p)' /\ \A r \in Pids : r # p => proc'[r] = proc[r]
      BY <3>1 DEF Live, NoProc, ManagerTypeOK
    <3>3. UNCHANGED TidOwner /\ ResumeOver'
      BY <1>0, <3>1 DEF ResumeOver
    <3>4. ForkerHasTid' => ForkerHasTid
      BY <3>1 DEF ForkerHasTid
    <3> QED
      BY <3>1, <3>2, <3>3, <3>4, TidFrame
  <2> QED
    BY <1>10, <2>1, <2>2 DEF Monitor
<1>11. CASE GathererReceive \/ GathererReap \/ GathererRead \/ GathererTerminate
  BY <1>11, GathererTids
<1>12. CASE GathererStop \/ GathererError \/ MainStart
  <2>1. /\ UNCHANGED <<tid_task, pending, procVars>>
        /\ UNCHANGED forker \/ forker' = ForkerAt("dequeue")
        /\ gatherer' = GathererAt("receive") \/ gatherer' = GathererAt("exited")
        /\ UNCHANGED main \/ pending = {}
    BY <1>12 DEF GathererStop, GathererError, MainStart, poolVars, mainVars
  <2>2. ~GathererHasTid' /\ gatherer'.pc # "stop"
    BY <2>1 DEF GathererAt, GathererHasTid
  <2>3. ForkerHasTid' => forker' = forker /\ ForkerHasTid
    BY <2>1 DEF ForkerAt, ForkerHasTid
  <2>4. UNCHANGED <<TidOwner, proc, log, msgq>> /\ ResumeOver'
    BY <1>0, <2>1 DEF ResumeOver, procVars
  <2> QED
    BY <2>2, <2>3, <2>4, TidFrame
<1>13. ASSUME NEW t \in Tasks, MainResume(t) PROVE TidInv'
  <2>1. UNCHANGED TidOwner
    BY <1>13, ResumeKeepsOwners
  <2>2. main = "resuming" /\ UNCHANGED <<main, forker, gatherer, proc, log, msgq>>
    BY <1>13 DEF MainResume, procVars
  <2>3. ResumeOver' /\ (ForkerHasTid' => ForkerHasTid)
    BY <2>2 DEF ResumeOver, ForkerHasTid
  <2> QED
    BY <2>1, <2>2, <2>3, TidFrame
<1>14. CASE MainShutdown \/ MainShutdownPool \/ MainJoin
  <2>1. main # "resuming" /\ main' # "resuming"
    BY <1>14 DEF MainShutdown, MainShutdownPool, MainJoin
  <2>2. UNCHANGED <<tid_task, pending, forker, gatherer, proc, log, msgq>>
    BY <1>14 DEF MainShutdown, MainShutdownPool, PoolShutdown, MainJoin, poolVars, procVars
  <2>3. ResumeOver' /\ UNCHANGED TidOwner /\ (ForkerHasTid' => ForkerHasTid)
    BY <1>0, <2>1, <2>2 DEF ResumeOver, ForkerHasTid
  <2> QED
    BY <2>2, <2>3, TidFrame
<1>15. CASE MainShutdownSend
  <2>0. msgq' = Append(msgq, ShutdownMsg)
    BY <1>15 DEF MainShutdownSend
  <2>1. /\ main # "resuming" /\ main' # "resuming"
        /\ UNCHANGED <<tid_task, pending, forker, gatherer, proc, log>>
    BY <1>15 DEF MainShutdownSend, poolVars
  <2>2. /\ UNCHANGED TidOwner /\ ResumeOver'
        /\ GathererHasTid' => GathererHasTid
        /\ ForkerHasTid' => ForkerHasTid
        /\ \A p \in Pids : Live(p)' => Live(p)
    BY <1>0, <2>1 DEF ResumeOver, GathererHasTid, ForkerHasTid, Live
  <2>3. ExitMsgs' = ExitMsgs /\ \A k \in ExitMsgs : msgq'[k] = msgq[k]
    <3> DEFINE M == [pid : Pids \cup {0}, tid : Tids]
    <3>1. msgq \in Seq(M) /\ ShutdownMsg \in M
      BY AtTypes DEF ManagerTypeOK
    <3> HIDE DEF M
    <3>2. /\ Len(msgq) \in Nat /\ Len(msgq') = Len(msgq) + 1
          /\ \A k \in 1 .. Len(msgq) : msgq'[k] = msgq[k]
          /\ msgq'[Len(msgq) + 1] = ShutdownMsg
      BY <2>0, <3>1
    <3>3. ShutdownMsg.pid = 0
      BY DEF ShutdownMsg
    <3> QED
      BY <3>2, <3>3 DEF ExitMsgs
  <2> USE DEF TidInv
  <2>4. OneHolder'
    BY <2>1, <2>2, <2>3 DEF OneHolder
  <2>5. HolderOwns'
    BY <2>1, <2>2, <2>3 DEF HolderOwns
  <2>6. LogInv'
    BY <2>1, <2>2, <2>3 DEF LogInv, OutputBelongsToTask
  <2> QED
    BY <2>2, <2>4, <2>5, <2>6
<1>16. CASE UNCHANGED vars
  BY <1>2, <1>16 DEF vars, poolVars, mainVars
<1> QED
  BY <1>3, <1>4, <1>5, <1>6, <1>7, <1>8, <1>9, <1>10, <1>11, <1>12, <1>13, <1>14,
     <1>15, <1>16
     DEF Next, Forker, Gatherer, Shutdown

\* The invariants of the ids hold in every state, as long as ids are free.
LEMMA TidsStaySound ==
    ASSUME Resumable
    PROVE  Spec /\ []~NoFreeTid => [](EngineInv /\ TidInv)
<1> DEFINE Inv == EngineInv /\ SlotInv /\ ResumeInv /\ TidInv
<1> ResumeTidsUsable
  BY DEF Resumable
<1>1. Init => Inv
  <2> SUFFICES ASSUME Init PROVE Inv
    OBVIOUS
  <2>1. EngineInv /\ SlotInv /\ ResumeInv
    BY InitPool, InitManager, TypeParts DEF Init, EngineInv
  <2> QED
    BY <2>1, InitTids
<1>2. Inv /\ ~NoFreeTid /\ [Next]_vars => Inv'
  BY EngineStep, SlotStep, TidStep
<1> QED
  BY <1>1, <1>2, PTL DEF Spec

\* The output handed to TaskStop was written by the task that is stopped: the
\* log file of an id cannot be truncated, read or given away by anybody else
\* between the start of the monitor and the release of the id.  Every task found
\* executing at boot gets its own id back, and ids do not run out.
THEOREM OutputIsTheTasksOwn ==
    ASSUME Resumable
    PROVE  Spec /\ []~NoFreeTid => []OutputBelongsToTask
<1>1. EngineInv /\ TidInv => OutputBelongsToTask
  BY DEF TidInv, LogInv
<1> QED
  BY <1>1, TidsStaySound, PTL
-----------------------------------------------------------------------------
(***************************************************************************)
(* Where a task is between enqueue_task and TaskStop: in one cell of its   *)
(* queue, in the Forker's hands, or executing under one id.  From this     *)
(* follow that no task is lost or run twice, that an exit message is never *)
(* taken for another task's, and that the concurrency is respected.        *)
(***************************************************************************)

\* An instance that may be cancelled shares none of its queues, so that a
\* cancellation leaves nothing behind the stale last_task (Queue.cpp:143).
QueuesUnshared ==
    \A t, u \in Tasks :
        WorkflowOf[t] \in MayCancel /\ QueueOf[t] # -1 /\ QueueOf[t] = QueueOf[u]
          => WorkflowOf[u] = WorkflowOf[t]

\* The lists of every queue are linked as the code means them.
ListInv == \A i \in Queues : Proper(queue[i])

\* A cell of a list carries a task of the queue that is QUEUED and nobody else
\* has; only tasks of cancelled instances are on the list of cancelled tasks.
CellInv ==
    /\ \A i \in Queues : \A c \in Reachable(queue[i]) :
         /\ cell_task[c] \in Tasks /\ QueueOf[cell_task[c]] = i
         /\ status[cell_task[c]] = "QUEUED" /\ ~InForkersHands(cell_task[c])
    /\ \A i \in Queues : \A c, d \in Reachable(queue[i]) : cell_task[c] = cell_task[d] => c = d
    /\ \A i \in Queues : \A c \in ToSet(queue[i].cancelled_tasks) :
         WorkflowOf[cell_task[c]] \in cancelling

\* A QUEUED task is in the Forker's hands or in a cell of its queue.
HeldInv ==
    /\ \A t \in Tasks : status[t] = "QUEUED" =>
         InForkersHands(t) \/ \E i \in Queues : \E c \in Reachable(queue[i]) : cell_task[c] = t
    /\ forker.pc \in {"register", "execute", "forked"} =>
         forker.task \in Tasks /\ status[forker.task] = "QUEUED"

PlaceInv == ListInv /\ CellInv /\ HeldInv

\* The tasks that are executing, or whose TaskExecute the Forker is about to end.
Busy == {t \in Tasks : status[t] = "EXECUTING" \/ (forker.pc = "forked" /\ forker.task = t)}

\* The task of an id is executing, unless the Forker has only just registered
\* the id or is about to release it; no task has two ids, and the task that the
\* Gatherer is about to stop has none.
OwnerInv ==
    /\ \A k \in Tids : TidOwner[k] # NoTask => TidOwner[k] \in Busy \/ (ForkerHasTid /\ forker.tid = k)
    /\ \A k, m \in Tids : TidOwner[k] # NoTask /\ TidOwner[k] = TidOwner[m] => k = m
    /\ gatherer.pc = "stop" => /\ gatherer.task \in Busy
                               /\ \A k \in Tids : TidOwner[k] # gatherer.task

-----------------------------------------------------------------------------
(* Steps that move no cell.                                                *)

\* The lists of the queues are left alone.
SameLists ==
    /\ cell_task' = cell_task
    /\ \A i \in Queues : /\ queue'[i].tasks = queue[i].tasks
                         /\ queue'[i].cancelled_tasks = queue[i].cancelled_tasks
                         /\ queue'[i].last_task = queue[i].last_task

\* Registering and releasing an id touch running_tasks only.
LEMMA CountingKeepsLists ==
    ASSUME PoolTypeOK
    PROVE  /\ \A i, t, task_id, ret : ExecuteTask(i, t, task_id, ret) => SameLists
           /\ \A tid : TerminateTask(tid) \/ TerminateNotFound(tid) => SameLists
           /\ UNCHANGED poolVars => SameLists
<1>1. \A i \in Queues : queue[i] \in Queue
  BY DEF PoolTypeOK
<1>2. ASSUME NEW i, queue' = [queue EXCEPT ![i] = ExecuteInQueue(queue[i])]
                    \/ queue' = [queue EXCEPT ![i] = TerminateInQueue(queue[i])],
             cell_task' = cell_task
      PROVE  SameLists
  <2> SUFFICES ASSUME NEW j \in Queues
               PROVE  /\ queue'[j].tasks = queue[j].tasks
                      /\ queue'[j].cancelled_tasks = queue[j].cancelled_tasks
                      /\ queue'[j].last_task = queue[j].last_task
    BY <1>2 DEF SameLists
  <2>1. CASE j # i
    BY <1>2, <2>1 DEF PoolTypeOK
  <2>2. CASE j = i
    <3>1. queue'[j] = ExecuteInQueue(queue[j]) \/ queue'[j] = TerminateInQueue(queue[j])
      BY <1>2, <2>2 DEF PoolTypeOK
    <3> QED
      BY <1>1, <3>1 DEF ExecuteInQueue, TerminateInQueue, Queue
  <2> QED
    BY <2>1, <2>2
<1>3. UNCHANGED poolVars => SameLists
  BY DEF SameLists, poolVars
<1>4. \A i, t, task_id, ret : ExecuteTask(i, t, task_id, ret) => SameLists
  BY <1>2, <1>3 DEF ExecuteTask, RegisterTask, Publish
<1>5. \A tid : TerminateTask(tid) \/ TerminateNotFound(tid) => SameLists
  BY <1>2, <1>3 DEF TerminateTask, TerminateNotFound, Publish
<1> QED
  BY <1>3, <1>4, <1>5

\* Steps that leave the lists alone and take QUEUED from no task in a cell.
LEMMA PlaceFrame ==
    ASSUME PlaceInv, SameLists,
           \A t \in Tasks : status'[t] = "QUEUED" =>
             status[t] = "QUEUED" /\ (InForkersHands(t) => InForkersHands(t)'),
           \A t \in Tasks : status[t] = "QUEUED" /\ ~InForkersHands(t) =>
             status'[t] = "QUEUED" /\ ~InForkersHands(t)',
           forker'.pc \in {"register", "execute", "forked"} =>
             forker'.task \in Tasks /\ status'[forker'.task] = "QUEUED",
           cancelling \subseteq cancelling'
    PROVE  PlaceInv'
<1> USE DEF PlaceInv
<1>1. \A i \in Queues : /\ Reachable(queue'[i]) = Reachable(queue[i])
                        /\ ToSet(queue'[i].cancelled_tasks) = ToSet(queue[i].cancelled_tasks)
                        /\ Proper(queue[i]) => Proper(queue'[i])
  BY DEF SameLists, Reachable, Proper
<1>2. ListInv'
  BY <1>1 DEF ListInv
<1>3. CellInv'
  <2>1. \A i \in Queues : \A c \in Reachable(queue'[i]) :
          /\ cell_task'[c] \in Tasks /\ QueueOf[cell_task'[c]] = i
          /\ status'[cell_task'[c]] = "QUEUED" /\ ~InForkersHands(cell_task[c])'
    BY <1>1 DEF CellInv, SameLists
  <2>2. \A i \in Queues : \A c, d \in Reachable(queue'[i]) : cell_task'[c] = cell_task'[d] => c = d
    BY <1>1 DEF CellInv, SameLists
  <2>3. \A i \in Queues : \A c \in ToSet(queue'[i].cancelled_tasks) :
          WorkflowOf[cell_task'[c]] \in cancelling'
    BY <1>1 DEF CellInv, SameLists
  <2> QED
    BY <2>1, <2>2, <2>3 DEF CellInv, SameLists
<1>4. HeldInv'
  BY <1>1 DEF HeldInv, SameLists
<1> QED
  BY <1>2, <1>3, <1>4

-----------------------------------------------------------------------------
(* Steps that move cells.                                                  *)

\* Different queues share no cell, and free cells are on no list.
LEMMA CellsApart ==
    ASSUME CellInv
    PROVE  /\ \A i, j \in Queues : i # j => Reachable(queue[i]) \cap Reachable(queue[j]) = {}
           /\ \A i \in Queues : \A c \in Reachable(queue[i]) : cell_task[c] # NoTask
<1>1. \A i \in Queues : \A c \in Reachable(queue[i]) :
        cell_task[c] \in Tasks /\ QueueOf[cell_task[c]] = i
  BY DEF CellInv
<1>2. ASSUME NEW i \in Queues, NEW j \in Queues, i # j,
             NEW c \in Reachable(queue[i]), c \in Reachable(queue[j])
      PROVE  FALSE
  BY <1>1, <1>2
<1>3. \A i \in Queues : \A c \in Reachable(queue[i]) : cell_task[c] # NoTask
  BY <1>1
<1> QED
  BY <1>2, <1>3

\* enqueue_task puts the task in one new cell of its queue.
LEMMA EnqueuePlaces ==
    ASSUME PoolTypeOK, ManagerTypeOK, PlaceInv, NEW t \in Tasks, ClientEnqueue(t)
    PROVE  PlaceInv'
<1> USE DEF PlaceInv
<1>1. /\ status[t] # "QUEUED" /\ UNCHANGED <<forker, cancelling>>
      /\ ~InForkersHands(t)
  BY DEF ClientEnqueue, HeldInv, InForkersHands
<1>2. \A u \in Tasks : InForkersHands(u)' = InForkersHands(u)
  BY <1>1 DEF InForkersHands
<1>3. CASE status' = [status EXCEPT ![t] = "ABORTED"] /\ UNCHANGED poolVars
  <2>1. SameLists
    BY <1>3, CountingKeepsLists
  <2>2. \A u \in Tasks : status'[u] = "QUEUED" <=> status[u] = "QUEUED"
    BY <1>1, <1>3 DEF ManagerTypeOK
  <2>3. forker'.pc \in {"register", "execute", "forked"} =>
          forker'.task \in Tasks /\ status'[forker'.task] = "QUEUED"
    BY <1>1, <2>2 DEF HeldInv
  <2> QED
    BY <1>1, <1>2, <2>1, <2>2, <2>3, PlaceFrame
<1>4. CASE /\ QueueOf[t] # -1 /\ EnqueueTask(t)
           /\ status' = [status EXCEPT ![t] = "QUEUED"]
  <2> DEFINE i == QueueOf[t]
  <2>1. PICK new \in Cells :
          /\ cell_task[new] = NoTask
          /\ cell_task' = [cell_task EXCEPT ![new] = t]
          /\ queue' = EnqueueCell(queue, i, new)
    BY <1>4 DEF EnqueueTask, Publish
  <2>2. i \in Queues
    BY <1>4
  <2>3. \A j \in Queues : Proper(queue[j]) /\ new \notin Reachable(queue[j])
    BY <2>1, CellsApart DEF ListInv
  <2>4. \A j \in Queues : j # i => Reachable(queue[j]) \cap Reachable(queue[i]) = {}
    BY <2>2, CellsApart
  <2>5. queue \in [Queues -> Queue]
    BY DEF PoolTypeOK
  <2>13. CanLink(Queues, queue, i, new)
    BY <2>3, <2>4 DEF CanLink
  <2> HIDE DEF i
  <2>6. \A j \in Queues :
          /\ Proper(queue'[j])
          /\ queue'[j].cancelled_tasks = queue[j].cancelled_tasks
          /\ Reachable(queue'[j])
               = IF j = i THEN Reachable(queue[i]) \cup {new} ELSE Reachable(queue[j])
    <3> TAKE j \in Queues
    <3>1. /\ Proper(EnqueueCell(queue, i, new)[j])
          /\ EnqueueCell(queue, i, new)[j].cancelled_tasks = queue[j].cancelled_tasks
          /\ j = i => Reachable(EnqueueCell(queue, i, new)[j]) = Reachable(queue[i]) \cup {new}
          /\ j # i => Reachable(EnqueueCell(queue, i, new)[j]) = Reachable(queue[j])
      <4>1. CanLink(Queues, queue, i, new) /\ i \in Queues /\ new \in Cells /\ j \in Queues
            /\ queue \in [Queues -> Queue]
        BY <2>2, <2>5, <2>13
      <4> QED
        BY ONLY <4>1, EnqueueProper
    <3> QED
      BY <2>1, <3>1
  <2>7. /\ cell_task'[new] = t
        /\ \A j \in Queues : \A c \in Reachable(queue[j]) : cell_task'[c] = cell_task[c]
    <3>1. cell_task'[new] = t
      BY <2>1 DEF PoolTypeOK
    <3>2. \A c : c # new => cell_task'[c] = cell_task[c]
      BY <2>1 DEF PoolTypeOK
    <3> QED
      BY <2>3, <3>1, <3>2
  <2>8. /\ status'[t] = "QUEUED"
        /\ \A u \in Tasks : u # t => status'[u] = status[u]
    BY <1>4 DEF ManagerTypeOK
  <2>9. \A j \in Queues : \A c \in Reachable(queue[j]) : cell_task[c] # t
    BY <1>1 DEF CellInv
  <2>10. ListInv'
    BY <2>6 DEF ListInv
  <2>11. CellInv'
    <3>1. ASSUME NEW j \in Queues, NEW c \in Reachable(queue'[j])
          PROVE  \/ c \in Reachable(queue[j]) /\ cell_task'[c] = cell_task[c]
                 \/ j = i /\ c = new /\ cell_task'[c] = t
      BY <2>6, <2>7, <3>1
    <3>2. ASSUME NEW j \in Queues, NEW c \in Reachable(queue'[j])
          PROVE  /\ cell_task'[c] \in Tasks /\ QueueOf[cell_task'[c]] = j
                 /\ status'[cell_task'[c]] = "QUEUED" /\ ~InForkersHands(cell_task'[c])
      <4>1. CASE c \in Reachable(queue[j]) /\ cell_task'[c] = cell_task[c]
        BY <2>8, <4>1 DEF CellInv
      <4>2. CASE j = i /\ c = new /\ cell_task'[c] = t
        BY <1>1, <2>8, <4>2 DEF i
      <4> QED
        BY <3>1, <3>2, <4>1, <4>2
    <3>3. \A j \in Queues : \A c, d \in Reachable(queue'[j]) :
            cell_task'[c] = cell_task'[d] => c = d
      BY <2>9, <3>1 DEF CellInv
    <3>4. \A j \in Queues : \A c \in ToSet(queue'[j].cancelled_tasks) :
            WorkflowOf[cell_task'[c]] \in cancelling'
      <4> TAKE j \in Queues
      <4> TAKE c \in ToSet(queue'[j].cancelled_tasks)
      <4>1. c \in ToSet(queue[j].cancelled_tasks)
        BY <2>6
      <4>2. c \in Reachable(queue[j])
        BY <4>1 DEF Reachable
      <4>3. WorkflowOf[cell_task[c]] \in cancelling
        BY <4>1 DEF CellInv
      <4> QED
        BY <1>1, <2>7, <4>2, <4>3
    <3>5. \A u \in Tasks : ~InForkersHands(u) => ~InForkersHands(u)'
      BY <1>2
    <3>6. \A j \in Queues : \A c \in Reachable(queue'[j]) :
            /\ cell_task'[c] \in Tasks /\ QueueOf[cell_task'[c]] = j
            /\ status'[cell_task'[c]] = "QUEUED"
            /\ ~(forker'.task = cell_task'[c] /\ forker'.pc \in {"register", "execute", "forked"})
      BY <1>1, <3>2 DEF InForkersHands
    <3> QED
      BY <3>3, <3>4, <3>6 DEF CellInv, InForkersHands
  <2>12. HeldInv'
    <3>1. ASSUME NEW u \in Tasks, status'[u] = "QUEUED"
          PROVE  InForkersHands(u)' \/ \E j \in Queues : \E c \in Reachable(queue'[j]) : cell_task'[c] = u
      <4>1. CASE u = t
        <5> new \in Reachable(queue'[i])
          BY <2>2, <2>6
        <5> QED
          BY <2>2, <2>7, <4>1
      <4>2. CASE u # t
        <5>1. status[u] = "QUEUED"
          BY <2>8, <3>1, <4>2
        <5>2. CASE InForkersHands(u)
          BY <1>2, <5>2
        <5>3. CASE \E j \in Queues : \E c \in Reachable(queue[j]) : cell_task[c] = u
          <6> PICK j \in Queues : \E c \in Reachable(queue[j]) : cell_task[c] = u
            BY <5>3
          <6> PICK c \in Reachable(queue[j]) : cell_task[c] = u
            OBVIOUS
          <6> c \in Reachable(queue'[j]) /\ cell_task'[c] = u
            BY <2>6, <2>7
          <6> QED
            OBVIOUS
        <5> QED
          BY <5>1, <5>2, <5>3 DEF HeldInv
      <4> QED
        BY <4>1, <4>2
    <3>2. forker'.pc \in {"register", "execute", "forked"} =>
            forker'.task \in Tasks /\ status'[forker'.task] = "QUEUED"
      BY <1>1, <2>8 DEF HeldInv
    <3> QED
      BY <3>1, <3>2 DEF HeldInv
  <2> QED
    BY <2>10, <2>11, <2>12
<1> QED
  BY <1>3, <1>4 DEF ClientEnqueue

\* CancelTasks takes no task out of the lists.
LEMMA CancelPlaces ==
    ASSUME PoolTypeOK, ManagerTypeOK, PlaceInv, QueuesUnshared,
           NEW w \in MayCancel, ClientCancelTasks(w)
    PROVE  PlaceInv'
<1> USE DEF PlaceInv
<1>1. /\ UNCHANGED <<forker, cancelling, status, cell_task>> /\ w \in cancelling
      /\ queue' = [i \in Queues |-> CancelCells(queue[i], CellsOf(w))]
  BY DEF ClientCancelTasks, CancelTasks, Publish, clientVars
<1>2. ASSUME NEW i \in Queues
      PROVE  ToSet(queue[i].tasks) \subseteq CellsOf(w) \/ ToSet(queue[i].tasks) \cap CellsOf(w) = {}
  <2> SUFFICES ASSUME NEW c \in ToSet(queue[i].tasks), NEW d \in ToSet(queue[i].tasks),
                      c \in CellsOf(w)
               PROVE  d \in CellsOf(w)
    OBVIOUS
  <2>1. c \in Reachable(queue[i]) /\ d \in Reachable(queue[i])
    BY DEF Reachable
  <2>2. /\ cell_task[c] \in Tasks /\ cell_task[d] \in Tasks
        /\ QueueOf[cell_task[c]] = i /\ QueueOf[cell_task[d]] = i /\ i # -1
    BY <2>1 DEF CellInv, Queues
  <2>3. WorkflowOf[cell_task[d]] = w
    BY <2>2 DEF CellsOf, QueuesUnshared
  <2>4. d \in Cells
    <3> queue[i].tasks \in Seq(Cells)
      BY DEF PoolTypeOK, Queue
    <3> QED
      BY ToSetOfList
  <2> QED
    BY <2>2, <2>3, <2>4 DEF CellsOf
<1>3. \A i \in Queues :
        /\ Proper(queue'[i]) /\ Reachable(queue'[i]) = Reachable(queue[i])
        /\ ToSet(queue'[i].cancelled_tasks)
             \subseteq ToSet(queue[i].cancelled_tasks) \cup (ToSet(queue[i].tasks) \cap CellsOf(w))
  <2> TAKE i \in Queues
  <2>1. queue[i] \in Queue /\ Proper(queue[i]) /\ queue'[i] = CancelCells(queue[i], CellsOf(w))
    BY <1>1 DEF PoolTypeOK, ListInv
  <2>2. ToSet(queue[i].tasks) \subseteq CellsOf(w) \/ ToSet(queue[i].tasks) \cap CellsOf(w) = {}
    BY <1>2
  <2>3. /\ Proper(CancelCells(queue[i], CellsOf(w)))
        /\ Reachable(CancelCells(queue[i], CellsOf(w))) = Reachable(queue[i])
        /\ ToSet(CancelCells(queue[i], CellsOf(w)).cancelled_tasks)
             \subseteq ToSet(queue[i].cancelled_tasks) \cup (ToSet(queue[i].tasks) \cap CellsOf(w))
    BY ONLY <2>1, <2>2, CancelProper
  <2> QED
    BY <2>1, <2>3
<1>4. ListInv'
  BY <1>3 DEF ListInv
<1>5. \A t : InForkersHands(t)' <=> InForkersHands(t)
  BY <1>1 DEF InForkersHands
<1>6. CellInv'
  <2>1. \A i \in Queues : \A c \in ToSet(queue'[i].cancelled_tasks) :
          WorkflowOf[cell_task[c]] \in cancelling
    <3> TAKE i \in Queues
    <3> TAKE c \in ToSet(queue'[i].cancelled_tasks)
    <3>1. c \in ToSet(queue[i].cancelled_tasks) \/ c \in CellsOf(w)
      BY <1>3
    <3>2. CASE c \in ToSet(queue[i].cancelled_tasks)
      BY <3>2 DEF CellInv
    <3>3. CASE c \in CellsOf(w)
      BY <1>1, <3>3 DEF CellsOf
    <3> QED
      BY <3>1, <3>2, <3>3
  <2> QED
    BY <1>1, <1>3, <2>1 DEF CellInv, InForkersHands
<1>7. HeldInv'
  BY <1>1, <1>3, <1>5 DEF HeldInv
<1> QED
  BY <1>4, <1>6, <1>7

\* DequeueTask moves a task from its cell into the Forker's hands.
LEMMA DequeuePlaces ==
    ASSUME PoolTypeOK, ManagerTypeOK, ThreadInv, PlaceInv, ForkerDequeue
    PROVE  PlaceInv'
<1> USE DEF PlaceInv
<1>1. PICK i \in Queues, t \in Tasks :
        /\ DequeueTask(i, t)
        /\ forker' = [forker EXCEPT !.pc = "register", !.task = t, !.queue = i]
  BY DEF ForkerDequeue
<1> DEFINE next == NextCell(queue[i])
<1>2. /\ ~NullFirstTask(queue[i]) /\ t = cell_task[next]
      /\ queue' = [queue EXCEPT ![i] = DequeueCell(queue[i])]
      /\ cell_task' = [cell_task EXCEPT ![next] = NoTask]
  BY <1>1 DEF DequeueTask
<1>3. UNCHANGED <<status, cancelling>> /\ \A u : ~InForkersHands(u)
  BY DEF ForkerDequeue, PastForkLock, InForkersHands, clientVars
<1>4. forker'.pc = "register" /\ forker'.task = t /\ \A u : InForkersHands(u)' <=> u = t
  <2>1. forker'.pc = "register" /\ forker'.task = t
    BY <1>1 DEF ManagerTypeOK
  <2> QED
    BY <2>1 DEF InForkersHands
<1>5. /\ Proper(DequeueCell(queue[i])) /\ next \in Reachable(queue[i])
      /\ Reachable(DequeueCell(queue[i])) = Reachable(queue[i]) \ {next}
      /\ ToSet(DequeueCell(queue[i]).cancelled_tasks) \subseteq ToSet(queue[i].cancelled_tasks)
  <2> queue[i] \in Queue /\ Proper(queue[i])
    BY DEF PoolTypeOK, ListInv
  <2> QED
    BY <1>2, DequeueProper
<1> HIDE DEF next
<1>6. \A j \in Queues : j # i => queue'[j] = queue[j]
  BY <1>2 DEF PoolTypeOK
<1>7. queue'[i] = DequeueCell(queue[i])
  BY <1>2 DEF PoolTypeOK
<1>8. \A j \in Queues : /\ Reachable(queue'[j]) = Reachable(queue[j]) \ {next}
                        /\ Proper(queue'[j])
                        /\ ToSet(queue'[j].cancelled_tasks) \subseteq ToSet(queue[j].cancelled_tasks)
  <2> TAKE j \in Queues
  <2>1. CASE j = i
    BY <1>5, <1>7, <2>1
  <2>2. CASE j # i
    <3> next \notin Reachable(queue[j])
      BY <1>5, <2>2, CellsApart
    <3> QED
      BY <1>6, <2>2 DEF ListInv
  <2> QED
    BY <2>1, <2>2
<1>9. \A c : c # next => cell_task'[c] = cell_task[c]
  BY <1>2 DEF PoolTypeOK
<1>10. \A j \in Queues : \A c \in Reachable(queue[j]) : c # next => cell_task[c] # t
  <2> TAKE j \in Queues
  <2> TAKE c \in Reachable(queue[j])
  <2> HAVE c # next
  <2>1. QueueOf[cell_task[c]] = j /\ QueueOf[cell_task[next]] = i
    BY <1>5 DEF CellInv
  <2>2. j = i => cell_task[c] # cell_task[next]
    BY <1>5 DEF CellInv
  <2> QED
    BY <1>2, <2>1, <2>2
<1>11. ListInv'
  BY <1>8 DEF ListInv
<1>12. CellInv'
  <2>1. ASSUME NEW j \in Queues, NEW c \in Reachable(queue'[j])
        PROVE  c \in Reachable(queue[j]) /\ c # next /\ cell_task'[c] = cell_task[c]
    BY <1>8, <1>9, <2>1
  <2>2. \A j \in Queues : \A c \in Reachable(queue'[j]) :
          /\ cell_task'[c] \in Tasks /\ QueueOf[cell_task'[c]] = j
          /\ status'[cell_task'[c]] = "QUEUED"
          /\ ~(forker'.task = cell_task'[c] /\ forker'.pc \in {"register", "execute", "forked"})
    BY <1>3, <1>4, <1>10, <2>1 DEF CellInv
  <2>3. \A j \in Queues : \A c, d \in Reachable(queue'[j]) : cell_task'[c] = cell_task'[d] => c = d
    BY <2>1 DEF CellInv
  <2>4. \A j \in Queues : \A c \in ToSet(queue'[j].cancelled_tasks) :
          WorkflowOf[cell_task'[c]] \in cancelling'
    <3> TAKE j \in Queues
    <3> TAKE c \in ToSet(queue'[j].cancelled_tasks)
    <3>1. c \in Reachable(queue'[j])
      BY DEF Reachable
    <3>2. WorkflowOf[cell_task[c]] \in cancelling
      BY <1>8 DEF CellInv
    <3> QED
      BY <1>3, <2>1, <3>1, <3>2
  <2> QED
    BY <2>2, <2>3, <2>4 DEF CellInv, InForkersHands
<1>13. HeldInv'
  <2>1. ASSUME NEW u \in Tasks, status'[u] = "QUEUED", u # t
        PROVE  \E j \in Queues : \E c \in Reachable(queue'[j]) : cell_task'[c] = u
    <3>1. PICK j \in Queues : \E c \in Reachable(queue[j]) : cell_task[c] = u
      BY <1>3, <2>1 DEF HeldInv
    <3>2. PICK c \in Reachable(queue[j]) : cell_task[c] = u
      BY <3>1
    <3>3. c # next
      BY <1>2, <2>1, <3>2
    <3> QED
      BY <1>8, <1>9, <3>2, <3>3
  <2>2. status'[t] = "QUEUED"
    BY <1>2, <1>3, <1>5 DEF CellInv
  <2> QED
    BY <1>4, <2>1, <2>2 DEF HeldInv
<1> QED
  BY <1>11, <1>12, <1>13

-----------------------------------------------------------------------------
(* The tasks of the ids.                                                   *)

\* The owner of an id is a task or nobody.
LEMMA OwnerType ==
    ASSUME PoolTypeOK, ManagerTypeOK
    PROVE  TidOwner \in [Tids -> Tasks \cup {NoTask}]
<1> SUFFICES ASSUME NEW k \in Tids PROVE TidOwner[k] \in Tasks \cup {NoTask}
  BY DEF TidOwner
<1>1. tid_task[k] \in Tasks \cup {NoTask} /\ pending \subseteq Tasks
  BY DEF PoolTypeOK, ManagerTypeOK
<1>2. CASE \E t \in pending : ResumeTid[t] = k
  <2> DEFINE u == CHOOSE t \in pending : ResumeTid[t] = k
  <2>1. u \in pending
    BY <1>2
  <2>2. TidOwner[k] = IF tid_task[k] # NoTask THEN tid_task[k] ELSE u
    BY <1>2 DEF TidOwner
  <2> HIDE DEF u
  <2> QED
    BY <1>1, <2>1, <2>2
<1>3. CASE ~\E t \in pending : ResumeTid[t] = k
  BY <1>1, <1>3 DEF TidOwner
<1> QED
  BY <1>2, <1>3

\* Steps in which no id changes its task and no task of an id stops.
LEMMA OwnerFrame ==
    ASSUME OwnerInv, UNCHANGED TidOwner,
           \A k \in Tids : TidOwner[k] \in Busy => TidOwner[k] \in Busy',
           ForkerHasTid => \/ ForkerHasTid' /\ forker'.tid = forker.tid
                           \/ TidOwner[forker.tid] \in Busy',
           gatherer'.pc = "stop" => /\ gatherer.pc = "stop" /\ gatherer'.task = gatherer.task
                                    /\ gatherer.task \in Busy'
    PROVE  OwnerInv'
  BY DEF OwnerInv

\* The Forker registers a task that is QUEUED, hence has no id yet, and releases
\* the id of a task that it could not start.
LEMMA ForkerOwners ==
    ASSUME PoolTypeOK, ManagerTypeOK, ThreadInv, TidInv, ~NoFreeTid, HeldInv, OwnerInv,
           ForkerRegister \/ ForkerRelease
    PROVE  OwnerInv'
<1>1. main # "resuming" /\ UNCHANGED <<gatherer, main, pending, status>>
  BY DEF ForkerRegister, ForkerRelease, ThreadInv, mainVars, clientVars
<1>2. pending = {} /\ TidOwner = tid_task
  BY <1>1, OwnerIsRegistered DEF TidInv, ResumeOver
<1>3. \A k \in Tids : TidOwner'[k] = tid_task'[k] \/ TidOwner'[k] = NoTask
  BY <1>1, <1>2 DEF TidOwner
<1>4. Busy = {t \in Tasks : status[t] = "EXECUTING"}
  BY DEF Busy, ForkerRegister, ForkerRelease
<1>5. CASE ForkerRegister
  <2>1. PICK tid \in Tids :
          /\ ExecuteTask(forker.queue, forker.task, 0, tid)
          /\ forker' = [forker EXCEPT !.pc = "execute", !.tid = tid]
    BY <1>5 DEF ForkerRegister
  <2>2. tid_task[tid] = NoTask /\ tid_task' = [tid_task EXCEPT ![tid] = forker.task]
    <3> FirstFreeTid(tid) /\ RegisterTask(forker.queue, forker.task, tid)
      BY <2>1 DEF ExecuteTask
    <3> QED
      BY DEF FirstFreeTid, RegisterTask
  <2>3. /\ forker'.pc = "execute" /\ forker'.tid = tid /\ forker'.task = forker.task
        /\ ForkerHasTid' /\ ~ForkerHasTid
    BY <1>5, <2>1 DEF ManagerTypeOK, ForkerHasTid, ForkerRegister
  <2>4. Busy' = Busy
    BY <1>1, <1>4, <2>3 DEF Busy
  <2>5. forker.task \in Tasks /\ forker.task \notin Busy
    BY <1>4, <1>5 DEF HeldInv, ForkerRegister
  <2>6. \A k \in Tids : /\ k # tid => TidOwner'[k] \in {TidOwner[k], NoTask}
                        /\ TidOwner'[tid] \in {forker.task, NoTask}
    BY <1>2, <1>3, <2>2 DEF PoolTypeOK
  <2>7. \A k \in Tids : TidOwner[k] # NoTask => TidOwner[k] \in Busy /\ TidOwner[k] # forker.task
    BY <2>3, <2>5 DEF OwnerInv
  <2>8. /\ \A k \in Tids : TidOwner'[k] # NoTask =>
             TidOwner'[k] \in Busy' \/ (ForkerHasTid' /\ forker'.tid = k)
        /\ \A k, m \in Tids : TidOwner'[k] # NoTask /\ TidOwner'[k] = TidOwner'[m] => k = m
    BY <2>3, <2>4, <2>6, <2>7 DEF OwnerInv
  <2>9. gatherer'.pc = "stop" => /\ gatherer'.task \in Busy'
                                 /\ \A k \in Tids : TidOwner'[k] # gatherer'.task
    <3> HAVE gatherer'.pc = "stop"
    <3>1. gatherer.task \in Busy /\ gatherer.task \in Tasks
          /\ \A k \in Tids : TidOwner[k] # gatherer.task
      BY <1>1 DEF OwnerInv, Busy
    <3> QED
      BY <1>1, <2>4, <2>5, <2>6, <3>1
  <2> QED
    BY <2>8, <2>9 DEF OwnerInv
<1>6. CASE ForkerRelease
  <2>1. /\ forker' = ForkerAt("dequeue") /\ forker.pc = "release"
        /\ TerminateTask(forker.tid) \/ TerminateNotFound(forker.tid)
    BY <1>6 DEF ForkerRelease
  <2>2. forker.tid \in Tids /\ forker'.pc = "dequeue"
    BY <2>1 DEF ManagerTypeOK, ForkerAt
  <2>3. Busy' = Busy
    BY <1>1, <1>4, <2>2 DEF Busy
  <2>4. \A k \in Tids : /\ TidOwner'[k] \in {TidOwner[k], NoTask}
                        /\ TidOwner'[forker.tid] = NoTask
    <3> \A k \in Tids : tid_task'[k] \in {tid_task[k], NoTask} /\ tid_task'[forker.tid] = NoTask
      BY <2>1, <2>2 DEF TerminateTask, TerminateNotFound, poolVars, PoolTypeOK
    <3> QED
      BY <1>2, <1>3, <2>2
  <2>5. \A k \in Tids : k # forker.tid /\ TidOwner[k] # NoTask => TidOwner[k] \in Busy
    BY DEF OwnerInv
  <2>6. /\ \A k \in Tids : TidOwner'[k] # NoTask => TidOwner'[k] \in Busy'
        /\ \A k, m \in Tids : TidOwner'[k] # NoTask /\ TidOwner'[k] = TidOwner'[m] => k = m
    BY <2>3, <2>4, <2>5 DEF OwnerInv
  <2>7. gatherer'.pc = "stop" => /\ gatherer'.task \in Busy'
                                 /\ \A k \in Tids : TidOwner'[k] # gatherer'.task
    <3> HAVE gatherer'.pc = "stop"
    <3>1. gatherer.task \in Busy /\ gatherer.task \in Tasks
          /\ \A k \in Tids : TidOwner[k] # gatherer.task
      BY <1>1 DEF OwnerInv, Busy
    <3> QED
      BY <1>1, <2>3, <2>4, <3>1
  <2> QED
    BY <2>6, <2>7 DEF OwnerInv
<1> QED
  BY <1>5, <1>6

\* The Gatherer releases the id of the task that it is about to stop.
LEMMA GathererOwners ==
    ASSUME PoolTypeOK, ManagerTypeOK, ThreadInv, TidInv, OwnerInv, GathererTerminate
    PROVE  OwnerInv'
<1>1. main # "resuming" /\ UNCHANGED <<forker, main, pending, status>>
  BY DEF GathererTerminate, ThreadInv, mainVars, clientVars
<1>2. pending = {} /\ TidOwner = tid_task
  BY <1>1, OwnerIsRegistered DEF TidInv, ResumeOver
<1>3. \A k \in Tids : TidOwner'[k] = tid_task'[k] \/ TidOwner'[k] = NoTask
  BY <1>1, <1>2 DEF TidOwner
<1>4. Busy' = Busy /\ ForkerHasTid' = ForkerHasTid
  BY <1>1 DEF Busy, ForkerHasTid
<1>5. gatherer.tid \in Tids /\ tid_task[gatherer.tid] # NoTask /\ GathererHasTid
  <2> gatherer.tid \in Tids /\ GathererHasTid
    BY DEF ManagerTypeOK, GathererHasTid, GathererTerminate
  <2> QED
    BY <1>2 DEF TidInv, HolderOwns
<1>6. /\ TerminateTask(gatherer.tid)
      /\ gatherer' = [gatherer EXCEPT !.pc = "stop", !.task = tid_task[gatherer.tid]]
  BY <1>5 DEF GathererTerminate, TerminateNotFound
<1>7. gatherer'.task = TidOwner[gatherer.tid]
  BY <1>2, <1>6 DEF ManagerTypeOK
<1>8. \A k \in Tids : /\ TidOwner'[k] \in {TidOwner[k], NoTask}
                      /\ TidOwner'[gatherer.tid] = NoTask
  <2> \A k \in Tids : tid_task'[k] \in {tid_task[k], NoTask} /\ tid_task'[gatherer.tid] = NoTask
    BY <1>5, <1>6 DEF TerminateTask, PoolTypeOK
  <2> QED
    BY <1>2, <1>3, <1>5
<1>9. TidOwner[gatherer.tid] \in Busy
  <2> ~(ForkerHasTid /\ forker.tid = gatherer.tid)
    BY <1>5 DEF TidInv, OneHolder
  <2> QED
    BY <1>2, <1>5 DEF OwnerInv
<1>10. /\ \A k \in Tids : TidOwner'[k] # NoTask =>
            TidOwner'[k] \in Busy' \/ (ForkerHasTid' /\ forker'.tid = k)
       /\ \A k, m \in Tids : TidOwner'[k] # NoTask /\ TidOwner'[k] = TidOwner'[m] => k = m
  BY <1>1, <1>4, <1>8 DEF OwnerInv
<1>11. \A k \in Tids : TidOwner'[k] # gatherer'.task
  <2> TAKE k \in Tids
  <2>1. gatherer'.task # NoTask
    BY <1>2, <1>5, <1>7
  <2>2. CASE k = gatherer.tid
    BY <1>8, <2>1, <2>2
  <2>3. CASE k # gatherer.tid
    <3> TidOwner[k] # TidOwner[gatherer.tid]
      BY <1>2, <1>5, <2>3 DEF OwnerInv
    <3> QED
      BY <1>7, <1>8, <2>1
  <2> QED
    BY <2>2, <2>3
<1> QED
  BY <1>4, <1>7, <1>9, <1>10, <1>11 DEF OwnerInv

-----------------------------------------------------------------------------
(* Every step.                                                             *)

\* Steps of the clients.
LEMMA ClientDispatch ==
    ASSUME PoolTypeOK, ManagerTypeOK, PlaceInv, OwnerInv, QueuesUnshared,
           \/ \E t \in Tasks : ClientEnqueue(t)
           \/ \E w \in MayCancel : ClientCancel(w) \/ ClientCancelTasks(w)
    PROVE  PlaceInv' /\ OwnerInv'
<1>1. ASSUME NEW t \in Tasks, ClientEnqueue(t) PROVE PlaceInv' /\ OwnerInv'
  <2>1. UNCHANGED <<tid_task, pending, forker, gatherer>>
    BY <1>1 DEF ClientEnqueue, EnqueueTask, poolVars, mainVars
  <2>2. UNCHANGED TidOwner /\ ForkerHasTid' = ForkerHasTid
    BY <2>1 DEF TidOwner, ForkerHasTid
  <2>3. t \notin Busy
    BY <1>1 DEF ClientEnqueue, InstanceLocked, Busy
  <2>4. \A u \in Tasks : u # t => status'[u] = status[u]
    BY <1>1 DEF ClientEnqueue, ManagerTypeOK
  <2>5. Busy \subseteq Busy'
    BY <2>1, <2>3, <2>4 DEF Busy
  <2>6. gatherer.pc = "stop" => gatherer.task \in Busy
    BY DEF OwnerInv
  <2>7. OwnerInv'
    BY <2>1, <2>2, <2>5, <2>6, OwnerFrame
  <2> QED
    BY <1>1, <2>7, EnqueuePlaces
<1>2. ASSUME NEW w \in MayCancel, ClientCancel(w) \/ ClientCancelTasks(w)
      PROVE  PlaceInv' /\ OwnerInv'
  <2>1. UNCHANGED <<tid_task, pending, forker, gatherer, status>> /\ cancelling \subseteq cancelling'
    BY <1>2 DEF ClientCancel, ClientCancelTasks, CancelTasks, poolVars, mainVars, clientVars
  <2>2. UNCHANGED <<TidOwner, Busy>> /\ ForkerHasTid' = ForkerHasTid
    BY <2>1 DEF TidOwner, ForkerHasTid, Busy
  <2>3. gatherer.pc = "stop" => gatherer.task \in Busy
    BY DEF OwnerInv
  <2>4. OwnerInv'
    BY <2>1, <2>2, <2>3, OwnerFrame
  <2>5. CASE ClientCancel(w)
    <3>1. SameLists
      BY <2>5, CountingKeepsLists DEF ClientCancel
    <3>2. \A t : InForkersHands(t)' = InForkersHands(t)
      BY <2>1 DEF InForkersHands
    <3>3. forker.pc \in {"register", "execute", "forked"} =>
            forker.task \in Tasks /\ status[forker.task] = "QUEUED"
      BY DEF PlaceInv, HeldInv
    <3> QED
      BY <2>1, <2>4, <3>1, <3>2, <3>3, PlaceFrame
  <2>6. CASE ClientCancelTasks(w)
    BY <2>4, <2>6, CancelPlaces
  <2> QED
    BY <1>2, <2>5, <2>6
<1> QED
  BY <1>1, <1>2

\* Steps of the Forker.
LEMMA ForkerDispatch ==
    ASSUME PoolTypeOK, ManagerTypeOK, ThreadInv, TidInv, PlaceInv, OwnerInv, ~NoFreeTid, Forker
    PROVE  PlaceInv' /\ OwnerInv'
<1> DEFINE Hands == {"register", "execute", "forked"}
<1>1. UNCHANGED <<pending, gatherer, cancelling>>
  BY DEF Forker, ForkerWait, ForkerDequeue, ForkerCrash, ForkerExit, ForkerRegister, ForkerAbort,
         ForkerFork, ForkerExecuting, ForkerRelease, mainVars, clientVars
<1>2. ASSUME UNCHANGED tid_task PROVE UNCHANGED TidOwner
  BY <1>1, <1>2 DEF TidOwner
<1>3. /\ gatherer.pc = "stop" => gatherer.task \in Busy
      /\ forker.pc \in Hands => forker.task \in Tasks /\ status[forker.task] = "QUEUED"
  BY DEF OwnerInv, PlaceInv, HeldInv
<1>4. CASE ForkerWait \/ ForkerExit \/ ForkerCrash
  <2>1. /\ UNCHANGED <<tid_task, status>> /\ SameLists
        /\ forker.pc \in {"dequeue", "waiting"}
        /\ \E pc \in {"waiting", "exited", "crashed"} : forker' = ForkerAt(pc)
    BY <1>4, CountingKeepsLists
       DEF ForkerWait, DequeueWait, ForkerExit, DequeueFalse, ForkerCrash, DequeueCrash,
           PastForkLock, poolVars, clientVars, SameLists
  <2>2. forker'.pc \in {"waiting", "exited", "crashed"}
    BY <2>1 DEF ForkerAt
  <2>3. ~ForkerHasTid /\ Busy' = Busy
    BY <2>1, <2>2 DEF ForkerHasTid, Busy
  <2>4. \A t : ~InForkersHands(t) /\ ~InForkersHands(t)'
    BY <2>1, <2>2 DEF InForkersHands
  <2>5. PlaceInv'
    BY <1>1, <2>1, <2>2, <2>4, PlaceFrame
  <2>6. OwnerInv'
    BY <1>1, <1>2, <1>3, <2>1, <2>3, OwnerFrame
  <2> QED
    BY <2>5, <2>6
<1>5. CASE ForkerDequeue
  <2>1. UNCHANGED <<tid_task, status>> /\ forker.pc \in {"dequeue", "waiting"}
        /\ forker'.pc = "register"
    BY <1>5 DEF ForkerDequeue, DequeueTask, PastForkLock, clientVars, ManagerTypeOK
  <2>2. ~ForkerHasTid /\ Busy' = Busy
    BY <2>1 DEF ForkerHasTid, Busy
  <2>3. OwnerInv'
    BY <1>1, <1>2, <1>3, <2>1, <2>2, OwnerFrame
  <2> QED
    BY <1>5, <2>3, DequeuePlaces
<1>6. CASE ForkerRegister \/ ForkerRelease
  <2>1. OwnerInv'
    BY <1>6, ForkerOwners DEF PlaceInv
  <2>2. SameLists /\ UNCHANGED status
    BY <1>6, CountingKeepsLists DEF ForkerRegister, ForkerRelease, clientVars
  <2>3. /\ \A t : InForkersHands(t)' <=> InForkersHands(t)
        /\ forker'.pc \in Hands => forker.pc \in Hands /\ forker'.task = forker.task
    <3>1. CASE ForkerRegister
      <4> forker.pc = "register" /\ forker'.pc = "execute" /\ forker'.task = forker.task
        BY <3>1 DEF ForkerRegister, ManagerTypeOK
      <4> QED
        BY DEF InForkersHands
    <3>2. CASE ForkerRelease
      <4> forker.pc = "release" /\ forker'.pc = "dequeue"
        BY <3>2 DEF ForkerRelease, ForkerAt
      <4> QED
        BY DEF InForkersHands
    <3> QED
      BY <1>6, <3>1, <3>2
  <2>4. PlaceInv'
    BY <1>1, <1>3, <2>2, <2>3, PlaceFrame
  <2> QED
    BY <2>1, <2>4
<1>7. CASE ForkerAbort \/ ForkerExecuting
  <2>1. /\ UNCHANGED poolVars
        /\ \/ /\ forker.pc = "execute" /\ forker' = [forker EXCEPT !.pc = "release"]
              /\ status' = [status EXCEPT ![forker.task] = "ABORTED"]
           \/ /\ forker.pc = "forked" /\ forker' = ForkerAt("dequeue")
              /\ status' = [status EXCEPT ![forker.task] = "EXECUTING"]
    BY <1>7 DEF ForkerAbort, ForkerExecuting
  <2>2. SameLists /\ UNCHANGED TidOwner
    BY <1>2, <2>1, CountingKeepsLists DEF poolVars
  <2>3. /\ forker.task \in Tasks /\ status[forker.task] = "QUEUED"
        /\ status'[forker.task] # "QUEUED"
        /\ \A t \in Tasks : t # forker.task => status'[t] = status[t]
    BY <1>3, <2>1 DEF ManagerTypeOK
  <2>4. /\ \A t : InForkersHands(t) <=> t = forker.task
        /\ forker'.pc \notin Hands
    BY <2>1 DEF InForkersHands, ForkerAt, ManagerTypeOK
  <2>5. \A t : ~InForkersHands(t)'
    BY <2>4 DEF InForkersHands
  <2>6. PlaceInv'
    BY <1>1, <2>2, <2>3, <2>4, <2>5, PlaceFrame
  <2>7. Busy \subseteq Busy'
    <3>1. CASE forker.pc = "execute"
      BY <2>1, <2>3, <3>1 DEF Busy
    <3>2. CASE forker.pc = "forked"
      <4> status'[forker.task] = "EXECUTING"
        BY <2>1, <2>3, <3>2 DEF ManagerTypeOK
      <4> QED
        BY <2>3 DEF Busy
    <3> QED
      BY <2>1, <3>1, <3>2
  <2>8. ForkerHasTid => ForkerHasTid' /\ forker'.tid = forker.tid
    BY <2>1 DEF ForkerHasTid, ManagerTypeOK
  <2>9. OwnerInv'
    BY <1>1, <1>3, <2>2, <2>7, <2>8, OwnerFrame
  <2> QED
    BY <2>6, <2>9
<1>8. CASE ForkerFork
  <2>1. /\ UNCHANGED <<poolVars, status>> /\ forker.pc = "execute" /\ ForkerHasTid
        /\ forker'.pc = "forked" /\ forker'.task = forker.task
    BY <1>8 DEF ForkerFork, clientVars, ManagerTypeOK, ForkerHasTid
  <2>2. SameLists /\ UNCHANGED TidOwner
    BY <1>2, <2>1, CountingKeepsLists DEF poolVars
  <2>3. \A t : InForkersHands(t)' <=> InForkersHands(t)
    BY <2>1 DEF InForkersHands
  <2>4. PlaceInv'
    BY <1>1, <1>3, <2>1, <2>2, <2>3, PlaceFrame
  <2>5. Busy \subseteq Busy' /\ forker.task \in Busy'
    BY <1>3, <2>1 DEF Busy
  <2>6. TidOwner[forker.tid] = forker.task
    BY <2>1 DEF TidInv, HolderOwns
  <2>7. OwnerInv'
    BY <1>1, <1>3, <2>2, <2>5, <2>6, OwnerFrame
  <2> QED
    BY <2>4, <2>7
<1> QED
  BY <1>4, <1>5, <1>6, <1>7, <1>8 DEF Forker

\* Steps of everybody keep the places of the tasks and the owners of the ids.
LEMMA DispatchStep ==
    ASSUME EngineInv, ResumeInv, TidInv, PlaceInv, OwnerInv, Resumable, QueuesUnshared,
           ~NoFreeTid, [Next]_vars
    PROVE  PlaceInv' /\ OwnerInv'
<1> PoolTypeOK /\ ManagerTypeOK /\ ThreadInv
  BY TypeParts DEF EngineInv
<1>0. /\ gatherer.pc = "stop" => gatherer.task \in Busy
      /\ forker.pc \in {"register", "execute", "forked"} =>
           forker.task \in Tasks /\ status[forker.task] = "QUEUED"
  BY DEF OwnerInv, PlaceInv, HeldInv
<1>1. ASSUME SameLists, UNCHANGED <<status, forker, cancelling>> PROVE PlaceInv'
  <2>1. \A t : InForkersHands(t)' <=> InForkersHands(t)
    BY <1>1 DEF InForkersHands
  <2> QED
    BY <1>0, <1>1, <2>1, PlaceFrame
<1>2. ASSUME UNCHANGED <<status, forker, TidOwner>>,
             gatherer'.pc = "stop" => gatherer' = gatherer
      PROVE  OwnerInv'
  <2>1. Busy' = Busy /\ ForkerHasTid' = ForkerHasTid
    BY <1>2 DEF Busy, ForkerHasTid
  <2> QED
    BY <1>0, <1>2, <2>1, OwnerFrame
<1>3. ASSUME UNCHANGED <<poolVars, pending, status, forker, cancelling>>,
             gatherer'.pc = "stop" => gatherer' = gatherer
      PROVE  PlaceInv' /\ OwnerInv'
  <2>1. SameLists /\ UNCHANGED TidOwner
    BY <1>3, CountingKeepsLists DEF TidOwner, poolVars
  <2> QED
    BY <1>1, <1>2, <1>3, <2>1
<1>4. CASE \/ \E t \in Tasks : ClientEnqueue(t)
           \/ \E w \in MayCancel : ClientCancel(w) \/ ClientCancelTasks(w)
  BY <1>4, ClientDispatch
<1>5. CASE Forker
  BY <1>5, ForkerDispatch
<1>6. CASE ForkerSpuriousWakeup \/ MainShutdownPool
  <2>1. /\ SameLists /\ UNCHANGED <<tid_task, pending, status, forker, cancelling, gatherer>>
    BY <1>6 DEF ForkerSpuriousWakeup, MainShutdownPool, PoolShutdown, SameLists, mainVars, clientVars
  <2>2. UNCHANGED TidOwner
    BY <2>1 DEF TidOwner
  <2> QED
    BY <1>1, <1>2, <2>1, <2>2
<1>7. ASSUME NEW p \in Pids, Monitor(p) \/ MonitorDie(p) PROVE PlaceInv' /\ OwnerInv'
  BY <1>3, <1>7 DEF Monitor, MonitorStart, MonitorSend, MonitorExit, MonitorDie, mainVars, clientVars
<1>8. CASE GathererReceive \/ GathererReap \/ GathererRead \/ GathererError
  <2>1. UNCHANGED <<poolVars, pending, status, forker, cancelling>>
    BY <1>8 DEF GathererReceive, GathererReap, GathererRead, GathererError, mainVars, clientVars
  <2>2. gatherer'.pc = "stop" => gatherer' = gatherer
    <3> DEFINE G == [pc : GathererPCs, pid : Pids \cup {0}, tid : Tids,
                     task : Tasks \cup {NoTask}, output : Tasks \cup {NoTask}]
    <3>1. gatherer \in G
      BY DEF ManagerTypeOK
    <3>2. CASE GathererReceive
      <4>1. \/ gatherer' = gatherer \/ gatherer' = GathererAt("exited")
            \/ gatherer' = [gatherer EXCEPT !.pc = "reap", !.pid = Head(msgq).pid,
                                            !.tid = Head(msgq).tid]
        BY <3>2, Zenon DEF GathererReceive
      <4>2. ASSUME NEW m, gatherer' = [gatherer EXCEPT !.pc = "reap", !.pid = m.pid, !.tid = m.tid]
            PROVE  gatherer'.pc = "reap"
        BY <3>1, <4>2
      <4>3. GathererAt("exited").pc = "exited"
        BY DEF GathererAt
      <4> QED
        BY <4>1, <4>2, <4>3, Zenon
    <3>3. CASE GathererReap \/ GathererRead
      <4> gatherer'.pc \in {"read", "terminate"}
        BY <3>1, <3>3 DEF GathererReap, GathererRead
      <4> QED
        OBVIOUS
    <3>4. CASE GathererError
      BY <3>4 DEF GathererError, GathererAt
    <3> QED
      BY <1>8, <3>2, <3>3, <3>4
  <2> QED
    BY <1>3, <2>1, <2>2
<1>9. CASE GathererTerminate
  <2>1. SameLists /\ UNCHANGED <<status, forker, cancelling>>
    BY <1>9, CountingKeepsLists DEF GathererTerminate, clientVars
  <2> QED
    BY <1>1, <1>9, <2>1, GathererOwners
<1>10. CASE GathererStop
  <2>1. /\ UNCHANGED <<poolVars, pending, forker, cancelling>>
        /\ gatherer.pc = "stop" /\ gatherer'.pc = "receive"
        /\ status' = [status EXCEPT ![gatherer.task] = "TERMINATED"]
        /\ ~InstanceLocked(WorkflowOf[gatherer.task])
    BY <1>10 DEF GathererStop, GathererAt, mainVars
  <2>2. gatherer.task \in Tasks /\ status[gatherer.task] = "EXECUTING"
    BY <1>0, <2>1 DEF Busy, InstanceLocked
  <2>3. /\ SameLists /\ UNCHANGED TidOwner /\ ForkerHasTid' = ForkerHasTid
        /\ \A t : InForkersHands(t)' <=> InForkersHands(t)
    BY <2>1, CountingKeepsLists DEF TidOwner, poolVars, ForkerHasTid, InForkersHands
  <2>4. /\ status'[gatherer.task] = "TERMINATED"
        /\ \A t \in Tasks : t # gatherer.task => status'[t] = status[t]
    BY <2>1, <2>2 DEF ManagerTypeOK
  <2>5. PlaceInv'
    BY <1>0, <2>1, <2>2, <2>3, <2>4, PlaceFrame
  <2>6. \A k \in Tids : TidOwner[k] \in Busy => TidOwner[k] \in Busy'
    <3> \A k \in Tids : TidOwner[k] # gatherer.task
      BY <2>1 DEF OwnerInv
    <3> QED
      BY <2>1, <2>4 DEF Busy
  <2>7. OwnerInv'
    BY <2>1, <2>3, <2>6, OwnerFrame
  <2> QED
    BY <2>5, <2>7
<1>11. ASSUME NEW t \in Tasks, MainResume(t) PROVE PlaceInv' /\ OwnerInv'
  <2>1. SameLists /\ UNCHANGED <<status, forker, cancelling, gatherer>>
    BY <1>11, CountingKeepsLists DEF MainResume, clientVars
  <2>2. UNCHANGED TidOwner
    BY <1>11, ResumeKeepsOwners
  <2> QED
    BY <1>1, <1>2, <2>1, <2>2
<1>12. CASE MainStart
  <2>1. /\ UNCHANGED <<poolVars, pending, status, cancelling>>
        /\ forker.pc = "off" /\ forker'.pc = "dequeue" /\ gatherer'.pc = "receive"
    BY <1>12 DEF MainStart, ThreadInv, ForkerAt, GathererAt, clientVars
  <2>2. /\ SameLists /\ UNCHANGED TidOwner /\ ~ForkerHasTid /\ Busy' = Busy
        /\ \A t : ~InForkersHands(t) /\ ~InForkersHands(t)'
    BY <2>1, CountingKeepsLists DEF TidOwner, poolVars, ForkerHasTid, InForkersHands, Busy
  <2>3. PlaceInv'
    BY <2>1, <2>2, PlaceFrame
  <2>4. OwnerInv'
    BY <2>1, <2>2, OwnerFrame
  <2> QED
    BY <2>3, <2>4
<1>13. CASE MainShutdown \/ MainShutdownSend \/ MainJoin \/ UNCHANGED vars
  BY <1>3, <1>13 DEF MainShutdown, MainShutdownSend, MainJoin, vars, mainVars, clientVars
<1> QED
  BY <1>4, <1>5, <1>6, <1>7, <1>8, <1>9, <1>10, <1>11, <1>12, <1>13
     DEF Next, Gatherer, Shutdown

\* At boot the lists are empty, and the tasks found executing have their ids.
LEMMA InitDispatch ==
    ASSUME Init, ResumeTidsUsable
    PROVE  PlaceInv /\ OwnerInv
<1>1. /\ \A i \in Queues : queue[i].tasks = <<>> /\ queue[i].cancelled_tasks = <<>>
      /\ forker.pc = "off" /\ gatherer.pc = "off" /\ pending = Resumed
      /\ \A k \in Tids : tid_task[k] = NoTask
      /\ \A t \in Tasks : status[t] = IF t \in Resumed THEN "EXECUTING" ELSE "NONE"
  BY DEF Init, PoolInit, EmptyQueue, ForkerAt, GathererAt
<1>2. ToSet(<<>>) = {} /\ NoRepeat(<<>>)
  <2>1. <<>> \in Seq(Cells) /\ Len(<<>>) = 0
    OBVIOUS
  <2>2. ToSet(<<>>) = {}
    BY <2>1, ToSetOfList
  <2> QED
    BY <2>1, <2>2 DEF NoRepeat
<1>3. \A i \in Queues : /\ Proper(queue[i]) /\ Reachable(queue[i]) = {}
                        /\ ToSet(queue[i].cancelled_tasks) = {}
  BY <1>1, <1>2 DEF Proper, Reachable
<1>4. PlaceInv
  <2>1. \A t \in Tasks : status[t] # "QUEUED"
    BY <1>1
  <2> QED
    BY <1>1, <1>3, <2>1 DEF PlaceInv, ListInv, CellInv, HeldInv
<1>5. \A k \in Tids : TidOwner[k] # NoTask => TidOwner[k] \in Resumed /\ ResumeTid[TidOwner[k]] = k
  <2> TAKE k \in Tids
  <2> HAVE TidOwner[k] # NoTask
  <2> DEFINE u == CHOOSE t \in pending : ResumeTid[t] = k
  <2>1. (\E t \in pending : ResumeTid[t] = k) /\ TidOwner[k] = u
    BY <1>1 DEF TidOwner
  <2>2. u \in pending /\ ResumeTid[u] = k
    BY <2>1
  <2> QED
    BY <1>1, <2>1, <2>2
<1>6. \A k \in Tids : TidOwner[k] # NoTask => TidOwner[k] \in Busy
  BY <1>1, <1>5 DEF Busy
<1>7. \A k, m \in Tids : TidOwner[k] # NoTask /\ TidOwner[k] = TidOwner[m] => k = m
  BY <1>5
<1> QED
  BY <1>1, <1>4, <1>6, <1>7 DEF OwnerInv

\* The invariants of the dispatch.
DispatchInv == EngineInv /\ SlotInv /\ ResumeInv /\ TidInv /\ PlaceInv /\ OwnerInv

\* They hold in every state, as long as ids are free.
LEMMA DispatchIsSound ==
    ASSUME Resumable, QueuesUnshared
    PROVE  Spec /\ []~NoFreeTid => []DispatchInv
<1> ResumeTidsUsable
  BY DEF Resumable
<1>1. Init => DispatchInv
  <2> SUFFICES ASSUME Init PROVE DispatchInv
    OBVIOUS
  <2>1. EngineInv /\ SlotInv /\ ResumeInv
    BY InitPool, InitManager, TypeParts DEF Init, EngineInv
  <2> QED
    BY <2>1, InitTids, InitDispatch DEF DispatchInv
<1>2. DispatchInv /\ ~NoFreeTid /\ [Next]_vars => DispatchInv'
  BY EngineStep, SlotStep, TidStep, DispatchStep DEF DispatchInv
<1> QED
  BY <1>1, <1>2, PTL DEF Spec

\* From fork() until the Gatherer releases it, the id a monitor works under is
\* registered for the monitor's own task, every exit message finds its task, and
\* no task is run by two monitors.  Every task found executing at boot gets its
\* id back and no other monitor of an earlier engine is left over
\* (ProcessManager.cpp:201-205 drops the exit message of one, if its id is free),
\* no instance that is cancelled shares a queue, and ids do not run out.
THEOREM IdsAreNeverConfused ==
    ASSUME Resumable, QueuesUnshared
    PROVE  Spec /\ []~NoFreeTid => []TidOwnership
<1>1. DispatchInv => TidOwnership
  <2> SUFFICES ASSUME DispatchInv, main # "resuming"
               PROVE  /\ \A p \in Pids : Live(p) => tid_task[proc[p].tid] = proc[p].task
                      /\ \A p, r \in Pids : Live(p) /\ Live(r) /\ p # r => proc[p].task # proc[r].task
                      /\ \A k \in 1 .. Len(msgq) : msgq[k].pid # 0 => tid_task[msgq[k].tid] # NoTask
    BY DEF TidOwnership
  <2>1. PoolTypeOK /\ ManagerTypeOK /\ OneHolder /\ HolderOwns /\ OwnerInv /\ ResumeOver
    BY TypeParts DEF DispatchInv, EngineInv, TidInv
  <2>2. TidOwner = tid_task
    BY <2>1, OwnerIsRegistered DEF ResumeOver
  <2>3. \A p \in Pids : Live(p) => tid_task[proc[p].tid] = proc[p].task
    BY <2>1, <2>2 DEF HolderOwns
  <2>4. \A p, r \in Pids : Live(p) /\ Live(r) /\ p # r => proc[p].task # proc[r].task
    <3> SUFFICES ASSUME NEW p \in Pids, NEW r \in Pids, Live(p), Live(r), p # r
                 PROVE  proc[p].task # proc[r].task
      OBVIOUS
    <3>1. proc[p].tid # proc[r].tid /\ proc[p].tid \in Tids /\ proc[r].tid \in Tids
      BY <2>1, HolderTypes DEF OneHolder
    <3>2. /\ TidOwner[proc[p].tid] = proc[p].task /\ TidOwner[proc[r].tid] = proc[r].task
          /\ proc[p].task # NoTask
      BY <2>1 DEF HolderOwns
    <3> QED
      BY <2>1, <3>1, <3>2 DEF OwnerInv
  <2>5. \A k \in 1 .. Len(msgq) : msgq[k].pid # 0 => tid_task[msgq[k].tid] # NoTask
    BY <2>1, <2>2 DEF HolderOwns, ExitMsgs
  <2> QED
    BY <2>3, <2>4, <2>5
<1> QED
  BY <1>1, DispatchIsSound, PTL

\* A QUEUED task is in exactly one place: no enqueue, cancellation or dequeue
\* loses a task or puts it twice into the lists.
THEOREM QueuedTasksAreNotLost ==
    ASSUME Resumable, QueuesUnshared
    PROVE  Spec /\ []~NoFreeTid => []QueuedTaskIsHeld
<1>1. DispatchInv => QueuedTaskIsHeld
  <2> SUFFICES ASSUME DispatchInv, NEW t \in Tasks, status[t] = "QUEUED"
               PROVE  IF InForkersHands(t) THEN CellsHolding(t) = {}
                                           ELSE Cardinality(CellsHolding(t)) = 1
    BY DEF QueuedTaskIsHeld
  <2>0. CellInv /\ HeldInv
    BY DEF DispatchInv, PlaceInv
  <2>1. ASSUME NEW c \in CellsHolding(t)
        PROVE  /\ ~InForkersHands(t) /\ cell_task[c] = t
               /\ \E i \in Queues : c \in Reachable(queue[i]) /\ QueueOf[t] = i
    <3>1. PICK i \in Queues : c \in Reachable(queue[i])
      BY DEF CellsHolding
    <3>2. cell_task[c] = t
      BY DEF CellsHolding
    <3> QED
      BY <2>0, <3>1, <3>2 DEF CellInv
  <2>2. CASE InForkersHands(t)
    BY <2>1, <2>2
  <2>3. CASE ~InForkersHands(t)
    <3>1. PICK i \in Queues : \E c \in Reachable(queue[i]) : cell_task[c] = t
      BY <2>0, <2>3 DEF HeldInv
    <3>2. PICK c \in Reachable(queue[i]) : cell_task[c] = t
      BY <3>1
    <3>3. c \in CellsHolding(t)
      BY <3>2 DEF CellsHolding
    <3>4. \A d \in CellsHolding(t) : d = c
      BY <2>0, <2>1, <3>3 DEF CellInv
    <3>5. CellsHolding(t) = {c}
      BY <3>3, <3>4
    <3> QED
      BY <2>3, <3>5, FS_Singleton
  <2> QED
    BY <2>2, <2>3
<1> QED
  BY <1>1, DispatchIsSound, PTL

\* TaskExecute sets EXECUTING only a task that is still QUEUED: a task that has
\* been stopped or aborted is never revived by the end of its own TaskExecute.
THEOREM StoppedTasksStayStopped ==
    ASSUME Resumable, QueuesUnshared
    PROVE  Spec /\ []~NoFreeTid => StopIsFinal
<1> DEFINE Final == \A t \in Tasks : status[t] \in {"TERMINATED", "ABORTED"} => status'[t] # "EXECUTING"
<1>1. DispatchInv /\ [Next]_vars => [Final]_vars
  <2> SUFFICES ASSUME DispatchInv, Next, NEW t \in Tasks, status[t] \in {"TERMINATED", "ABORTED"}
               PROVE  status'[t] # "EXECUTING"
    OBVIOUS
  <2>1. ManagerTypeOK /\ HeldInv
    BY TypeParts DEF DispatchInv, EngineInv, PlaceInv
  <2>2. CASE ForkerExecuting
    <3>1. forker.task # t /\ forker.task \in Tasks
      BY <2>1, <2>2 DEF ForkerExecuting, HeldInv
    <3> QED
      BY <2>1, <2>2, <3>1 DEF ForkerExecuting, ManagerTypeOK
  <2>3. \/ UNCHANGED status
        \/ \E u \in Tasks \cup {NoTask}, s \in {"QUEUED", "ABORTED", "TERMINATED"} :
             status' = [status EXCEPT ![u] = s]
        \/ ForkerExecuting
    <3>1. CASE \E u \in Tasks : ClientEnqueue(u)
      BY <3>1 DEF ClientEnqueue
    <3>2. CASE ForkerAbort \/ GathererStop
      BY <2>1, <3>2 DEF ForkerAbort, GathererStop, ManagerTypeOK
    <3>3. CASE Forker /\ ~ForkerAbort
      BY <3>3 DEF Forker, ForkerWait, ForkerDequeue, ForkerCrash, ForkerExit, ForkerRegister,
                  ForkerFork, ForkerRelease, clientVars
    <3>4. CASE Gatherer /\ ~GathererStop
      BY <3>4 DEF Gatherer, GathererReceive, GathererReap, GathererRead, GathererTerminate, clientVars
    <3>5. CASE \/ \E w \in MayCancel : ClientCancel(w) \/ ClientCancelTasks(w)
               \/ \E u \in Tasks : MainResume(u)
               \/ \E p \in Pids : Monitor(p) \/ MonitorDie(p)
      BY <3>5 DEF ClientCancel, ClientCancelTasks, MainResume, Monitor, MonitorStart, MonitorSend,
                  MonitorExit, MonitorDie, clientVars
    <3>6. CASE ForkerSpuriousWakeup \/ GathererError \/ MainStart \/ MainShutdown \/ Shutdown
      BY <3>6 DEF ForkerSpuriousWakeup, GathererError, MainStart, MainShutdown, Shutdown,
                  MainShutdownPool, MainShutdownSend, MainJoin, clientVars
    <3> QED
      BY <3>1, <3>2, <3>3, <3>4, <3>5, <3>6 DEF Next
  <2>4. ASSUME NEW u \in Tasks \cup {NoTask}, NEW s \in {"QUEUED", "ABORTED", "TERMINATED"},
               status' = [status EXCEPT ![u] = s]
        PROVE  status'[t] # "EXECUTING"
    BY <2>1, <2>4 DEF ManagerTypeOK
  <2> QED
    BY <2>2, <2>3, <2>4
<1> QED
  BY <1>1, DispatchIsSound, PTL DEF StopIsFinal, Spec

-----------------------------------------------------------------------------
(* The concurrency of the queues.                                          *)

\* The tasks found executing at boot fit the concurrency of their queues.
ResumedFit ==
    \A i \in Queues : Cardinality({t \in Resumed : QueueOf[t] = i}) <= Concurrency[i]

\* Ids are counted for the queue of their task.
IndexInv ==
    /\ \A k \in Tids : tid_task[k] # NoTask => tid_queue_index[k] = QueueOf[tid_task[k]]
    /\ forker.pc = "register" => forker.queue = QueueOf[forker.task]

\* The ids of the tasks of each queue, and the id that the Forker will release
\* because the instance is being cancelled.
IdsOf == [i \in Queues |-> {k \in Tids : TidOwner[k] # NoTask /\ QueueOf[TidOwner[k]] = i}]
GoesNowhere == IF ForkerHasTid /\ WorkflowOf[forker.task] \in cancelling THEN {forker.tid} ELSE {}

\* The ids of a queue fit its concurrency, but for the one that goes nowhere,
\* and there is room for the one that the Forker is about to register.
RoomInv ==
    \A i \in Queues :
        /\ Cardinality(IdsOf[i] \ GoesNowhere) <= Concurrency[i]
        /\ (forker.pc = "register" /\ forker.queue = i /\ WorkflowOf[forker.task] \notin cancelling)
             => Cardinality(IdsOf[i]) < Concurrency[i]

\* Sets of ids are finite.
LEMMA IdsFinite ==
    ASSUME NEW S \in SUBSET Tids
    PROVE  /\ IsFiniteSet(S) /\ Cardinality(S) \in Nat
           /\ \A T \in SUBSET S : Cardinality(T) <= Cardinality(S)
<1>1. IsFiniteSet(S)
  BY TidsOfQueueFinite, FS_Subset
<1>2. Cardinality(S) \in Nat
  BY <1>1, FS_CardinalityType
<1>3. \A T \in SUBSET S : Cardinality(T) <= Cardinality(S)
  BY <1>1, FS_Subset
<1> QED
  BY <1>1, <1>2, <1>3

\* Only the operations on ids touch the table of queues.
LEMMA IndexStep ==
    ASSUME EngineInv, ResumeInv, TidInv, PlaceInv, IndexInv, Resumable, ~NoFreeTid, [Next]_vars
    PROVE  IndexInv'
<1> PoolTypeOK /\ ManagerTypeOK /\ ThreadInv
  BY TypeParts DEF EngineInv
<1>1. ASSUME UNCHANGED <<tid_task, tid_queue_index>>,
             forker'.pc = "register" => forker' = forker
      PROVE  IndexInv'
  BY <1>1 DEF IndexInv
<1>2. ASSUME NEW i \in Queues, NEW t \in Tasks, NEW tid \in Tids, RegisterTask(i, t, tid),
             i = QueueOf[t], forker'.pc = "register" => forker' = forker
      PROVE  IndexInv'
  <2>1. /\ tid_task' = [tid_task EXCEPT ![tid] = t]
        /\ tid_queue_index' = [tid_queue_index EXCEPT ![tid] = i]
    BY <1>2 DEF RegisterTask
  <2>2. \A k \in Tids : tid_task'[k] # NoTask => tid_queue_index'[k] = QueueOf[tid_task'[k]]
    BY <1>2, <2>1 DEF IndexInv, PoolTypeOK
  <2> QED
    BY <1>2, <2>2 DEF IndexInv
<1>3. ASSUME NEW tid \in Tids, TerminateTask(tid) \/ TerminateNotFound(tid),
             forker'.pc # "register" \/ forker' = forker
      PROVE  IndexInv'
  <2>1. CASE TerminateTask(tid)
    <3>1. /\ tid_task' = [tid_task EXCEPT ![tid] = NoTask]
          /\ tid_queue_index' = [tid_queue_index EXCEPT ![tid] = 0]
      BY <2>1 DEF TerminateTask
    <3>2. \A k \in Tids : tid_task'[k] # NoTask => tid_queue_index'[k] = QueueOf[tid_task'[k]]
      BY <3>1 DEF IndexInv, PoolTypeOK
    <3> QED
      BY <1>3, <3>2 DEF IndexInv
  <2>2. CASE TerminateNotFound(tid)
    BY <1>1, <1>3, <2>2 DEF TerminateNotFound, poolVars
  <2> QED
    BY <1>3, <2>1, <2>2
<1>4. CASE \E t \in Tasks : ClientEnqueue(t)
  BY <1>1, <1>4 DEF ClientEnqueue, EnqueueTask, poolVars
<1>5. CASE \E w \in MayCancel : ClientCancel(w) \/ ClientCancelTasks(w)
  BY <1>1, <1>5 DEF ClientCancel, ClientCancelTasks, CancelTasks, poolVars
<1>6. CASE ForkerWait \/ ForkerCrash \/ ForkerExit \/ ForkerAbort \/ ForkerFork \/ ForkerExecuting
  <2>1. UNCHANGED <<tid_task, tid_queue_index>>
    BY <1>6 DEF ForkerWait, DequeueWait, ForkerCrash, DequeueCrash, ForkerExit, DequeueFalse,
                ForkerAbort, ForkerFork, ForkerExecuting, poolVars
  <2>2. forker'.pc # "register"
    BY <1>6 DEF ForkerWait, ForkerCrash, ForkerExit, ForkerAbort, ForkerFork, ForkerExecuting,
                ForkerAt, ManagerTypeOK
  <2> QED
    BY <1>1, <2>1, <2>2
<1>7. CASE ForkerDequeue
  <2>1. PICK i \in Queues, t \in Tasks :
          /\ DequeueTask(i, t)
          /\ forker' = [forker EXCEPT !.pc = "register", !.task = t, !.queue = i]
    BY <1>7 DEF ForkerDequeue
  <2>2. forker'.queue = i /\ forker'.task = t /\ UNCHANGED <<tid_task, tid_queue_index>>
    BY <2>1 DEF DequeueTask, ManagerTypeOK
  <2>3. ~NullFirstTask(queue[i]) /\ queue[i] \in Queue /\ Proper(queue[i])
        /\ t = cell_task[NextCell(queue[i])]
    BY <2>1 DEF DequeueTask, PoolTypeOK, PlaceInv, ListInv
  <2>4. NextCell(queue[i]) \in Reachable(queue[i])
    BY <2>3, DequeueProper
  <2>5. QueueOf[t] = i
    BY <2>3, <2>4 DEF PlaceInv, CellInv
  <2> QED
    BY <2>2, <2>5 DEF IndexInv
<1>8. CASE ForkerRegister
  <2>1. PICK tid \in Tids :
          /\ ExecuteTask(forker.queue, forker.task, 0, tid)
          /\ forker' = [forker EXCEPT !.pc = "execute", !.tid = tid]
    BY <1>8 DEF ForkerRegister
  <2>2. RegisterTask(forker.queue, forker.task, tid) /\ forker'.pc # "register"
    BY <2>1 DEF ExecuteTask, ManagerTypeOK
  <2>3. forker.queue \in Queues /\ forker.task \in Tasks /\ forker.queue = QueueOf[forker.task]
    BY <1>8 DEF ForkerRegister, ThreadInv, IndexInv
  <2> QED
    BY <1>2, <2>2, <2>3
<1>9. CASE ForkerRelease
  <2>1. /\ forker.tid \in Tids /\ forker'.pc # "register"
        /\ TerminateTask(forker.tid) \/ TerminateNotFound(forker.tid)
    BY <1>9 DEF ForkerRelease, ForkerAt, ManagerTypeOK
  <2> QED
    BY <1>3, <2>1
<1>10. CASE GathererTerminate
  <2>1. /\ gatherer.tid \in Tids /\ forker' = forker
        /\ TerminateTask(gatherer.tid) \/ TerminateNotFound(gatherer.tid)
    BY <1>10 DEF GathererTerminate, ManagerTypeOK
  <2> QED
    BY <1>3, <2>1
<1>11. CASE GathererReceive \/ GathererReap \/ GathererRead \/ GathererStop \/ GathererError
  BY <1>1, <1>11 DEF GathererReceive, GathererReap, GathererRead, GathererStop, GathererError, poolVars
<1>12. CASE \E p \in Pids : Monitor(p) \/ MonitorDie(p)
  BY <1>1, <1>12 DEF Monitor, MonitorStart, MonitorSend, MonitorExit, MonitorDie, poolVars
<1>13. ASSUME NEW t \in Tasks, MainResume(t) PROVE IndexInv'
  <2>1. t \in Resumed /\ QueueOf[t] # -1 /\ QueueOf[t] \in Queues /\ forker' = forker
        /\ ResumeTid[t] # 0 /\ ResumeTid[t] \in Tids
    BY <1>13 DEF MainResume, ManagerTypeOK, Resumable, ResumeTidsUsable
  <2>2. RegisterTask(QueueOf[t], t, ResumeTid[t])
    BY <1>13, <2>1 DEF MainResume, ExecuteTask
  <2> QED
    BY <1>2, <2>1, <2>2
<1>14. CASE MainStart
  BY <1>1, <1>14 DEF MainStart, ForkerAt, poolVars
<1>15. CASE ForkerSpuriousWakeup \/ MainShutdown \/ Shutdown \/ UNCHANGED vars
  BY <1>1, <1>15 DEF ForkerSpuriousWakeup, MainShutdown, Shutdown, MainShutdownPool, PoolShutdown,
                     MainShutdownSend, MainJoin, vars, poolVars
<1> QED
  BY <1>4, <1>5, <1>6, <1>7, <1>8, <1>9, <1>10, <1>11, <1>12, <1>13, <1>14, <1>15
     DEF Next, Forker, Gatherer

\* Steps after which a queue has no id that it did not have.
LEMMA RoomFrame ==
    ASSUME PoolTypeOK, RoomInv,
           \A i \in Queues : IdsOf'[i] \subseteq IdsOf[i]
                             /\ IdsOf'[i] \ GoesNowhere' \subseteq IdsOf[i] \ GoesNowhere,
           forker'.pc = "register" => forker' = forker,
           cancelling \subseteq cancelling'
    PROVE  RoomInv'
<1> SUFFICES ASSUME NEW i \in Queues
             PROVE  /\ Cardinality(IdsOf'[i] \ GoesNowhere') <= Concurrency[i]
                    /\ (forker'.pc = "register" /\ forker'.queue = i
                          /\ WorkflowOf[forker'.task] \notin cancelling')
                         => Cardinality(IdsOf'[i]) < Concurrency[i]
  BY DEF RoomInv
<1>1. IdsOf[i] \in SUBSET Tids /\ IdsOf[i] \ GoesNowhere \in SUBSET Tids
      /\ IdsOf'[i] \in SUBSET Tids /\ IdsOf'[i] \ GoesNowhere' \in SUBSET Tids
  BY DEF IdsOf
<1>2. /\ Cardinality(IdsOf'[i]) <= Cardinality(IdsOf[i])
      /\ Cardinality(IdsOf'[i] \ GoesNowhere') <= Cardinality(IdsOf[i] \ GoesNowhere)
  BY <1>1, IdsFinite
<1>3. /\ Cardinality(IdsOf[i]) \in Nat /\ Cardinality(IdsOf'[i]) \in Nat
      /\ Cardinality(IdsOf[i] \ GoesNowhere) \in Nat
      /\ Cardinality(IdsOf'[i] \ GoesNowhere') \in Nat
      /\ Concurrency[i] \in Nat
  BY <1>1, IdsFinite DEF UInt
<1>4. Cardinality(IdsOf'[i] \ GoesNowhere') <= Concurrency[i]
  BY <1>2, <1>3 DEF RoomInv
<1>5. ASSUME forker'.pc = "register", forker'.queue = i,
             WorkflowOf[forker'.task] \notin cancelling'
      PROVE  Cardinality(IdsOf'[i]) < Concurrency[i]
  <2>1. Cardinality(IdsOf[i]) < Concurrency[i]
    BY <1>5 DEF RoomInv
  <2> QED
    BY <1>2, <1>3, <2>1
<1> QED
  BY <1>4, <1>5

\* The Forker takes a task from a queue that has room, or one that goes nowhere.
LEMMA DequeueRoom ==
    ASSUME PoolTypeOK, ManagerTypeOK, ThreadInv, SlotInv, TidInv, PlaceInv, IndexInv, RoomInv,
           ForkerDequeue
    PROVE  RoomInv'
<1>1. PICK i \in Queues, t \in Tasks :
        /\ DequeueTask(i, t)
        /\ forker' = [forker EXCEPT !.pc = "register", !.task = t, !.queue = i]
  BY DEF ForkerDequeue
<1>2. forker'.pc = "register" /\ forker'.queue = i /\ forker'.task = t
  BY <1>1 DEF ManagerTypeOK
<1>3. /\ forker.pc \in {"dequeue", "waiting"} /\ UNCHANGED <<tid_task, pending, main, cancelling>>
  BY <1>1 DEF ForkerDequeue, PastForkLock, DequeueTask, mainVars, clientVars
<1>4. UNCHANGED <<TidOwner, IdsOf>> /\ GoesNowhere = {} /\ GoesNowhere' = {}
  <2>1. UNCHANGED TidOwner
    BY <1>3 DEF TidOwner
  <2>2. ~ForkerHasTid /\ ~ForkerHasTid'
    BY <1>2, <1>3 DEF ForkerHasTid
  <2> QED
    BY <2>1, <2>2 DEF IdsOf, GoesNowhere
<1>5. ASSUME WorkflowOf[t] \notin cancelling
      PROVE  Cardinality(IdsOf[i]) < Concurrency[i]
  <2>1. /\ ~NullFirstTask(queue[i]) /\ t = cell_task[NextCell(queue[i])]
        /\ ~IsLocked(queue[i], Concurrency[i])
        /\ queue[i] \in Queue /\ Proper(queue[i])
    BY <1>1 DEF DequeueTask, FirstUnlocked, PoolTypeOK, PlaceInv, ListInv
  <2>2. queue[i].cancelled_tasks = <<>>
    <3> SUFFICES ASSUME queue[i].cancelled_tasks # <<>> PROVE FALSE
      OBVIOUS
    <3>1. NextCell(queue[i]) \in ToSet(queue[i].cancelled_tasks)
      BY <2>1, DequeueProper
    <3> QED
      BY <1>5, <2>1, <3>1 DEF PlaceInv, CellInv
  <2>3. queue[i].running_tasks < Concurrency[i]
    BY <2>1, <2>2 DEF IsLocked
  <2>4. queue[i].running_tasks = Cardinality(TidsOfQueue(i))
    BY DEF SlotInv, RunningMatchesTids
  <2>5. IdsOf[i] = TidsOfQueue(i)
    <3>1. TidOwner = tid_task
      BY <1>3, OwnerIsRegistered DEF ThreadInv, TidInv, ResumeOver
    <3>2. \A k \in Tids : tid_task[k] # NoTask => tid_queue_index[k] = QueueOf[tid_task[k]]
      BY DEF IndexInv
    <3> QED
      BY <3>1, <3>2 DEF IdsOf, TidsOfQueue
  <2> QED
    BY <2>3, <2>4, <2>5
<1>6. \A j \in Queues : Cardinality(IdsOf'[j] \ GoesNowhere') <= Concurrency[j]
  BY <1>4 DEF RoomInv
<1> QED
  BY <1>2, <1>3, <1>4, <1>5, <1>6 DEF RoomInv

\* The Forker registers an id where there is room for it, or one it will release.
LEMMA RegisterRoom ==
    ASSUME PoolTypeOK, ManagerTypeOK, ThreadInv, TidInv, PlaceInv, IndexInv, RoomInv, ~NoFreeTid,
           ForkerRegister
    PROVE  RoomInv'
<1>1. PICK tid \in Tids :
        /\ ExecuteTask(forker.queue, forker.task, 0, tid)
        /\ forker' = [forker EXCEPT !.pc = "execute", !.tid = tid]
  BY DEF ForkerRegister
<1>2. /\ tid_task[tid] = NoTask /\ tid_task' = [tid_task EXCEPT ![tid] = forker.task]
      /\ forker.pc = "register" /\ UNCHANGED <<main, pending, cancelling>> /\ main # "resuming"
  <2> FirstFreeTid(tid) /\ RegisterTask(forker.queue, forker.task, tid)
    BY <1>1 DEF ExecuteTask
  <2> QED
    BY DEF FirstFreeTid, RegisterTask, ForkerRegister, mainVars, clientVars, ThreadInv
<1>3. /\ forker'.pc = "execute" /\ forker'.tid = tid /\ forker'.task = forker.task
  BY <1>1 DEF ManagerTypeOK
<1>4. /\ forker.task \in Tasks /\ forker.queue = QueueOf[forker.task] /\ forker.queue \in Queues
  BY <1>2 DEF ThreadInv, IndexInv
<1>5. pending = {} /\ TidOwner = tid_task
  BY <1>2, OwnerIsRegistered DEF TidInv, ResumeOver
<1>6. TidOwner' = [TidOwner EXCEPT ![tid] = forker.task]
  <2> \A k \in Tids : TidOwner'[k] = tid_task'[k]
    BY <1>2, <1>5 DEF TidOwner
  <2> QED
    BY <1>2, <1>5 DEF TidOwner, PoolTypeOK
<1>7. \A i \in Queues : /\ i # forker.queue => IdsOf'[i] = IdsOf[i]
                        /\ i = forker.queue => IdsOf'[i] = IdsOf[i] \cup {tid}
                        /\ tid \notin IdsOf[i]
  <2> TAKE i \in Queues
  <2>1. /\ \A k \in Tids : k # tid => TidOwner'[k] = TidOwner[k]
        /\ TidOwner'[tid] = forker.task /\ TidOwner[tid] = NoTask
    BY <1>2, <1>5, <1>6 DEF PoolTypeOK
  <2>2. \A k \in Tids : /\ k \in IdsOf[i] <=> TidOwner[k] # NoTask /\ QueueOf[TidOwner[k]] = i
                        /\ k \in IdsOf'[i] <=> TidOwner'[k] # NoTask /\ QueueOf[TidOwner'[k]] = i
    BY DEF IdsOf
  <2>3. IdsOf[i] \subseteq Tids /\ IdsOf'[i] \subseteq Tids
    BY DEF IdsOf
  <2>4. tid \notin IdsOf[i] /\ \A k \in Tids : k # tid => (k \in IdsOf'[i] <=> k \in IdsOf[i])
    BY <2>1, <2>2
  <2>5. forker.task # NoTask
    BY <1>4
  <2>6. tid \in IdsOf'[i] <=> i = forker.queue
    <3>1. tid \in IdsOf'[i] <=> forker.task # NoTask /\ QueueOf[forker.task] = i
      BY <2>1, <2>2
    <3> QED
      BY <1>4, <2>5, <3>1
  <2>7. i # forker.queue => IdsOf'[i] = IdsOf[i]
    <3> SUFFICES ASSUME i # forker.queue
                 PROVE  IdsOf'[i] \subseteq IdsOf[i] /\ IdsOf[i] \subseteq IdsOf'[i]
      OBVIOUS
    <3>1. tid \notin IdsOf'[i] /\ tid \notin IdsOf[i]
      BY <2>4, <2>6
    <3> QED
      BY <2>3, <2>4, <3>1
  <2>8. i = forker.queue => IdsOf'[i] = IdsOf[i] \cup {tid}
    <3>1. i = forker.queue => IdsOf'[i] \subseteq IdsOf[i] \cup {tid}
      BY <2>3, <2>4
    <3>2. i = forker.queue => IdsOf[i] \cup {tid} \subseteq IdsOf'[i]
      BY <2>3, <2>4, <2>6
    <3> QED
      BY <3>1, <3>2
  <2> QED
    BY <2>4, <2>7, <2>8
<1>8. GoesNowhere = {}
  BY <1>2 DEF GoesNowhere, ForkerHasTid
<1>9. GoesNowhere' = IF WorkflowOf[forker.task] \in cancelling THEN {tid} ELSE {}
  BY <1>2, <1>3 DEF GoesNowhere, ForkerHasTid
<1> SUFFICES ASSUME NEW i \in Queues
             PROVE  Cardinality(IdsOf'[i] \ GoesNowhere') <= Concurrency[i]
  BY <1>3 DEF RoomInv
<1>10. /\ IsFiniteSet(IdsOf[i]) /\ Cardinality(IdsOf[i]) \in Nat /\ Concurrency[i] \in Nat
  <2> IdsOf[i] \in SUBSET Tids
    BY DEF IdsOf
  <2> QED
    BY IdsFinite DEF UInt
<1>11. Cardinality(IdsOf[i]) <= Concurrency[i]
  <2> IdsOf[i] \ {} = IdsOf[i]
    OBVIOUS
  <2> QED
    BY <1>8 DEF RoomInv
<1>12. CASE i # forker.queue \/ WorkflowOf[forker.task] \in cancelling
  <2> IdsOf'[i] \ GoesNowhere' = IdsOf[i]
    BY <1>7, <1>9, <1>12
  <2> QED
    BY <1>11
<1>13. CASE i = forker.queue /\ WorkflowOf[forker.task] \notin cancelling
  <2>1. Cardinality(IdsOf[i]) < Concurrency[i]
    BY <1>2, <1>13 DEF RoomInv
  <2>2. IdsOf'[i] \ GoesNowhere' = IdsOf[i] \cup {tid} /\ tid \notin IdsOf[i]
    BY <1>7, <1>9, <1>13
  <2>3. Cardinality(IdsOf[i] \cup {tid}) = Cardinality(IdsOf[i]) + 1
    BY <1>10, <2>2, FS_AddElement
  <2>4. \A n, c \in Nat : n < c => n + 1 <= c
    OBVIOUS
  <2>5. Cardinality(IdsOf[i]) + 1 <= Concurrency[i]
    BY <1>10, <2>1, <2>4
  <2> QED
    BY <2>2, <2>3, <2>5, Zenon
<1> QED
  BY <1>12, <1>13

\* Every step keeps the ids of a queue within its concurrency.
LEMMA RoomStep ==
    ASSUME DispatchInv, IndexInv, RoomInv, Resumable, ~NoFreeTid, [Next]_vars
    PROVE  RoomInv'
<1> PoolTypeOK /\ ManagerTypeOK /\ ThreadInv /\ SlotInv /\ ResumeInv /\ TidInv /\ PlaceInv /\ OwnerInv
  BY TypeParts DEF DispatchInv, EngineInv
<1>0. ASSUME UNCHANGED <<tid_task, pending>> PROVE UNCHANGED <<TidOwner, IdsOf>>
  <2> UNCHANGED TidOwner
    BY <1>0 DEF TidOwner
  <2> QED
    BY DEF IdsOf
<1>1. ASSUME UNCHANGED <<TidOwner, forker>>, cancelling \subseteq cancelling' PROVE RoomInv'
  <2>1. UNCHANGED IdsOf
    BY <1>1 DEF IdsOf
  <2>2. GoesNowhere \subseteq GoesNowhere'
    BY <1>1 DEF GoesNowhere, ForkerHasTid
  <2> QED
    BY <1>1, <2>1, <2>2, RoomFrame
<1>2. ASSUME UNCHANGED <<tid_task, pending, forker>>, cancelling \subseteq cancelling' PROVE RoomInv'
  BY <1>0, <1>1, <1>2
<1>3. ASSUME UNCHANGED <<tid_task, pending, cancelling>>, forker'.pc # "register",
             GoesNowhere \subseteq GoesNowhere'
      PROVE  RoomInv'
  BY <1>0, <1>3, RoomFrame
<1>4. CASE \E t \in Tasks : ClientEnqueue(t)
  BY <1>2, <1>4 DEF ClientEnqueue, EnqueueTask, poolVars, mainVars
<1>5. CASE \E w \in MayCancel : ClientCancel(w) \/ ClientCancelTasks(w)
  BY <1>2, <1>5 DEF ClientCancel, ClientCancelTasks, CancelTasks, poolVars, mainVars, clientVars
<1>6. CASE ForkerWait \/ ForkerCrash \/ ForkerExit \/ ForkerExecuting \/ MainStart
  <2>1. /\ UNCHANGED <<tid_task, pending, cancelling>>
        /\ forker.pc \in {"dequeue", "waiting", "forked", "off"}
    BY <1>6 DEF ForkerWait, DequeueWait, ForkerCrash, DequeueCrash, ForkerExit, DequeueFalse,
                ForkerExecuting, MainStart, PastForkLock, ThreadInv, poolVars, mainVars, clientVars
  <2>2. forker'.pc # "register"
    BY <1>6 DEF ForkerWait, ForkerCrash, ForkerExit, ForkerExecuting, MainStart, ForkerAt
  <2>3. GoesNowhere = {}
    BY <2>1 DEF GoesNowhere, ForkerHasTid
  <2> QED
    BY <1>3, <2>1, <2>2, <2>3
<1>7. CASE ForkerDequeue
  BY <1>7, DequeueRoom
<1>8. CASE ForkerRegister
  BY <1>8, RegisterRoom
<1>9. CASE ForkerAbort
  <2>1. /\ UNCHANGED <<tid_task, pending, cancelling>> /\ forker.pc = "execute"
        /\ forker'.pc = "release" /\ forker'.task = forker.task /\ forker'.tid = forker.tid
    BY <1>9 DEF ForkerAbort, poolVars, mainVars, ManagerTypeOK
  <2>2. GoesNowhere \subseteq GoesNowhere'
    BY <2>1 DEF GoesNowhere, ForkerHasTid
  <2> QED
    BY <1>3, <2>1, <2>2
<1>10. CASE ForkerFork
  <2>1. /\ UNCHANGED <<tid_task, pending, cancelling>> /\ forker'.pc = "forked"
        /\ WorkflowOf[forker.task] \notin cancelling
    BY <1>10 DEF ForkerFork, poolVars, mainVars, clientVars, ManagerTypeOK
  <2>2. GoesNowhere = {}
    BY <2>1 DEF GoesNowhere
  <2> QED
    BY <1>3, <2>1, <2>2
<1>11. CASE ForkerRelease
  <2>1. /\ UNCHANGED <<pending, main, cancelling>> /\ main # "resuming" /\ forker'.pc = "dequeue"
        /\ TerminateTask(forker.tid) \/ TerminateNotFound(forker.tid)
        /\ forker.tid \in Tids
    BY <1>11 DEF ForkerRelease, ForkerAt, ThreadInv, mainVars, clientVars, ManagerTypeOK
  <2>2. pending = {} /\ TidOwner = tid_task
    BY <2>1, OwnerIsRegistered DEF TidInv, ResumeOver
  <2>3. /\ \A k \in Tids : k # forker.tid => TidOwner'[k] = TidOwner[k]
        /\ TidOwner'[forker.tid] = NoTask
    <3>1. /\ \A k \in Tids : k # forker.tid => tid_task'[k] = tid_task[k]
          /\ tid_task'[forker.tid] = NoTask
      BY <2>1 DEF TerminateTask, TerminateNotFound, poolVars, PoolTypeOK
    <3>2. \A k \in Tids : TidOwner'[k] = tid_task'[k]
      BY <2>1, <2>2 DEF TidOwner
    <3> QED
      BY <2>1, <2>2, <3>1, <3>2
  <2>4. \A i \in Queues : IdsOf'[i] \subseteq IdsOf[i] /\ forker.tid \notin IdsOf'[i]
    BY <2>3 DEF IdsOf
  <2>5. GoesNowhere \subseteq {forker.tid}
    BY DEF GoesNowhere
  <2> QED
    BY <2>1, <2>4, <2>5, RoomFrame
<1>12. CASE GathererTerminate
  <2>1. /\ UNCHANGED <<pending, main, cancelling, forker>> /\ main # "resuming"
        /\ TerminateTask(gatherer.tid) \/ TerminateNotFound(gatherer.tid)
        /\ gatherer.tid \in Tids
    BY <1>12 DEF GathererTerminate, ThreadInv, mainVars, clientVars, ManagerTypeOK
  <2>2. pending = {} /\ TidOwner = tid_task
    BY <2>1, OwnerIsRegistered DEF TidInv, ResumeOver
  <2>3. \A k \in Tids : TidOwner'[k] \in {TidOwner[k], NoTask}
    <3>1. \A k \in Tids : tid_task'[k] \in {tid_task[k], NoTask}
      BY <2>1 DEF TerminateTask, TerminateNotFound, poolVars, PoolTypeOK
    <3>2. \A k \in Tids : TidOwner'[k] = tid_task'[k]
      BY <2>1, <2>2 DEF TidOwner
    <3> QED
      BY <2>2, <3>1, <3>2
  <2>4. \A i \in Queues : IdsOf'[i] \subseteq IdsOf[i]
    BY <2>3 DEF IdsOf
  <2>5. UNCHANGED GoesNowhere
    BY <2>1 DEF GoesNowhere, ForkerHasTid
  <2> QED
    BY <2>1, <2>4, <2>5, RoomFrame
<1>13. CASE GathererReceive \/ GathererReap \/ GathererRead \/ GathererStop \/ GathererError
  BY <1>2, <1>13 DEF GathererReceive, GathererReap, GathererRead, GathererStop, GathererError,
                     poolVars, mainVars, clientVars
<1>14. CASE \E p \in Pids : Monitor(p) \/ MonitorDie(p)
  BY <1>2, <1>14 DEF Monitor, MonitorStart, MonitorSend, MonitorExit, MonitorDie,
                     poolVars, mainVars, clientVars
<1>15. ASSUME NEW t \in Tasks, MainResume(t) PROVE RoomInv'
  BY <1>1, <1>15, ResumeKeepsOwners DEF MainResume, clientVars
<1>16. CASE ForkerSpuriousWakeup \/ MainShutdown \/ Shutdown \/ UNCHANGED vars
  BY <1>2, <1>16 DEF ForkerSpuriousWakeup, MainShutdown, Shutdown, MainShutdownPool, PoolShutdown,
                     MainShutdownSend, MainJoin, vars, poolVars, mainVars, clientVars
<1> QED
  BY <1>4, <1>5, <1>6, <1>7, <1>8, <1>9, <1>10, <1>11, <1>12, <1>13, <1>14, <1>15, <1>16
     DEF Next, Forker, Gatherer

\* At boot the ids of a queue are those of its tasks found executing.
LEMMA InitRoom ==
    ASSUME Init, ResumeTidsUsable, ResumedFit
    PROVE  IndexInv /\ RoomInv
<1>1. /\ forker.pc = "off" /\ pending = Resumed /\ \A k \in Tids : tid_task[k] = NoTask
  BY DEF Init, PoolInit, ForkerAt
<1>2. IndexInv /\ GoesNowhere = {}
  BY <1>1 DEF IndexInv, GoesNowhere, ForkerHasTid
<1>3. \A k \in Tids : TidOwner[k] # NoTask => TidOwner[k] \in Resumed /\ ResumeTid[TidOwner[k]] = k
  <2> TAKE k \in Tids
  <2> HAVE TidOwner[k] # NoTask
  <2> DEFINE u == CHOOSE t \in pending : ResumeTid[t] = k
  <2>1. (\E t \in pending : ResumeTid[t] = k) /\ TidOwner[k] = u
    BY <1>1 DEF TidOwner
  <2>2. u \in pending /\ ResumeTid[u] = k
    BY <2>1
  <2> QED
    BY <1>1, <2>1, <2>2
<1>4. ASSUME NEW i \in Queues PROVE Cardinality(IdsOf[i]) <= Concurrency[i]
  <2> DEFINE R == {t \in Resumed : QueueOf[t] = i}
             f == [t \in R |-> ResumeTid[t]]
             g == [k \in IdsOf[i] |-> TidOwner[k]]
  <2>1. IsFiniteSet(Tids)
    BY TidsOfQueueFinite
  <2>2. IsFiniteSet(R)
    <3>1. f \in Injection(R, Tids)
      BY DEF Injection, IsInjective, ResumeTidsUsable
    <3> QED
      BY <2>1, <3>1, FS_Injection
  <2>3. g \in Injection(IdsOf[i], R)
    <3>1. \A k \in IdsOf[i] : TidOwner[k] \in R /\ ResumeTid[TidOwner[k]] = k
      BY <1>3 DEF IdsOf
    <3> QED
      BY <3>1 DEF Injection, IsInjective
  <2>4. Cardinality(IdsOf[i]) <= Cardinality(R) /\ IsFiniteSet(IdsOf[i])
    BY <2>2, <2>3, FS_Injection
  <2>5. Cardinality(R) <= Concurrency[i]
    BY DEF ResumedFit
  <2>6. Cardinality(R) \in Nat /\ Cardinality(IdsOf[i]) \in Nat /\ Concurrency[i] \in Nat
    BY <2>2, <2>4, FS_CardinalityType DEF UInt
  <2> HIDE DEF R
  <2> QED
    BY <2>4, <2>5, <2>6
<1>5. \A i \in Queues : IdsOf[i] \ GoesNowhere = IdsOf[i]
  BY <1>2
<1> QED
  BY <1>1, <1>2, <1>4, <1>5 DEF RoomInv

\* No more monitors work for a queue than its concurrency allows: between the
\* Forker's look at running_tasks and its registration of the id nobody else
\* takes the room.  Every task found executing at boot gets its id back and fits
\* the concurrency, no instance that is cancelled shares a queue, and ids do not
\* run out.
THEOREM ConcurrencyIsRespected ==
    ASSUME Resumable, QueuesUnshared, ResumedFit
    PROVE  Spec /\ []~NoFreeTid => []ConcurrencyRespected
<1> DEFINE Inv == DispatchInv /\ IndexInv /\ RoomInv
<1> ResumeTidsUsable
  BY DEF Resumable
<1>1. Init => Inv
  <2> SUFFICES ASSUME Init PROVE Inv
    OBVIOUS
  <2>1. EngineInv /\ SlotInv /\ ResumeInv
    BY InitPool, InitManager, TypeParts DEF Init, EngineInv
  <2> QED
    BY <2>1, InitTids, InitDispatch, InitRoom DEF DispatchInv
<1>2. Inv /\ ~NoFreeTid /\ [Next]_vars => Inv'
  <2> SUFFICES ASSUME Inv, ~NoFreeTid, [Next]_vars PROVE Inv'
    OBVIOUS
  <2>1. DispatchInv'
    BY EngineStep, SlotStep, TidStep, DispatchStep DEF DispatchInv
  <2>2. IndexInv'
    BY IndexStep DEF DispatchInv
  <2>3. RoomInv'
    BY RoomStep
  <2> QED
    BY <2>1, <2>2, <2>3
<1>3. Inv => ConcurrencyRespected
  <2> SUFFICES ASSUME Inv, NEW i \in Queues
               PROVE  Cardinality({p \in Pids : Live(p) /\ proc[p].task # NoTask
                                         /\ QueueOf[proc[p].task] = i}) <= Concurrency[i]
    BY DEF ConcurrencyRespected
  <2> DEFINE P == {p \in Pids : Live(p) /\ proc[p].task # NoTask /\ QueueOf[proc[p].task] = i}
             T == IdsOf[i] \ GoesNowhere
             f == [p \in P |-> proc[p].tid]
  <2>1. OneHolder /\ HolderOwns /\ ManagerTypeOK
    BY TypeParts DEF DispatchInv, EngineInv, TidInv
  <2>2. ASSUME NEW p \in P PROVE proc[p].tid \in T
    <3>1. proc[p].tid \in Tids
      BY <2>1, HolderTypes
    <3>2. TidOwner[proc[p].tid] = proc[p].task /\ proc[p].task \in Tasks
      BY <2>1 DEF HolderOwns
    <3>3. proc[p].tid \in IdsOf[i]
      BY <3>1, <3>2 DEF IdsOf
    <3>4. proc[p].tid \notin GoesNowhere
      BY <2>1 DEF GoesNowhere, OneHolder
    <3> QED
      BY <3>3, <3>4
  <2>3. \A p, r \in P : p # r => proc[p].tid # proc[r].tid
    BY <2>1 DEF OneHolder
  <2> HIDE DEF P, T
  <2>4. f \in Injection(P, T)
    BY <2>2, <2>3 DEF Injection, IsInjective
  <2>5. IsFiniteSet(T) /\ Cardinality(T) \in Nat
    <3> T \in SUBSET Tids
      BY DEF T, IdsOf
    <3> QED
      BY IdsFinite
  <2>6. Cardinality(P) <= Cardinality(T) /\ IsFiniteSet(P)
    BY <2>4, <2>5, FS_Injection
  <2>7. Cardinality(T) <= Concurrency[i]
    BY DEF T, RoomInv
  <2>8. Cardinality(P) \in Nat /\ Concurrency[i] \in Nat
    BY <2>6, FS_CardinalityType DEF UInt
  <2>9. Cardinality(P) <= Concurrency[i]
    BY <2>5, <2>6, <2>7, <2>8
  <2> QED
    BY <2>9 DEF P
<1> QED
  BY <1>1, <1>2, <1>3, PTL DEF Spec
=============================================================================
