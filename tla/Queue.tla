------------------------------- MODULE Queue -------------------------------
(***************************************************************************)
(* The linked lists of Queue.cpp.  A queue keeps the pending tasks in a    *)
(* singly linked list (first_task .. last_task), the tasks of cancelled    *)
(* workflow instances in a second list, and two unsigned counters.         *)
(*                                                                         *)
(* A list is the sequence of the heap cells reached from its head.  Cells  *)
(* are addresses: a freed cell may be handed out again, so that a pointer  *)
(* kept to a freed cell may later point into any list of the daemon.       *)
(***************************************************************************)
EXTENDS Naturals, FiniteSets, Sequences, SequencesExt, Lists

CONSTANTS
    Cells,      \* addresses of Queue::Task cells
    NoCell,     \* the null pointer
    UIntSpan    \* number of values of an unsigned int

ASSUME QueueAssumption ==
    /\ NoCell \notin Cells
    /\ UIntSpan \in Nat \ {0, 1}

UInt == 0 .. UIntSpan - 1

Queue == [size            : UInt,
          running_tasks   : UInt,
          tasks           : Seq(Cells),
          last_task       : Cells \cup {NoCell},
          cancelled_tasks : Seq(Cells)]

EmptyQueue ==
    [size |-> 0, running_tasks |-> 0, tasks |-> <<>>,
     last_task |-> NoCell, cancelled_tasks |-> <<>>]

UIntPlus(n, k) == (n + k) % UIntSpan

UIntMinus(n, k) == (n + UIntSpan - (k % UIntSpan)) % UIntSpan

\* What the store cell->next_task = new does to a list: the list through cell
\* now goes on with new and nothing else; other lists do not notice.
Relink(list, cell, new) ==
    IF cell \in ToSet(list)
    THEN SubSeq(list, 1, CHOOSE k \in DOMAIN list : list[k] = cell) \o <<new>>
    ELSE list

\* Mutant: last_task is not set when the list was empty.
EnqueueCellNoTail(pool, i, new) ==
    IF pool[i].tasks = <<>>
    THEN [pool EXCEPT ![i].tasks = <<new>>, ![i].size = UIntPlus(@, 1)]
    ELSE [j \in DOMAIN pool |->
            [pool[j] EXCEPT !.tasks = Relink(@, pool[i].last_task, new),
                            !.size = IF j = i THEN UIntPlus(@, 1) ELSE @]]

\* EnqueueTask on queue i of the pool: last_task is followed without asking
\* where it points to, and the store is seen through every list it is on.
EnqueueCell(pool, i, new) ==
    LET relinked ==
          IF pool[i].tasks = <<>>
          THEN [pool EXCEPT ![i].tasks = <<new>>]
          ELSE [j \in DOMAIN pool |->
                  [pool[j] EXCEPT
                     !.tasks = Relink(@, pool[i].last_task, new),
                     !.cancelled_tasks = Relink(@, pool[i].last_task, new)]]
    IN  [relinked EXCEPT ![i].last_task = new, ![i].size = UIntPlus(@, 1)]

\* Mutant: one task too many is let through.
IsLockedOffByOne(q, concurrency) ==
    /\ q.cancelled_tasks = <<>>
    /\ ~(q.size > 0 /\ q.running_tasks <= concurrency)

\* Cancelled tasks are always returned, new ones below the concurrency only.
IsLocked(q, concurrency) ==
    /\ q.cancelled_tasks = <<>>
    /\ ~(q.size > 0 /\ q.running_tasks < concurrency)

\* An unlocked queue whose counter promises a task that no list holds: the
\* code follows a null first_task.
NullFirstTask(q) == q.cancelled_tasks = <<>> /\ q.tasks = <<>>

\* The cell an unlocked queue gives out, and the queue it leaves.
NextCell(q) == IF q.cancelled_tasks # <<>> THEN Head(q.cancelled_tasks)
                                           ELSE Head(q.tasks)

DequeueCell(q) ==
    IF q.cancelled_tasks # <<>>
    THEN [q EXCEPT !.cancelled_tasks = Tail(@)]
    ELSE [q EXCEPT !.tasks = Tail(@), !.size = UIntMinus(@, 1)]

ExecuteInQueue(q) == [q EXCEPT !.running_tasks = UIntPlus(@, 1)]

TerminateInQueue(q) == [q EXCEPT !.running_tasks = UIntMinus(@, 1)]

\* Mutant: the cancelled list is replaced instead of extended.
CancelCellsReplacing(q, mine) ==
    LET hit == {k \in 1 .. Len(q.tasks) : q.tasks[k] \in mine}
    IN  [q EXCEPT !.tasks = Pick(@, (1 .. Len(@)) \ hit),
                  !.cancelled_tasks = Reverse(Pick(q.tasks, hit)),
                  !.size = UIntMinus(@, Cardinality(hit))]

\* CancelTasks: each cell of the instance is unlinked and pushed in front of
\* the cancelled list.  last_task is left as it was.
CancelCells(q, mine) ==
    LET hit == {k \in 1 .. Len(q.tasks) : q.tasks[k] \in mine}
    IN  [q EXCEPT !.tasks = Pick(@, (1 .. Len(@)) \ hit),
                  !.cancelled_tasks = Reverse(Pick(q.tasks, hit)) \o @,
                  !.size = UIntMinus(@, Cardinality(hit))]

\* Cells that some list of the queue reaches.
Reachable(q) == ToSet(q.tasks) \cup ToSet(q.cancelled_tasks)
=============================================================================
