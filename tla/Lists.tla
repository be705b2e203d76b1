------------------------------- MODULE Lists -------------------------------
(***************************************************************************)
(* What the loops that unlink some cells of a linked list leave of it:     *)
(* Queue::CancelTasks and Scheduler::Flush.  This is SelectSeq by          *)
(* position, without a recursion, so that its length, its range and its    *)
(* order can be proved.                                                    *)
(***************************************************************************)
EXTENDS Naturals, FiniteSets, Sequences

\* The n-th position of the set K of positions.
Nth(K, n) == CHOOSE k \in K : Cardinality({j \in K : j <= k}) = n

\* The elements of the list at the positions K, in their order.
Pick(list, K) == [n \in 1 .. Cardinality(K) |-> list[Nth(K, n)]]

\* The list without the elements of out.
Without(list, out) == Pick(list, {k \in 1 .. Len(list) : list[k] \notin out})
=============================================================================
