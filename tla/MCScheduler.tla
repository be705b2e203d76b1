----------------------------- MODULE MCScheduler -----------------------------
(***************************************************************************)
(* Instances of Scheduler for TLC: a few events of two owners.             *)
(***************************************************************************)
EXTENDS Scheduler

CONSTANTS e1, e2, e3, t1, t2, t3, w1, w2

TwoEvents == {e1, e2}
ThreeEvents == {e1, e2, e3}
OwnerOfTwo == (e1 :> w1) @@ (e2 :> w2)
OwnerOfThree == (e1 :> w1) @@ (e2 :> w2) @@ (e3 :> w2)

\* Every event is linked before the second it is due at.
InTime == -1
=============================================================================
