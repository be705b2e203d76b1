------------------------- MODULE MCWorkflowScheduler -------------------------
(***************************************************************************)
(* WorkflowScheduler for TLC: one schedule that goes on after a failure    *)
(* and one that is suspended.                                              *)
(***************************************************************************)
EXTENDS WorkflowScheduler

CONSTANTS s1, s2

Symmetry == Permutations(Objects) \cup Permutations(Instances)
=============================================================================
