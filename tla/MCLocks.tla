------------------------------- MODULE MCLocks -------------------------------
(***************************************************************************)
(* Locks for TLC: a few threads, which can take any of the roles.          *)
(***************************************************************************)
EXTENDS Locks, TLC

Symmetry == Permutations(Threads)
=============================================================================
