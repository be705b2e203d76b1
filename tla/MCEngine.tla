------------------------------ MODULE MCEngine ------------------------------
(***************************************************************************)
(* Engine for TLC: a few instances and connections.                        *)
(***************************************************************************)
EXTENDS Engine, TLC

=============================================================================
