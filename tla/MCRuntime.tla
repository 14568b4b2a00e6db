----------------------------- MODULE MCRuntime -----------------------------
(***************************************************************************)
(* Runtime for TLC.  Process numbers, and stops, are only compared with    *)
(* their like.                                                             *)
(***************************************************************************)
EXTENDS Runtime

Symmetry == Permutations(Pids) \cup Permutations(Stops)
=============================================================================
