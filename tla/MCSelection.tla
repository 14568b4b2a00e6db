---------------------------- MODULE MCSelection ----------------------------
(***************************************************************************)
(* Selection for TLC.  Nothing tells one module from another, so their     *)
(* permutations are symmetries.                                            *)
(***************************************************************************)
EXTENDS Selection

Symmetry == Permutations(Installed)
=============================================================================
