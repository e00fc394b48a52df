---------------------------- MODULE MCSaasBilling ----------------------------
(***************************************************************************)
(* Small instances of SaasBilling for TLC.  Symmetry is for the run that   *)
(* checks no temporal property.                                            *)
(***************************************************************************)
EXTENDS SaasBilling, TLC

Symmetry == Permutations(Charges)
=============================================================================
