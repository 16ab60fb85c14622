----------------------------- MODULE MCBuffers -----------------------------
(***************************************************************************)
(* Instances of MpiDecBuffers for TLC.                                     *)
(***************************************************************************)
EXTENDS MpiDecBuffers, TLC

Symmetry == Permutations(Slot)
=============================================================================
