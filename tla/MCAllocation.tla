---------------------------- MODULE MCAllocation ----------------------------
(***************************************************************************)
(* Instance of Allocation for TLC.  Backends are interchangeable.          *)
(***************************************************************************)
EXTENDS Allocation, TLC

Symmetry == Permutations(Backends)
=============================================================================
