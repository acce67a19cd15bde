---------------------------- MODULE MCHistoryLog ----------------------------
(***************************************************************************)
(* Instances of HistoryLog for TLC.  Cleanups are interchangeable.         *)
(***************************************************************************)
EXTENDS HistoryLog, TLC

Symmetry == Permutations(Cleaners)
=============================================================================
