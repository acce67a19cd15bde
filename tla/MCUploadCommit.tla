--------------------------- MODULE MCUploadCommit ---------------------------
(***************************************************************************)
(* Instance of UploadCommit for TLC.                                       *)
(***************************************************************************)
EXTENDS UploadCommit, TLC

Symmetry == Permutations(Files)

=============================================================================
