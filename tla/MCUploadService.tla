-------------------------- MODULE MCUploadService --------------------------
(***************************************************************************)
(* Instance of UploadService for TLC: both ways of an upload.              *)
(***************************************************************************)
EXTENDS UploadService, TLC

Symmetry == Permutations(Files)
=============================================================================
