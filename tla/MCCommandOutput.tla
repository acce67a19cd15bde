--------------------------- MODULE MCCommandOutput ---------------------------
(***************************************************************************)
(* Instance of CommandOutput for TLC, with the sandbox's history in        *)
(* MCCommandOutput.cfg, with the database in MCCommandOutputDatabase.cfg. *)
(***************************************************************************)
EXTENDS CommandOutput
=============================================================================
