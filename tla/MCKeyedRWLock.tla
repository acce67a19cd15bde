--------------------------- MODULE MCKeyedRWLock ---------------------------
(***************************************************************************)
(* Instance of KeyedRWLock for TLC.                                        *)
(***************************************************************************)
EXTENDS KeyedRWLock

=============================================================================
