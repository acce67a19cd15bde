------------------------------ MODULE MCLeases ------------------------------
(***************************************************************************)
(* Instance of Leases for TLC.                                             *)
(***************************************************************************)
EXTENDS Leases
=============================================================================
