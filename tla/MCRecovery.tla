----------------------------- MODULE MCRecovery -----------------------------
(***************************************************************************)
(* A small instance of Recovery.                                           *)
(***************************************************************************)
EXTENDS Recovery
=============================================================================
