----------------------------- MODULE MCNodeSync -----------------------------
(***************************************************************************)
(* Instance of NodeSync for TLC.                                           *)
(***************************************************************************)
EXTENDS NodeSync
=============================================================================
