-------------------------- MODULE MCTrafficWriter --------------------------
(***************************************************************************)
(* Instance of TrafficWriter for TLC.                                      *)
(***************************************************************************)
EXTENDS TrafficWriter
=============================================================================
