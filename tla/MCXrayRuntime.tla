--------------------------- MODULE MCXrayRuntime ---------------------------
(***************************************************************************)
(* Instance of XrayRuntime for TLC.                                        *)
(***************************************************************************)
EXTENDS XrayRuntime
=============================================================================
