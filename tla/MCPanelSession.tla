--------------------------- MODULE MCPanelSession ---------------------------
(***************************************************************************)
(* Two tabs and two calls: enough for a login or a logout in one tab        *)
(* between two attempts of a write in the other, and for two calls of one   *)
(* tab to share a request for a token or a 401.                             *)
(***************************************************************************)
EXTENDS PanelSession

CONSTANTS t1, t2, c1, c2
=============================================================================
