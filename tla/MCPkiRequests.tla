--------------------------- MODULE MCPkiRequests ---------------------------
(***************************************************************************)
(* Three requests at once, of any of the eight operations.                 *)
(***************************************************************************)
EXTENDS PkiRequests

CONSTANTS r1, r2, r3
MCRequests == {r1, r2, r3}
============================================================================
