--------------------------- MODULE MCUpdateCheck ---------------------------
(* Two processes; the first, an MCP server, has two concurrent requests. *)
EXTENDS UpdateCheck, TLC

CONSTANTS c1, c2, c3, p1, p2

MCProcessOf == (c1 :> p1) @@ (c2 :> p1) @@ (c3 :> p2)
=============================================================================
