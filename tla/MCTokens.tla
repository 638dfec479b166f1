------------------------------ MODULE MCTokens ------------------------------
(* A process with two requests at a time and a terminal beside it. *)
EXTENDS Tokens, TLC

CONSTANTS c1, c2, c3, app, shell

MCHome == (c1 :> app) @@ (c2 :> app) @@ (c3 :> shell)
=============================================================================
