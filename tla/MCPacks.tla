------------------------------- MODULE MCPacks -------------------------------
(* Two archives a version may have, and one that is refused. *)
EXTENDS Packs, TLC

CONSTANTS a, b, x, y, z

Symmetric == Permutations({a, b}) \cup Permutations({x, y})
=============================================================================
