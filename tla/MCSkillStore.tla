---------------------------- MODULE MCSkillStore ----------------------------
(* Two skills, two processes that write and one that queries. *)
EXTENDS SkillStore, TLC

CONSTANTS a, b, v1, v2, w1, w2, r1

Symmetry == Permutations({w1, w2}) \cup Permutations({a, b}) \cup Permutations({v1, v2})
=============================================================================
