----------------------------- MODULE MCMigrate -----------------------------
(* Instances of Migrate for TLC. *)
EXTENDS Migrate, TLC

CONSTANTS o1, o2, s1, s2, c1, c2
=============================================================================
