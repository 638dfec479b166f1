------------------------------ MODULE MCBroker ------------------------------
(* One runtime that may restart, requests of two profiles.                 *)
EXTENDS Broker, TLC

Symmetry == Permutations(Requests) \cup Permutations(Profiles) \cup Permutations(Schemas)
=============================================================================
