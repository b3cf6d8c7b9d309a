------------------------------ MODULE MCCallStats ------------------------------
(* Instances of CallStats for TLC. *)
EXTENDS CallStats, TLC

Requests == Permutations(Request)
=============================================================================
