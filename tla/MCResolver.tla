------------------------------ MODULE MCResolver ------------------------------
(* Instances of Resolver for TLC. *)
EXTENDS Resolver, TLC

Names == Permutations(Endpoint) \cup Permutations(Url) \cup Permutations(Source)
             \cup Permutations(Rule)
=============================================================================
