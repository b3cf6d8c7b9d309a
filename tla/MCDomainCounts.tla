---------------------------- MODULE MCDomainCounts ----------------------------
(* Instances of DomainCounts for TLC. *)
EXTENDS DomainCounts, TLC

Keys == Permutations(Key)
=============================================================================
