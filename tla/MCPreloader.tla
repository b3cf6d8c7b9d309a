----------------------------- MODULE MCPreloader -----------------------------
(* Instances of Preloader for TLC. *)
EXTENDS Preloader, TLC

Sources == Permutations(Source)
=============================================================================
