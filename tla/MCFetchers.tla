------------------------------- MODULE MCFetchers -------------------------------
(* Instances of Fetchers for TLC. *)
EXTENDS Fetchers
=============================================================================
