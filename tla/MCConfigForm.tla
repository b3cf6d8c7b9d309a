---------------------------- MODULE MCConfigForm ----------------------------
(* Instances of ConfigForm for TLC: no text has blanks around it. *)
EXTENDS ConfigForm

MCTrim == [t \in Text \cup Key \cup {Blank} |-> t]
=============================================================================
