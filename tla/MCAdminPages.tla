---------------------------- MODULE MCAdminPages ----------------------------
(* Instances of AdminPages for TLC. *)
EXTENDS AdminPages

CONSTANTS Padded, Name1     \* a name with blanks around it, and without them

\* Of the texts typed, only one name has blanks around it.
MCTrim == [t \in OneText \cup Key \cup {Blank} |-> IF t = Padded THEN Name1 ELSE t]

MCCommands == [endpoints |-> 2, sources |-> 3, form |-> 6, rules |-> 2, home |-> 3,
               stats |-> 4, session |-> 2, public |-> 2]
=============================================================================
