--------------------------------- MODULE Lists ---------------------------------
(* What the fetchers append to their lists. *)
EXTENDS SequencesExt

\* The elements of a list that are in a set, in their order.
Select(list, S) ==
    LET upTo[n \in 0..Len(list)] ==
            IF n = 0 THEN <<>>
            ELSE upTo[n - 1] \o (IF list[n] \in S THEN <<list[n]>> ELSE <<>>)
    IN  upTo[Len(list)]
=============================================================================
