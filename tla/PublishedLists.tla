----------------------------- MODULE PublishedLists -----------------------------
(***************************************************************************)
(* What the cache of URL lists promises those who read it: for each source *)
(* it shows nothing, or one whole list the source really produced -- under *)
(* a configuration the source held and content its upstream reached -- and *)
(* it goes from one list to the next at once, never through nothing, until *)
(* the process restarts and forgets them all.                              *)
(***************************************************************************)
EXTENDS Naturals

CONSTANTS Source, Config, Cacheable, NoList

VARIABLES
    shown,     \* the list each source shows
    held,      \* the configurations each source has held
    content    \* the generation each source's upstream has reached

pvars == <<shown, held, content>>

Init ==
    /\ shown = [s \in Source |-> NoList]
    /\ held = [s \in Source |-> {}]
    /\ content = [s \in Source |-> 0]

Configure(s, c) ==
    /\ held' = [held EXCEPT ![s] = @ \cup {c}]
    /\ UNCHANGED <<shown, content>>

ContentChanges(s) ==
    /\ content' = [content EXCEPT ![s] = @ + 1]
    /\ UNCHANGED <<shown, held>>

Publish(s) ==
    /\ \E c \in held[s] \cap Cacheable, g \in 0..content[s] :
           shown' = [shown EXCEPT ![s] = [cfg |-> c, gen |-> g]]
    /\ UNCHANGED <<held, content>>

ForgetAll ==
    /\ shown' = [s \in Source |-> NoList]
    /\ UNCHANGED <<held, content>>

Next ==
    \/ \E s \in Source : ContentChanges(s) \/ Publish(s)
    \/ \E s \in Source, c \in Config : Configure(s, c)
    \/ ForgetAll

Spec == Init /\ [][Next]_pvars
=============================================================================
