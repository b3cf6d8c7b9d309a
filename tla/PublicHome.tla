------------------------------ MODULE PublicHome ------------------------------
(***************************************************************************)
(* The public home page.  Six requests are sent at once, the page waits    *)
(* for all of them, and each that fails has a default of its own; then the *)
(* cards of the endpoints join three of the answers by path.  A button on  *)
(* a card copies its URL and is marked until a timer takes the mark away:  *)
(* every copy sets one, and none is ever cancelled.                        *)
(***************************************************************************)
EXTENDS Requests, FiniteSets

CONSTANTS
    Path,       \* paths of endpoints
    Blank       \* an empty home page, and no mark

vars == <<server, view, net, hist>>

Fetches == {"content", "stats", "urlStats", "metrics", "endpoints", "service"}

\* What the page starts with, and shows of a section that has nothing.
Nothing == [content |-> Blank, cards |-> <<>>, metrics |-> FALSE, clock |-> FALSE]

(***************************************************************************)
(* Server: the home page's text, of each endpoint whether it is "shown",   *)
(* "hidden" or "inactive", and the paths that have been called. The URLs   *)
(* of endpoints that are active are counted.                               *)
(* View. "outcome" of each request, "section" what is on the page.         *)
(***************************************************************************)
Init ==
    /\ server \in [content : {Blank, "text"}, called : SUBSET Path,
                   endpoints : [Path -> {"shown", "hidden", "inactive"}]]
    /\ view = [outcome |-> [f \in Fetches |-> "waiting"], arrived |-> FALSE,
               section |-> Nothing, copying |-> {}, mark |-> Blank, timers |-> 0]
    /\ net = EmptyBag
    /\ hist = [commands |-> 0]

\* Lost, refused or not parsed: the page cannot tell.
Answer(f) ==
    /\ view.outcome[f] = "waiting"
    /\ \E outcome \in {"ok", "failed"} : view' = [view EXCEPT !.outcome[f] = outcome]
    /\ UNCHANGED <<server, net, hist>>

Got(f) == view.outcome[f] = "ok"

\* An endpoint is on the home page when it is active and shown there; what is
\* not known of a path counts as zero.
VisibleEndpoints == {p \in Path : Got("endpoints") /\ server.endpoints[p] = "shown"}
Card(p) == [calls |-> IF Got("stats") /\ p \in server.called THEN 1 ELSE 0,
            urls |-> IF Got("urlStats") /\ server.endpoints[p] # "inactive" THEN 1 ELSE 0]

\* Mutant: one request that fails keeps the answers of all from the page.
MutLoadData ==
    /\ ~view.arrived /\ \A f \in Fetches : view.outcome[f] # "waiting"
    /\ view' = IF \E f \in Fetches : ~Got(f) THEN [view EXCEPT !.arrived = TRUE]
               ELSE [view EXCEPT !.arrived = TRUE,
           !.section = [content |-> IF server.content = Blank THEN "starting" ELSE server.content,
                        cards |-> [p \in VisibleEndpoints |-> Card(p)],
                        metrics |-> Got("metrics"), clock |-> Got("service")]]
    /\ UNCHANGED <<server, net, hist>>

LoadData ==
    /\ ~view.arrived /\ \A f \in Fetches : view.outcome[f] # "waiting"
    /\ view' = [view EXCEPT !.arrived = TRUE,
           !.section = [content |-> IF ~Got("content") THEN "default"
                                    ELSE IF server.content = Blank THEN "starting"
                                    ELSE server.content,
                        cards |-> [p \in VisibleEndpoints |-> Card(p)],
                        metrics |-> Got("metrics"), clock |-> Got("service")]]
    /\ UNCHANGED <<server, net, hist>>

HandleCopyUrl(p) ==
    /\ p \in DOMAIN view.section.cards \ view.copying /\ hist.commands < MaxCommands
    /\ view' = [view EXCEPT !.copying = @ \cup {p}]
    /\ hist' = Counted(hist)
    /\ UNCHANGED <<server, net>>

\* The clipboard has the URL, or has refused it.
Copied(p) ==
    /\ p \in view.copying
    /\ \/ view' = [view EXCEPT !.copying = @ \ {p}, !.mark = p, !.timers = @ + 1]
       \/ view' = [view EXCEPT !.copying = @ \ {p}]
    /\ UNCHANGED <<server, net, hist>>

\* The timer of an earlier copy takes the mark of a later one away as well.
MarkGoes ==
    /\ view.timers > 0
    /\ view' = [view EXCEPT !.mark = Blank, !.timers = @ - 1]
    /\ UNCHANGED <<server, net, hist>>

Next ==
    \/ LoadData \/ MarkGoes
    \/ \E f \in Fetches : Answer(f)
    \/ \E p \in Path : HandleCopyUrl(p) \/ Copied(p)

Spec == Init /\ [][Next]_vars

-----------------------------------------------------------------------------
(* Properties.                                                             *)

TypeOK == view.mark \in Path \cup {Blank} /\ view.timers \in 0..MaxCommands

\* Whichever requests fail, the page comes to show a text, and a card for each
\* endpoint that is to be seen if the endpoints have come, with zeros for what
\* has not; and no mark stays, for a timer is still to take it away.
HomeIsComplete ==
    /\ view.arrived =>
           /\ view.section.content # Blank
           /\ Got("endpoints") =>
                  \A p \in Path : server.endpoints[p] = "shown" <=> p \in DOMAIN view.section.cards
           /\ \A p \in DOMAIN view.section.cards :
                  view.section.cards[p].calls = 0 <=> ~(Got("stats") /\ p \in server.called)
    /\ view.mark # Blank => view.timers > 0 /\ view.mark \in DOMAIN view.section.cards
=============================================================================
