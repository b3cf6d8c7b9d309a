------------------------------- MODULE Requests -------------------------------
(***************************************************************************)
(* The requests of one admin page, from the fetch that sends them until    *)
(* the page has handled the answer. The browser sends them side by side:   *)
(* the server may take them, and the page get the answers, in any order.   *)
(* Whatever goes wrong on the way looks the same to the page, a status     *)
(* that is not ok or an exception, and it does not tell whether the server *)
(* has done what was asked. A 401, which ends the page, is in AdminSession.*)
(*                                                                         *)
(* Every page has the same four variables, of its own shape: one page is   *)
(* mounted in a tab at a time (AdminPages).                                *)
(***************************************************************************)
EXTENDS Naturals, Sequences, BagsExt, Bags

CONSTANTS
    MaxInFlight,    \* bound on the requests in flight at once
    MaxCommands     \* bound on the changes asked of a page

VARIABLES
    server,    \* what the server stores
    view,      \* the state of the page's components
    net,       \* the requests in flight, a bag
    hist       \* history for the properties; "commands" counts towards the bound

InFlight == BagToSet(net)
In(stage) == {r \in InFlight : r.stage = stage}
Quiet == InFlight = {}
Unsaved == In("sent") \cup In("found")
Awaited(kinds) == \E r \in InFlight : r.kind \in kinds

Send(r) == BagAdd(net, r)
Done(r) == BagRemove(net, r)
Turn(r, next) == BagAdd(Done(r), next)
Found(r) == Turn(r, [r EXCEPT !.stage = "found"])
Succeeded(r) == Turn(r, [r EXCEPT !.stage = "ok"])
Failed(r) == Turn(r, [kind |-> r.kind, stage |-> "failed"])

\* A command of the administrator: one more, and room for its request.
Command == hist.commands < MaxCommands /\ BagCardinality(net) < MaxInFlight
Counted(h) == [h EXCEPT !.commands = @ + 1]

(***************************************************************************)
(* A list is fetched when its page is mounted and again after each change  *)
(* that succeeded. "loads" numbers those requests, "shown" is the last one *)
(* to have arrived; an unanswered change counts as one that never arrives. *)
(***************************************************************************)
Load(h) == [kind |-> "list", stage |-> "sent", n |-> h.loads + 1]
Fresh(h) == [h EXCEPT !.loads = @ + 1]
UpToDate == hist.shown = hist.loads

\* The request or its answer is lost, or the server fails before it has
\* changed anything, also when it has "found" the row that it is to change.
Fails(r) ==
    /\ r.stage \in {"sent", "found", "ok"}
    /\ net' = Failed(r)
    /\ UNCHANGED <<server, view, hist>>
=============================================================================
