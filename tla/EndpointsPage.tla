----------------------------- MODULE EndpointsPage -----------------------------
(***************************************************************************)
(* The page of endpoints: AdminPage, which asks the server, and            *)
(* EndpointsTab, with the table, its rows that can be dragged, and the     *)
(* dialogs that create, edit and delete.  All three are modal, and the     *)
(* first two share one form.  The handlers of the server stand beside the  *)
(* handlers of the page. "text" is the name, the path and the description  *)
(* of an endpoint, "active" its two switches.                              *)
(***************************************************************************)
EXTENDS Requests, FiniteSets, Functions

CONSTANTS
    Endpoints,    \* the most endpoints there may be; ids are 1..Endpoints
    Text,         \* what may be typed into the form
    Blank         \* the empty text

vars == <<server, view, net, hist>>

Id == 1..Endpoints
Changes == {"create", "update", "delete", "order"}
Fields == {"text", "active"}

EmptyForm == [text |-> Blank, active |-> TRUE]
NoRow == [id |-> 0, text |-> Blank, active |-> FALSE]

Live == {e \in Id : server[e].status = "live"}
Row(e) == [id |-> e, text |-> server[e].text, active |-> server[e].active]

\* ORDER BY sort_order ASC, created_at DESC: as many endpoints come before one
\* in the list as the order puts before it.
Before(a, b) == \/ server[a].order < server[b].order
                \/ server[a].order = server[b].order /\ a > b
Ahead(e) == {d \in Live : Before(d, e)}
Listing == [i \in 1..Cardinality(Live) |-> CHOOSE e \in Live : Cardinality(Ahead(e)) = i - 1]
Table == [i \in DOMAIN Listing |-> Row(Listing[i])]

Ids(rows) == [i \in DOMAIN rows |-> rows[i].id]

(***************************************************************************)
(* History. "fresh": the edit dialog was opened on the row as stored, with *)
(* no change on its way; "touched": what was typed there since; "raced":   *)
(* endpoints that had two edits on their way at once.  "dropped": the      *)
(* order as the last drag left it, if the rows dragged were those stored   *)
(* and nothing since has created, deleted or dragged an endpoint.          *)
(***************************************************************************)
Init ==
    /\ server = [e \in Id |-> [status |-> IF e < Endpoints THEN "live" ELSE "none",
                               text |-> CHOOSE t \in Text : TRUE,
                               active |-> TRUE, order |-> 0]]
    /\ view = [list |-> <<>>, dialog |-> "none", target |-> NoRow, form |-> EmptyForm]
    /\ hist = [loads |-> 1, shown |-> 0, fresh |-> FALSE, touched |-> {},
               raced |-> {}, dropped |-> <<>>, commands |-> 0]
    /\ net = SetToBag({[kind |-> "list", stage |-> "sent", n |-> 1]})

-----------------------------------------------------------------------------
(* The administrator.                                                      *)

Idle == view.dialog = "none"

\* The form is what it was when the dialog was last cancelled.
OpenCreate ==
    /\ Idle
    /\ view' = [view EXCEPT !.dialog = "create"]
    /\ UNCHANGED <<server, net, hist>>

\* Mutant: the switches of the form are left as they were.
MutHandleEditEndpoint(i) ==
    LET row == view.list[i]
    IN  /\ Idle
        /\ view' = [view EXCEPT !.dialog = "edit", !.target = row, !.form.text = row.text]
        /\ hist' = [hist EXCEPT !.touched = {},
                       !.fresh = row = Row(row.id) /\ ~Awaited(Changes)]
        /\ UNCHANGED <<server, net>>

HandleEditEndpoint(i) ==
    LET row == view.list[i]
    IN  /\ Idle
        /\ view' = [view EXCEPT !.dialog = "edit", !.target = row,
                                !.form = [text |-> row.text, active |-> row.active]]
        /\ hist' = [hist EXCEPT !.touched = {},
                       !.fresh = row = Row(row.id) /\ ~Awaited(Changes)]
        /\ UNCHANGED <<server, net>>

HandleDeleteEndpoint(i) ==
    /\ Idle
    /\ view' = [view EXCEPT !.dialog = "delete", !.target = view.list[i]]
    /\ UNCHANGED <<server, net, hist>>

\* Typing one field of the form, once per dialog.
Type(form) ==
    LET changed == {f \in Fields : form[f] # view.form[f]}
    IN  /\ view.dialog \in {"create", "edit"}
        /\ Cardinality(changed) = 1 /\ changed \cap hist.touched = {}
        /\ view' = [view EXCEPT !.form = form]
        /\ hist' = [hist EXCEPT !.touched = @ \cup changed]
        /\ UNCHANGED <<server, net>>

Closed == [view EXCEPT !.dialog = "none", !.target = NoRow, !.form = EmptyForm]

\* Cancelling an edit empties the form; cancelling the others leaves it.
CloseDialog ==
    /\ ~Idle
    /\ view' = IF view.dialog = "edit" THEN Closed
               ELSE [view EXCEPT !.dialog = "none", !.target = NoRow]
    /\ hist' = [hist EXCEPT !.touched = {}, !.fresh = FALSE]
    /\ UNCHANGED <<server, net>>

\* The dialog closes and the form is emptied without waiting for the answer.
HandleSubmit ==
    /\ view.dialog = "create" /\ view.form.text # Blank /\ Command
    /\ net' = Send([kind |-> "create", stage |-> "sent", form |-> view.form])
    /\ view' = Closed
    /\ hist' = [Counted(hist) EXCEPT !.touched = {}, !.fresh = FALSE, !.dropped = <<>>]
    /\ UNCHANGED server

HandleEditSubmit ==
    LET e == view.target.id
    IN  /\ view.dialog = "edit" /\ view.form.text # Blank /\ Command
        /\ net' = Send([kind |-> "update", stage |-> "sent", id |-> e, form |-> view.form,
                        fresh |-> hist.fresh, touched |-> hist.touched])
        /\ view' = Closed
        /\ hist' = [Counted(hist) EXCEPT !.touched = {}, !.fresh = FALSE,
               !.raced = IF \E r \in In("sent") : r.kind = "update" /\ r.id = e
                         THEN @ \cup {e} ELSE @]
        /\ UNCHANGED server

ConfirmDeleteEndpoint ==
    /\ view.dialog = "delete" /\ Command
    /\ net' = Send([kind |-> "delete", stage |-> "sent", id |-> view.target.id])
    /\ view' = [view EXCEPT !.dialog = "none", !.target = NoRow]
    /\ hist' = [Counted(hist) EXCEPT !.dropped = <<>>]
    /\ UNCHANGED server

\* The rows between the two places move up or down by one.
ArrayMove(ids, from, to) ==
    [i \in DOMAIN ids |-> IF i = to THEN ids[from]
                          ELSE IF from <= i /\ i < to THEN ids[i + 1]
                          ELSE IF to < i /\ i <= from THEN ids[i - 1]
                          ELSE ids[i]]

\* The rows shown are moved, whatever drags are on their way; the table shows
\* the new order when the list has been fetched again.
HandleDragEnd(from, to) ==
    LET moved == ArrayMove(Ids(view.list), from, to)
    IN  /\ Idle /\ from # to /\ Command
        /\ net' = Send([kind |-> "order", stage |-> "sent", ids |-> moved, next |-> 1])
        /\ hist' = [Counted(hist) EXCEPT !.dropped =
               IF Range(moved) = Live /\ ~Awaited({"create", "delete", "order"})
               THEN moved ELSE <<>>]
        /\ UNCHANGED <<server, view>>

Administrator ==
    \/ OpenCreate \/ CloseDialog
    \/ HandleSubmit \/ HandleEditSubmit \/ ConfirmDeleteEndpoint
    \/ \E form \in [text : Text, active : BOOLEAN] : Type(form)
    \/ \E i \in DOMAIN view.list : HandleEditEndpoint(i) \/ HandleDeleteEndpoint(i)
    \/ \E i, j \in DOMAIN view.list : HandleDragEnd(i, j)

-----------------------------------------------------------------------------
(* The server.                                                             *)

ListEndpoints(r) ==
    /\ r.kind = "list"
    /\ net' = Turn(r, [kind |-> "list", stage |-> "ok", n |-> r.n,
                       rows |-> Table])
    /\ UNCHANGED server

\* gorm writes the default of a switch that is off, which is on.
CreateEndpoint(r) ==
    /\ r.kind = "create"
    /\ \E e \in Id :
          /\ server[e].status = "none" /\ \A d \in Id : d < e => server[d].status # "none"
          /\ server' = [server EXCEPT ![e] = [status |-> "live", text |-> r.form.text,
                                              active |-> TRUE, order |-> 0]]
    /\ net' = Succeeded(r)

\* sort_order, which the form does not send, is left alone. An endpoint that
\* is gone is no error.
UpdateEndpoint(r) ==
    /\ r.kind = "update"
    /\ server' = IF r.id \in Live
                 THEN [server EXCEPT ![r.id] =
                          [status |-> "live", text |-> r.form.text, active |-> r.form.active,
                           order |-> server[r.id].order]]
                 ELSE server
    /\ net' = Succeeded(r)

DeleteEndpoint(r) ==
    /\ r.kind = "delete"
    /\ \/ /\ r.id \in Live
          /\ server' = [server EXCEPT ![r.id].status = "deleted"]
          /\ net' = Succeeded(r)
       \/ /\ r.id \notin Live
          /\ net' = Failed(r)
          /\ UNCHANGED server

\* Mutant: the last row is left out.
MutUpdateEndpointSortOrder(r) ==
    LET e == r.ids[r.next]
    IN  /\ r.kind = "order"
        /\ server' = IF e \in Live /\ r.next < Len(r.ids)
                     THEN [server EXCEPT ![e].order = r.next - 1] ELSE server
        /\ net' = Turn(r, IF r.next = Len(r.ids) THEN [r EXCEPT !.stage = "ok"]
                          ELSE [r EXCEPT !.next = @ + 1])

\* One row at a time, without a transaction: another request may come between
\* two rows, and a failure leaves those written (Fails).
UpdateEndpointSortOrder(r) ==
    LET e == r.ids[r.next]
    IN  /\ r.kind = "order"
        /\ server' = IF e \in Live THEN [server EXCEPT ![e].order = r.next - 1] ELSE server
        /\ net' = Turn(r, IF r.next = Len(r.ids) THEN [r EXCEPT !.stage = "ok"]
                          ELSE [r EXCEPT !.next = @ + 1])

Serve(r) ==
    /\ r.stage = "sent"
    /\ \/ ListEndpoints(r) \/ CreateEndpoint(r) \/ UpdateEndpoint(r)
       \/ DeleteEndpoint(r) \/ UpdateEndpointSortOrder(r)
    /\ UNCHANGED <<view, hist>>

-----------------------------------------------------------------------------
(* Answers.                                                                *)

\* Whichever list arrives last is the one shown, and one that does not arrive
\* goes unnoticed.
LoadEndpoints(r) ==
    /\ r.kind = "list"
    /\ net' = Done(r)
    /\ \/ /\ r.stage = "ok"
          /\ view' = [view EXCEPT !.list = r.rows]
          /\ hist' = [hist EXCEPT !.shown = r.n]
       \/ /\ r.stage = "failed"
          /\ UNCHANGED <<view, hist>>

\* Mutant: the table is taken to be in order after a drag.
MutChanged(r) ==
    /\ r.kind \in Changes
    /\ \/ /\ r.stage = "ok"
          /\ net' = IF r.kind = "order" THEN Done(r) ELSE Turn(r, Load(hist))
          /\ hist' = IF r.kind = "order" THEN hist ELSE Fresh(hist)
       \/ /\ r.stage = "failed"
          /\ net' = Done(r)
          /\ hist' = [Fresh(hist) EXCEPT !.dropped = IF r.kind = "order" THEN <<>> ELSE @]
    /\ UNCHANGED view

\* The list is fetched again after a change, and not after one that failed.
Changed(r) ==
    /\ r.kind \in Changes
    /\ \/ /\ r.stage = "ok"
          /\ net' = Turn(r, Load(hist))
          /\ hist' = Fresh(hist)
       \/ /\ r.stage = "failed"
          /\ net' = Done(r)
          /\ hist' = [Fresh(hist) EXCEPT !.dropped = IF r.kind = "order" THEN <<>> ELSE @]
    /\ UNCHANGED view

Receive(r) ==
    /\ r.stage \in {"ok", "failed"}
    /\ LoadEndpoints(r) \/ Changed(r)
    /\ UNCHANGED server

Next == Administrator \/ \E r \in InFlight : Serve(r) \/ Receive(r) \/ Fails(r)

Spec == Init /\ [][Next]_vars

-----------------------------------------------------------------------------
(* Properties.                                                             *)

TypeOK ==
    /\ \A e \in Id : server[e].order \in 0..Endpoints - 1
    /\ view.dialog \in {"none", "create", "edit", "delete"}
    /\ Range(Ids(view.list)) \subseteq Id

\* Once every answer is there, the table is what the server stores, in its
\* order, unless a list was overtaken by a later one or an answer is missing.
TableIsStored ==
    Quiet /\ UpToDate => view.list = Table

\* The edit form is sent as a whole, and nothing is sent back in the fields
\* that the administrator left alone: they keep what the server has.
LeavesUntouched ==
    \A r \in In("sent") :
       r.kind = "update" /\ UpdateEndpoint(r) /\ r.fresh /\ r.id \notin hist.raced =>
           \A f \in Fields \ r.touched : server'[r.id][f] = server[r.id][f]

\* A drag, once answered, has put the rows as they were dropped -- also after
\* one that failed halfway -- and edits sent before or after it do not undo it.
DropsStick == Quiet /\ hist.dropped # <<>> => Listing = hist.dropped
=============================================================================
