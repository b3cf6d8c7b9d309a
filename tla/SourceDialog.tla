------------------------------ MODULE SourceDialog ------------------------------
(***************************************************************************)
(* The data sources of an endpoint: the dialog DataSourceManagement, which *)
(* lies over the page of endpoints, and what EndpointsTab does to open it  *)
(* and to fetch its rows.  The answer to such a fetch chooses the endpoint *)
(* of the dialog again, and whether the dialog is open; the dialog keeps   *)
(* its form when only its endpoint changes.                                *)
(*                                                                         *)
(* "text" is the name of a source, "body" its type and configuration,      *)
(* "active" its switch. The endpoints themselves are not edited here.      *)
(***************************************************************************)
EXTENDS Requests, FiniteSets

CONSTANTS
    Owner,      \* endpoints
    Sources,    \* the most sources there may be; ids are 1..Sources
    Text,       \* names
    Blank,      \* the empty name
    Body,       \* types and configurations
    NoLinks,    \* the type of an empty form, manual, without links
    Nobody      \* no dialog

vars == <<server, view, net, hist>>

Id == 1..Sources
Fields == {"text", "body", "active"}
Saves == {"create", "update"}                       \* what the form sends
RowWrites == {"update", "toggle", "delete"}
Changes == {"create", "update", "toggle", "delete", "sync"}

EmptyForm == [text |-> Blank, body |-> NoLinks, active |-> TRUE]
NoRow == [id |-> 0, text |-> Blank, body |-> NoLinks, active |-> TRUE]
FormOf(row) == [text |-> row.text, body |-> row.body, active |-> row.active]

Live == {s \in Id : server[s].status = "live"}
Row(s) == [id |-> s, text |-> server[s].text, body |-> server[s].body,
           active |-> server[s].active]
Rows(owner) == {Row(s) : s \in {t \in Live : server[t].owner = owner}}

(***************************************************************************)
(* View. "known" is data_sources of the endpoints in the page's list,      *)
(* "mount" numbers the times the dialog was mounted: an answer to a form   *)
(* that is gone empties no other.                                          *)
(*                                                                         *)
(* History. "chosen": the endpoint whose dialog was last opened, Nobody    *)
(* once it was closed; "calm": nothing was on its way then for another.    *)
(* "fresh" and "touched" are as in EndpointsPage; "raced": sources that    *)
(* had two writes under way at once.                                       *)
(***************************************************************************)
Init ==
    /\ LET first == CHOOSE o \in Owner : TRUE IN
          server = [s \in Id |-> [status |-> IF s < Sources THEN "live" ELSE "none",
                                 owner |-> first, text |-> CHOOSE t \in Text : TRUE,
                                 body |-> CHOOSE b \in Body : TRUE, active |-> TRUE]]
    /\ view = [selected |-> Nobody, rows |-> {}, known |-> [o \in Owner |-> Rows(o)],
               mount |-> 0, creating |-> FALSE, editing |-> NoRow, form |-> EmptyForm]
    /\ hist = [loads |-> 0, shown |-> 0, chosen |-> Nobody, calm |-> TRUE,
               fresh |-> FALSE, touched |-> {}, raced |-> {}, commands |-> 0]
    /\ net = EmptyBag

LoadOf(owner) == [kind |-> "list", stage |-> "sent", n |-> hist.loads + 1, owner |-> owner]

\* The dialog shows a row of the list; it is mounted if it was closed.
Shows(v, owner, rows) ==
    IF v.selected # Nobody THEN [v EXCEPT !.selected = owner, !.rows = rows]
    ELSE [v EXCEPT !.selected = owner, !.rows = rows, !.mount = @ + 1,
                   !.creating = FALSE, !.editing = NoRow, !.form = EmptyForm]

-----------------------------------------------------------------------------
(* The administrator.                                                      *)

Chooses(h, owner) ==
    [h EXCEPT !.chosen = owner, !.touched = {}, !.fresh = FALSE,
              !.calm = \A r \in InFlight : r.stage # "failed" => r.owner = owner]

\* What the list knows is shown at once, and the rows are fetched.
HandleManageDataSources(owner) ==
    /\ view.selected = Nobody /\ Command
    /\ view' = Shows(view, owner, view.known[owner])
    /\ net' = Send(LoadOf(owner))
    /\ hist' = Counted(Fresh(Chooses(hist, owner)))
    /\ UNCHANGED server

\* Mutant: closing fetches the rows once more.
MutOnClose ==
    /\ view.selected # Nobody
    /\ view' = [view EXCEPT !.selected = Nobody, !.creating = FALSE,
                            !.editing = NoRow, !.form = EmptyForm]
    /\ net' = Send(LoadOf(view.selected))
    /\ hist' = Fresh(Chooses(hist, Nobody))
    /\ UNCHANGED server

OnClose ==
    /\ view.selected # Nobody
    /\ view' = [view EXCEPT !.selected = Nobody, !.creating = FALSE,
                            !.editing = NoRow, !.form = EmptyForm]
    /\ hist' = Chooses(hist, Nobody)
    /\ UNCHANGED <<server, net>>

Open == view.selected # Nobody
FormShown == Open /\ (view.creating \/ view.editing # NoRow)

AddSource ==
    /\ Open
    /\ view' = [view EXCEPT !.creating = TRUE, !.editing = NoRow, !.form = EmptyForm]
    /\ hist' = [hist EXCEPT !.touched = {}, !.fresh = FALSE]
    /\ UNCHANGED <<server, net>>

Writes(s) == {r \in Unsaved : r.kind \in RowWrites /\ r.id = s}
Raced(s) == IF Writes(s) # {} THEN hist.raced \cup {s} ELSE hist.raced

\* An edit starts fresh if the row is as stored and nothing is on its way that
\* may change it, or whose answer may empty the form.
FreshRow(row) ==
    /\ row.id \in Live /\ row = Row(row.id)
    /\ \A r \in InFlight : r.kind \notin Saves
    /\ Writes(row.id) = {}

StartEditDataSource(row) ==
    /\ Open
    /\ view' = [view EXCEPT !.editing = row, !.creating = FALSE, !.form = FormOf(row)]
    /\ hist' = [hist EXCEPT !.touched = {}, !.fresh = FreshRow(row)]
    /\ UNCHANGED <<server, net>>

Type(form) ==
    LET changed == {f \in Fields : form[f] # view.form[f]}
    IN  /\ FormShown
        /\ Cardinality(changed) = 1 /\ changed \cap hist.touched = {}
        /\ view' = [view EXCEPT !.form = form]
        /\ hist' = [hist EXCEPT !.touched = @ \cup changed]
        /\ UNCHANGED <<server, net>>

\* Cancelling an edit empties the form, cancelling a creation only hides it.
CancelForm ==
    /\ FormShown
    /\ view' = IF view.editing # NoRow
               THEN [view EXCEPT !.editing = NoRow, !.form = EmptyForm]
               ELSE [view EXCEPT !.creating = FALSE]
    /\ hist' = [hist EXCEPT !.touched = {}, !.fresh = FALSE]
    /\ UNCHANGED <<server, net>>

\* The form stays as it is until the answer is there, and may be sent again.
CreateDataSource ==
    /\ FormShown /\ view.editing = NoRow /\ view.form.text # Blank /\ Command
    /\ net' = Send([kind |-> "create", stage |-> "sent", owner |-> view.selected,
                    form |-> view.form, mount |-> view.mount])
    /\ hist' = Counted(hist)
    /\ UNCHANGED <<server, view>>

\* A PUT of a whole row.
Put(kind, row, form, fresh, touched) ==
    /\ net' = Send([kind |-> kind, stage |-> "sent", owner |-> view.selected, id |-> row.id,
                    form |-> form, mount |-> view.mount, fresh |-> fresh, touched |-> touched])
    /\ hist' = [Counted(hist) EXCEPT !.raced = Raced(row.id),
           !.fresh = @ /\ (kind = "toggle" => view.editing.id # row.id)]
    /\ UNCHANGED <<server, view>>

UpdateDataSource ==
    /\ FormShown /\ view.editing # NoRow /\ view.form.text # Blank /\ Command
    /\ Put("update", view.editing, view.form, hist.fresh, hist.touched)

ToggleDataSourceActive(row) ==
    /\ Open /\ Command
    /\ Put("toggle", row, [FormOf(row) EXCEPT !.active = ~@], FreshRow(row), {"active"})

SyncDataSource(row) ==
    /\ Open /\ Command
    /\ net' = Send([kind |-> "sync", stage |-> "sent", owner |-> view.selected, id |-> row.id])
    /\ hist' = Counted(hist)
    /\ UNCHANGED <<server, view>>

DeleteDataSource(row) ==
    /\ Open /\ Command
    /\ net' = Send([kind |-> "delete", stage |-> "sent", owner |-> view.selected, id |-> row.id])
    /\ hist' = [Counted(hist) EXCEPT !.raced = Raced(row.id)]
    /\ UNCHANGED <<server, view>>

Administrator ==
    \/ \E owner \in Owner : HandleManageDataSources(owner)
    \/ OnClose \/ AddSource \/ CancelForm \/ CreateDataSource \/ UpdateDataSource
    \/ \E form \in [text : Text, body : Body \cup {NoLinks}, active : BOOLEAN] : Type(form)
    \/ \E row \in view.rows :
          \/ StartEditDataSource(row) \/ ToggleDataSourceActive(row)
          \/ SyncDataSource(row) \/ DeleteDataSource(row)

-----------------------------------------------------------------------------
(* The server.                                                             *)

ListEndpointDataSources(r) ==
    /\ r.kind = "list"
    /\ net' = Turn(r, [kind |-> "list", stage |-> "ok", n |-> r.n, owner |-> r.owner,
                       rows |-> Rows(r.owner)])
    /\ UNCHANGED server

\* gorm writes the default of a switch that is off, which is on.
CreateEndpointDataSource(r) ==
    /\ r.kind = "create"
    /\ \E s \in Id :
          /\ server[s].status = "none"
          /\ server' = [server EXCEPT ![s] =
                 [status |-> "live", owner |-> r.owner, text |-> r.form.text,
                  body |-> r.form.body, active |-> TRUE]]
    /\ net' = Succeeded(r)

\* UpdateDataSource reads the row ...
FindSource(r) ==
    /\ r.kind \in {"update", "toggle"} /\ r.id \in Live
    /\ net' = Found(r)
    /\ UNCHANGED server

\* ... and saves all columns; a row that was deleted since is inserted again,
\* with the default of the switch.
SaveSource(r) ==
    /\ server' = [server EXCEPT ![r.id] =
           [status |-> "live", owner |-> server[r.id].owner, text |-> r.form.text,
            body |-> r.form.body, active |-> r.form.active \/ r.id \notin Live]]
    /\ net' = Succeeded(r)

RemoveSource(r) ==
    /\ r.kind = "delete" /\ r.id \in Live
    /\ server' = [server EXCEPT ![r.id].status = "deleted"]
    /\ net' = Succeeded(r)

\* A sync fetches the source's list and changes none of its columns here.
SyncSource(r) ==
    /\ r.kind = "sync" /\ r.id \in Live
    /\ net' = Succeeded(r)
    /\ UNCHANGED server

NotFound(r) ==
    /\ r.kind \in RowWrites \cup {"sync"} /\ r.id \notin Live
    /\ net' = Failed(r)
    /\ UNCHANGED server

Serve(r) ==
    /\ \/ /\ r.stage = "sent"
          /\ \/ ListEndpointDataSources(r) \/ CreateEndpointDataSource(r)
             \/ FindSource(r) \/ RemoveSource(r) \/ SyncSource(r) \/ NotFound(r)
       \/ r.stage = "found" /\ SaveSource(r)
    /\ UNCHANGED <<view, hist>>

-----------------------------------------------------------------------------
(* Answers.                                                                *)

\* The answer opens the dialog of its endpoint, whatever is open by then.
LoadEndpointDataSources(r) ==
    /\ r.kind = "list"
    /\ net' = Done(r)
    /\ \/ /\ r.stage = "ok"
          /\ view' = [Shows(view, r.owner, r.rows) EXCEPT !.known[r.owner] = r.rows]
          /\ hist' = [hist EXCEPT !.shown = r.n]
       \/ /\ r.stage = "failed"
          /\ UNCHANGED <<view, hist>>

\* A change that succeeded fetches the rows of the endpoint it was made under.
\* A saved form is emptied, and hidden if it still is what was sent: if an
\* edit has been started since a creation, its form is emptied and stays.
Changed(r) ==
    /\ r.kind \in Changes
    /\ \/ /\ r.stage = "ok"
          /\ net' = Turn(r, LoadOf(r.owner))
          /\ hist' = Fresh(hist)
          /\ view' = IF r.kind \notin Saves \/ r.mount # view.mount \/ ~Open THEN view
                     ELSE IF r.kind = "create"
                     THEN [view EXCEPT !.form = EmptyForm, !.creating = FALSE]
                     ELSE [view EXCEPT !.form = EmptyForm, !.editing = NoRow]
       \/ /\ r.stage = "failed"
          /\ net' = Done(r)
          /\ hist' = Fresh(hist)
          /\ UNCHANGED view

Receive(r) ==
    /\ r.stage \in {"ok", "failed"}
    /\ LoadEndpointDataSources(r) \/ Changed(r)
    /\ UNCHANGED server

Next == Administrator \/ \E r \in InFlight : Serve(r) \/ Receive(r) \/ Fails(r)

Spec == Init /\ [][Next]_vars

-----------------------------------------------------------------------------
(* Properties.                                                             *)

TypeOK ==
    /\ view.selected \in Owner \cup {Nobody}
    /\ view.rows \cup {view.editing} \subseteq [id : 0..Sources, text : Text \cup {Blank},
                                                body : Body \cup {NoLinks}, active : BOOLEAN]
    /\ view.creating => view.editing = NoRow

\* Once every answer is there, the dialog lists the sources of its endpoint as
\* stored, unless a fetch was overtaken by a later one or is missing.
DialogIsStored ==
    Quiet /\ UpToDate /\ Open => view.rows = Rows(view.selected)

\* A dialog is the one the administrator opened, and one that was closed stays
\* closed, if nothing was on its way for another when that was done.
DialogIsChosen == hist.calm => view.selected = hist.chosen

\* An edit or a switch sends a whole row. It changes nothing but what was typed or
\* switched, if the row was shown as stored and no other write of it was under
\* way; the row is there, as only such a write could delete it.
LeavesUntouched ==
    \A r \in In("found") :
       SaveSource(r) /\ r.fresh /\ r.id \notin hist.raced =>
           /\ r.id \in Live
           /\ \A f \in Fields \ r.touched : server'[r.id][f] = server[r.id][f]
=============================================================================
