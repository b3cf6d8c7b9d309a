------------------------------- MODULE RulesPage -------------------------------
(***************************************************************************)
(* The page of URL replace rules: RulesPage, which asks the server, and    *)
(* URLRulesTab, with the table and one form above it for new rules and for *)
(* edits. The form is not modal: the table's buttons work beside it.       *)
(* "text" is a rule's name and its two patterns, "owner" its endpoint or   *)
(* Everyone for a global rule, "active" its switch; "created" is whether   *)
(* the column of that name still has the time the rule was created.        *)
(***************************************************************************)
EXTENDS Requests, FiniteSets

CONSTANTS
    Rules,       \* the most rules there may be; ids are 1..Rules
    Owner,       \* endpoints
    Everyone,    \* the owner of a rule without an endpoint id
    Text,        \* what may be typed as name and patterns
    Blank        \* the empty text

vars == <<server, view, net, hist>>

Id == 1..Rules
Fields == {"text", "owner", "active"}
Changes == {"create", "update", "toggle", "delete"}

EmptyForm == [text |-> Blank, owner |-> Everyone, active |-> TRUE]
NoRow == [id |-> 0, text |-> Blank, owner |-> Everyone, active |-> TRUE, created |-> TRUE]
FormOf(row) == [text |-> row.text, owner |-> row.owner, active |-> row.active]

Live == {i \in Id : server[i].status = "live"}
Row(i) == [id |-> i, text |-> server[i].text, owner |-> server[i].owner,
           active |-> server[i].active, created |-> server[i].created]
Rows == {Row(i) : i \in Live}

\* "names": the endpoints have been loaded and may be selected. The history is
\* that of EndpointsPage; "raced": rules that had two writes under way at once.
Init ==
    /\ server = [i \in Id |-> [status |-> IF i < Rules THEN "live" ELSE "none",
                               text |-> CHOOSE t \in Text : TRUE,
                               owner |-> CHOOSE o \in Owner : TRUE, active |-> TRUE,
                               created |-> TRUE]]
    /\ view = [list |-> {}, names |-> FALSE, open |-> FALSE,
               editing |-> NoRow, form |-> EmptyForm]
    /\ hist = [loads |-> 1, shown |-> 0, fresh |-> FALSE, touched |-> {},
               raced |-> {}, commands |-> 0]
    /\ net = SetToBag({[kind |-> "list", stage |-> "sent", n |-> 1],
                       [kind |-> "names", stage |-> "sent"]})

-----------------------------------------------------------------------------
(* The administrator.                                                      *)

\* An edit that is under way stays one: the button only shows the form.
OpenForm ==
    /\ ~view.open
    /\ view' = [view EXCEPT !.open = TRUE]
    /\ UNCHANGED <<server, net, hist>>

Writes(i) == {r \in Unsaved : r.kind \in {"update", "delete"} /\ r.id = i}

HandleEdit(row) ==
    /\ view' = [view EXCEPT !.open = TRUE, !.editing = row, !.form = FormOf(row)]
    /\ hist' = [hist EXCEPT !.touched = {},
           !.fresh = row.id \in Live /\ row = Row(row.id) /\ Writes(row.id) = {}]
    /\ UNCHANGED <<server, net>>

\* Only endpoints that have been loaded can be selected.
Type(form) ==
    LET changed == {f \in Fields : form[f] # view.form[f]}
    IN  /\ view.open /\ (form.owner \in Owner => view.names \/ "owner" \notin changed)
        /\ Cardinality(changed) = 1 /\ changed \cap hist.touched = {}
        /\ view' = [view EXCEPT !.form = form]
        /\ hist' = [hist EXCEPT !.touched = @ \cup changed]
        /\ UNCHANGED <<server, net>>

Closed == [view EXCEPT !.open = FALSE, !.editing = NoRow, !.form = EmptyForm]

HandleCancelEdit ==
    /\ view.open
    /\ view' = Closed
    /\ hist' = [hist EXCEPT !.touched = {}, !.fresh = FALSE]
    /\ UNCHANGED <<server, net>>

\* The form is closed and emptied without waiting for the answer.
HandleSubmit ==
    LET row == view.editing
    IN  /\ view.open /\ view.form.text # Blank /\ Command
        /\ net' = Send(IF row = NoRow
                       THEN [kind |-> "create", stage |-> "sent", form |-> view.form]
                       ELSE [kind |-> "update", stage |-> "sent", id |-> row.id,
                             form |-> view.form, fresh |-> hist.fresh,
                             touched |-> hist.touched])
        /\ view' = Closed
        /\ hist' = [Counted(hist) EXCEPT !.touched = {}, !.fresh = FALSE,
               !.raced = IF row # NoRow /\ Writes(row.id) # {} THEN @ \cup {row.id} ELSE @]
        /\ UNCHANGED server

\* A PUT of the switch alone: the fields that are not sent are read as empty.
ToggleRuleStatus(row) ==
    /\ Command
    /\ net' = Send([kind |-> "toggle", stage |-> "sent", id |-> row.id,
                    form |-> [EmptyForm EXCEPT !.active = ~row.active]])
    /\ hist' = Counted(hist)
    /\ UNCHANGED <<server, view>>

HandleDelete(row) ==
    /\ Command
    /\ net' = Send([kind |-> "delete", stage |-> "sent", id |-> row.id])
    /\ hist' = [Counted(hist) EXCEPT
           !.raced = IF Writes(row.id) # {} THEN @ \cup {row.id} ELSE @]
    /\ UNCHANGED <<server, view>>

Administrator ==
    \/ OpenForm \/ HandleCancelEdit \/ HandleSubmit
    \/ \E form \in [text : Text, owner : Owner \cup {Everyone}, active : BOOLEAN] : Type(form)
    \/ \E row \in view.list : HandleEdit(row) \/ ToggleRuleStatus(row) \/ HandleDelete(row)

-----------------------------------------------------------------------------
(* The server.                                                             *)

ListURLReplaceRules(r) ==
    /\ r.kind = "list"
    /\ net' = Turn(r, [kind |-> "list", stage |-> "ok", n |-> r.n, rows |-> Rows])
    /\ UNCHANGED server

ListNames(r) ==
    /\ r.kind = "names"
    /\ net' = Succeeded(r)
    /\ UNCHANGED server

\* gorm writes the default of a switch that is off, which is on.
CreateURLReplaceRule(r) ==
    /\ r.kind = "create"
    /\ \E i \in Id :
          /\ server[i].status = "none"
          /\ server' = [server EXCEPT ![i] = [status |-> "live", text |-> r.form.text,
                                              owner |-> r.form.owner, active |-> TRUE,
                                              created |-> TRUE]]
    /\ net' = Succeeded(r)

\* An update looks for the row; name and patterns are required, of the switch too.
FindURLReplaceRule(r) ==
    /\ r.kind \in {"update", "toggle"}
    /\ net' = IF r.form.text # Blank /\ r.id \in Live THEN Found(r) ELSE Failed(r)
    /\ UNCHANGED server

\* All columns are saved, created_at as zero; a row that was deleted since is
\* inserted again, with the default of the switch.
UpdateURLReplaceRule(r) ==
    /\ server' = [server EXCEPT ![r.id] =
           [status |-> "live", text |-> r.form.text, owner |-> r.form.owner,
            active |-> r.form.active \/ r.id \notin Live, created |-> FALSE]]
    /\ net' = Succeeded(r)

DeleteURLReplaceRule(r) ==
    /\ r.kind = "delete"
    /\ IF r.id \in Live
       THEN /\ server' = [server EXCEPT ![r.id].status = "deleted"]
            /\ net' = Succeeded(r)
       ELSE /\ net' = Failed(r)
            /\ UNCHANGED server

Serve(r) ==
    /\ \/ /\ r.stage = "sent"
          /\ \/ ListURLReplaceRules(r) \/ ListNames(r) \/ CreateURLReplaceRule(r)
             \/ FindURLReplaceRule(r) \/ DeleteURLReplaceRule(r)
       \/ r.stage = "found" /\ UpdateURLReplaceRule(r)
    /\ UNCHANGED <<view, hist>>

-----------------------------------------------------------------------------
(* Answers.                                                                *)

LoadURLRules(r) ==
    /\ r.kind = "list"
    /\ net' = Done(r)
    /\ \/ /\ r.stage = "ok"
          /\ view' = [view EXCEPT !.list = r.rows]
          /\ hist' = [hist EXCEPT !.shown = r.n]
       \/ /\ r.stage = "failed"
          /\ UNCHANGED <<view, hist>>

LoadEndpoints(r) ==
    /\ r.kind = "names"
    /\ net' = Done(r)
    /\ view' = [view EXCEPT !.names = @ \/ r.stage = "ok"]
    /\ UNCHANGED hist

\* Create, update and delete: fetch the rules again, or tell of the failure.
Changed(r) ==
    /\ r.kind \in Changes
    /\ \/ /\ r.stage = "ok"
          /\ net' = Turn(r, Load(hist))
          /\ hist' = Fresh(hist)
       \/ /\ r.stage = "failed"
          /\ net' = Done(r)
          /\ hist' = Fresh(hist)
    /\ UNCHANGED view

Receive(r) ==
    /\ r.stage \in {"ok", "failed"}
    /\ LoadURLRules(r) \/ LoadEndpoints(r) \/ Changed(r)
    /\ UNCHANGED server

Next == Administrator \/ \E r \in InFlight : Serve(r) \/ Receive(r) \/ Fails(r)

Spec == Init /\ [][Next]_vars

-----------------------------------------------------------------------------
(* Properties.                                                             *)

TypeOK ==
    /\ view.list \cup {view.editing} \subseteq [id : 0..Rules, text : Text \cup {Blank},
                                                owner : Owner \cup {Everyone},
                                                active : BOOLEAN, created : BOOLEAN]
    /\ view.editing # NoRow => view.open

\* As on the page of endpoints: what is shown in the end is what is stored.
TableIsStored == Quiet /\ UpToDate => view.list = Rows

\* An update saves every column, and loses the time of creation. Of the fields of
\* the form it changes none but those that were typed, if the rule was shown as
\* stored and no other write of it was under way; the row is there, as only such
\* a write could delete it.
LeavesUntouched ==
    \A r \in In("found") :
       UpdateURLReplaceRule(r) /\ r.fresh /\ r.id \notin hist.raced =>
           /\ r.id \in Live
           /\ \A f \in Fields \ r.touched : server'[r.id][f] = server[r.id][f]

\* The button of a row, labelled with what it is to do, is not refused.
SwitchWorks ==
    [][\A r \in In("sent") :
          r.kind = "toggle" /\ r.id \in Live /\ Serve(r) => net' # Failed(r)]_vars
=============================================================================
