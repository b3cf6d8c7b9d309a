------------------------------ MODULE HomeEditor ------------------------------
(***************************************************************************)
(* The text of the home page: HomePage and HomeConfigTab, in which the     *)
(* administrator edits it, and the configuration store of the server, a    *)
(* table with a cache before it (database.go), which the editor shares     *)
(* with the visitors of the public page.  A cached value is used until it  *)
(* is some minutes old, invalidated by a change, and is filled in again by *)
(* whoever asks next.                                                      *)
(***************************************************************************)
EXTENDS Requests, FiniteSets

CONSTANTS
    Text,       \* texts of the home page
    Blank,      \* the empty text, the editor's default
    Intro       \* the default of the public page

vars == <<server, view, net, hist>>

Missing == "no row"
NotCached == "not cached"
Nothing == "nothing"
Reads == {"load", "visit"}
DefaultOf(kind) == IF kind = "visit" THEN Intro ELSE Blank

(***************************************************************************)
(* Server. "row" is homepage_content, "cache" its entry in configCache.    *)
(* View. "config" is what the editor takes for stored, "content" what is   *)
(* in the text area.                                                       *)
(* History. "invalidations" counts those of the cache; "stale": the entry  *)
(* was filled in by a request that had read the table before the last one. *)
(* "typed": what was typed while nothing was on its way for the editor,    *)
(* and was neither reset nor typed over.                                   *)
(***************************************************************************)
Init ==
    /\ \E row \in {CHOOSE t \in Text : TRUE, Missing} :
          server = [row |-> row, cache |-> NotCached]
    /\ view = [config |-> Blank, content |-> Blank]
    /\ hist = [invalidations |-> 0, stale |-> FALSE, typed |-> Nothing, commands |-> 0]
    /\ net = SetToBag({[kind |-> "load", stage |-> "sent"]})

-----------------------------------------------------------------------------
(* GetConfig and SetConfig, step by step. The row is never deleted.        *)

Answer(r, value) == Turn(r, [kind |-> r.kind, stage |-> "ok", value |-> value])

GetCached(r) ==
    /\ r.kind \in Reads /\ r.stage = "sent" /\ server.cache # NotCached
    /\ net' = Answer(r, server.cache)
    /\ UNCHANGED <<server, hist>>

\* The table is read without a lock, some time before the cache is filled in.
\* A row that is missing is answered with the default of the one who asks.
ReadRow(r) ==
    /\ r.kind \in Reads /\ r.stage = "sent" /\ server.cache = NotCached
    /\ net' = Turn(r, [kind |-> r.kind, stage |-> "read", since |-> hist.invalidations,
                       value |-> IF server.row = Missing THEN DefaultOf(r.kind) ELSE server.row])
    /\ UNCHANGED <<server, hist>>

CacheConfig(r) ==
    /\ r.stage = "read"
    /\ server' = [server EXCEPT !.cache = r.value]
    /\ hist' = [hist EXCEPT !.stale = r.since # hist.invalidations]
    /\ net' = Answer(r, r.value)

\* A read that fails is answered with the default, as if it had not.
ReadFails(r) ==
    /\ r.kind \in Reads /\ r.stage = "sent" /\ server.cache = NotCached
    /\ net' = Answer(r, DefaultOf(r.kind))
    /\ UNCHANGED <<server, hist>>

FindRow(r) ==
    /\ r.kind = "save" /\ r.stage = "sent"
    /\ net' = Turn(r, [kind |-> "save", stage |-> "found", text |-> r.text,
                       new |-> server.row = Missing])
    /\ UNCHANGED <<server, hist>>

\* Mutant: a row that is created does not invalidate the default.
MutWriteRow(r) ==
    /\ r.stage = "found"
    /\ \/ /\ r.new => server.row = Missing
          /\ server' = [server EXCEPT !.row = r.text]
          /\ net' = Turn(r, [kind |-> "save", text |-> r.text,
                             stage |-> IF r.new THEN "ok" ELSE "written"])
       \/ net' = Failed(r) /\ UNCHANGED server
    /\ UNCHANGED hist

\* The key is unique: of two requests that have found no row, one fails. The
\* database may fail any of them.
WriteRow(r) ==
    /\ r.stage = "found"
    /\ \/ /\ r.new => server.row = Missing
          /\ server' = [server EXCEPT !.row = r.text]
          /\ net' = Turn(r, [kind |-> "save", stage |-> "written", text |-> r.text])
       \/ net' = Failed(r) /\ UNCHANGED server
    /\ UNCHANGED hist

InvalidateConfigCache(r) ==
    /\ r.stage = "written"
    /\ server' = [server EXCEPT !.cache = NotCached]
    /\ net' = Turn(r, [r EXCEPT !.stage = "ok"])
    /\ hist' = [hist EXCEPT !.invalidations = @ + 1, !.stale = FALSE]

Serve(r) ==
    /\ \/ GetCached(r) \/ ReadRow(r) \/ ReadFails(r) \/ CacheConfig(r)
       \/ FindRow(r) \/ WriteRow(r) \/ InvalidateConfigCache(r)
    /\ UNCHANGED view

\* The entry grows too old.
Expire ==
    /\ server.cache # NotCached
    /\ server' = [server EXCEPT !.cache = NotCached]
    /\ hist' = [hist EXCEPT !.stale = FALSE]
    /\ UNCHANGED <<view, net>>

-----------------------------------------------------------------------------
(* The administrator, and a visitor of the public page.                    *)

EditorWaits == Awaited({"load", "save"})

Type(text) ==
    /\ text # view.content
    /\ view' = [view EXCEPT !.content = text]
    /\ hist' = [hist EXCEPT !.typed = IF EditorWaits THEN Nothing ELSE text]
    /\ UNCHANGED <<server, net>>

HasChanges == view.content # view.config

HandleReset ==
    /\ HasChanges
    /\ view' = [view EXCEPT !.content = view.config]
    /\ hist' = [hist EXCEPT !.typed = Nothing]
    /\ UNCHANGED <<server, net>>

Asks(r) ==
    /\ Command
    /\ net' = Send(r)
    /\ hist' = Counted(hist)
    /\ UNCHANGED <<server, view>>

HandleSave == HasChanges /\ Asks([kind |-> "save", stage |-> "sent", text |-> view.content])
Visit == Asks([kind |-> "visit", stage |-> "sent"])

-----------------------------------------------------------------------------
(* Answers.                                                                *)

\* The effect copies a configuration that is another into the text area, over
\* whatever is being typed there.
SetHomeConfig(config) ==
    view' = IF config = view.config THEN view ELSE [config |-> config, content |-> config]

LoadHomeConfig(r) ==
    /\ r.kind = "load"
    /\ \/ r.stage = "ok" /\ SetHomeConfig(r.value)
       \/ r.stage = "failed" /\ UNCHANGED view
    /\ net' = Done(r)

\* Mutant: what was saved is loaded again.
MutUpdateHomeConfig(r) ==
    /\ r.kind = "save"
    /\ \/ r.stage = "ok" /\ net' = Turn(r, [kind |-> "load", stage |-> "sent"])
       \/ r.stage = "failed" /\ net' = Done(r)
    /\ UNCHANGED view

UpdateHomeConfig(r) ==
    /\ r.kind = "save"
    /\ \/ r.stage = "ok" /\ SetHomeConfig(r.text)
       \/ r.stage = "failed" /\ UNCHANGED view
    /\ net' = Done(r)

\* What a visitor sees is in PublicHome.
Visited(r) == r.kind = "visit" /\ net' = Done(r) /\ UNCHANGED view

Receive(r) ==
    /\ r.stage \in {"ok", "failed"}
    /\ LoadHomeConfig(r) \/ UpdateHomeConfig(r) \/ Visited(r)
    /\ UNCHANGED <<server, hist>>

Next ==
    \/ Expire \/ HandleReset \/ HandleSave \/ Visit
    \/ \E text \in Text \cup {Blank} : Type(text)
    \/ \E r \in InFlight : Serve(r) \/ Receive(r) \/ Fails(r)

Spec == Init /\ [][Next]_vars

-----------------------------------------------------------------------------
(* Properties.                                                             *)

TypeOK ==
    /\ server.row \in Text \cup {Blank, Missing}
    /\ server.cache \in Text \cup {Blank, Intro, NotCached}
    /\ {view.config, view.content} \subseteq Text \cup {Blank, Intro}

\* The cache has what the table has, or a default where that has nothing --
\* except between a change and its invalidation, and after a request that read
\* the table before an invalidation and filled the cache in after it.
CacheIsStored ==
    server.cache # NotCached /\ ~hist.stale /\ In("written") = {} =>
        IF server.row = Missing THEN server.cache \in {Blank, Intro}
        ELSE server.cache = server.row

\* What is typed while the editor waits for nothing stays in the text area, also
\* when it is saved, whatever the save and the cache come to.
TypedTextStays == hist.typed # Nothing => view.content = hist.typed
=============================================================================
