------------------------------ MODULE AdminPages ------------------------------
(***************************************************************************)
(* The web frontend: one page in a tab, with the requests it has sent.     *)
(* Leaving a page drops its state, and what its requests still do is seen  *)
(* by no other; so the pages are explored side by side, each from the time *)
(* it is mounted.  They share the variables: one for the server, one for   *)
(* the page, one for what is on its way between them, and one for history; *)
(* the page of statistics also has the blocklist of DomainBlocklist. The   *)
(* properties say of each page what was said beside its module.            *)
(***************************************************************************)
EXTENDS TablePages

CONSTANTS
    Key,            \* names of headers
    Trim,           \* what they, and texts, are without the blanks around them
    Intro,          \* the default text of the home page
    Tab,            \* tabs of the browser
    MaxRows,        \* bound on the rows of a list in the form of a data source
    MaxAttempts     \* bound on logins

ASSUME KeyAssumption == Key # {}
ASSUME AttemptsAssumption == MaxAttempts \in Nat
\* Nothing else is empty: neither what is typed into the form of a source, nor
\* what the public page shows when it has no text.
ASSUME BlankAssumption == Blank \notin OneText \cup Key \cup {"default", "starting", "text"}
ASSUME TrimAssumption ==
    /\ \A k \in Key \cup {Blank} : Trim[k] \in Key \cup {Blank} /\ Trim[Trim[k]] = Trim[k]
    /\ \A t \in OneText \cup {Blank} : Trim[t] \in OneText \cup {Blank} /\ Trim[Trim[t]] = Trim[t]
    /\ Trim[Blank] = Blank
    /\ (\E k \in Key : Trim[k] = k) /\ (\E t \in OneText : Trim[t] = t)

VARIABLE page

Form == INSTANCE ConfigForm
            WITH Text <- OneText, Target <- Name, MaxCommands <- Commands.form
Home == INSTANCE HomeEditor WITH MaxCommands <- Commands.home
Session == INSTANCE AdminSession WITH MaxCommands <- Commands.session
Public == INSTANCE PublicHome WITH MaxCommands <- Commands.public

vars == <<page, rows, blockedHosts, call, server, view, net, hist>>

Init ==
    \/ page = "endpoints" /\ Endpoints!Init /\ BlocklistInit
    \/ page = "sources" /\ Sources!Init /\ BlocklistInit
    \/ page = "form" /\ Form!Init /\ BlocklistInit
    \/ page = "rules" /\ Rules!Init /\ BlocklistInit
    \/ page = "home" /\ Home!Init /\ BlocklistInit
    \/ page = "stats" /\ Stats!Init
    \/ page = "session" /\ Session!Init /\ BlocklistInit
    \/ page = "public" /\ Public!Init /\ BlocklistInit

Next ==
    /\ \/ page = "endpoints" /\ Endpoints!Next /\ UNCHANGED blocklistVars
       \/ page = "sources" /\ Sources!Next /\ UNCHANGED blocklistVars
       \/ page = "form" /\ Form!Next /\ UNCHANGED blocklistVars
       \/ page = "rules" /\ Rules!Next /\ UNCHANGED blocklistVars
       \/ page = "home" /\ Home!Next /\ UNCHANGED blocklistVars
       \/ page = "stats" /\ Stats!Next
       \/ page = "session" /\ Session!Next /\ UNCHANGED blocklistVars
       \/ page = "public" /\ Public!Next /\ UNCHANGED blocklistVars
    /\ UNCHANGED page

Spec == Init /\ [][Next]_vars

-----------------------------------------------------------------------------
(* Properties.                                                             *)

TypeOK ==
    /\ BlocklistOK
    /\ page = "endpoints" => Endpoints!TypeOK
    /\ page = "sources" => Sources!TypeOK
    /\ page = "form" => Form!TypeOK
    /\ page = "rules" => Rules!TypeOK
    /\ page = "home" => Home!TypeOK
    /\ page = "stats" => Stats!TypeOK
    /\ page = "session" => Session!TypeOK
    /\ page = "public" => Public!TypeOK

\* Once every answer is there, the tables of endpoints, of sources, of rules and
\* of blocked domains are what the server stores, unless a list was overtaken by
\* a later one or an answer is missing.
TablesAreStored ==
    /\ page = "endpoints" => Endpoints!TableIsStored
    /\ page = "sources" => Sources!DialogIsStored
    /\ page = "rules" => Rules!TableIsStored
    /\ page = "stats" => Stats!PanelIsStored

\* The forms send whole rows. Of the fields of a form a change of a row that was
\* shown as stored, and has no other write at the time, leaves what was not typed
\* as it was, although the page has many rows and dialogs. (Rules also have a
\* column that no form has, the time of creation, and an update loses it.)
UntouchedFieldsStay ==
    [][/\ page = "endpoints" => Endpoints!LeavesUntouched
       /\ page = "sources" => Sources!LeavesUntouched
       /\ page = "rules" => Rules!LeavesUntouched]_vars

\* A drag that was answered has put the endpoints as they were dropped, although
\* their order is written row by row.
DropsStick == page = "endpoints" => Endpoints!DropsStick

\* The dialog of sources is the one that was opened, if nothing was on its way
\* for another; the paths and the days are those that were asked for last.
WindowsAreChosen ==
    /\ page = "sources" => Sources!DialogIsChosen
    /\ page = "stats" => Stats!AnswersFit

\* The form of a source shows what the text says that will be saved.
FormShowsText == page = "form" => Form!FormShowsText

\* A header that is complete stays while another is typed in or removed.
OtherHeadersStay == [][page = "form" => Form!LeavesOtherHeaders]_vars

\* The cached text of the home page is the stored one, except after a read that
\* was overtaken by a change.
CacheIsStored == page = "home" => Home!CacheIsStored

\* What is typed into the home page while nothing is awaited is not overwritten.
TypedTextStays == page = "home" => Home!TypedTextStays

\* The public page shows each section that it got, and marks that go away.
HomeIsComplete == page = "public" => Public!HomeIsComplete

\* A login is lost to nothing but a logout, another login, its own refusal, the
\* end of its cookies or a tab that found only one of them.
LoginIsKept == page = "session" => Session!LoginIsKept
=============================================================================
