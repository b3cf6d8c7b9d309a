------------------------------- MODULE StatsPage -------------------------------
(***************************************************************************)
(* The page of domain statistics: DomainStatsTab with its tabs, the        *)
(* rankings and their switches, the panel of blocked domains, the dialog   *)
(* with the paths of a domain, and the chart of days, over the blocklist   *)
(* of the server (DomainBlocklist). A call that blocks a domain runs in a  *)
(* slot there, from its request to its answer.                             *)
(*                                                                         *)
(* The rankings are asked for once and then patched; the panel and the     *)
(* chart are mounted with their tab. Of a ranking only the marks of the    *)
(* blocked domains are kept, of paths and days the question they answer.   *)
(***************************************************************************)
EXTENDS Requests, DomainBlocklist

CONSTANTS
    Rankings,    \* the four rankings, which one request asks for in turn
    Ranges,      \* ranges of the dialog
    Days         \* lengths of the chart

vars == <<rows, blockedHosts, call, server, view, net, hist>>

Unknown == {"not loaded"}
NoQuestion == <<>>
Blocks == {"toggle", "add", "remove"}
Tabs == {"overview", "ranking", "blocked"}
Lists == {"list", "added"}      \* the panel's rows, "added" at the end of an add

Ask(kind, v) == [kind |-> kind, stage |-> "sent", question |-> v.asked[kind], n |-> v.n[kind]]
AskRankings == [kind |-> "rank", stage |-> "sent", marks |-> <<>>, mount |-> 0]
DefaultDays == <<CHOOSE d \in Days : TRUE>>

(***************************************************************************)
(* View. "tab" is "none" while the first rankings have failed. "marks" are *)
(* the blocked domains of each ranking, "blocked" the rows of the panel,   *)
(* whose mounts "mount" numbers. "asked" is the question that the dialog   *)
(* or the chart is about, "got" the one that was answered last, none after *)
(* a failure; each question cancels the one before it, "n" is the last.    *)
(*                                                                         *)
(* History. "loads" and "shown" are those of the panel. "synced": when the *)
(* rankings were asked for the memory was the table, and nothing but       *)
(* switches has changed them since, one at a time, and none has failed.    *)
(***************************************************************************)
Init ==
    /\ BlocklistInit
    /\ server = 0
    /\ view = [tab |-> "overview", loading |-> TRUE, marks |-> [k \in Rankings |-> Unknown],
               blocked |-> Unknown, mount |-> 0, submitting |-> FALSE,
               asked |-> [paths |-> NoQuestion, trend |-> DefaultDays],
               got |-> [paths |-> NoQuestion, trend |-> NoQuestion],
               n |-> [paths |-> 0, trend |-> 1], range |-> CHOOSE k \in Ranges : TRUE]
    /\ hist = [loads |-> 0, shown |-> 0, synced |-> TRUE, commands |-> 0]
    /\ net = SetToBag({AskRankings, Ask("trend", view)})

Loaded == \A k \in Rankings : view.marks[k] # Unknown
Asks(v, kind, question) == [v EXCEPT !.asked[kind] = question, !.n[kind] = @ + 1]
ChartMounted(v) == [Asks(v, "trend", DefaultDays) EXCEPT !.tab = "overview",
                                                        !.got.trend = NoQuestion]
\* What is left of a tab: the chart's effect is cancelled, the panel forgotten.
Left(v, tab) ==
    [v EXCEPT !.tab = tab, !.blocked = Unknown, !.submitting = FALSE,
              !.asked.trend = NoQuestion,
              !.n.trend = IF v.tab = "overview" THEN @ + 1 ELSE @,
              !.mount = IF v.tab = "blocked" THEN @ + 1 ELSE @]
LoadBlocked(kind) ==
    [kind |-> kind, stage |-> "sent", n |-> hist.loads + 1, mount |-> view.mount]

-----------------------------------------------------------------------------
(* The administrator.                                                      *)

\* The button is off while the rankings load. After a first load that failed it
\* is all there is, and the tabs come back with it.
LoadRankings ==
    /\ ~view.loading /\ Command
    /\ hist' = [Counted(hist) EXCEPT !.synced = ~Awaited(Blocks) /\ rows = blockedHosts]
    /\ IF view.tab # "none"
       THEN /\ view' = [view EXCEPT !.loading = TRUE]
            /\ net' = Send(AskRankings)
       ELSE /\ view' = [ChartMounted(view) EXCEPT !.loading = TRUE]
            /\ net' = BagAdd(Send(AskRankings), Ask("trend", view'))

\* A tab mounts what it shows: the panel and the chart start anew.
SelectTab(tab) ==
    /\ view.tab \notin {tab, "none"} /\ Command
    /\ \/ /\ tab = "overview"
          /\ view' = ChartMounted(Left(view, tab))
          /\ net' = Send(Ask("trend", view'))
          /\ hist' = Counted(hist)
       \/ /\ tab = "ranking"
          /\ view' = Left(view, tab)
          /\ hist' = Counted(hist)
          /\ UNCHANGED net
       \/ /\ tab = "blocked"
          /\ view' = Left(view, tab)
          /\ net' = Send([LoadBlocked("list") EXCEPT !.mount = view'.mount])
          /\ hist' = Counted(Fresh(hist))

Block(kind, d, blocked) ==
    /\ Command
    /\ net' = Send([kind |-> kind, stage |-> "sent", domain |-> d, blocked |-> blocked,
                    mount |-> view.mount])
    /\ hist' = [Counted(hist) EXCEPT
           !.synced = @ /\ kind = "toggle" /\ ~Awaited(Blocks \cup {"rank"})]

\* The switch of a row, which is greyed out for a placeholder.
ToggleBlock(k, d) ==
    /\ view.tab = "ranking" /\ Loaded /\ d \notin Placeholder
    /\ Block("toggle", d, d \notin view.marks[k])
    /\ UNCHANGED view

\* Any domain can be typed here, a placeholder too.
Add(d) ==
    /\ view.tab = "blocked" /\ ~view.submitting
    /\ Block("add", d, TRUE)
    /\ view' = [view EXCEPT !.submitting = TRUE]

Remove(d) ==
    /\ view.tab = "blocked" /\ d \in view.blocked
    /\ Block("remove", d, FALSE)
    /\ UNCHANGED view

\* The dialog asks with the range it had, and again if it is to be another.
PickDomain(d, range) ==
    /\ view.tab = "ranking" /\ Loaded /\ d \notin Placeholder /\ Command
    /\ LET first == Asks(view, "paths", <<d, view.range>>)
           last == [Asks(first, "paths", <<d, range>>) EXCEPT !.range = range]
       IN  \/ /\ range = view.range
              /\ view' = first
              /\ net' = Send(Ask("paths", first))
           \/ /\ range # view.range
              /\ view' = last
              /\ net' = BagAdd(Send(Ask("paths", first)), Ask("paths", last))
    /\ hist' = Counted(hist)

DrillOpen == view.asked.paths # NoQuestion

SelectRange(range) ==
    /\ DrillOpen /\ range # view.range /\ Command
    /\ view' = [Asks(view, "paths", <<view.asked.paths[1], range>>) EXCEPT !.range = range]
    /\ net' = Send(Ask("paths", view'))
    /\ hist' = Counted(hist)

CloseDrilldown ==
    /\ DrillOpen
    /\ view' = Asks(view, "paths", NoQuestion)
    /\ UNCHANGED <<net, hist>>

SelectDays(d) ==
    /\ view.tab = "overview" /\ view.asked.trend # <<d>> /\ Command
    /\ view' = Asks(view, "trend", <<d>>)
    /\ net' = Send(Ask("trend", view'))
    /\ hist' = Counted(hist)

\* The dialog is modal.
Administrator ==
    /\ \/ CloseDrilldown \/ \E range \in Ranges : SelectRange(range)
       \/ /\ ~DrillOpen
          /\ \/ LoadRankings
             \/ \E tab \in Tabs : SelectTab(tab)
             \/ \E days \in Days : SelectDays(days)
             \/ \E d \in Domain :
                   \/ Add(d) \/ Remove(d)
                   \/ \E k \in Rankings : ToggleBlock(k, d)
                   \/ \E range \in Ranges : PickDomain(d, range)
    /\ UNCHANGED <<rows, blockedHosts, call, server>>

Refused(r) == [kind |-> r.kind, stage |-> "failed", mount |-> r.mount]

-----------------------------------------------------------------------------
(* The server.                                                             *)

\* The rankings are read one after the other, and so are their marks.
GetDomainStats(r) ==
    /\ r.kind = "rank" /\ r.stage = "sent"
    /\ LET next == CHOOSE k \in Rankings \ DOMAIN r.marks : TRUE
           marks == [k \in DOMAIN r.marks \cup {next} |->
                        IF k = next THEN {d \in Domain : IsBlocked(d)} ELSE r.marks[k]]
           stage == IF DOMAIN marks = Rankings THEN "ok" ELSE "sent"
       IN  net' = Turn(r, [kind |-> "rank", stage |-> stage, marks |-> marks, mount |-> 0])
    /\ UNCHANGED <<rows, blockedHosts, call, server, view, hist>>

ListBlockedDomains(r) ==
    /\ r.kind \in Lists /\ r.stage = "sent"
    /\ net' = Turn(r, [kind |-> r.kind, stage |-> "ok", n |-> r.n, mount |-> r.mount,
                       rows |-> rows])
    /\ UNCHANGED <<rows, blockedHosts, call, server, view, hist>>

UpdateDomainBlockStatus(r) ==
    /\ r.kind \in Blocks /\ r.stage = "sent"
    /\ \/ \E a \in Admin :
             /\ SetBlocked(a, r.domain, r.blocked)
             /\ net' = Turn(r, [kind |-> r.kind, stage |-> "called", domain |-> r.domain,
                               blocked |-> r.blocked, mount |-> r.mount, slot |-> a])
       \/ /\ r.domain \in Placeholder
          /\ net' = Turn(r, Refused(r))
          /\ UNCHANGED <<rows, blockedHosts, call>>
    /\ UNCHANGED <<server, view, hist>>

Calls == {r \in InFlight : r.stage = "called"}

Calling ==
    /\ \E a \in Admin : (WriteRow(a) \/ ReadRows(a)) /\ UNCHANGED net
    /\ UNCHANGED <<server, view, hist>>

Called(r) ==
    /\ r \in Calls
    /\ \/ Install(r.slot) /\ net' = Succeeded(r)
       \/ CallFails(r.slot) /\ net' = Turn(r, Refused(r))
    /\ UNCHANGED <<server, view, hist>>

\* The calls end with the process, and with them their requests, of which each
\* has a slot of its own.
ServerRestarts ==
    /\ Restart
    /\ net' = [q \in (InFlight \ Calls) \cup {Refused(r) : r \in Calls} |->
                  Cardinality({r \in Calls : Refused(r) = q})
                      + IF q \in InFlight THEN net[q] ELSE 0]
    /\ hist' = [Counted(hist) EXCEPT !.synced = FALSE]
    /\ hist.commands < MaxCommands
    /\ UNCHANGED <<server, view>>

-----------------------------------------------------------------------------
(* Answers.                                                                *)

\* Mutant: an effect that was cancelled keeps what it gets.
MutAnswered(r) ==
    /\ r.kind \in {"paths", "trend"}
    /\ net' = Done(r)
    /\ \E answer \in {r.question, NoQuestion} : view' = [view EXCEPT !.got[r.kind] = answer]
    /\ UNCHANGED hist

\* Paths and days, found or not. An effect that was cancelled drops them.
Answered(r) ==
    /\ r.kind \in {"paths", "trend"}
    /\ net' = Done(r)
    /\ \/ /\ r.n = view.n[r.kind]
          /\ \E answer \in {r.question, NoQuestion} :
                view' = [view EXCEPT !.got[r.kind] = answer]
       \/ r.n # view.n[r.kind] /\ UNCHANGED view
    /\ UNCHANGED hist

Ranked(r) ==
    /\ r.kind = "rank"
    /\ net' = Done(r)
    /\ \/ /\ r.stage = "ok"
          /\ view' = [view EXCEPT !.loading = FALSE, !.marks = r.marks]
          /\ UNCHANGED hist
       \/ /\ r.stage = "failed"
          /\ view' = [IF Loaded THEN view ELSE Left(view, "none") EXCEPT !.loading = FALSE]
          /\ hist' = [hist EXCEPT !.synced = FALSE]

Here(r) == view.tab = "blocked" /\ r.mount = view.mount

\* A panel that is gone shows nothing.
ListedBlocked(r) ==
    /\ r.kind \in Lists
    /\ net' = Done(r)
    /\ view' = IF ~Here(r) THEN view
               ELSE [view EXCEPT !.submitting = @ /\ r.kind # "added",
                                 !.blocked = IF r.stage = "ok" THEN r.rows ELSE @]
    /\ hist' = IF Here(r) /\ r.stage = "ok" THEN [hist EXCEPT !.shown = r.n] ELSE hist

\* A switch is patched into the rankings, and a panel that has been mounted
\* since lists its rows again.
Switched(r) ==
    /\ r.kind = "toggle"
    /\ \/ /\ r.stage = "ok"
          /\ view' = [view EXCEPT !.marks = [k \in Rankings |->
                 IF r.blocked THEN @[k] \cup {r.domain} ELSE @[k] \ {r.domain}]]
          /\ IF view.tab = "blocked"
             THEN net' = Turn(r, LoadBlocked("list")) /\ hist' = Fresh(hist)
             ELSE net' = Done(r) /\ UNCHANGED hist
       \/ /\ r.stage = "failed"
          /\ net' = Done(r)
          /\ hist' = [Fresh(hist) EXCEPT !.synced = FALSE]
          /\ UNCHANGED view

\* The panel lists its rows again after a change of its own, and leaves the
\* rankings as they are. A panel mounted meanwhile hears of neither.
PanelChanged(r) ==
    /\ r.kind \in {"add", "remove"}
    /\ hist' = Fresh(hist)
    /\ \/ /\ r.stage = "ok" /\ Here(r)
          /\ net' = Turn(r, LoadBlocked(IF r.kind = "add" THEN "added" ELSE "list"))
          /\ UNCHANGED view
       \/ /\ r.stage = "failed" \/ ~Here(r)
          /\ net' = Done(r)
          /\ view' = [view EXCEPT !.submitting = @ /\ ~(Here(r) /\ r.kind = "add")]

Receive(r) ==
    /\ \/ r.stage = "sent" /\ Answered(r)
       \/ r.stage \in {"ok", "failed"} /\ (Ranked(r) \/ ListedBlocked(r) \/ Switched(r) \/ PanelChanged(r))
    /\ UNCHANGED <<rows, blockedHosts, call, server>>

RequestFails(r) ==
    /\ r.stage \in {"sent", "ok"} /\ r.kind \notin {"paths", "trend"}
    /\ net' = Turn(r, Refused(r))
    /\ UNCHANGED <<rows, blockedHosts, call, server, view, hist>>

Next ==
    \/ Administrator \/ Calling \/ ServerRestarts
    \/ \E r \in InFlight :
          \/ GetDomainStats(r) \/ ListBlockedDomains(r) \/ UpdateDomainBlockStatus(r)
          \/ Called(r) \/ Receive(r) \/ RequestFails(r)

Spec == Init /\ [][Next]_vars

-----------------------------------------------------------------------------
(* Properties.                                                             *)

TypeOK ==
    /\ view.tab \in Tabs \cup {"none"}
    /\ \A k \in Rankings : view.marks[k] = Unknown \/ view.marks[k] \subseteq Domain
    /\ view.submitting => view.tab = "blocked"
    /\ DrillOpen => view.tab = "ranking"

\* Once every answer is there, the panel lists the rows of the table, unless a
\* list was overtaken or is missing; and the rankings mark the domains that the
\* server refuses, if switches alone have changed them and a call that failed
\* halfway has not left the table and the memory apart: the next switch would
\* then bring the memory more than the page has patched in.
PanelIsStored ==
    /\ Quiet /\ UpToDate /\ view.tab = "blocked" => view.blocked = rows
    /\ Quiet /\ hist.synced /\ Loaded => \A k \in Rankings : view.marks[k] = blockedHosts

\* The dialog and the chart show what was asked of them last, or an error, once
\* that request has ended, whichever answers come after it.
AnswersFit ==
    \A kind \in {"paths", "trend"} :
        view.asked[kind] # NoQuestion
        /\ (\A r \in InFlight : r.kind = kind => r.n # view.n[kind]) =>
            view.got[kind] \in {view.asked[kind], NoQuestion}
=============================================================================
