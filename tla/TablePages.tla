------------------------------ MODULE TablePages ------------------------------
(***************************************************************************)
(* The pages of the frontend that show tables of the server and have       *)
(* forms, switches or dialogs for their rows: endpoints, data sources,     *)
(* rules, and the rankings and blocked domains of the page of statistics.  *)
(* They share the variables of Requests with the other pages (AdminPages). *)
(***************************************************************************)
EXTENDS DomainBlocklist, Naturals

CONSTANTS
    Blank,              \* the empty text
    Text, OneText,      \* what may be typed; less of it where pages are large
    Name,               \* endpoints that a rule or a source may name
    Owner,              \* endpoints that have sources
    Body, NoLinks,      \* configurations of sources, and that of an empty form
    Nobody, Everyone,   \* no endpoint, and the owner of a rule for all of them
    Path,               \* paths that a domain has called
    Rankings, Ranges, Days,     \* what the page of statistics may be asked for
    MaxRecords,     \* the most endpoints or rules
    MaxSources,     \* the most data sources
    MaxInFlight,    \* bound on the requests in flight
    Commands        \* bound on the commands given to each page

ASSUME TextAssumption == Text # {} /\ OneText # {} /\ Name # {} /\ Owner # {} /\ Body # {}
ASSUME StatsAssumption == /\ Rankings # {} /\ Ranges # {} /\ Days # {}
                          /\ "not loaded" \notin Domain
ASSUME RecordsAssumption == MaxRecords \in Nat /\ MaxSources \in Nat
ASSUME CommandsAssumption ==
    Commands \in [{"endpoints", "sources", "form", "rules", "home", "stats", "session",
                   "public"} -> Nat]

VARIABLES server, view, net, hist

Endpoints == INSTANCE EndpointsPage
                 WITH Endpoints <- MaxRecords, MaxCommands <- Commands.endpoints
Sources == INSTANCE SourceDialog
               WITH Sources <- MaxSources, Text <- OneText, MaxCommands <- Commands.sources
Rules == INSTANCE RulesPage
             WITH Rules <- MaxRecords, Text <- OneText, Owner <- Name,
                  MaxCommands <- Commands.rules
Stats == INSTANCE StatsPage WITH MaxCommands <- Commands.stats
=============================================================================
