------------------------------- MODULE Endpoints -------------------------------
(***************************************************************************)
(* The tables an administrator edits -- endpoints, their data sources and  *)
(* their URL replace rules -- and the calls that edit them.  Every row is  *)
(* deleted softly: it stays, marked, with its id and its unique columns.   *)
(*                                                                         *)
(* A data source stands for the lists it may show: "held" collects the     *)
(* configurations it has had, because SourceCache promises its readers a   *)
(* list of one of them and no more (PublishedLists).  A configuration is   *)
(* Plain, for URLs, or the endpoint it links to.                           *)
(***************************************************************************)
EXTENDS Naturals, FiniteSets

CONSTANTS
    Endpoint,    \* ids of endpoints
    Url,         \* public paths
    Source,      \* ids of data sources
    Rule,        \* ids of replace rules
    Plain,       \* the configurations that list URLs
    Everyone,    \* the owner of a rule without an endpoint id
    MaxWrites    \* bound on the admin's calls

ASSUME PlainAssumption == Plain \notin Endpoint
ASSUME EveryoneAssumption == Everyone \notin Endpoint
ASSUME MaxWritesAssumption == MaxWrites \in Nat
ASSUME SomeAssumption == Endpoint # {} /\ Url # {} /\ Source # {}

VARIABLES
    endpoints,    \* api_endpoints
    sources,      \* data_sources
    rules,        \* url_replace_rules
    writes        \* calls that have changed a table

tables == <<endpoints, sources, rules, writes>>

Status == {"none", "live", "deleted"}
Config == Endpoint \cup {Plain}
Owner == Endpoint \cup {Everyone}

TablesInit ==
    /\ endpoints = [e \in Endpoint |->
           [status |-> "none", url |-> CHOOSE u \in Url : TRUE, active |-> FALSE]]
    /\ sources = [s \in Source |->
           [status |-> "none", owner |-> CHOOSE e \in Endpoint : TRUE,
            active |-> FALSE, held |-> {}]]
    /\ rules = [r \in Rule |->
           [status |-> "none", owner |-> Everyone, active |-> FALSE]]
    /\ writes = 0

Live(row) == row.status = "live"
InUse(row) == Live(row) /\ row.active

Writes == writes < MaxWrites /\ writes' = writes + 1

-----------------------------------------------------------------------------
(* Endpoints. The unique index does not leave deleted rows out.            *)

Taken(u, e) ==
    \E f \in Endpoint \ {e} : endpoints[f].status # "none" /\ endpoints[f].url = u

\* The insert takes is_active from the column's default.
CreateEndpoint(e, u) ==
    /\ endpoints[e].status = "none" /\ ~Taken(u, e)
    /\ endpoints' = [endpoints EXCEPT ![e] =
                         [status |-> "live", url |-> u, active |-> TRUE]]
    /\ Writes
    /\ UNCHANGED <<sources, rules>>

\* Mutant: an update goes through whoever has the path.
MutUpdateEndpointTakes(e, u, active) ==
    /\ Live(endpoints[e])
    /\ endpoints' = [endpoints EXCEPT ![e].url = u, ![e].active = active]
    /\ Writes
    /\ UNCHANGED <<sources, rules>>

UpdateEndpoint(e, u, active) ==
    /\ Live(endpoints[e]) /\ ~Taken(u, e)
    /\ endpoints' = [endpoints EXCEPT ![e].url = u, ![e].active = active]
    /\ Writes
    /\ UNCHANGED <<sources, rules>>

\* gorm deletes the associations a Delete selects only if the primary key of
\* its model is set. Here the model is empty and the id a condition, so that
\* the endpoint's data sources and rules stay as they are.
DeleteEndpoint(e) ==
    /\ Live(endpoints[e])
    /\ endpoints' = [endpoints EXCEPT ![e].status = "deleted"]
    /\ Writes
    /\ UNCHANGED <<sources, rules>>

(***************************************************************************)
(* Data sources and rules.  A save whose row has been deleted since the    *)
(* handler read it inserts the row again, and an insert takes is_active    *)
(* from the column's default (SourceCache has the two steps).              *)
(***************************************************************************)
Saved(row, active) ==
    [row EXCEPT !.status = "live", !.active = active \/ ~Live(row)]

\* POST /data-sources does not ask whether the endpoint exists, and the check
\* of POST /endpoints/{id}/data-sources is over before the insert.
CreateDataSource(s, e, c) ==
    /\ sources[s].status = "none"
    /\ sources' = [sources EXCEPT ![s] =
           [status |-> "live", owner |-> e, active |-> TRUE, held |-> {c}]]
    /\ Writes
    /\ UNCHANGED <<endpoints, rules>>

SaveDataSource(s, c, active) ==
    /\ sources[s].status # "none"
    /\ sources' = [sources EXCEPT ![s] =
           [Saved(@, active) EXCEPT !.held = sources[s].held \cup {c}]]
    /\ Writes
    /\ UNCHANGED <<endpoints, rules>>

DeleteDataSource(s) ==
    /\ Live(sources[s])
    /\ sources' = [sources EXCEPT ![s].status = "deleted"]
    /\ Writes
    /\ UNCHANGED <<endpoints, rules>>

CreateURLReplaceRule(r, o) ==
    /\ rules[r].status = "none"
    /\ rules' = [rules EXCEPT ![r] =
                     [status |-> "live", owner |-> o, active |-> TRUE]]
    /\ Writes
    /\ UNCHANGED <<endpoints, sources>>

SaveURLReplaceRule(r, o, active) ==
    /\ rules[r].status # "none"
    /\ rules' = [rules EXCEPT ![r] = [Saved(@, active) EXCEPT !.owner = o]]
    /\ Writes
    /\ UNCHANGED <<endpoints, sources>>

DeleteURLReplaceRule(r) ==
    /\ Live(rules[r])
    /\ rules' = [rules EXCEPT ![r].status = "deleted"]
    /\ Writes
    /\ UNCHANGED <<endpoints, sources>>

AdminStep ==
    \/ \E e \in Endpoint :
          \/ \E u \in Url : CreateEndpoint(e, u)
          \/ \E u \in Url, active \in BOOLEAN : UpdateEndpoint(e, u, active)
          \/ DeleteEndpoint(e)
    \/ \E s \in Source :
          \/ \E e \in Endpoint, c \in Config : CreateDataSource(s, e, c)
          \/ \E c \in Config, active \in BOOLEAN : SaveDataSource(s, c, active)
          \/ DeleteDataSource(s)
    \/ \E r \in Rule :
          \/ \E o \in Owner : CreateURLReplaceRule(r, o)
          \/ \E o \in Owner, active \in BOOLEAN : SaveURLReplaceRule(r, o, active)
          \/ DeleteURLReplaceRule(r)
=============================================================================
