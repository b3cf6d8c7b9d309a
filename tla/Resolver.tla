------------------------------- MODULE Resolver -------------------------------
(***************************************************************************)
(* GetRandomURL: from a public path to a URL.  A request finds the         *)
(* endpoint of a path, draws one of its active data sources and one entry  *)
(* of the source's list, follows the entry to another endpoint if it is a  *)
(* link, and on the way back applies the replace rules of every endpoint   *)
(* it came through.  Each look into the tables is a query of its own, with *)
(* the admin's calls in between.                                           *)
(*                                                                         *)
(* Requests do not see each other, so there is one.  The two variants of   *)
(* the code, with and without a live source, differ in a comment only.     *)
(***************************************************************************)
EXTENDS Endpoints, Sequences

CONSTANT MaxDepth    \* bound on the endpoints a request comes through

ASSUME MaxDepthAssumption == MaxDepth \in Nat \ {0}

VARIABLE req         \* the request

vars == <<tables, req>>

\* path: the frames of the recursion, outermost first; source: where the URL
\* was found; applied: the rules applied to it, frame by frame from the
\* innermost. quiet is history: no table has changed since the request began.
Asking(u) ==
    [pc |-> "find", asked |-> u, url |-> u, path |-> <<>>,
     target |-> CHOOSE e \in Endpoint : TRUE,
     source |-> CHOOSE s \in Source : TRUE, applied |-> <<>>, quiet |-> TRUE]
NoRequest == [Asking(CHOOSE u \in Url : TRUE) EXCEPT !.pc = "idle"]

Init == TablesInit /\ req = NoRequest

-----------------------------------------------------------------------------
\* GetEndpointByURL.
Serving(u) == {e \in Endpoint : InUse(endpoints[e]) /\ endpoints[e].url = u}

SourcesOf(e) == {s \in Source : InUse(sources[s]) /\ sources[s].owner = e}
RulesOf(e) == {r \in Rule : InUse(rules[r]) /\ rules[r].owner = e}

Ask(u) ==
    /\ req.pc = "idle"
    /\ req' = Asking(u)
    /\ UNCHANGED tables

Find ==
    /\ req.pc = "find"
    /\ \E e \in Serving(req.url) :
           /\ Len(req.path) < MaxDepth
           /\ req' = [req EXCEPT !.pc = "pick",
                          !.path = Append(@, [ep |-> e, url |-> req.url])]
    /\ UNCHANGED tables

\* One of the active sources loaded with the endpoint, as a copy.
Pick ==
    LET e == req.path[Len(req.path)].ep
    IN  /\ req.pc = "pick"
        /\ \E s \in SourcesOf(e) : req' = [req EXCEPT !.pc = "fetch", !.source = s]
        /\ UNCHANGED tables

\* FetchURLs, and one entry of the list.
Fetch ==
    /\ req.pc = "fetch"
    /\ \E c \in sources[req.source].held :
           req' = IF c = Plain THEN [req EXCEPT !.pc = "apply"]
                              ELSE [req EXCEPT !.pc = "target", !.target = c]
    /\ UNCHANGED tables

\* GetEndpoint of the linked id, whose path is then asked for like any other.
FollowLink ==
    /\ req.pc = "target" /\ Live(endpoints[req.target])
    /\ req' = [req EXCEPT !.pc = "find", !.url = endpoints[req.target].url]
    /\ UNCHANGED tables

\* No endpoint, no active source, no list, an empty list, a deleted target.
Fail ==
    /\ \/ req.pc = "find" /\ Serving(req.url) = {}
       \/ req.pc = "find" /\ Len(req.path) = MaxDepth    \* the bound of the model
       \/ req.pc = "pick" /\ SourcesOf(req.path[Len(req.path)].ep) = {}
       \/ req.pc = "fetch"
       \/ req.pc = "target" /\ ~Live(endpoints[req.target])
    /\ req' = [req EXCEPT !.pc = "failed"]
    /\ UNCHANGED tables

\* Mutant: the frame's rules are those of the endpoint first asked for.
MutApplyOuter ==
    LET n == Len(req.path) - Len(req.applied)
    IN  /\ req.pc = "apply"
        /\ req' = [req EXCEPT
               !.applied = Append(@, UNION {RulesOf(e) : e \in Serving(req.asked)}),
               !.pc = IF n = 1 THEN "done" ELSE "apply"]
        /\ UNCHANGED tables

\* applyURLReplaceRules, which looks the endpoint up by its path again and
\* changes nothing if it is not there.
Apply ==
    LET n == Len(req.path) - Len(req.applied)
        found == Serving(req.path[n].url)
    IN  /\ req.pc = "apply"
        /\ req' = [req EXCEPT !.applied = Append(@, UNION {RulesOf(e) : e \in found}),
                              !.pc = IF n = 1 THEN "done" ELSE "apply"]
        /\ UNCHANGED tables

Answered ==
    /\ req.pc \in {"done", "failed"}
    /\ req' = NoRequest
    /\ UNCHANGED tables

AdminWrites ==
    /\ AdminStep
    /\ req' = [req EXCEPT !.quiet = (req.pc = "idle")]

Next ==
    \/ \E u \in Url : Ask(u)
    \/ Find \/ Pick \/ Fetch \/ FollowLink \/ Fail \/ Apply \/ Answered
    \/ AdminWrites

Spec == Init /\ [][Next]_vars

-----------------------------------------------------------------------------
(***************************************************************************)
(* The reference: the answers that the tables allow an endpoint, found     *)
(* from the URLs outwards and with links followed by id, not by path.      *)
(***************************************************************************)
LinksOf(e) ==
    {t \in Endpoint : /\ InUse(endpoints[t])
                      /\ \E s \in SourcesOf(e) : t \in sources[s].held}

Extend(answers, e) ==
    {[a EXCEPT !.applied = Append(@, RulesOf(e))] : a \in answers}

AnswersWithin[n \in 0..MaxDepth] ==
    [e \in Endpoint |->
        IF n = 0 THEN {}
        ELSE {[source |-> s, applied |-> <<RulesOf(e)>>] :
                  s \in {t \in SourcesOf(e) : Plain \in sources[t].held}}
             \cup UNION {Extend(AnswersWithin[n - 1][t], e) : t \in LinksOf(e)}]

\* Links lead in a circle in a set of endpoints that each link into it.
Acyclic ==
    \A C \in (SUBSET Endpoint) \ {{}} : \E e \in C : LinksOf(e) \cap C = {}

-----------------------------------------------------------------------------
(* Properties.                                                             *)

\* An answer that no admin call has interrupted is one the tables allow: a URL
\* of an active source at the end of a chain of links between active endpoints,
\* with the rules of each endpoint of the chain applied, innermost first. It
\* rests on paths being unique, since the code finds link targets by path.
QuietAnswersAreRight ==
    req.pc = "done" /\ req.quiet =>
        \E e \in Serving(req.asked) :
            [source |-> req.source, applied |-> req.applied]
                \in AnswersWithin[MaxDepth][e]

\* Recursion without a bound is safe as long as links do not lead in a circle:
\* an uninterrupted request then comes through each endpoint once at most.
QuietRequestsComeThroughOnce ==
    req.quiet /\ Acyclic =>
        \A i, j \in DOMAIN req.path : req.path[i].ep = req.path[j].ep => i = j

-----------------------------------------------------------------------------
(* A claim that the code does not keep.                                    *)

\* A rule without an endpoint is a global rule and applies to all endpoints.
GlobalRulesApply ==
    req.pc = "done" /\ req.quiet =>
        RulesOf(Everyone) \subseteq UNION {req.applied[i] : i \in DOMAIN req.applied}
=============================================================================
