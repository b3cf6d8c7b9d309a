----------------------------- MODULE ResolverProofs -----------------------------
(* Theorems about Resolver, for any endpoints, paths, data sources and rules,   *)
(* and requests through any number of links.                                    *)
EXTENDS Resolver, Induction

Frames == [ep : Endpoint, url : Url]
Rows == [status : Status, url : Url, active : BOOLEAN]
SourceRows ==
    [status : Status, owner : Endpoint, active : BOOLEAN, held : SUBSET Config]
Reqs ==
    [pc : {"idle", "find", "pick", "fetch", "target", "apply", "done", "failed"},
     asked : Url, url : Url, path : Seq(Frames), target : Endpoint,
     source : Source, applied : Seq(SUBSET Rule), quiet : BOOLEAN]

TablesTypes ==
    /\ endpoints \in [Endpoint -> Rows] /\ sources \in [Source -> SourceRows]

\* No two rows have the same path, deleted ones included.
UniquePaths ==
    \A e, f \in Endpoint :
        /\ endpoints[e].status # "none" /\ endpoints[f].status # "none"
        /\ endpoints[e].url = endpoints[f].url
        => e = f

ReqTypes ==
    /\ req \in Reqs
    /\ Len(req.path) <= MaxDepth
    /\ req.pc = "idle" => req.path = <<>>
    /\ req.pc \in {"pick", "fetch", "target", "apply"} => Len(req.path) > 0
    /\ req.pc \notin {"apply", "done", "failed"} => req.applied = <<>>
    /\ req.pc = "apply" => Len(req.applied) < Len(req.path)
    /\ req.pc = "done" => Len(req.applied) = Len(req.path) /\ Len(req.path) > 0

Types == TablesTypes /\ UniquePaths /\ ReqTypes

LEMMA AskingTypes ==
    /\ \A u \in Url : Asking(u) \in Reqs
    /\ NoRequest \in Reqs /\ NoRequest.pc = "idle" /\ NoRequest.quiet
    /\ NoRequest.path = <<>> /\ NoRequest.applied = <<>> /\ Len(NoRequest.path) = 0
  <1>1. <<>> \in Seq(Frames) /\ <<>> \in Seq(SUBSET Rule) /\ Len(<<>>) = 0
    OBVIOUS
  <1>2. ASSUME NEW u \in Url PROVE Asking(u) \in Reqs
    BY <1>1, SomeAssumption DEF Asking, Reqs
  <1>3. (CHOOSE u \in Url : TRUE) \in Url
    BY SomeAssumption
  <1>4. NoRequest = [Asking(CHOOSE u \in Url : TRUE) EXCEPT !.pc = "idle"]
    BY DEF NoRequest
  <1>5. \A u \in Url : Asking(u).path = <<>> /\ Asking(u).applied = <<>> /\ Asking(u).quiet
    BY DEF Asking
  <1> QED BY <1>1, <1>2, <1>3, <1>4, <1>5 DEF Reqs

LEMMA TypesInit == Init => Types
  <1> SUFFICES ASSUME Init PROVE Types
    OBVIOUS
  <1>1. TablesTypes /\ UniquePaths
    BY SomeAssumption DEF Init, TablesInit, TablesTypes, UniquePaths, Rows, SourceRows,
                          Status
  <1>2. ReqTypes
    BY AskingTypes, MaxDepthAssumption DEF Init, ReqTypes
  <1> QED BY <1>1, <1>2 DEF Types

LEMMA TablesNext == TablesTypes /\ UniquePaths /\ AdminStep => (TablesTypes /\ UniquePaths)'
  <1> SUFFICES ASSUME TablesTypes, UniquePaths, AdminStep
               PROVE  TablesTypes' /\ UniquePaths'
    OBVIOUS
  <1> USE DEF TablesTypes, UniquePaths
  <1>1. ASSUME NEW e \in Endpoint, NEW u \in Url, CreateEndpoint(e, u)
        PROVE  TablesTypes' /\ UniquePaths'
    <2>1. TablesTypes'
      BY <1>1 DEF CreateEndpoint, Rows, Status
    <2>2. UniquePaths'
      BY <1>1 DEF CreateEndpoint, Taken
    <2> QED BY <2>1, <2>2
  <1>2. ASSUME NEW e \in Endpoint, NEW u \in Url, NEW active \in BOOLEAN,
               UpdateEndpoint(e, u, active)
        PROVE  TablesTypes' /\ UniquePaths'
    <2>1. TablesTypes'
      <3>1. endpoints' = [endpoints EXCEPT ![e] = [@ EXCEPT !.url = u, !.active = active]]
        BY <1>2 DEF UpdateEndpoint
      <3>2. [endpoints[e] EXCEPT !.url = u, !.active = active] \in Rows
        BY DEF Rows
      <3> QED BY <1>2, <3>1, <3>2 DEF UpdateEndpoint
    <2>2. UniquePaths'
      BY <1>2 DEF UpdateEndpoint, Taken, Rows
    <2> QED BY <2>1, <2>2
  <1>3. ASSUME NEW e \in Endpoint, DeleteEndpoint(e)
        PROVE  TablesTypes' /\ UniquePaths'
    BY <1>3 DEF DeleteEndpoint, Rows, Status, Live
  <1>4. ASSUME NEW s \in Source, NEW e \in Endpoint, NEW c \in Config,
               CreateDataSource(s, e, c)
        PROVE  TablesTypes' /\ UniquePaths'
    BY <1>4 DEF CreateDataSource, SourceRows, Status
  <1>5. ASSUME NEW s \in Source, NEW c \in Config, NEW active \in BOOLEAN,
               SaveDataSource(s, c, active)
        PROVE  TablesTypes' /\ UniquePaths'
    <2> DEFINE row == [Saved(sources[s], active) EXCEPT !.held = sources[s].held \cup {c}]
    <2>1. row \in SourceRows
      BY DEF SourceRows, Saved, Live, Status
    <2>2. sources' = [sources EXCEPT ![s] = row] /\ UNCHANGED endpoints
      BY <1>5 DEF SaveDataSource
    <2> HIDE DEF row
    <2> QED BY <2>1, <2>2
  <1>6. ASSUME NEW s \in Source, DeleteDataSource(s)
        PROVE  TablesTypes' /\ UniquePaths'
    BY <1>6 DEF DeleteDataSource, SourceRows, Status
  <1>7. CASE UNCHANGED <<endpoints, sources>>
    BY <1>7
  <1> QED BY <1>1, <1>2, <1>3, <1>4, <1>5, <1>6, <1>7
          DEF AdminStep, CreateURLReplaceRule, SaveURLReplaceRule, DeleteURLReplaceRule

LEMMA TypesNext == Types /\ [Next]_vars => Types'
  <1> SUFFICES ASSUME Types, [Next]_vars PROVE Types'
    OBVIOUS
  <1> USE DEF Types
  <1>0. CASE UNCHANGED tables
    <2>1. TablesTypes' /\ UniquePaths'
      BY <1>0 DEF tables, TablesTypes, UniquePaths
    <2>2. ReqTypes'
      <3> USE DEF ReqTypes
      <3>0. CASE UNCHANGED req
        BY <3>0
      <3>1. ASSUME NEW u \in Url, Ask(u) PROVE ReqTypes'
        BY <3>1, AskingTypes, MaxDepthAssumption DEF Ask, Asking
      <3>2. CASE Find
        <4>1. PICK e \in Endpoint :
                  /\ Len(req.path) < MaxDepth /\ req.pc = "find"
                  /\ req' = [req EXCEPT !.pc = "pick",
                                 !.path = Append(@, [ep |-> e, url |-> req.url])]
          BY <3>2 DEF Find, Serving
        <4>2. /\ Append(req.path, [ep |-> e, url |-> req.url]) \in Seq(Frames)
              /\ Len(Append(req.path, [ep |-> e, url |-> req.url])) = Len(req.path) + 1
          BY DEF Frames, Reqs
        <4>3. Len(req.path) \in Nat /\ Len(req.path) + 1 <= MaxDepth /\ Len(req.path) + 1 > 0
          BY <4>1, MaxDepthAssumption DEF Reqs
        <4>4. /\ req' \in Reqs /\ req'.pc = "pick" /\ req'.applied = req.applied
              /\ Len(req'.path) = Len(req.path) + 1
          BY <4>1, <4>2 DEF Reqs
        <4> QED BY <4>1, <4>3, <4>4
      <3>3. CASE Pick
        BY <3>3 DEF Pick, SourcesOf, Reqs
      <3>4. CASE Fetch
        <4>1. PICK c \in sources[req.source].held :
                  req' = IF c = Plain THEN [req EXCEPT !.pc = "apply"]
                                      ELSE [req EXCEPT !.pc = "target", !.target = c]
          BY <3>4 DEF Fetch
        <4>2. c = Plain \/ c \in Endpoint
          BY DEF TablesTypes, SourceRows, Config, Reqs
        <4>3. CASE c = Plain
          BY <3>4, <4>1, <4>3 DEF Fetch, Reqs
        <4>4. CASE c # Plain
          BY <3>4, <4>1, <4>2, <4>4 DEF Fetch, Reqs
        <4> QED BY <4>3, <4>4
      <3>5. CASE FollowLink
        BY <3>5 DEF FollowLink, TablesTypes, Rows, Reqs
      <3>6. CASE Fail
        BY <3>6 DEF Fail, Reqs
      <3>7. CASE Apply
        <4> DEFINE n == Len(req.path) - Len(req.applied)
                   R == UNION {RulesOf(e) : e \in Serving(req.path[n].url)}
        <4>1. R \in SUBSET Rule
          BY DEF RulesOf
        <4>2. /\ req.pc = "apply"
              /\ req' = [req EXCEPT !.applied = Append(@, R),
                                    !.pc = IF n = 1 THEN "done" ELSE "apply"]
          BY <3>7 DEF Apply
        <4>3. /\ Append(req.applied, R) \in Seq(SUBSET Rule)
              /\ Len(Append(req.applied, R)) = Len(req.applied) + 1
          BY <4>1 DEF Reqs
        <4> HIDE DEF R
        <4>4. /\ req' \in Reqs /\ req'.pc = IF n = 1 THEN "done" ELSE "apply"
              /\ req'.path = req.path /\ Len(req'.applied) = Len(req.applied) + 1
          BY <4>2, <4>3 DEF Reqs
        <4>5. Len(req.path) \in Nat /\ Len(req.applied) \in Nat
              /\ Len(req.applied) < Len(req.path)
          BY <4>2 DEF Reqs
        <4> QED BY <4>4, <4>5
      <3>8. CASE Answered
        BY <3>8, AskingTypes, MaxDepthAssumption DEF Answered
      <3>9. CASE AdminWrites
        BY <3>9 DEF AdminWrites, Reqs
      <3> QED BY <3>0, <3>1, <3>2, <3>3, <3>4, <3>5, <3>6, <3>7, <3>8, <3>9 DEF Next, vars
    <2> QED BY <2>1, <2>2
  <1>1. CASE AdminWrites
    <2>1. TablesTypes' /\ UniquePaths'
      BY <1>1, TablesNext DEF AdminWrites
    <2>2. ReqTypes'
      BY <1>1 DEF AdminWrites, ReqTypes, Reqs
    <2> QED BY <2>1, <2>2
  <1> QED BY <1>0, <1>1 DEF Next, vars, Ask, Find, Pick, Fetch, FollowLink, Fail, Apply,
                            Answered

-----------------------------------------------------------------------------
(* The way of a request that no admin call interrupts.                       *)

Last == req.path[Len(req.path)].ep

\* The source drawn last, and what it has shown.
Shows(s, c) == s \in SourcesOf(Last) /\ c \in sources[s].held

\* What the request asks for next is the first path or that of a link.
NextAsked ==
    req.pc = "find" =>
        \/ req.path = <<>> /\ req.url = req.asked
        \/ /\ Len(req.path) > 0
           /\ \E t \in Endpoint, s \in Source :
                  /\ Live(endpoints[t]) /\ endpoints[t].url = req.url
                  /\ Shows(s, t)
Drawn ==
    /\ req.pc = "fetch" => req.source \in SourcesOf(Last)
    /\ req.pc = "target" => Shows(req.source, req.target)
    /\ req.pc \in {"apply", "done"} => Shows(req.source, Plain)

\* Each frame stands for the one endpoint of its path, and each frame's endpoint
\* has a link to the next one's.
Framed ==
    /\ \A i \in 1..Len(req.path) : Serving(req.path[i].url) = {req.path[i].ep}
    /\ Len(req.path) > 0 => req.path[1].url = req.asked
Linked ==
    \A i \in 1..Len(req.path) :
        i < Len(req.path) => req.path[i + 1].ep \in LinksOf(req.path[i].ep)

Chain == req.quiet => NextAsked /\ Drawn /\ Framed /\ Linked

\* A path has one endpoint at most.
LEMMA ServingOne ==
    ASSUME Types, NEW e \in Endpoint, Live(endpoints[e])
    PROVE  Serving(endpoints[e].url) \subseteq {e}
  BY DEF Types, UniquePaths, Serving, InUse, Live

LEMMA ChainInit == Init => Chain
  <1> SUFFICES ASSUME Init PROVE Chain
    OBVIOUS
  <1>1. req.path = <<>> /\ req.pc = "idle" /\ Len(req.path) = 0
    BY AskingTypes DEF Init
  <1> QED BY <1>1 DEF Chain, NextAsked, Drawn, Framed, Linked

\* The tables stay, so that what they say does.
LEMMA TablesSay ==
    ASSUME UNCHANGED tables
    PROVE  /\ \A u : Serving(u)' = Serving(u)
           /\ \A e : SourcesOf(e)' = SourcesOf(e) /\ RulesOf(e)' = RulesOf(e)
           /\ \A e : LinksOf(e)' = LinksOf(e)
  BY DEF tables, Serving, SourcesOf, RulesOf, LinksOf

LEMMA ChainNext == Types /\ Chain /\ [Next]_vars => Chain'
  <1> SUFFICES ASSUME Types, Chain, [Next]_vars PROVE Chain'
    OBVIOUS
  <1>0. req \in Reqs /\ Len(req.path) \in Nat
    BY DEF Types, ReqTypes, Reqs
  <1>1. CASE UNCHANGED vars
    <2>1. UNCHANGED tables /\ req' = req
      BY <1>1 DEF vars
    <2> QED BY <2>1, TablesSay DEF Chain, NextAsked, Drawn, Framed, Linked, Shows, Last, tables
  <1>2. ASSUME NEW u \in Url, Ask(u) PROVE Chain'
    <2>1. req' = Asking(u) /\ Len(<<>>) = 0
      BY <1>2 DEF Ask
    <2> QED BY <2>1 DEF Asking, Chain, NextAsked, Drawn, Framed, Linked
  <1>3. CASE Answered
    <2>1. req' = NoRequest
      BY <1>3 DEF Answered
    <2> QED BY <2>1, AskingTypes DEF Chain, NextAsked, Drawn, Framed, Linked
  <1>4. CASE AdminWrites
    <2>1. req' = [req EXCEPT !.quiet = (req.pc = "idle")]
      BY <1>4 DEF AdminWrites
    <2>2. CASE req.pc = "idle"
      <3>1. req'.pc = "idle" /\ req'.path = <<>> /\ Len(req'.path) = 0
        BY <1>0, <2>1, <2>2 DEF Reqs, Types, ReqTypes
      <3> QED BY <3>1 DEF Chain, NextAsked, Drawn, Framed, Linked
    <2>3. CASE req.pc # "idle"
      <3>1. ~req'.quiet
        BY <1>0, <2>1, <2>3 DEF Reqs
      <3> QED BY <3>1 DEF Chain
    <2> QED BY <2>2, <2>3
  <1>5. CASE Find \/ Pick \/ Fetch \/ FollowLink \/ Fail \/ Apply
    <2>0. UNCHANGED tables /\ req'.quiet = req.quiet
      BY <1>0, <1>5 DEF Find, Pick, Fetch, FollowLink, Fail, Apply, Reqs
    <2> SUFFICES ASSUME req.quiet PROVE Chain'
      BY <2>0 DEF Chain
    <2>1. NextAsked /\ Drawn /\ Framed /\ Linked
      BY DEF Chain
    <2>2. CASE Find
      <3> DEFINE n == Len(req.path)
      <3>1. PICK e \in Serving(req.url) :
                req' = [req EXCEPT !.pc = "pick",
                            !.path = Append(@, [ep |-> e, url |-> req.url])]
        BY <2>2 DEF Find
      <3>2. /\ req'.pc = "pick" /\ req'.asked = req.asked
            /\ Len(req'.path) = n + 1
            /\ req'.path[n + 1] = [ep |-> e, url |-> req.url]
            /\ \A i \in 1..n : req'.path[i] = req.path[i]
        BY <1>0, <3>1 DEF Reqs
      <3>3. e \in Endpoint /\ InUse(endpoints[e]) /\ endpoints[e].url = req.url
        BY DEF Serving
      <3>4. Serving(req.url) = {e}
        BY <3>3, ServingOne DEF InUse
      <3>5. req.pc = "find"
        BY <2>2 DEF Find
      <3>6. n > 0 => e \in LinksOf(Last)
        <4> SUFFICES ASSUME n > 0 PROVE e \in LinksOf(Last)
          OBVIOUS
        <4>0. req.path # <<>>
          BY <1>0
        <4>1. PICK t \in Endpoint, s \in Source :
                  /\ Live(endpoints[t]) /\ endpoints[t].url = req.url
                  /\ Shows(s, t)
          BY <2>1, <3>5, <4>0 DEF NextAsked
        <4>2. t = e
          BY <3>4, <4>1, ServingOne
        <4> QED BY <3>3, <4>1, <4>2 DEF LinksOf, Shows
      <3>7. Framed'
        <4>1. ASSUME NEW i \in 1..(n + 1)
              PROVE  Serving(req'.path[i].url) = {req'.path[i].ep}
          <5>1. CASE i = n + 1
            BY <3>2, <3>4, <5>1
          <5>2. CASE i \in 1..n
            BY <2>1, <3>2, <5>2 DEF Framed
          <5> QED BY <1>0, <5>1, <5>2
        <4>2. req'.path[1].url = req.asked
          <5>1. CASE n = 0
            <6>1. req.url = req.asked
              BY <2>1, <3>5, <5>1 DEF NextAsked
            <6> QED BY <3>2, <5>1, <6>1
          <5>2. CASE n > 0
            BY <1>0, <2>1, <3>2, <5>2 DEF Framed
          <5> QED BY <1>0, <5>1, <5>2
        <4> QED BY <2>0, <3>2, <4>1, <4>2, TablesSay DEF Framed
      <3>8. Linked'
        <4>1. ASSUME NEW i \in 1..(n + 1), i < n + 1
              PROVE  req'.path[i + 1].ep \in LinksOf(req'.path[i].ep)
          <5>1. CASE i = n
            BY <1>0, <3>2, <3>6, <5>1 DEF Last
          <5>2. CASE i < n
            <6>1. i \in 1..n /\ i + 1 \in 1..n
              BY <1>0, <5>2
            <6> QED BY <2>1, <3>2, <5>2, <6>1 DEF Linked
          <5> QED BY <1>0, <4>1, <5>1, <5>2
        <4> QED BY <2>0, <3>2, <4>1, TablesSay DEF Linked
      <3> QED BY <3>2, <3>7, <3>8 DEF Chain, NextAsked, Drawn
    <2>3. CASE Pick \/ Fetch \/ FollowLink \/ Fail \/ Apply
      <3>1. req'.path = req.path /\ req'.asked = req.asked
        BY <1>0, <2>3 DEF Pick, Fetch, FollowLink, Fail, Apply, Reqs
      <3>2. Framed' /\ Linked' /\ Last' = Last
        <4>1. Framed'
          BY <2>0, <2>1, <3>1, TablesSay DEF Framed
        <4>2. Linked'
          BY <2>0, <2>1, <3>1, TablesSay DEF Linked
        <4> QED BY <3>1, <4>1, <4>2 DEF Last
      <3>4. NextAsked' /\ Drawn'
        <4>1. CASE Pick
          <5>1. PICK s \in SourcesOf(Last) : req' = [req EXCEPT !.pc = "fetch", !.source = s]
            BY <4>1 DEF Pick, Last
          <5>2. req'.pc = "fetch" /\ req'.source = s
            BY <1>0, <5>1 DEF Reqs
          <5> QED BY <2>0, <3>2, <5>2, TablesSay DEF NextAsked, Drawn
        <4>2. CASE Fetch
          <5>1. PICK c \in sources[req.source].held :
                    req' = IF c = Plain THEN [req EXCEPT !.pc = "apply"]
                                        ELSE [req EXCEPT !.pc = "target", !.target = c]
            BY <4>2 DEF Fetch
          <5>2. Shows(req.source, c)
            BY <2>1, <4>2 DEF Fetch, Drawn, Shows
          <5>3. req.source \in Source
            BY <1>0 DEF Reqs
          <5>4. req'.source = req.source /\ (IF c = Plain THEN req'.pc = "apply"
                    ELSE req'.pc = "target" /\ req'.target = c)
            BY <1>0, <5>1 DEF Reqs
          <5>5. Shows(req.source, c)'
            BY <2>0, <3>2, <5>2, <5>4, TablesSay DEF Shows, tables
          <5> QED BY <5>4, <5>5 DEF NextAsked, Drawn, Shows
        <4>3. CASE FollowLink
          <5>1. /\ req'.pc = "find" /\ req'.url = endpoints[req.target].url
                /\ req.pc = "target" /\ Live(endpoints[req.target])
                /\ req.source \in Source /\ req.target \in Endpoint
            BY <1>0, <4>3 DEF FollowLink, Reqs
          <5>2. Shows(req.source, req.target) /\ Len(req.path) > 0
            BY <2>1, <5>1 DEF Drawn, Types, ReqTypes
          <5> QED BY <2>0, <3>1, <3>2, <5>1, <5>2, TablesSay
                  DEF NextAsked, Drawn, Shows, tables
        <4>4. CASE Fail
          <5>1. req'.pc = "failed"
            BY <1>0, <4>4 DEF Fail, Reqs
          <5> QED BY <5>1 DEF NextAsked, Drawn
        <4>5. CASE Apply
          <5>1. req'.pc \in {"apply", "done"} /\ req'.source = req.source /\ req.pc = "apply"
            BY <1>0, <4>5 DEF Apply, Reqs
          <5> QED BY <2>0, <2>1, <3>2, <5>1, TablesSay DEF NextAsked, Drawn, Shows, tables
        <4> QED BY <2>3, <4>1, <4>2, <4>3, <4>4, <4>5
      <3> QED BY <3>2, <3>4 DEF Chain
    <2> QED BY <1>5, <2>2, <2>3
  <1> QED BY <1>1, <1>2, <1>3, <1>4, <1>5 DEF Next

\* Links followed from an endpoint back to itself lead in a circle.
LEMMA NoCircle ==
    ASSUME Types, Chain, req.quiet, Acyclic,
           NEW i \in DOMAIN req.path, NEW j \in DOMAIN req.path, i < j
    PROVE  req.path[i].ep # req.path[j].ep
  <1> SUFFICES ASSUME req.path[i].ep = req.path[j].ep PROVE FALSE
    OBVIOUS
  <1>0. Len(req.path) \in Nat /\ DOMAIN req.path = 1..Len(req.path)
        /\ \A m \in 1..Len(req.path) : req.path[m].ep \in Endpoint
    <2>1. req.path \in Seq(Frames)
      BY DEF Types, ReqTypes, Reqs
    <2>2. \A m \in 1..Len(req.path) : req.path[m] \in Frames
      BY <2>1
    <2> QED BY <2>1, <2>2 DEF Frames
  <1> DEFINE C == {req.path[m].ep : m \in i..(j - 1)}
  <1>1. i..(j - 1) \subseteq 1..Len(req.path) /\ i \in i..(j - 1)
    BY <1>0
  <1>2. C \in (SUBSET Endpoint) \ {{}}
    <2>1. \A m \in i..(j - 1) : req.path[m].ep \in Endpoint
      BY <1>0, <1>1
    <2>2. C \subseteq Endpoint /\ C # {}
      BY <1>1, <2>1
    <2> HIDE DEF C
    <2> QED BY <2>2
  <1>3. PICK e \in C : LinksOf(e) \cap C = {}
    BY <1>2 DEF Acyclic
  <1>4. PICK m \in i..(j - 1) : e = req.path[m].ep
    BY <1>3
  <1>5. req.path[m + 1].ep \in LinksOf(e)
    BY <1>0, <1>1, <1>4 DEF Chain, Linked
  <1>6. req.path[m + 1].ep \in C
    <2>1. CASE m + 1 = j
      BY <1>1, <2>1
    <2>2. CASE m + 1 # j
      <3>1. m + 1 \in i..(j - 1)
        BY <1>0, <2>2
      <3> QED BY <3>1
    <2> QED BY <2>1, <2>2
  <1> QED BY <1>3, <1>5, <1>6

\* GetRandomURL's recursion ends: an uninterrupted request comes through each
\* endpoint once at most unless links lead in a circle, however endpoints were
\* renamed, switched off and deleted before.
THEOREM RequestsComeThroughOnce == Spec => []QuietRequestsComeThroughOnce
  <1>1. Types /\ Chain => QuietRequestsComeThroughOnce
    <2> SUFFICES ASSUME Types, Chain, req.quiet, Acyclic,
                        NEW i \in DOMAIN req.path, NEW j \in DOMAIN req.path,
                        req.path[i].ep = req.path[j].ep
                 PROVE  i = j
      BY DEF QuietRequestsComeThroughOnce
    <2>1. i \in Nat /\ j \in Nat
      BY DEF Types, ReqTypes, Reqs
    <2>2. ~(i < j) /\ ~(j < i)
      BY NoCircle
    <2> QED BY <2>1, <2>2
  <1> QED BY <1>1, TypesInit, TypesNext, ChainInit, ChainNext, PTL DEF Spec

-----------------------------------------------------------------------------
(* The reference's answers, which a recursive function defines.              *)

Direct(e) ==
    {[source |-> s, applied |-> <<RulesOf(e)>>] :
         s \in {t \in SourcesOf(e) : Plain \in sources[t].held}}
From(answers, e) ==
    Direct(e) \cup UNION {Extend(answers[t], e) : t \in LinksOf(e)}
Level(g, n) == [e \in Endpoint |-> IF n = 0 THEN {} ELSE From(g[n - 1], e)]

\* There is such a function, so that AnswersWithin is one.
LEMMA AnswersAreDefined ==
    \A n \in 0..MaxDepth : AnswersWithin[n] = Level(AnswersWithin, n)
  <1> DEFINE Answers(g) == g = [n \in 0..MaxDepth |-> Level(g, n)]
             Upto(n, g) == \A m \in 0..n : g[m] = Level(g, m)
             T == {n \in Nat : \E g : Upto(n, g)}
  <1>1. 0 \in T
    <2> DEFINE g == [m \in {0} |-> [e \in Endpoint |-> {}]]
    <2>1. Upto(0, g)
      BY DEF Level
    <2> QED BY <2>1
  <1>2. ASSUME NEW n \in Nat, n \in T PROVE n + 1 \in T
    <2>1. PICK g : Upto(n, g)
      BY <1>2
    <2> DEFINE h == [m \in Nat |-> Level(g, m)]
    <2>2. ASSUME NEW m \in 0..(n + 1) PROVE h[m] = Level(h, m)
      <3>1. h[m] = Level(g, m)
        OBVIOUS
      <3>2. CASE m = 0
        BY <3>1, <3>2 DEF Level
      <3>3. CASE m # 0
        <4>1. m - 1 \in 0..n /\ m - 1 \in Nat
          BY <3>3
        <4>2. h[m - 1] = g[m - 1]
          BY <2>1, <4>1
        <4> QED BY <3>1, <4>2 DEF Level
      <3> QED BY <3>2, <3>3
    <2>3. Upto(n + 1, h)
      BY <2>2
    <2> HIDE DEF h, Upto
    <2> QED BY <2>3
  <1>3. MaxDepth \in T /\ MaxDepth \in Nat
    <2> HIDE DEF T
    <2> QED BY <1>1, <1>2, NatInduct, MaxDepthAssumption
  <1>4. PICK g : Upto(MaxDepth, g)
    BY <1>3
  <1> DEFINE h == [n \in 0..MaxDepth |-> g[n]]
  <1>5. Answers(h)
    <2>1. ASSUME NEW n \in 0..MaxDepth PROVE h[n] = Level(h, n)
      <3>1. h[n] = Level(g, n)
        BY <1>4
      <3>2. CASE n = 0
        BY <3>1, <3>2 DEF Level
      <3>3. CASE n # 0
        <4>1. n - 1 \in 0..MaxDepth
          BY <1>3, <3>3
        <4>2. h[n - 1] = g[n - 1]
          BY <4>1
        <4> QED BY <3>1, <4>2 DEF Level
      <3> QED BY <3>2, <3>3
    <2> QED BY <2>1
  <1>6. AnswersWithin = CHOOSE a : Answers(a)
    BY DEF AnswersWithin, Level, From, Direct
  <1>7. Answers(AnswersWithin)
    <2> HIDE DEF Answers, h
    <2> QED BY <1>5, <1>6
  <1> QED BY <1>7

\* What can be answered within a number of endpoints can be within more.
LEMMA AnswersGrow ==
    ASSUME NEW n \in 0..MaxDepth, NEW e \in Endpoint
    PROVE  AnswersWithin[n][e] \subseteq AnswersWithin[MaxDepth][e]
  <1> DEFINE A(m, t) == AnswersWithin[m][t]
             T == {m \in Nat : m < MaxDepth =>
                                   \A t \in Endpoint : A(m, t) \subseteq A(m + 1, t)}
             U == {k \in Nat : n + k <= MaxDepth => A(n, e) \subseteq A(n + k, e)}
  <1>0. MaxDepth \in Nat
    BY MaxDepthAssumption
  <1>1. ASSUME NEW t \in Endpoint PROVE A(0, t) = {}
    <2>1. 0 \in 0..MaxDepth
      BY <1>0
    <2>2. AnswersWithin[0] = Level(AnswersWithin, 0)
      BY <2>1, AnswersAreDefined
    <2> QED BY <2>2 DEF Level
  <1>2. ASSUME NEW m \in Nat, m < MaxDepth, NEW t \in Endpoint
        PROVE  A(m + 1, t) = Direct(t) \cup UNION {Extend(A(m, x), t) : x \in LinksOf(t)}
    <2>1. m + 1 \in 0..MaxDepth /\ m + 1 # 0 /\ (m + 1) - 1 = m
      BY <1>0, <1>2
    <2>2. AnswersWithin[m + 1] = Level(AnswersWithin, m + 1)
      BY <2>1, AnswersAreDefined
    <2>3. A(m + 1, t) = From(AnswersWithin[m], t)
      BY <2>1, <2>2 DEF Level
    <2> QED BY <2>3 DEF From
  <1> HIDE DEF A
  <1>3. 0 \in T
    BY <1>1
  <1>4. ASSUME NEW m \in Nat, m \in T PROVE m + 1 \in T
    <2> SUFFICES ASSUME m + 1 < MaxDepth, NEW t \in Endpoint
                 PROVE  A(m + 1, t) \subseteq A((m + 1) + 1, t)
      OBVIOUS
    <2>1. \A x \in Endpoint : A(m, x) \subseteq A(m + 1, x)
      BY <1>0, <1>4
    <2>2. \A x \in LinksOf(t) : Extend(A(m, x), t) \subseteq Extend(A(m + 1, x), t)
      BY <2>1 DEF Extend, LinksOf
    <2>3. /\ A(m + 1, t) = Direct(t) \cup UNION {Extend(A(m, x), t) : x \in LinksOf(t)}
          /\ A((m + 1) + 1, t)
                 = Direct(t) \cup UNION {Extend(A(m + 1, x), t) : x \in LinksOf(t)}
      BY <1>0, <1>2
    <2>4. UNION {Extend(A(m, x), t) : x \in LinksOf(t)}
              \subseteq UNION {Extend(A(m + 1, x), t) : x \in LinksOf(t)}
      BY <2>2
    <2> QED BY <2>3, <2>4
  <1>5. Nat \subseteq T
    <2> HIDE DEF T
    <2> QED BY <1>3, <1>4, NatInduct
  <1>6. 0 \in U
    BY <1>0
  <1>7. ASSUME NEW k \in Nat, k \in U PROVE k + 1 \in U
    <2> SUFFICES ASSUME n + (k + 1) <= MaxDepth PROVE A(n, e) \subseteq A(n + (k + 1), e)
      OBVIOUS
    <2>1. n + k \in Nat /\ n + k < MaxDepth /\ n + (k + 1) = (n + k) + 1
      BY <1>0
    <2>2. A(n, e) \subseteq A(n + k, e)
      BY <1>0, <1>7, <2>1
    <2>3. A(n + k, e) \subseteq A((n + k) + 1, e)
      BY <1>5, <2>1
    <2> QED BY <2>1, <2>2, <2>3
  <1>8. Nat \subseteq U
    <2> HIDE DEF U
    <2> QED BY <1>6, <1>7, NatInduct
  <1>9. MaxDepth - n \in U /\ n + (MaxDepth - n) = MaxDepth
    BY <1>0, <1>8
  <1> QED BY <1>0, <1>9 DEF A

-----------------------------------------------------------------------------
(* The answer of a request.                                                  *)

\* The rules applied so far are an answer of the innermost frame they came
\* through.
Answering ==
    req.quiet /\ req.pc \in {"apply", "done"} /\ Len(req.applied) > 0 =>
        [source |-> req.source, applied |-> req.applied]
            \in AnswersWithin[Len(req.applied)]
                    [req.path[Len(req.path) - Len(req.applied) + 1].ep]

LEMMA ExtendsBy ==
    ASSUME NEW answers, NEW e, NEW s, NEW applied,
           [source |-> s, applied |-> applied] \in answers
    PROVE  [source |-> s, applied |-> Append(applied, RulesOf(e))] \in Extend(answers, e)
  <1>1. PICK a \in answers : a = [source |-> s, applied |-> applied]
    OBVIOUS
  <1>2. [a EXCEPT !.applied = Append(@, RulesOf(e))]
            = [source |-> s, applied |-> Append(applied, RulesOf(e))]
    BY <1>1
  <1> QED BY <1>2 DEF Extend

LEMMA AnsweringInit == Init => Answering
  BY AskingTypes DEF Init, Answering

LEMMA AnsweringNext ==
    Types /\ Chain /\ Answering /\ [Next]_vars => Answering'
  <1> SUFFICES ASSUME Types, Chain, Answering, [Next]_vars PROVE Answering'
    OBVIOUS
  <1>0. /\ req \in Reqs /\ Len(req.path) \in Nat /\ Len(req.applied) \in Nat
        /\ Len(req.path) <= MaxDepth /\ MaxDepth \in Nat
    BY MaxDepthAssumption DEF Types, ReqTypes, Reqs
  <1>1. CASE UNCHANGED vars
    <2>1. AnswersWithin' = AnswersWithin /\ req' = req
      BY <1>1 DEF vars, tables, AnswersWithin, Extend, LinksOf, SourcesOf, RulesOf
    <2> QED BY <2>1 DEF Answering
  <1>2. CASE Apply
    <2> DEFINE m == Len(req.applied)
               n == Len(req.path) - m
               e == req.path[n].ep
               a == [source |-> req.source, applied |-> Append(req.applied, RulesOf(e))]
    <2> SUFFICES ASSUME req.quiet PROVE Answering'
      BY <1>0, <1>2 DEF Apply, Reqs, Answering
    <2>0. req.pc = "apply" /\ UNCHANGED tables
      BY <1>2 DEF Apply
    <2>1. /\ m < Len(req.path) /\ n \in 1..Len(req.path) /\ m + 1 \in 0..MaxDepth
          /\ m + 1 # 0 /\ m \in Nat /\ n \in Nat
          /\ (m > 0 => n < Len(req.path))
      <3>1. m < Len(req.path)
        BY <2>0 DEF Types, ReqTypes
      <3>2. \A p, q \in Nat : q < p /\ p <= MaxDepth =>
                /\ p - q \in 1..p /\ q + 1 \in 0..MaxDepth /\ q + 1 # 0
                /\ p - q \in Nat /\ (q > 0 => p - q < p)
        BY <1>0
      <3> QED BY <1>0, <3>1, <3>2
    <2>2. Serving(req.path[n].url) = {e}
      BY <2>1 DEF Chain, Framed
    <2>3. UNION {RulesOf(x) : x \in Serving(req.path[n].url)} = RulesOf(e)
      BY <2>2
    <2>4. /\ req'.applied = Append(req.applied, RulesOf(e)) /\ req'.path = req.path
          /\ req'.source = req.source
      BY <1>0, <1>2, <2>3 DEF Apply, Reqs
    <2>5. /\ Len(req'.applied) = m + 1
          /\ Len(req'.path) - Len(req'.applied) + 1 = n
      <3>1. req.applied \in Seq(SUBSET Rule) /\ RulesOf(e) \in SUBSET Rule
        BY <1>0 DEF Reqs, RulesOf
      <3>2. Len(Append(req.applied, RulesOf(e))) = m + 1
        BY <3>1
      <3> QED BY <1>0, <2>4, <3>2
    <2>6. e \in Endpoint
      <3>1. req.path[n] \in Frames
        BY <1>0, <2>1 DEF Reqs
      <3> QED BY <3>1 DEF Frames
    <2>7. AnswersWithin[m + 1][e]
              = Direct(e) \cup UNION {Extend(AnswersWithin[m][t], e) : t \in LinksOf(e)}
      <3>1. (m + 1) - 1 = m
        BY <1>0
      <3>2. AnswersWithin[m + 1] = Level(AnswersWithin, m + 1)
        BY <2>1, AnswersAreDefined
      <3>3. AnswersWithin[m + 1][e] = From(AnswersWithin[m], e)
        <4> HIDE DEF e, m
        <4> QED BY <2>1, <2>6, <3>1, <3>2 DEF Level
      <3> QED BY <3>3 DEF From
    <2>8. a \in AnswersWithin[m + 1][e]
      <3>1. CASE m = 0
        <4>1. req.applied = <<>> /\ n = Len(req.path)
          BY <1>0, <3>1 DEF Reqs
        <4>2. e = Last
          BY <4>1 DEF Last
        <4>3. Shows(req.source, Plain)
          BY <2>0 DEF Chain, Drawn
        <4>4. a = [source |-> req.source, applied |-> <<RulesOf(e)>>]
          BY <4>1
        <4>5. a \in Direct(e)
          BY <4>2, <4>3, <4>4 DEF Direct, Shows
        <4> QED BY <2>7, <4>5
      <3>2. CASE m > 0
        <4> DEFINE t == req.path[n + 1].ep
                   b == [source |-> req.source, applied |-> req.applied]
        <4>1. b \in AnswersWithin[m][t]
          BY <2>0, <3>2 DEF Answering
        <4>2. t \in LinksOf(e)
          <5>1. n \in 1..Len(req.path) /\ n < Len(req.path)
            BY <2>1, <3>2
          <5> QED BY <5>1 DEF Chain, Linked
        <4>4. a \in Extend(AnswersWithin[m][t], e)
          BY <4>1, ExtendsBy
        <4> QED BY <2>7, <4>2, <4>4
      <3> QED BY <1>0, <3>1, <3>2
    <2>9. AnswersWithin' = AnswersWithin
      BY <2>0 DEF tables, AnswersWithin, Extend, LinksOf, SourcesOf, RulesOf
    <2> QED BY <2>4, <2>5, <2>8, <2>9 DEF Answering
  <1>3. ASSUME NEW u \in Url, Ask(u) PROVE Answering'
    BY <1>3 DEF Ask, Asking, Answering
  <1>4. CASE Fetch
    <2>1. req.applied = <<>>
      BY <1>4 DEF Fetch, Types, ReqTypes
    <2>2. req'.applied = req.applied /\ Len(<<>>) = 0
      BY <1>0, <1>4 DEF Fetch, Reqs
    <2> QED BY <2>1, <2>2 DEF Answering
  <1>5. CASE Find \/ Pick \/ FollowLink \/ Fail \/ Answered
    <2>1. req'.pc \notin {"apply", "done"}
      BY <1>0, <1>5, AskingTypes
         DEF Find, Pick, FollowLink, Fail, Answered, Reqs
    <2> QED BY <2>1 DEF Answering
  <1>6. CASE AdminWrites
    <2>1. req'.quiet = (req.pc = "idle") /\ req'.pc = req.pc
      BY <1>0, <1>6 DEF AdminWrites, Reqs
    <2> QED BY <2>1 DEF Answering
  <1> QED BY <1>1, <1>2, <1>3, <1>4, <1>5, <1>6 DEF Next

\* An answer that no admin call interrupted is one the tables allow, although
\* GetRandomURL finds the targets of links and the rules by path and not by id:
\* paths stay unique, those of deleted endpoints included.
THEOREM AnswersAreRight == Spec => []QuietAnswersAreRight
  <1>1. Types /\ Chain /\ Answering => QuietAnswersAreRight
    <2> SUFFICES ASSUME Types, Chain, Answering, req.pc = "done", req.quiet
                 PROVE  \E e \in Serving(req.asked) :
                            [source |-> req.source, applied |-> req.applied]
                                \in AnswersWithin[MaxDepth][e]
      BY DEF QuietAnswersAreRight
    <2> DEFINE n == Len(req.path)
               e == req.path[1].ep
    <2>1. n = Len(req.applied) /\ n > 0 /\ n \in 0..MaxDepth /\ 1 \in 1..n
      BY MaxDepthAssumption DEF Types, ReqTypes, Reqs
    <2>2. Serving(req.asked) = {e}
      BY <2>1 DEF Chain, Framed
    <2>3. n - n + 1 = 1
      BY <2>1
    <2>4. [source |-> req.source, applied |-> req.applied] \in AnswersWithin[n][e]
      BY <2>1, <2>3 DEF Answering
    <2>5. e \in Endpoint
      BY <2>2 DEF Serving
    <2> QED BY <2>1, <2>2, <2>4, <2>5, AnswersGrow
  <1>2. Init => Types /\ Chain /\ Answering
    BY TypesInit, ChainInit, AnsweringInit
  <1>3. Types /\ Chain /\ Answering /\ [Next]_vars => (Types /\ Chain /\ Answering)'
    BY TypesNext, ChainNext, AnsweringNext
  <1> QED BY <1>1, <1>2, <1>3, PTL DEF Spec
=============================================================================
