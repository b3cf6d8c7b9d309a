---------------------------- MODULE AdminPagesProofs ----------------------------
(* Invariants of the other pages of the frontend, and the theorems about all *)
(* of them. They hold for any texts, domains, tabs and sizes, and any number *)
(* of requests, calls, commands and logins.                                  *)
EXTENDS AdminPages, TablePagesProofs

-----------------------------------------------------------------------------
(* The editor of the home page, over the configuration store.                *)

HomeTypes ==
    /\ server = [row |-> server.row, cache |-> server.cache]
    /\ view = [config |-> view.config, content |-> view.content]
    /\ hist = [invalidations |-> hist.invalidations, stale |-> hist.stale,
               typed |-> hist.typed, commands |-> hist.commands]
    /\ hist.invalidations \in Nat /\ hist.stale \in BOOLEAN
    /\ \A r \in DOMAIN net :
           /\ r.stage = "read" => r.kind \in Home!Reads /\ r.since \in Nat
           /\ r.stage = "found" => r.kind = "save"
           /\ r.stage = "written" =>
                  r = [kind |-> "save", stage |-> "written", text |-> r.text]

\* What the table has, or a default.
Matches(value) ==
    IF server.row = Home!Missing THEN value \in {Blank, Intro} ELSE value = server.row

Invalidated == \A r \in DOMAIN net : r.stage # "written"

\* A request that has read the table since the last invalidation has read what
\* is there still, unless it has changed and is about to be invalidated.
ReadsAreFresh ==
    \A r \in DOMAIN net : r.stage = "read" =>
        /\ r.since <= hist.invalidations
        /\ r.since = hist.invalidations /\ Invalidated => Matches(r.value)

CacheIsFresh ==
    server.cache # Home!NotCached /\ ~hist.stale /\ Invalidated => Matches(server.cache)

\* Text that was typed while the editor waited for nothing is in the text area
\* and in every save of it, and no load is on its way.
TypedIsSent ==
    hist.typed # Home!Nothing =>
        /\ view.content = hist.typed
        /\ \A r \in DOMAIN net :
               /\ r.kind # "load"
               /\ r.kind = "save" /\ r.stage # "failed" => r.text = hist.typed

HomeInv == HomeTypes /\ ReadsAreFresh /\ CacheIsFresh /\ TypedIsSent

LEMMA HomeTurnIsTurned ==
    ASSUME NEW r, NEW new, net' = Home!Turn(r, new)
    PROVE  Turned(r, new)
  BY DEF Home!Turn, Home!Done, Home!BagAdd, Home!BagRemove, Turned

LEMMA HomeSendAdds ==
    ASSUME NEW r, net' = Home!Send(r)
    PROVE  DOMAIN net' = DOMAIN net \cup {r}
  BY DEF Home!Send, Home!BagAdd

LEMMA HomeDoneRemoves ==
    ASSUME NEW r, net' = Home!Done(r)
    PROVE  DOMAIN net' \subseteq DOMAIN net /\ DOMAIN net \ {r} \subseteq DOMAIN net'
  BY DEF Home!Done, Home!BagRemove

LEMMA HomeInit == Home!Init => HomeInv
  <1> SUFFICES ASSUME Home!Init PROVE HomeInv
    OBVIOUS
  <1>1. DOMAIN net = {[kind |-> "load", stage |-> "sent"]}
    BY DEF Home!Init, Home!SetToBag
  <1> QED BY <1>1 DEF Home!Init, HomeInv, HomeTypes, ReadsAreFresh, CacheIsFresh, TypedIsSent

LEMMA ServeInv ==
    ASSUME HomeInv, NEW r \in DOMAIN net, Home!Serve(r)
    PROVE  HomeInv'
  <1> USE DEF HomeInv, Home!Serve
  <1>1. CASE Home!GetCached(r) \/ Home!ReadFails(r)
    <2>1. PICK value : net' = Home!Turn(r, [kind |-> r.kind, stage |-> "ok", value |-> value])
      BY <1>1 DEF Home!GetCached, Home!ReadFails, Home!Answer
    <2>2. Turned(r, [kind |-> r.kind, stage |-> "ok", value |-> value])
      BY <2>1, HomeTurnIsTurned
    <2>3. r.kind \in Home!Reads /\ r.stage = "sent" /\ UNCHANGED <<server, view, hist>>
      BY <1>1 DEF Home!GetCached, Home!ReadFails
    <2> QED BY <2>2, <2>3 DEF Turned, HomeTypes, ReadsAreFresh, CacheIsFresh, TypedIsSent,
                              Invalidated, Matches, Home!Reads
  <1>2. CASE Home!ReadRow(r)
    <2> DEFINE value == IF server.row = Home!Missing THEN Home!DefaultOf(r.kind)
                        ELSE server.row
               new == [kind |-> r.kind, stage |-> "read", since |-> hist.invalidations,
                       value |-> value]
    <2>1. Turned(r, new)
      BY <1>2, HomeTurnIsTurned DEF Home!ReadRow
    <2>2. r.kind \in Home!Reads /\ r.stage = "sent" /\ UNCHANGED <<server, view, hist>>
      BY <1>2 DEF Home!ReadRow
    <2>3. Matches(value)
      BY <2>2 DEF Matches, Home!DefaultOf
    <2>4. new.stage = "read" /\ new.kind = r.kind /\ new.since = hist.invalidations
          /\ new.value = value
      OBVIOUS
    <2> HIDE DEF new, value
    <2> QED BY <2>1, <2>2, <2>3, <2>4
            DEF Turned, HomeTypes, ReadsAreFresh, CacheIsFresh, TypedIsSent,
                Invalidated, Matches, Home!Reads
  <1>3. CASE Home!CacheConfig(r)
    <2> DEFINE new == [kind |-> r.kind, stage |-> "ok", value |-> r.value]
    <2>1. Turned(r, new)
      BY <1>3, HomeTurnIsTurned DEF Home!CacheConfig, Home!Answer
    <2>2. /\ r.stage = "read" /\ r.kind \in Home!Reads /\ view' = view
          /\ server' = [row |-> server.row, cache |-> r.value]
          /\ hist' = [hist EXCEPT !.stale = r.since # hist.invalidations]
      BY <1>3 DEF Home!CacheConfig, HomeTypes
    <2>3. /\ hist'.stale = (r.since # hist.invalidations)
          /\ hist'.invalidations = hist.invalidations /\ hist'.typed = hist.typed
          /\ hist' = [invalidations |-> hist'.invalidations, stale |-> hist'.stale,
                      typed |-> hist'.typed, commands |-> hist'.commands]
      BY <2>2 DEF HomeTypes
    <2>4. new.stage = "ok" /\ new.kind = r.kind
      OBVIOUS
    <2>5. Invalidated' => Invalidated
      BY <2>1, <2>2 DEF Turned, Invalidated
    <2> HIDE DEF new
    <2>6. CacheIsFresh'
      BY <2>2, <2>3, <2>5 DEF CacheIsFresh, ReadsAreFresh, Matches
    <2>7. ReadsAreFresh'
      BY <2>1, <2>2, <2>3, <2>4, <2>5 DEF Turned, ReadsAreFresh, Matches
    <2>8. HomeTypes'
      BY <2>1, <2>2, <2>3, <2>4 DEF Turned, HomeTypes
    <2>9. TypedIsSent'
      BY <2>1, <2>2, <2>3, <2>4 DEF Turned, TypedIsSent, Home!Reads
    <2> QED BY <2>6, <2>7, <2>8, <2>9
  <1>4. CASE Home!FindRow(r)
    <2> DEFINE new == [kind |-> "save", stage |-> "found", text |-> r.text,
                       new |-> server.row = Home!Missing]
    <2>1. Turned(r, new)
      BY <1>4, HomeTurnIsTurned DEF Home!FindRow
    <2>2. r.kind = "save" /\ r.stage = "sent" /\ UNCHANGED <<server, view, hist>>
      BY <1>4 DEF Home!FindRow
    <2>3. new.stage = "found" /\ new.kind = "save" /\ new.text = r.text
      OBVIOUS
    <2> HIDE DEF new
    <2> QED BY <2>1, <2>2, <2>3
            DEF Turned, HomeTypes, ReadsAreFresh, CacheIsFresh, TypedIsSent,
                Invalidated, Matches
  <1>5. CASE Home!WriteRow(r)
    <2>1. r.stage = "found" /\ r.kind = "save" /\ UNCHANGED <<view, hist>>
      BY <1>5 DEF Home!WriteRow, HomeTypes
    <2>2. CASE /\ server' = [server EXCEPT !.row = r.text]
               /\ net' = Home!Turn(r, [kind |-> "save", stage |-> "written", text |-> r.text])
      <3> DEFINE new == [kind |-> "save", stage |-> "written", text |-> r.text]
      <3>1. Turned(r, new)
        BY <2>2, HomeTurnIsTurned
      <3>2. server' = [row |-> r.text, cache |-> server.cache]
        BY <2>2 DEF HomeTypes
      <3>3. new.stage = "written" /\ new.kind = "save" /\ new.text = r.text /\ ~Invalidated'
            /\ new = [kind |-> "save", stage |-> "written", text |-> new.text]
        BY <3>1 DEF Turned, Invalidated
      <3> HIDE DEF new
      <3> QED BY <2>1, <3>1, <3>2, <3>3
              DEF Turned, HomeTypes, ReadsAreFresh, CacheIsFresh, TypedIsSent
    <2>3. CASE net' = Home!Failed(r) /\ UNCHANGED server
      <3>1. Turned(r, [kind |-> r.kind, stage |-> "failed"])
        BY <2>3, HomeTurnIsTurned DEF Home!Failed
      <3> QED BY <2>1, <2>3, <3>1
              DEF Turned, HomeTypes, ReadsAreFresh, CacheIsFresh, TypedIsSent,
                  Invalidated, Matches
    <2> QED BY <1>5, <2>2, <2>3 DEF Home!WriteRow
  <1>6. CASE Home!InvalidateConfigCache(r)
    <2> DEFINE new == [kind |-> "save", stage |-> "ok", text |-> r.text]
    <2>1. /\ r = [kind |-> "save", stage |-> "written", text |-> r.text] /\ view' = view
          /\ r.stage = "written"
      BY <1>6 DEF Home!InvalidateConfigCache, HomeTypes
    <2>2. [r EXCEPT !.stage = "ok"] = new
      BY <2>1
    <2>3. Turned(r, new)
      BY <1>6, <2>2, HomeTurnIsTurned DEF Home!InvalidateConfigCache
    <2>4. /\ server' = [row |-> server.row, cache |-> Home!NotCached]
          /\ hist' = [invalidations |-> hist.invalidations + 1, stale |-> FALSE,
                      typed |-> hist.typed, commands |-> hist.commands]
      BY <1>6 DEF Home!InvalidateConfigCache, HomeTypes
    <2>5. new.stage = "ok" /\ new.kind = "save" /\ new.text = r.text
      OBVIOUS
    <2> HIDE DEF new
    <2>6. HomeTypes'
      BY <2>1, <2>3, <2>4, <2>5 DEF Turned, HomeTypes
    <2>7. ReadsAreFresh'
      BY <2>1, <2>3, <2>4, <2>5 DEF Turned, ReadsAreFresh, HomeTypes
    <2>8. CacheIsFresh'
      BY <2>4 DEF CacheIsFresh
    <2>9. TypedIsSent'
      BY <2>1, <2>3, <2>4, <2>5 DEF Turned, TypedIsSent
    <2> QED BY <2>6, <2>7, <2>8, <2>9
  <1> QED BY <1>1, <1>2, <1>3, <1>4, <1>5, <1>6

LEMMA ReceiveInv ==
    ASSUME HomeInv, NEW r \in DOMAIN net, Home!Receive(r) \/ Home!Fails(r)
    PROVE  HomeInv'
  <1> USE DEF HomeInv
  <1>1. CASE Home!Fails(r)
    <2>1. r.stage \in {"sent", "found", "ok"} /\ UNCHANGED <<server, view, hist>>
      BY <1>1 DEF Home!Fails
    <2>2. Turned(r, [kind |-> r.kind, stage |-> "failed"])
      BY <1>1, HomeTurnIsTurned DEF Home!Fails, Home!Failed
    <2> QED BY <2>1, <2>2
            DEF Turned, HomeTypes, ReadsAreFresh, CacheIsFresh, TypedIsSent,
                Invalidated, Matches
  <1>2. CASE Home!Receive(r)
    <2>1. r.stage \in {"ok", "failed"} /\ UNCHANGED <<server, hist>> /\ net' = Home!Done(r)
      BY <1>2 DEF Home!Receive, Home!LoadHomeConfig, Home!UpdateHomeConfig, Home!Visited
    <2>2. DOMAIN net' \subseteq DOMAIN net /\ DOMAIN net \ {r} \subseteq DOMAIN net'
      BY <2>1, HomeDoneRemoves
    <2>3. /\ view' = [config |-> view'.config, content |-> view'.content]
          /\ hist.typed # Home!Nothing => view'.content = hist.typed
      <3>1. CASE Home!LoadHomeConfig(r)
        BY <2>1, <3>1 DEF Home!LoadHomeConfig, Home!SetHomeConfig, TypedIsSent, HomeTypes
      <3>2. CASE Home!UpdateHomeConfig(r)
        BY <2>1, <3>2 DEF Home!UpdateHomeConfig, Home!SetHomeConfig, TypedIsSent, HomeTypes
      <3>3. CASE Home!Visited(r)
        BY <3>3 DEF Home!Visited, TypedIsSent, HomeTypes
      <3> QED BY <1>2, <3>1, <3>2, <3>3 DEF Home!Receive
    <2> QED BY <2>1, <2>2, <2>3
            DEF HomeTypes, ReadsAreFresh, CacheIsFresh, TypedIsSent, Invalidated, Matches
  <1> QED BY <1>1, <1>2

LEMMA EditInv ==
    ASSUME HomeInv,
           \/ Home!Expire \/ Home!HandleReset \/ Home!HandleSave \/ Home!Visit
           \/ \E text \in Text \cup {Blank} : Home!Type(text)
    PROVE  HomeInv'
  <1> USE DEF HomeInv
  <1>1. CASE Home!Expire
    <2>1. /\ server' = [row |-> server.row, cache |-> Home!NotCached]
          /\ hist' = [invalidations |-> hist.invalidations, stale |-> FALSE,
                      typed |-> hist.typed, commands |-> hist.commands]
          /\ UNCHANGED <<view, net>>
      BY <1>1 DEF Home!Expire, HomeTypes
    <2> QED BY <2>1 DEF HomeTypes, ReadsAreFresh, CacheIsFresh, TypedIsSent, Invalidated, Matches
  <1>2. CASE Home!HandleReset
    <2>1. /\ view' = [config |-> view.config, content |-> view.config]
          /\ hist' = [invalidations |-> hist.invalidations, stale |-> hist.stale,
                      typed |-> Home!Nothing, commands |-> hist.commands]
          /\ UNCHANGED <<server, net>>
      BY <1>2 DEF Home!HandleReset, HomeTypes
    <2> QED BY <2>1 DEF HomeTypes, ReadsAreFresh, CacheIsFresh, TypedIsSent, Invalidated, Matches
  <1>3. CASE \E text \in Text \cup {Blank} : Home!Type(text)
    <2>1. PICK text : Home!Type(text)
      BY <1>3
    <2>2. /\ view' = [config |-> view.config, content |-> text]
          /\ hist' = [invalidations |-> hist.invalidations, stale |-> hist.stale,
                      typed |-> IF Home!EditorWaits THEN Home!Nothing ELSE text,
                      commands |-> hist.commands]
          /\ UNCHANGED <<server, net>>
      BY <2>1 DEF Home!Type, HomeTypes
    <2>3. ~Home!EditorWaits => \A r \in DOMAIN net : r.kind \notin {"load", "save"}
      BY DEF Home!EditorWaits, Home!Awaited, Home!InFlight, Home!BagToSet
    <2> HIDE DEF HomeInv
    <2>4. TypedIsSent'
      BY <2>2, <2>3 DEF TypedIsSent
    <2> QED BY <2>2, <2>4
            DEF HomeInv, HomeTypes, ReadsAreFresh, CacheIsFresh, Invalidated, Matches
  <1>4. CASE Home!HandleSave \/ Home!Visit
    <2>1. PICK new : /\ new.stage = "sent" /\ net' = Home!Send(new)
                     /\ \/ new.kind = "save" /\ new.text = view.content
                        \/ new.kind = "visit"
      BY <1>4 DEF Home!HandleSave, Home!Visit, Home!Asks
    <2>2. DOMAIN net' = DOMAIN net \cup {new}
      BY <2>1, HomeSendAdds
    <2>3. /\ hist' = [invalidations |-> hist.invalidations, stale |-> hist.stale,
                      typed |-> hist.typed, commands |-> hist.commands + 1]
          /\ UNCHANGED <<server, view>>
      BY <1>4 DEF Home!HandleSave, Home!Visit, Home!Asks, Home!Counted, HomeTypes
    <2> QED BY <2>1, <2>2, <2>3
            DEF HomeTypes, ReadsAreFresh, CacheIsFresh, TypedIsSent, Invalidated, Matches
  <1> QED BY <1>1, <1>2, <1>3, <1>4

LEMMA HomeNext == HomeInv /\ Home!Next => HomeInv'
  BY EditInv, ServeInv, ReceiveInv DEF Home!Next, Home!InFlight, Home!BagToSet

-----------------------------------------------------------------------------
(* Logging in and out.                                                       *)

\* The tabs, and what each may come back with. A tab that is away has begun a login.
TabPlaces == {"mounting", "login", "admin", "away", "leaving", "saving", "clearing", "refused"}
TabUrls == {Session!Plain, Session!Error}
           \cup [kind : {"token"}, token : Session!Attempt, state : Session!Attempt]
Tabs == [at : TabPlaces, url : TabUrls,
         state : Session!Attempt \cup {Session!None}, pending : SUBSET Session!Attempt,
         config : BOOLEAN]
OwnTabs == {tab \in Tabs : tab.at = "away" => tab.state # Session!None}
SessionViews == [cookie : Session!Attempt \cup {Session!None}, user : BOOLEAN,
                 tabs : [Tab -> OwnTabs]]

SessionTypes ==
    /\ view \in SessionViews
    /\ hist = [token |-> hist.token, attempts |-> hist.attempts,
               commands |-> hist.commands]
    /\ \A r \in DOMAIN net :
           r = [kind |-> "call", stage |-> r.stage, tab |-> r.tab, token |-> r.token]

\* The user of the login that is kept is there, nobody is about to remove it, and
\* no call is on the way with another token: its refusal would clear the cookies.
LoginIsCarried ==
    hist.token # Session!None =>
        /\ view.cookie = hist.token
        /\ view.user
        /\ \A t \in Tab : view.tabs[t].at \notin {"clearing", "refused"}
        /\ \A r \in DOMAIN net : r.token = hist.token

SessionInv == SessionTypes /\ LoginIsCarried

LEMMA SessionInit == Session!Init => SessionInv
  <1>1. Session!Init => view \in SessionViews
    BY DEF Session!Init, Session!NewTab, SessionViews, OwnTabs, Tabs, TabUrls, TabPlaces
  <1> QED BY <1>1 DEF Session!Init, SessionInv, SessionTypes, LoginIsCarried,
                      Session!EmptyBag, Session!SetToBag

\* One tab changes at a time.
LEMMA TabReplaced ==
    ASSUME view \in SessionViews, NEW t \in Tab, NEW next \in OwnTabs
    PROVE  /\ [view.tabs EXCEPT ![t] = next] \in [Tab -> OwnTabs]
           /\ [view.tabs EXCEPT ![t] = next][t] = next
           /\ \A u \in Tab \ {t} : [view.tabs EXCEPT ![t] = next][u] = view.tabs[u]
  BY DEF SessionViews

LEMMA TabMoved ==
    ASSUME view \in SessionViews, NEW t \in Tab, NEW place \in TabPlaces \ {"away"}
    PROVE  /\ [view.tabs EXCEPT ![t].at = place] \in [Tab -> OwnTabs]
           /\ [view.tabs EXCEPT ![t].at = place][t].at = place
           /\ \A u \in Tab \ {t} : [view.tabs EXCEPT ![t].at = place][u] = view.tabs[u]
  <1> DEFINE next == [view.tabs[t] EXCEPT !.at = place]
  <1>1. next \in OwnTabs /\ next.at = place
    BY DEF SessionViews, OwnTabs, Tabs
  <1>2. [view.tabs EXCEPT ![t].at = place] = [view.tabs EXCEPT ![t] = next]
    OBVIOUS
  <1> HIDE DEF next
  <1> QED BY <1>1, <1>2, TabReplaced

\* A page that is loaded is the admin if both cookies are there.
LEMMA LoadedView ==
    ASSUME view \in SessionViews, NEW t \in Tab, NEW url \in TabUrls,
           NEW w, w = Session!CheckAuth(t, Session!Mounted(t, url))
    PROVE  /\ w \in SessionViews /\ w.user = view.user
           /\ w.cookie = IF view.user THEN view.cookie ELSE Session!None
           /\ view.user => w.tabs[t].at \notin {"clearing", "refused"}
           /\ \A u \in Tab \ {t} : w.tabs[u].at = view.tabs[u].at
  <1> DEFINE next == [at |-> view.tabs[t].at, url |-> url, state |-> view.tabs[t].state,
                      pending |-> view.tabs[t].pending, config |-> FALSE]
             tabs == [view.tabs EXCEPT ![t] = next]
             place == IF view.cookie = Session!None THEN "mounting"
                      ELSE IF view.user THEN "admin" ELSE "clearing"
             last == [next EXCEPT !.at = place]
  <1>1. /\ w = [cookie |-> IF view.user THEN view.cookie ELSE Session!None,
                user |-> view.user, tabs |-> [tabs EXCEPT ![t].at = place]]
    BY DEF Session!CheckAuth, Session!Mounted
  <1>2. last \in OwnTabs /\ last.at = place
    BY DEF SessionViews, OwnTabs, Tabs, TabPlaces
  <1>3. [tabs EXCEPT ![t].at = place] = [view.tabs EXCEPT ![t] = last]
    <2>1. view.tabs \in [Tab -> OwnTabs]
      BY DEF SessionViews
    <2> HIDE DEF place
    <2> QED BY <2>1
  <1>4. place \notin {"clearing", "refused"} \/ ~view.user
    OBVIOUS
  <1>5. w = [cookie |-> IF view.user THEN view.cookie ELSE Session!None,
             user |-> view.user, tabs |-> [view.tabs EXCEPT ![t] = last]]
    BY <1>1, <1>3
  <1> HIDE DEF last, place, tabs, next
  <1> DEFINE moved == [view.tabs EXCEPT ![t] = last]
  <1>6. /\ moved \in [Tab -> OwnTabs] /\ moved[t].at = place
        /\ \A u \in Tab \ {t} : moved[u].at = view.tabs[u].at
    BY <1>2, TabReplaced
  <1>7. /\ view.cookie \in Session!Attempt \cup {Session!None}
        /\ view.user \in BOOLEAN
    BY DEF SessionViews
  <1> HIDE DEF moved
  <1>8. w.tabs = moved /\ w = [cookie |-> w.cookie, user |-> view.user, tabs |-> moved]
        /\ w.cookie = IF view.user THEN view.cookie ELSE Session!None
    BY <1>5 DEF moved
  <1> QED BY <1>4, <1>6, <1>7, <1>8 DEF SessionViews

LEMMA LoadedInv ==
    ASSUME SessionInv, NEW t \in Tab, NEW url \in TabUrls, Session!Loaded(t, url)
    PROVE  SessionInv'
  <1> USE DEF SessionInv
  <1>1. /\ view' = Session!CheckAuth(t, Session!Mounted(t, url))
        /\ DOMAIN net' \subseteq DOMAIN net /\ hist' = hist
    BY DEF Session!Loaded, Session!InFlight, Session!BagToSet
  <1>2. /\ view' \in SessionViews /\ view'.user = view.user
        /\ view'.cookie = IF view.user THEN view.cookie ELSE Session!None
        /\ view.user => view'.tabs[t].at \notin {"clearing", "refused"}
        /\ \A u \in Tab \ {t} : view'.tabs[u].at = view.tabs[u].at
    BY <1>1, LoadedView DEF SessionTypes
  <1>3. SessionTypes'
    BY <1>1, <1>2 DEF SessionTypes
  <1>4. LoginIsCarried'
    BY <1>1, <1>2 DEF LoginIsCarried
  <1> QED BY <1>3, <1>4

\* What an action of one tab may do to the view.
LEMMA ViewMoved ==
    ASSUME view \in SessionViews, NEW t \in Tab, NEW next \in OwnTabs,
           NEW cookie \in Session!Attempt \cup {Session!None}, NEW user \in BOOLEAN,
           view' = [cookie |-> cookie, user |-> user,
                    tabs |-> [view.tabs EXCEPT ![t] = next]]
    PROVE  /\ view' \in SessionViews
           /\ view'.cookie = cookie /\ view'.user = user
           /\ view'.tabs[t].at = next.at
           /\ \A u \in Tab \ {t} : view'.tabs[u].at = view.tabs[u].at
  <1> DEFINE moved == [view.tabs EXCEPT ![t] = next]
  <1>1. /\ moved \in [Tab -> OwnTabs] /\ moved[t] = next
        /\ \A u \in Tab \ {t} : moved[u] = view.tabs[u]
    BY TabReplaced
  <1>2. view' = [cookie |-> cookie, user |-> user, tabs |-> moved]
    OBVIOUS
  <1> HIDE DEF moved
  <1> QED BY <1>1, <1>2 DEF SessionViews

\* The steps between the two cookies.
LEMMA CookieInv ==
    ASSUME SessionInv, NEW t \in Tab,
           Session!CheckURLParams(t) \/ Session!SaveUser(t) \/ Session!RemoveUser(t)
    PROVE  SessionInv'
  <1> USE DEF SessionInv
  <1>0. /\ view \in SessionViews /\ view.tabs[t] \in OwnTabs
        /\ view.cookie \in Session!Attempt \cup {Session!None} /\ view.user \in BOOLEAN
    BY DEF SessionTypes, SessionViews
  <1>1. CASE Session!CheckURLParams(t)
    <2> DEFINE tab == view.tabs[t]
               own == tab.url.kind = "token" /\ tab.url.state = tab.state
               next == [at |-> IF own THEN "saving" ELSE "login", url |-> Session!Plain,
                        state |-> IF tab.url.kind = "token" THEN Session!None ELSE tab.state,
                        pending |-> tab.pending, config |-> tab.config]
               cookie == IF own THEN tab.url.token ELSE view.cookie
    <2>1. /\ view' = [cookie |-> cookie, user |-> view.user,
                      tabs |-> [view.tabs EXCEPT ![t] = next]]
          /\ hist' = [token |-> IF own THEN Session!None ELSE hist.token,
                      attempts |-> hist.attempts, commands |-> hist.commands]
          /\ net' = net
      BY <1>1 DEF Session!CheckURLParams, SessionTypes
    <2>2. next \in OwnTabs /\ next.at \notin {"clearing", "refused"}
      BY <1>0 DEF OwnTabs, Tabs, TabUrls, TabPlaces
    <2>3. cookie \in Session!Attempt \cup {Session!None} /\ (~own => cookie = view.cookie)
      BY <1>0 DEF OwnTabs, Tabs, TabUrls, Session!Plain, Session!Error
    <2> HIDE DEF next, own, cookie
    <2>4. /\ view' \in SessionViews /\ view'.cookie = cookie /\ view'.user = view.user
          /\ view'.tabs[t].at = next.at
          /\ \A u \in Tab \ {t} : view'.tabs[u].at = view.tabs[u].at
      BY <1>0, <2>1, <2>2, <2>3, ViewMoved
    <2> QED BY <2>1, <2>2, <2>3, <2>4 DEF SessionTypes, LoginIsCarried
  <1>2. CASE Session!SaveUser(t)
    <2> DEFINE kept == IF Session!InFlight # {} \/ Session!Clearing THEN Session!None
                       ELSE view.cookie
    <2>1. /\ view' = [cookie |-> view.cookie, user |-> TRUE,
                      tabs |-> [view.tabs EXCEPT ![t].at = "admin"]]
          /\ hist' = [token |-> kept, attempts |-> hist.attempts, commands |-> hist.commands]
          /\ net' = net
      BY <1>2 DEF Session!SaveUser, SessionTypes
    <2>2. kept # Session!None =>
              /\ kept = view.cookie /\ DOMAIN net = {}
              /\ \A u \in Tab : view.tabs[u].at \notin {"clearing", "refused"}
      BY DEF Session!InFlight, Session!BagToSet, Session!Clearing, Session!At
    <2> HIDE DEF kept
    <2>3. /\ view' \in SessionViews /\ view'.cookie = view.cookie /\ view'.user = TRUE
          /\ view'.tabs[t].at = "admin"
          /\ \A u \in Tab \ {t} : view'.tabs[u].at = view.tabs[u].at
      <3> DEFINE next == [view.tabs[t] EXCEPT !.at = "admin"]
      <3>1. next \in OwnTabs /\ next.at = "admin"
        BY <1>0 DEF OwnTabs, Tabs, TabPlaces
      <3>2. view' = [cookie |-> view.cookie, user |-> TRUE,
                     tabs |-> [view.tabs EXCEPT ![t] = next]]
        BY <2>1
      <3> HIDE DEF next
      <3> QED BY <1>0, <3>1, <3>2, ViewMoved
    <2> QED BY <2>1, <2>2, <2>3 DEF SessionTypes, LoginIsCarried
  <1>3. CASE Session!RemoveUser(t)
    <2> DEFINE place == IF Session!At(t, "refused") THEN "leaving" ELSE "mounting"
               next == [view.tabs[t] EXCEPT !.at = place]
    <2>1. /\ view' = [cookie |-> view.cookie, user |-> FALSE,
                      tabs |-> [view.tabs EXCEPT ![t] = next]]
          /\ UNCHANGED <<net, hist>>
          /\ view.tabs[t].at \in {"clearing", "refused"}
      BY <1>3 DEF Session!RemoveUser, Session!At
    <2>2. next \in OwnTabs
      BY <1>0 DEF OwnTabs, Tabs, TabPlaces
    <2> HIDE DEF next
    <2>3. view' \in SessionViews
      BY <1>0, <2>1, <2>2, ViewMoved
    <2>4. hist.token = Session!None
      BY <2>1 DEF LoginIsCarried
    <2> QED BY <2>1, <2>3, <2>4 DEF SessionTypes, LoginIsCarried
  <1> QED BY <1>1, <1>2, <1>3

LEMMA ExpiryInv ==
    ASSUME SessionInv, Session!TokenCookieExpires \/ Session!UserCookieExpires
    PROVE  SessionInv'
  <1>1. /\ hist' = [token |-> Session!None, attempts |-> hist.attempts,
                    commands |-> hist.commands]
        /\ net' = net
    BY DEF Session!TokenCookieExpires, Session!UserCookieExpires, SessionInv, SessionTypes
  <1>2. view' \in SessionViews
    BY DEF Session!TokenCookieExpires, Session!UserCookieExpires, SessionInv, SessionTypes,
           SessionViews
  <1> QED BY <1>1, <1>2 DEF SessionInv, SessionTypes, LoginIsCarried

LEMMA TabInv ==
    ASSUME SessionInv, NEW t \in Tab,
           \/ Session!LoadOAuthConfig(t) \/ Session!HandleLogin(t)
           \/ Session!HandleLogout(t) \/ Session!AuthenticatedFetch(t)
    PROVE  SessionInv'
  <1> USE DEF SessionInv
  <1>0. /\ view \in SessionViews /\ view.tabs[t] \in OwnTabs
        /\ view = [cookie |-> view.cookie, user |-> view.user, tabs |-> view.tabs]
        /\ view.cookie \in Session!Attempt \cup {Session!None} /\ view.user \in BOOLEAN
    BY DEF SessionTypes, SessionViews
  <1>1. CASE Session!LoadOAuthConfig(t)
    <2> DEFINE next == [view.tabs[t] EXCEPT !.config = TRUE]
    <2>1. /\ view' = [cookie |-> view.cookie, user |-> view.user,
                      tabs |-> [view.tabs EXCEPT ![t] = next]]
          /\ UNCHANGED <<net, hist>>
      BY <1>0, <1>1 DEF Session!LoadOAuthConfig
    <2>2. next \in OwnTabs /\ next.at = view.tabs[t].at
      BY <1>0 DEF OwnTabs, Tabs
    <2> HIDE DEF next
    <2>3. /\ view' \in SessionViews /\ view'.cookie = view.cookie /\ view'.user = view.user
          /\ \A u \in Tab : view'.tabs[u].at = view.tabs[u].at
      BY <1>0, <2>1, <2>2, ViewMoved
    <2> QED BY <2>1, <2>3 DEF SessionTypes, LoginIsCarried
  <1>2. CASE Session!HandleLogin(t)
    <2> DEFINE s == hist.attempts + 1
               next == [at |-> "away", url |-> view.tabs[t].url, state |-> s,
                        pending |-> view.tabs[t].pending \cup {s}, config |-> TRUE]
    <2>1. /\ view' = [cookie |-> view.cookie, user |-> view.user,
                      tabs |-> [view.tabs EXCEPT ![t] = next]]
          /\ s \in Session!Attempt
      BY <1>0, <1>2 DEF Session!HandleLogin
    <2>2. s # Session!None
      <3> HIDE DEF s
      <3> QED BY <2>1, AttemptsAssumption DEF Session!Attempt, Session!None
    <2>3. hist' = [token |-> hist.token, attempts |-> s, commands |-> hist.commands]
      BY <1>2 DEF Session!HandleLogin, SessionTypes
    <2>4. DOMAIN net' \subseteq DOMAIN net
      BY <1>2 DEF Session!HandleLogin, Session!InFlight, Session!BagToSet
    <2> HIDE DEF s
    <2>5. next \in OwnTabs /\ next.at = "away"
      BY <1>0, <2>1, <2>2 DEF OwnTabs, Tabs, TabPlaces
    <2> HIDE DEF next
    <2>6. /\ view' \in SessionViews /\ view'.cookie = view.cookie /\ view'.user = view.user
          /\ view'.tabs[t].at = "away"
          /\ \A u \in Tab \ {t} : view'.tabs[u].at = view.tabs[u].at
      BY <1>0, <2>1, <2>5, ViewMoved
    <2> QED BY <2>3, <2>4, <2>6 DEF SessionTypes, LoginIsCarried
  <1>3. CASE Session!HandleLogout(t)
    <2>1. PICK url \in {view.tabs[t].url, Session!Plain} :
              view' = [cookie |-> Session!None, user |-> view.user,
                       tabs |-> [view.tabs EXCEPT ![t] =
                                    [at |-> "clearing", url |-> url,
                                     state |-> view.tabs[t].state,
                                     pending |-> view.tabs[t].pending, config |-> FALSE]]]
      BY <1>3 DEF Session!HandleLogout
    <2> DEFINE next == [at |-> "clearing", url |-> url, state |-> view.tabs[t].state,
                        pending |-> view.tabs[t].pending, config |-> FALSE]
    <2>2. next \in OwnTabs
      BY <1>0, <2>1 DEF OwnTabs, Tabs, TabUrls, TabPlaces
    <2> HIDE DEF next
    <2>3. view' = [cookie |-> Session!None, user |-> view.user,
                   tabs |-> [view.tabs EXCEPT ![t] = next]]
      BY <2>1 DEF next
    <2>4. view' \in SessionViews
      BY <1>0, <2>2, <2>3, ViewMoved
    <2>5. /\ hist' = [token |-> Session!None, attempts |-> hist.attempts,
                      commands |-> hist.commands]
          /\ net' = net
      BY <1>3 DEF Session!HandleLogout, SessionTypes
    <2> QED BY <2>4, <2>5 DEF SessionTypes, LoginIsCarried
  <1>4. CASE Session!AuthenticatedFetch(t)
    <2> DEFINE new == [kind |-> "call", stage |-> "sent", tab |-> t, token |-> view.cookie]
    <2>1. DOMAIN net' = DOMAIN net \cup {new}
      BY <1>4 DEF Session!AuthenticatedFetch, Session!Send, Session!BagAdd
    <2>2. /\ new.token = view.cookie
          /\ new = [kind |-> "call", stage |-> new.stage, tab |-> new.tab,
                    token |-> new.token]
      OBVIOUS
    <2> HIDE DEF new
    <2>3. /\ hist' = [token |-> hist.token, attempts |-> hist.attempts,
                      commands |-> hist.commands + 1]
          /\ view' = view
      BY <1>4 DEF Session!AuthenticatedFetch, Session!Counted, SessionTypes
    <2> QED BY <2>1, <2>2, <2>3 DEF SessionTypes, LoginIsCarried
  <1> QED BY <1>1, <1>2, <1>3, <1>4

LEMMA CallInv ==
    ASSUME SessionInv, NEW r \in DOMAIN net,
           Session!RequireAuth(r) \/ Session!Answered(r) \/ Session!Refused(r)
    PROVE  SessionInv'
  <1> USE DEF SessionInv
  <1>1. CASE Session!RequireAuth(r)
    <2>1. PICK stage : net' = Session!Turn(r, [r EXCEPT !.stage = stage])
      BY <1>1 DEF Session!RequireAuth
    <2> DEFINE new == [r EXCEPT !.stage = stage]
    <2>2. DOMAIN net' \subseteq DOMAIN net \cup {new}
      BY <2>1 DEF Session!Turn, Session!Done, Session!BagAdd, Session!BagRemove
    <2>3. /\ new = [kind |-> "call", stage |-> new.stage, tab |-> new.tab,
                    token |-> new.token]
          /\ new.token = r.token
      BY DEF SessionTypes
    <2> HIDE DEF new
    <2>4. UNCHANGED <<view, hist>>
      BY <1>1 DEF Session!RequireAuth
    <2> QED BY <2>2, <2>3, <2>4 DEF SessionTypes, LoginIsCarried
  <1>2. CASE Session!Answered(r)
    <2>1. DOMAIN net' \subseteq DOMAIN net /\ UNCHANGED <<view, hist>>
      BY <1>2 DEF Session!Answered, Session!Done, Session!BagRemove
    <2> QED BY <2>1 DEF SessionTypes, LoginIsCarried
  <1>3. CASE Session!Refused(r)
    <2>1. DOMAIN net' \subseteq DOMAIN net
      BY <1>3 DEF Session!Refused, Session!Done, Session!BagRemove
    <2>2. hist' = [token |-> IF r.token = hist.token THEN Session!None ELSE hist.token,
                   attempts |-> hist.attempts, commands |-> hist.commands]
      BY <1>3 DEF Session!Refused, SessionTypes
    <2>3. hist'.token = Session!None
      BY <2>2 DEF LoginIsCarried
    <2>4. view' \in SessionViews
      <3> DEFINE next == [view.tabs[r.tab] EXCEPT !.at = "refused"]
      <3>1. view' = [cookie |-> Session!None, user |-> view.user,
                     tabs |-> [view.tabs EXCEPT ![r.tab] = next]]
        BY <1>3 DEF Session!Refused
      <3>2. CASE r.tab \in Tab
        <4>1. next \in OwnTabs /\ view.user \in BOOLEAN /\ view \in SessionViews
          BY <3>2 DEF SessionTypes, SessionViews, OwnTabs, Tabs, TabPlaces
        <4> HIDE DEF next
        <4> QED BY <3>1, <3>2, <4>1, ViewMoved
      <3>3. CASE r.tab \notin Tab
        <4>1. [view.tabs EXCEPT ![r.tab] = next] = view.tabs
          BY <3>3 DEF SessionTypes, SessionViews
        <4> HIDE DEF next
        <4> QED BY <3>1, <4>1 DEF SessionTypes, SessionViews
      <3> QED BY <3>2, <3>3
    <2> QED BY <2>1, <2>2, <2>3, <2>4 DEF SessionTypes, LoginIsCarried
  <1> QED BY <1>1, <1>2, <1>3

LEMMA SessionNext == SessionInv /\ Session!Next => SessionInv'
  <1> SUFFICES ASSUME SessionInv, Session!Next PROVE SessionInv'
    OBVIOUS
  <1>1. ASSUME NEW t \in Tab,
               \/ Session!Open(t) \/ Session!GoBack(t)
               \/ \E s \in Session!Attempt : Session!HandleOAuthCallback(t, s)
        PROVE  SessionInv'
    <2>1. PICK url \in TabUrls : Session!Loaded(t, url)
      BY <1>1 DEF Session!Open, Session!GoBack, Session!HandleOAuthCallback, TabUrls
    <2> QED BY <2>1, LoadedInv
  <1>2. ASSUME NEW token, Session!TokenExpires(token) PROVE SessionInv'
    BY <1>2 DEF Session!TokenExpires, SessionInv, SessionTypes, LoginIsCarried
  <1> QED BY <1>1, <1>2, TabInv, CallInv, CookieInv, ExpiryInv
          DEF Session!Next, Session!InFlight, Session!BagToSet

\* The texts of the editor, and of the requests about them. What the text area
\* has besides what was typed is what the editor takes for stored, so that the
\* default of the visitors is never saved.
HomeTexts ==
    /\ server.row \in Text \cup {Blank, Home!Missing}
    /\ server.cache \in Text \cup {Blank, Intro, Home!NotCached}
    /\ view.config \in Text \cup {Blank, Intro}
    /\ view.content \in Text \cup {Blank} \/ view.content = view.config
    /\ \A r \in DOMAIN net :
           /\ r.kind \in Home!Reads /\ r.stage \in {"read", "ok"} =>
                  r.value \in Text \cup {Blank, Intro}
           /\ r.kind = "save" /\ r.stage # "failed" => r.text \in Text \cup {Blank}

LEMMA TextsInit == Home!Init => HomeTexts
  <1> SUFFICES ASSUME Home!Init PROVE HomeTexts
    OBVIOUS
  <1>1. DOMAIN net = {[kind |-> "load", stage |-> "sent"]}
    BY DEF Home!Init, Home!SetToBag
  <1>2. (CHOOSE t \in Text : TRUE) \in Text
    BY TextAssumption
  <1> QED BY <1>1, <1>2 DEF Home!Init, HomeTexts

LEMMA TextsTurned ==
    ASSUME HomeTexts, NEW r, NEW new, net' = Home!Turn(r, new), UNCHANGED view,
           server'.row \in Text \cup {Blank, Home!Missing},
           server'.cache \in Text \cup {Blank, Intro, Home!NotCached},
           new.kind \in Home!Reads /\ new.stage \in {"read", "ok"} =>
               new.value \in Text \cup {Blank, Intro},
           new.kind = "save" /\ new.stage # "failed" => new.text \in Text \cup {Blank}
    PROVE  HomeTexts'
  <1>1. DOMAIN net' \subseteq DOMAIN net \cup {new}
    BY HomeTurnIsTurned DEF Turned
  <1> QED BY <1>1 DEF HomeTexts

LEMMA TextsServed ==
    ASSUME HomeTypes, HomeTexts, NEW r \in DOMAIN net, Home!Serve(r) \/ Home!Fails(r)
    PROVE  HomeTexts'
  <1> USE DEF Home!Serve
  <1>1. CASE Home!GetCached(r)
    <2> DEFINE new == [kind |-> r.kind, stage |-> "ok", value |-> server.cache]
    <2>1. net' = Home!Turn(r, new)
      BY <1>1 DEF Home!GetCached, Home!Answer
    <2>2. new.kind = r.kind /\ r.kind # "save" /\ new.value \in Text \cup {Blank, Intro}
      BY <1>1 DEF Home!GetCached, Home!Reads, HomeTexts
    <2>3. UNCHANGED <<server, view>>
      BY <1>1 DEF Home!GetCached, Home!Fails
    <2> HIDE DEF new
    <2> QED BY <2>1, <2>2, <2>3, TextsTurned DEF HomeTexts
  <1>2. CASE Home!ReadRow(r)
    <2> DEFINE new == [kind |-> r.kind, stage |-> "read", since |-> hist.invalidations,
                       value |-> IF server.row = Home!Missing THEN Home!DefaultOf(r.kind)
                                 ELSE server.row]
    <2>1. net' = Home!Turn(r, new)
      BY <1>2 DEF Home!ReadRow
    <2>2. new.kind = r.kind /\ r.kind # "save" /\ new.value \in Text \cup {Blank, Intro}
      BY <1>2 DEF Home!ReadRow, Home!Reads, Home!DefaultOf, HomeTexts
    <2>3. UNCHANGED <<server, view>>
      BY <1>2 DEF Home!ReadRow, Home!Fails
    <2> HIDE DEF new
    <2> QED BY <2>1, <2>2, <2>3, TextsTurned DEF HomeTexts
  <1>3. CASE Home!ReadFails(r)
    <2> DEFINE new == [kind |-> r.kind, stage |-> "ok", value |-> Home!DefaultOf(r.kind)]
    <2>1. net' = Home!Turn(r, new)
      BY <1>3 DEF Home!ReadFails, Home!Answer
    <2>2. new.kind = r.kind /\ r.kind # "save" /\ new.value \in Text \cup {Blank, Intro}
      BY <1>3 DEF Home!ReadFails, Home!Reads, Home!DefaultOf, HomeTexts
    <2>3. UNCHANGED <<server, view>>
      BY <1>3 DEF Home!ReadFails, Home!Fails
    <2> HIDE DEF new
    <2> QED BY <2>1, <2>2, <2>3, TextsTurned DEF HomeTexts
  <1>4. CASE Home!CacheConfig(r)
    <2> DEFINE new == [kind |-> r.kind, stage |-> "ok", value |-> r.value]
    <2>1. net' = Home!Turn(r, new)
      BY <1>4 DEF Home!CacheConfig, Home!Answer
    <2>2. new.kind = r.kind /\ r.kind # "save" /\ new.value \in Text \cup {Blank, Intro}
      BY <1>4 DEF Home!CacheConfig, Home!Reads, HomeTexts, HomeTypes
    <2>3. view' = view /\ server'.row = server.row /\ server'.cache = new.value
      <3>1. server = [row |-> server.row, cache |-> server.cache]
        BY DEF HomeTypes
      <3> QED BY <1>4, <3>1 DEF Home!CacheConfig, Home!Fails
    <2> HIDE DEF new
    <2> QED BY <2>1, <2>2, <2>3, TextsTurned DEF HomeTexts
  <1>5. CASE Home!FindRow(r)
    <2> DEFINE new == [kind |-> "save", stage |-> "found", text |-> r.text,
                       new |-> server.row = Home!Missing]
    <2>1. net' = Home!Turn(r, new)
      BY <1>5 DEF Home!FindRow
    <2>2. new.kind = "save" /\ new.text \in Text \cup {Blank}
      BY <1>5 DEF Home!FindRow, HomeTexts
    <2>3. UNCHANGED <<server, view>> /\ "save" \notin Home!Reads
      BY <1>5 DEF Home!FindRow, Home!Fails, Home!Reads
    <2> HIDE DEF new
    <2> QED BY <2>1, <2>2, <2>3, TextsTurned DEF HomeTexts
  <1>6. ASSUME net' = Home!Failed(r), UNCHANGED <<server, view>> PROVE HomeTexts'
    <2> DEFINE new == [kind |-> r.kind, stage |-> "failed"]
    <2>1. net' = Home!Turn(r, new) /\ new.stage = "failed"
      BY <1>6 DEF Home!Failed
    <2> HIDE DEF new
    <2> QED BY <1>6, <2>1, TextsTurned DEF HomeTexts
  <1>7. ASSUME r.stage = "found", server' = [server EXCEPT !.row = r.text], UNCHANGED view,
               net' = Home!Turn(r, [kind |-> "save", stage |-> "written", text |-> r.text])
        PROVE  HomeTexts'
    <2> DEFINE new == [kind |-> "save", stage |-> "written", text |-> r.text]
    <2>1. net' = Home!Turn(r, new)
      BY <1>7
    <2>2. new.kind = "save" /\ new.text \in Text \cup {Blank} /\ r.text \in Text \cup {Blank}
      BY <1>7 DEF HomeTexts, HomeTypes
    <2>3. server'.row = r.text /\ server'.cache = server.cache /\ "save" \notin Home!Reads
      <3>1. server = [row |-> server.row, cache |-> server.cache]
        BY DEF HomeTypes
      <3> QED BY <1>7, <3>1 DEF Home!Reads
    <2> HIDE DEF new
    <2> QED BY <1>7, <2>1, <2>2, <2>3, TextsTurned DEF HomeTexts
  <1>8. CASE Home!InvalidateConfigCache(r)
    <2> DEFINE new == [r EXCEPT !.stage = "ok"]
    <2>1. net' = Home!Turn(r, new)
      BY <1>8 DEF Home!InvalidateConfigCache
    <2>2. new.kind = "save" /\ new.text \in Text \cup {Blank}
      <3>1. r = [kind |-> "save", stage |-> "written", text |-> r.text]
        BY <1>8 DEF Home!InvalidateConfigCache, HomeTypes
      <3>2. r.text \in Text \cup {Blank}
        BY <3>1 DEF HomeTexts
      <3> QED BY <3>1, <3>2
    <2>3. /\ view' = view /\ server'.row = server.row /\ server'.cache = Home!NotCached
          /\ "save" \notin Home!Reads
      <3>1. server = [row |-> server.row, cache |-> server.cache]
        BY DEF HomeTypes
      <3> QED BY <1>8, <3>1 DEF Home!InvalidateConfigCache, Home!Reads, Home!Fails
    <2> HIDE DEF new
    <2> QED BY <2>1, <2>2, <2>3, TextsTurned DEF HomeTexts
  <1> QED BY <1>1, <1>2, <1>3, <1>4, <1>5, <1>6, <1>7, <1>8 DEF Home!Fails, Home!WriteRow

LEMMA TextsNext == HomeTypes /\ HomeTexts /\ Home!Next => HomeTexts'
  <1> SUFFICES ASSUME HomeTypes, HomeTexts, Home!Next PROVE HomeTexts'
    OBVIOUS
  <1>0. /\ server = [row |-> server.row, cache |-> server.cache]
        /\ view = [config |-> view.config, content |-> view.content]
    BY DEF HomeTypes
  <1>1. CASE Home!Expire
    BY <1>0, <1>1 DEF Home!Expire, HomeTexts
  <1>2. CASE Home!HandleReset
    BY <1>0, <1>2 DEF Home!HandleReset, HomeTexts
  <1>3. ASSUME NEW text \in Text \cup {Blank}, Home!Type(text) PROVE HomeTexts'
    BY <1>0, <1>3 DEF Home!Type, HomeTexts
  <1>4. CASE Home!Visit
    <2> DEFINE new == [kind |-> "visit", stage |-> "sent"]
    <2>1. net' = Home!Send(new) /\ UNCHANGED <<server, view>>
      BY <1>4 DEF Home!Visit, Home!Asks
    <2>2. DOMAIN net' = DOMAIN net \cup {new}
      BY <2>1, HomeSendAdds
    <2> QED BY <2>1, <2>2 DEF HomeTexts
  <1>5. CASE Home!HandleSave
    <2> DEFINE new == [kind |-> "save", stage |-> "sent", text |-> view.content]
    <2>1. net' = Home!Send(new) /\ UNCHANGED <<server, view>>
      BY <1>5 DEF Home!HandleSave, Home!Asks
    <2>2. DOMAIN net' = DOMAIN net \cup {new}
      BY <2>1, HomeSendAdds
    <2>3. view.content \in Text \cup {Blank}
      BY <1>5 DEF Home!HandleSave, Home!HasChanges, HomeTexts
    <2> QED BY <2>1, <2>2, <2>3 DEF HomeTexts, Home!Reads
  <1>6. ASSUME NEW r \in DOMAIN net, Home!Receive(r) PROVE HomeTexts'
    <2>1. net' = Home!Done(r)
      BY <1>6 DEF Home!Receive, Home!LoadHomeConfig, Home!UpdateHomeConfig, Home!Visited
    <2>2. DOMAIN net' \subseteq DOMAIN net
      BY <2>1, HomeDoneRemoves
    <2>3. server' = server
      BY <1>6 DEF Home!Receive
    <2>4. \/ UNCHANGED view
          \/ /\ view'.config \in Text \cup {Blank, Intro}
             /\ view'.content = view'.config
      BY <1>6 DEF Home!Receive, Home!LoadHomeConfig, Home!UpdateHomeConfig, Home!Visited,
                  Home!SetHomeConfig, Home!Reads, HomeTexts
    <2> QED BY <2>2, <2>3, <2>4 DEF HomeTexts
  <1> QED BY <1>1, <1>2, <1>3, <1>4, <1>5, <1>6, TextsServed
          DEF Home!Next, Home!InFlight, Home!BagToSet

-----------------------------------------------------------------------------
(* The public home page.                                                     *)

PublicTypes ==
    /\ server = [content |-> server.content, called |-> server.called,
                 endpoints |-> server.endpoints]
    /\ server.content \in {Blank, "text"}
    /\ view = [outcome |-> view.outcome, arrived |-> view.arrived,
               section |-> view.section, copying |-> view.copying,
               mark |-> view.mark, timers |-> view.timers]
    /\ view.outcome \in [Public!Fetches -> {"waiting", "ok", "failed"}]
    /\ view.arrived \in BOOLEAN /\ view.timers \in Nat
    /\ hist = [commands |-> hist.commands] /\ hist.commands \in Nat

\* The sections are what the answers gave, which do not change any more.
SectionsCame ==
    IF view.arrived
    THEN /\ \A f \in Public!Fetches : view.outcome[f] # "waiting"
         /\ view.section =
                [content |-> IF ~Public!Got("content") THEN "default"
                             ELSE IF server.content = Blank THEN "starting"
                             ELSE server.content,
                 cards |-> [p \in Public!VisibleEndpoints |-> Public!Card(p)],
                 metrics |-> Public!Got("metrics"), clock |-> Public!Got("service")]
    ELSE view.section = Public!Nothing

\* A card that is marked, or will be, is on the page, and a mark has a timer;
\* each command sets one timer at most.
MarksHaveTimers ==
    /\ IsFiniteSet(view.copying) /\ view.copying \subseteq DOMAIN view.section.cards
    /\ DOMAIN view.section.cards \subseteq Path
    /\ view.mark # Blank => view.timers > 0 /\ view.mark \in DOMAIN view.section.cards
    /\ view.timers + Cardinality(view.copying) <= hist.commands
    /\ hist.commands <= Commands.public

PublicInv == PublicTypes /\ SectionsCame /\ MarksHaveTimers

LEMMA PublicInit == Public!Init => PublicInv
  <1> SUFFICES ASSUME Public!Init PROVE PublicInv
    OBVIOUS
  <1> USE DEF Public!Init
  <1>1. PublicTypes
    BY DEF PublicTypes
  <1>2. SectionsCame
    BY DEF SectionsCame
  <1>3. MarksHaveTimers
    <2>1. DOMAIN <<>> = {}
      OBVIOUS
    <2>2. /\ view.copying = {} /\ view.timers = 0 /\ hist.commands = 0 /\ view.mark = Blank
          /\ view.section.cards = <<>>
      BY DEF Public!Nothing
    <2> QED BY <2>1, <2>2, FS_EmptySet, CommandsAssumption DEF MarksHaveTimers
  <1> QED BY <1>1, <1>2, <1>3 DEF PublicInv

LEMMA PublicNext == PublicInv /\ Public!Next => PublicInv'
  <1> SUFFICES ASSUME PublicInv, Public!Next PROVE PublicInv'
    OBVIOUS
  <1> USE DEF PublicInv
  <1>1. ASSUME NEW f \in Public!Fetches, Public!Answer(f) PROVE PublicInv'
    <2>1. PICK outcome \in {"ok", "failed"} : view' = [view EXCEPT !.outcome[f] = outcome]
      BY <1>1 DEF Public!Answer
    <2>2. /\ view' = [outcome |-> [view.outcome EXCEPT ![f] = outcome],
                      arrived |-> view.arrived, section |-> view.section,
                      copying |-> view.copying, mark |-> view.mark, timers |-> view.timers]
          /\ UNCHANGED <<server, net, hist>> /\ view.outcome[f] = "waiting"
      BY <1>1, <2>1 DEF Public!Answer, PublicTypes
    <2>3. PublicTypes'
      BY <2>2 DEF PublicTypes
    <2>4. ~view.arrived
      BY <2>2 DEF SectionsCame
    <2> QED BY <2>2, <2>3, <2>4 DEF SectionsCame, MarksHaveTimers
  <1>2. CASE Public!LoadData
    <2> DEFINE new == [content |-> IF ~Public!Got("content") THEN "default"
                                   ELSE IF server.content = Blank THEN "starting"
                                   ELSE server.content,
                       cards |-> [p \in Public!VisibleEndpoints |-> Public!Card(p)],
                       metrics |-> Public!Got("metrics"), clock |-> Public!Got("service")]
    <2>1. /\ view' = [outcome |-> view.outcome, arrived |-> TRUE, section |-> new,
                      copying |-> view.copying, mark |-> view.mark, timers |-> view.timers]
          /\ UNCHANGED <<server, net, hist>> /\ ~view.arrived
          /\ \A f \in Public!Fetches : view.outcome[f] # "waiting"
      BY <1>2 DEF Public!LoadData, PublicTypes
    <2>2. PublicTypes'
      BY <2>1 DEF PublicTypes
    <2>3. SectionsCame'
      BY <2>1 DEF SectionsCame, Public!Got, Public!VisibleEndpoints, Public!Card
    <2>4. MarksHaveTimers'
      <3>1. view.section.cards = <<>> /\ DOMAIN <<>> = {}
        BY <2>1 DEF SectionsCame, Public!Nothing
      <3>2. new.cards = [p \in Public!VisibleEndpoints |-> Public!Card(p)]
        OBVIOUS
      <3>3. DOMAIN new.cards \subseteq Path
        BY <3>2 DEF Public!VisibleEndpoints
      <3> HIDE DEF new
      <3> QED BY <2>1, <3>1, <3>3 DEF MarksHaveTimers
    <2> QED BY <2>2, <2>3, <2>4
  <1>3. ASSUME NEW p \in Path, Public!HandleCopyUrl(p) PROVE PublicInv'
    <2>1. /\ view' = [outcome |-> view.outcome, arrived |-> view.arrived,
                      section |-> view.section, copying |-> view.copying \cup {p},
                      mark |-> view.mark, timers |-> view.timers]
          /\ hist' = [commands |-> hist.commands + 1] /\ hist.commands < Commands.public
          /\ p \in DOMAIN view.section.cards \ view.copying /\ UNCHANGED <<server, net>>
      BY <1>3 DEF Public!HandleCopyUrl, Public!Counted, PublicTypes
    <2>2. /\ Cardinality(view.copying \cup {p}) = Cardinality(view.copying) + 1
          /\ IsFiniteSet(view.copying \cup {p}) /\ Cardinality(view.copying) \in Nat
      BY <2>1, FS_AddElement, FS_CardinalityType DEF MarksHaveTimers
    <2>3. PublicTypes'
      BY <2>1 DEF PublicTypes
    <2>4. SectionsCame'
      BY <2>1 DEF SectionsCame, Public!Got, Public!VisibleEndpoints, Public!Card
    <2>5. MarksHaveTimers'
      BY <2>1, <2>2, CommandsAssumption DEF MarksHaveTimers, PublicTypes
    <2> QED BY <2>3, <2>4, <2>5
  <1>4. ASSUME NEW p \in Path, Public!Copied(p) PROVE PublicInv'
    <2>1. /\ view' = [outcome |-> view.outcome, arrived |-> view.arrived,
                      section |-> view.section, copying |-> view.copying \ {p},
                      mark |-> view'.mark, timers |-> view'.timers]
          /\ \/ view'.mark = p /\ view'.timers = view.timers + 1
             \/ view'.mark = view.mark /\ view'.timers = view.timers
      <3>1. CASE view' = [view EXCEPT !.copying = @ \ {p}, !.mark = p, !.timers = @ + 1]
        BY <3>1 DEF PublicTypes
      <3>2. CASE view' = [view EXCEPT !.copying = @ \ {p}]
        BY <3>2 DEF PublicTypes
      <3> QED BY <1>4, <3>1, <3>2 DEF Public!Copied
    <2>2. p \in view.copying /\ UNCHANGED <<server, net, hist>>
      BY <1>4 DEF Public!Copied
    <2>3. /\ Cardinality(view.copying \ {p}) = Cardinality(view.copying) - 1
          /\ IsFiniteSet(view.copying \ {p}) /\ Cardinality(view.copying) \in Nat
      BY <2>2, FS_RemoveElement, FS_CardinalityType DEF MarksHaveTimers
    <2>4. PublicTypes'
      BY <2>1, <2>2 DEF PublicTypes
    <2>5. SectionsCame'
      BY <2>1, <2>2 DEF SectionsCame, Public!Got, Public!VisibleEndpoints, Public!Card
    <2>6. MarksHaveTimers'
      <3>1. view'.section = view.section /\ view'.copying = view.copying \ {p}
        BY <2>1
      <3> QED BY <2>1, <2>2, <2>3, <3>1 DEF MarksHaveTimers, PublicTypes
    <2> QED BY <2>4, <2>5, <2>6
  <1>5. CASE Public!MarkGoes
    <2>1. /\ view' = [outcome |-> view.outcome, arrived |-> view.arrived,
                      section |-> view.section, copying |-> view.copying,
                      mark |-> Blank, timers |-> view.timers - 1]
          /\ view.timers > 0 /\ UNCHANGED <<server, net, hist>>
      BY <1>5 DEF Public!MarkGoes, PublicTypes
    <2>2. PublicTypes'
      BY <2>1 DEF PublicTypes
    <2>3. SectionsCame'
      BY <2>1 DEF SectionsCame, Public!Got, Public!VisibleEndpoints, Public!Card
    <2>4. MarksHaveTimers'
      BY <2>1, FS_CardinalityType DEF MarksHaveTimers, PublicTypes
    <2> QED BY <2>2, <2>3, <2>4
  <1> QED BY <1>1, <1>2, <1>3, <1>4, <1>5 DEF Public!Next

\* What a visitor gets to see.
LEMMA PublicComplete == PublicInv => Public!HomeIsComplete
  <1> SUFFICES ASSUME PublicInv PROVE Public!HomeIsComplete
    OBVIOUS
  <1> USE DEF PublicInv
  <1>1. ASSUME view.arrived
        PROVE  /\ view.section.content # Blank
               /\ view.section.cards = [p \in Public!VisibleEndpoints |-> Public!Card(p)]
    BY <1>1, BlankAssumption DEF SectionsCame, PublicTypes
  <1>2. ASSUME view.arrived, Public!Got("endpoints"), NEW p \in Path
        PROVE  server.endpoints[p] = "shown" <=> p \in DOMAIN view.section.cards
    BY <1>1, <1>2 DEF Public!VisibleEndpoints
  <1>3. ASSUME view.arrived, NEW p \in DOMAIN view.section.cards
        PROVE  view.section.cards[p].calls = 0 <=> ~(Public!Got("stats") /\ p \in server.called)
    BY <1>1, <1>3 DEF Public!Card
  <1> QED BY <1>1, <1>2, <1>3 DEF Public!HomeIsComplete, MarksHaveTimers

-----------------------------------------------------------------------------
(* The form of a data source.                                                *)

FormText == OneText \cup {Blank}
FormPair == [key : Key \cup {Blank}, value : FormText]
FormPairs == Seq(FormPair)
\* What an object of headers may be written as, and read from.
FormObjects ==
    {p \in FormPairs : /\ \A i \in DOMAIN p : Form!Complete(p[i])
                       /\ \A i, j \in DOMAIN p : p[i].key = p[j].key => i = j}
FormHeaders == {p \in FormObjects : \A i \in DOMAIN p : Form!Tidy(p[i]) = p[i]}

Place(at, n) == CHOOSE i \in at : Cardinality({j \in at : j < i}) = n - 1

LEMMA FormFilter ==
    ASSUME NEW list, NEW at
    PROVE  Form!Filter(list, at) = [n \in 1..Cardinality(at) |-> list[Place(at, n)]]
  <1>1. \A T : Form!Cardinality(T) = Cardinality(T)
    BY DEF Form!Cardinality, Cardinality
  <1>2. \A n : Place(at, n) = CHOOSE i \in at : Form!Cardinality({j \in at : j < i}) = n - 1
    BY <1>1 DEF Place
  <1>3. Form!Filter(list, at) =
            [n \in 1..Form!Cardinality(at) |->
                list[CHOOSE i \in at : Form!Cardinality({j \in at : j < i}) = n - 1]]
    BY DEF Form!Filter
  <1> QED BY <1>1, <1>2, <1>3

\* Whole numbers, but not to be taken for numbers by the provers at once.
Ints(S) == S \subseteq Int

LEMMA IntRanks ==
    ASSUME NEW S, IsFiniteSet(S), Ints(S)
    PROVE  /\ \A e \in S : Cardinality({d \in S : d < e}) \in 0..Cardinality(S) - 1
           /\ \A a, b \in S :
                  Cardinality({d \in S : d < a}) = Cardinality({d \in S : d < b}) => a = b
           /\ \A i \in 1..Cardinality(S) : \E e \in S : Cardinality({d \in S : d < e}) = i - 1
  <1> DEFINE R == {p \in S \X S : p[1] < p[2]}
  <1>1. \A e \in S : e \in Int
    BY DEF Ints
  <1>2. \A a, b \in S : <<a, b>> \in R <=> a < b
    OBVIOUS
  <1> HIDE DEF R
  <1>3. \A e \in S : Cardinality({d \in S : d < e}) = Rank(e, S, R)
    <2> SUFFICES ASSUME NEW e \in S PROVE Cardinality({d \in S : d < e}) = Rank(e, S, R)
      OBVIOUS
    <2>1. {d \in S : <<d, e>> \in R} = {d \in S : d < e}
      BY <1>2
    <2> QED BY <2>1 DEF Rank
  <1>4. \A a \in S : <<a, a>> \notin R
    BY <1>1, <1>2
  <1>5. \A a, b \in S : a # b => <<a, b>> \in R \/ <<b, a>> \in R
    BY <1>1, <1>2
  <1>6. \A a, b, c \in S : <<a, b>> \in R /\ <<b, c>> \in R => <<a, c>> \in R
    BY <1>1, <1>2
  <1>7. /\ \A e \in S : Rank(e, S, R) \in 0..Cardinality(S) - 1
        /\ \A a, b \in S : Rank(a, S, R) = Rank(b, S, R) => a = b
        /\ \A i \in 1..Cardinality(S) : \E e \in S : Rank(e, S, R) = i - 1
    BY <1>4, <1>5, <1>6, Ranks
  <1> QED BY <1>3, <1>7

LEMMA Places ==
    ASSUME NEW m \in Nat, NEW at, at \subseteq 1..m
    PROVE  /\ Cardinality(at) \in Nat
           /\ \A n \in 1..Cardinality(at) : Place(at, n) \in at
           /\ \A n, l \in 1..Cardinality(at) : Place(at, n) = Place(at, l) => n = l
           /\ \A i \in at : \E n \in 1..Cardinality(at) : Place(at, n) = i
  <1> DEFINE k == Cardinality(at)
             before(i) == Cardinality({j \in at : j < i})
  <1>1. IsFiniteSet(at) /\ k \in Nat /\ Ints(at)
    <2>1. IsFiniteSet(1..m)
      BY FS_Interval
    <2>2. IsFiniteSet(at)
      BY <2>1, FS_Subset
    <2>3. Ints(at)
      BY DEF Ints
    <2> QED BY <2>2, <2>3, FS_CardinalityType
  <1>2. /\ \A i \in at : before(i) \in 0..k - 1
        /\ \A a, b \in at : before(a) = before(b) => a = b
        /\ \A n \in 1..k : \E i \in at : before(i) = n - 1
    BY <1>1, IntRanks
  <1>3. \A n \in 1..k : Place(at, n) \in at /\ before(Place(at, n)) = n - 1
    <2> SUFFICES ASSUME NEW n \in 1..k
                 PROVE  Place(at, n) \in at /\ before(Place(at, n)) = n - 1
      OBVIOUS
    <2>1. \E i \in at : before(i) = n - 1
      BY <1>2
    <2> QED BY <2>1 DEF Place
  <1> HIDE DEF before, k
  <1>4. \A n, l \in 1..k : Place(at, n) = Place(at, l) => n = l
    BY <1>1, <1>3
  <1>5. \A i \in at : \E n \in 1..k : Place(at, n) = i
    <2> SUFFICES ASSUME NEW i \in at PROVE \E n \in 1..k : Place(at, n) = i
      OBVIOUS
    <2>1. before(i) + 1 \in 1..k /\ before(i) = (before(i) + 1) - 1
      BY <1>1, <1>2
    <2>2. before(Place(at, before(i) + 1)) = before(i) /\ Place(at, before(i) + 1) \in at
      BY <1>3, <2>1
    <2> QED BY <1>2, <2>1, <2>2
  <1> QED BY <1>1, <1>3, <1>4, <1>5 DEF k

LEMMA AllPlaces ==
    ASSUME NEW m \in Nat
    PROVE  Cardinality(1..m) = m /\ \A n \in 1..m : Place(1..m, n) = n
  <1>1. Cardinality(1..m) = m
    BY FS_Interval
  <1>2. ASSUME NEW i \in 1..m PROVE Cardinality({j \in 1..m : j < i}) = i - 1
    <2>1. {j \in 1..m : j < i} = 1..i - 1 /\ i - 1 \in Nat
      OBVIOUS
    <2>2. \A n \in Nat : Cardinality(1..n) = n
      BY FS_Interval
    <2> QED BY <2>1, <2>2
  <1>3. ASSUME NEW n \in 1..m PROVE Place(1..m, n) = n
    <2>1. \A i \in 1..m : Cardinality({j \in 1..m : j < i}) = n - 1 <=> i = n
      BY <1>2
    <2> QED BY <2>1 DEF Place
  <1> QED BY <1>1, <1>3

\* Filtering gives the list at the places chosen, each once.
LEMMA Filters ==
    ASSUME NEW S, NEW list \in Seq(S), NEW at, at \subseteq DOMAIN list
    PROVE  /\ Form!Filter(list, at) \in Seq(S)
           /\ Form!Filter(list, at) = [n \in 1..Cardinality(at) |-> list[Place(at, n)]]
           /\ Cardinality(at) \in Nat
           /\ \A n \in 1..Cardinality(at) : Place(at, n) \in at
           /\ \A n, l \in 1..Cardinality(at) : Place(at, n) = Place(at, l) => n = l
           /\ \A i \in at : \E n \in 1..Cardinality(at) : Place(at, n) = i
  <1>1. Len(list) \in Nat /\ DOMAIN list = 1..Len(list) /\ \A i \in DOMAIN list : list[i] \in S
    OBVIOUS
  <1>2. /\ Cardinality(at) \in Nat
        /\ \A n \in 1..Cardinality(at) : Place(at, n) \in at
        /\ \A n, l \in 1..Cardinality(at) : Place(at, n) = Place(at, l) => n = l
        /\ \A i \in at : \E n \in 1..Cardinality(at) : Place(at, n) = i
    BY <1>1, Places
  <1>3. [n \in 1..Cardinality(at) |-> list[Place(at, n)]] \in Seq(S)
    BY <1>1, <1>2
  <1> QED BY <1>2, <1>3, FormFilter

LEMMA FilterAll ==
    ASSUME NEW S, NEW list \in Seq(S)
    PROVE  Form!Filter(list, DOMAIN list) = list
  <1> DEFINE m == Len(list)
  <1>1. m \in Nat /\ DOMAIN list = 1..m /\ list = [n \in 1..m |-> list[n]]
    OBVIOUS
  <1> HIDE DEF m
  <1>2. Cardinality(1..m) = m /\ \A n \in 1..m : Place(1..m, n) = n
    BY <1>1, AllPlaces
  <1> QED BY <1>1, <1>2, FormFilter

LEMMA NonBlanks ==
    ASSUME NEW list \in Seq(FormText)
    PROVE  /\ Form!NonBlank(list) \in Seq(FormText)
           /\ Form!NonBlank(Form!NonBlank(list)) = Form!NonBlank(list)
           /\ Form!NonBlank(Append(list, Blank)) = Form!NonBlank(list)
           /\ Form!NonBlank(Form!AtLeastOne(list, Blank)) = Form!NonBlank(list)
  <1> DEFINE at(s) == {i \in DOMAIN s : Trim[s[i]] # Blank}
             q == Form!NonBlank(list)
  <1>1. \A s : Form!NonBlank(s) = Form!Filter(s, at(s))
    BY DEF Form!NonBlank
  <1>2. /\ q \in Seq(FormText)
        /\ q = [n \in 1..Cardinality(at(list)) |-> list[Place(at(list), n)]]
        /\ \A n \in 1..Cardinality(at(list)) : Place(at(list), n) \in at(list)
    <2>1. at(list) \subseteq DOMAIN list
      OBVIOUS
    <2> HIDE DEF at
    <2> QED BY <1>1, <2>1, Filters
  <1>3. at(q) = DOMAIN q
    <2>1. \A n \in DOMAIN q : Trim[q[n]] # Blank
      BY <1>2
    <2> HIDE DEF q
    <2> QED BY <2>1
  <1>4. Form!NonBlank(q) = q
    <2> HIDE DEF q
    <2>1. Form!Filter(q, at(q)) = q
      <3> HIDE DEF at
      <3> QED BY <1>2, <1>3, FilterAll
    <2> QED BY <1>1, <2>1
  <1>5. ASSUME NEW more, more = Append(list, Blank)
        PROVE  Form!NonBlank(more) = q
    <2>1. /\ DOMAIN more = 1..Len(list) + 1 /\ Len(list) \in Nat /\ DOMAIN list = 1..Len(list)
          /\ more[Len(list) + 1] = Blank /\ \A i \in DOMAIN list : more[i] = list[i]
      BY <1>5
    <2>2. at(more) = at(list)
      BY <2>1, TrimAssumption
    <2>3. Form!Filter(more, at(list)) = Form!Filter(list, at(list))
      <3>1. \A n \in 1..Cardinality(at(list)) :
                more[Place(at(list), n)] = list[Place(at(list), n)]
        BY <1>2, <2>1
      <3> HIDE DEF at
      <3> QED BY <3>1, FormFilter
    <2> QED BY <1>1, <2>2, <2>3
  <1>6. Form!NonBlank(Form!AtLeastOne(list, Blank)) = q
    <2>1. CASE list = <<>>
      <3>1. <<Blank>> = Append(<<>>, Blank)
        OBVIOUS
      <3> QED BY <1>5, <2>1, <3>1 DEF Form!AtLeastOne
    <2>2. CASE list # <<>>
      BY <2>2 DEF Form!AtLeastOne
    <2> QED BY <2>1, <2>2
  <1> QED BY <1>2, <1>4, <1>5, <1>6

\* The complete rows of a name, in a list of headers.
Named(list, k) == {i \in DOMAIN list : Form!Complete(list[i]) /\ list[i].key = k}
FirstRows(list) ==
    {i \in DOMAIN list : /\ i \in Named(list, list[i].key)
                         /\ \A j \in Named(list, list[i].key) : i <= j}
LastRow(list, k) == CHOOSE i \in Named(list, k) : \A j \in Named(list, k) : j <= i

LEMMA ObjectIs ==
    ASSUME NEW list
    PROVE  Form!Object(list) =
               [n \in DOMAIN Form!Filter(list, FirstRows(list)) |->
                   list[LastRow(list, Form!Filter(list, FirstRows(list))[n].key)]]
  BY DEF Form!Object, Named, FirstRows, LastRow

LEMMA LastIsNamed ==
    ASSUME NEW list \in FormPairs, NEW k, Named(list, k) # {}
    PROVE  LastRow(list, k) \in Named(list, k) /\ \A j \in Named(list, k) : j <= LastRow(list, k)
  <1> DEFINE m == Len(list)
             T == {m - i : i \in Named(list, k)}
  <1>1. m \in Nat /\ \A i \in Named(list, k) : i \in 1..m
    BY DEF Named, FormPairs
  <1> HIDE DEF m
  <1>2. T \in SUBSET Nat /\ T # {}
    BY <1>1
  <1>3. PICK n \in T : \A x \in T : n <= x
    <2> HIDE DEF T
    <2> QED BY <1>2, Smallest
  <1>4. PICK i \in Named(list, k) : n = m - i
    BY <1>3
  <1>5. \A j \in Named(list, k) : j <= i
    <2> SUFFICES ASSUME NEW j \in Named(list, k) PROVE j <= i
      OBVIOUS
    <2>1. n <= m - j
      BY <1>3
    <2> QED BY <1>1, <1>4, <2>1
  <1> QED BY <1>4, <1>5 DEF LastRow

LEMMA FirstIsNamed ==
    ASSUME NEW list \in FormPairs, NEW k, Named(list, k) # {}
    PROVE  \E i \in FirstRows(list) : list[i].key = k
  <1>1. Named(list, k) \in SUBSET Nat
    BY DEF Named, FormPairs
  <1>2. PICK i \in Named(list, k) : \A j \in Named(list, k) : i <= j
    BY <1>1, Smallest
  <1>3. i \in DOMAIN list /\ list[i].key = k
    BY DEF Named
  <1> QED BY <1>2, <1>3 DEF FirstRows

\* The rows of an object are complete and each of another name, and of the name
\* of a complete row there is one.
LEMMA ObjectsFit ==
    ASSUME NEW list \in FormPairs
    PROVE  /\ Form!Object(list) \in FormObjects
           /\ \A n \in DOMAIN Form!Object(list) :
                 \E l \in DOMAIN list : Form!Object(list)[n] = list[l]
           /\ \A i \in DOMAIN list : Form!Complete(list[i]) =>
                 \E n \in DOMAIN Form!Object(list), l \in DOMAIN list :
                     Form!Object(list)[n] = list[l] /\ list[l].key = list[i].key
  <1> DEFINE f == Form!Filter(list, FirstRows(list))
             h == Form!Object(list)
             c == Cardinality(FirstRows(list))
  <1>0. /\ Len(list) \in Nat /\ DOMAIN list = 1..Len(list)
        /\ \A i \in DOMAIN list : list[i] \in FormPair
    BY DEF FormPairs
  <1>1. /\ f \in FormPairs /\ f = [n \in 1..c |-> list[Place(FirstRows(list), n)]] /\ c \in Nat
        /\ \A n \in 1..c : Place(FirstRows(list), n) \in FirstRows(list)
        /\ \A n, l \in 1..c : Place(FirstRows(list), n) = Place(FirstRows(list), l) => n = l
        /\ \A i \in FirstRows(list) : \E n \in 1..c : Place(FirstRows(list), n) = i
    <2>1. FirstRows(list) \subseteq DOMAIN list
      BY DEF FirstRows
    <2> QED BY <2>1, Filters DEF FormPairs
  <1>2. h = [n \in 1..c |-> list[LastRow(list, f[n].key)]]
    <2>1. DOMAIN f = 1..c
      BY <1>1
    <2> HIDE DEF f
    <2> QED BY <2>1, ObjectIs DEF f
  <1>3. ASSUME NEW n \in 1..c
        PROVE  /\ f[n] = list[Place(FirstRows(list), n)] /\ Named(list, f[n].key) # {}
               /\ Place(FirstRows(list), n) \in Named(list, f[n].key)
               /\ \A j \in Named(list, f[n].key) : Place(FirstRows(list), n) <= j
    BY <1>1 DEF FirstRows
  <1> HIDE DEF f, h, c
  <1>4. ASSUME NEW n \in 1..c
        PROVE  /\ LastRow(list, f[n].key) \in DOMAIN list /\ h[n] = list[LastRow(list, f[n].key)]
               /\ Form!Complete(h[n]) /\ h[n].key = f[n].key
    <2>1. LastRow(list, f[n].key) \in Named(list, f[n].key)
      BY <1>3, LastIsNamed
    <2>2. h[n] = list[LastRow(list, f[n].key)]
      BY <1>2
    <2> QED BY <2>1, <2>2 DEF Named
  <1>5. ASSUME NEW n \in 1..c, NEW l \in 1..c, h[n].key = h[l].key
        PROVE  n = l
    <2> DEFINE a == Place(FirstRows(list), n)
               b == Place(FirstRows(list), l)
    <2>1. f[n].key = f[l].key
      BY <1>4, <1>5
    <2>2. a \in Named(list, f[n].key) /\ b \in Named(list, f[n].key) /\ a <= b /\ b <= a
      BY <1>3, <2>1
    <2>3. a \in Nat /\ b \in Nat
      BY <1>0, <2>2 DEF Named
    <2>4. a = b
      <3> HIDE DEF a, b
      <3> QED BY <2>2, <2>3
    <2> QED BY <1>1, <2>4
  <1>6. h \in FormObjects
    <2>1. \A n \in 1..c : h[n] \in FormPair
      BY <1>0, <1>4
    <2>2. h = [n \in 1..c |-> h[n]]
      BY <1>2
    <2>3. h \in Seq(FormPair) /\ DOMAIN h = 1..c
      BY <1>1, <2>1, <2>2
    <2> QED BY <1>4, <1>5, <2>3 DEF FormObjects, FormPairs
  <1>7. ASSUME NEW i \in DOMAIN list, Form!Complete(list[i])
        PROVE  \E n \in DOMAIN h, l \in DOMAIN list : h[n] = list[l] /\ list[l].key = list[i].key
    <2>1. i \in Named(list, list[i].key)
      BY <1>7 DEF Named
    <2>2. PICK d \in FirstRows(list) : list[d].key = list[i].key
      BY <2>1, FirstIsNamed
    <2>3. PICK n \in 1..c : Place(FirstRows(list), n) = d
      BY <1>1
    <2>4. f[n].key = list[i].key
      BY <1>3, <2>2, <2>3
    <2>5. n \in DOMAIN h
      BY <1>2
    <2> QED BY <1>4, <2>4, <2>5
  <1>8. \A n \in DOMAIN h : \E l \in DOMAIN list : h[n] = list[l]
    BY <1>2, <1>4
  <1> QED BY <1>6, <1>7, <1>8 DEF h

\* What is an object stays as it is.
LEMMA ObjectsStay ==
    ASSUME NEW list \in FormObjects PROVE Form!Object(list) = list
  <1> DEFINE m == Len(list)
  <1>1. list \in FormPairs /\ m \in Nat /\ DOMAIN list = 1..m
    BY DEF FormObjects, FormPairs
  <1>2. \A i \in DOMAIN list : Named(list, list[i].key) = {i}
    BY DEF FormObjects, Named
  <1>3. FirstRows(list) = DOMAIN list
    <2>1. \A i \in DOMAIN list : i <= i
      BY <1>1
    <2> QED BY <1>2, <2>1 DEF FirstRows
  <1>4. Form!Filter(list, FirstRows(list)) = list
    BY <1>1, <1>3, FilterAll DEF FormPairs
  <1>5. \A i \in DOMAIN list : LastRow(list, list[i].key) = i
    <2> SUFFICES ASSUME NEW i \in DOMAIN list PROVE LastRow(list, list[i].key) = i
      OBVIOUS
    <2>1. LastRow(list, list[i].key) \in Named(list, list[i].key)
      BY <1>1, <1>2, LastIsNamed
    <2> QED BY <1>2, <2>1
  <1>6. list = [n \in DOMAIN list |-> list[n]]
    BY <1>1 DEF FormPairs
  <1> HIDE DEF m
  <1> QED BY <1>4, <1>5, <1>6, ObjectIs

\* A blank row changes no object.
LEMMA BlankObjects ==
    ASSUME NEW list \in FormPairs
    PROVE  /\ Append(list, Form!NoPair) \in FormPairs
           /\ Form!Object(Append(list, Form!NoPair)) = Form!Object(list)
  <1> DEFINE Blanked(s) == Append(s, Form!NoPair)
  <1>0. Form!NoPair \in FormPair /\ ~Form!Complete(Form!NoPair)
    BY DEF Form!NoPair, FormPair, FormText, Form!Complete
  <1>1. ASSUME NEW s \in FormPairs, NEW more, more = Blanked(s)
        PROVE  more \in FormPairs /\ Form!Object(more) = Form!Object(s)
    <2>1. /\ more \in FormPairs /\ DOMAIN more = 1..Len(s) + 1 /\ Len(s) \in Nat
          /\ DOMAIN s = 1..Len(s) /\ more[Len(s) + 1] = Form!NoPair
          /\ \A i \in DOMAIN s : more[i] = s[i]
      BY <1>0, <1>1 DEF FormPairs
    <2> HIDE DEF Blanked
    <2>2. \A k : Named(more, k) = Named(s, k)
      BY <1>0, <2>1 DEF Named
    <2>3. FirstRows(more) = FirstRows(s)
      <3>1. ASSUME NEW i \in FirstRows(more) PROVE i \in FirstRows(s)
        <4>1. i \in Named(more, more[i].key)
          BY DEF FirstRows
        <4>2. i \in DOMAIN s /\ more[i] = s[i]
          BY <2>1, <2>2, <4>1 DEF Named
        <4> QED BY <2>2, <4>2 DEF FirstRows
      <3>2. ASSUME NEW i \in FirstRows(s) PROVE i \in FirstRows(more)
        <4>1. i \in DOMAIN more /\ more[i] = s[i]
          BY <2>1 DEF FirstRows
        <4> QED BY <2>2, <4>1 DEF FirstRows
      <3> QED BY <3>1, <3>2
    <2>4. FirstRows(s) \subseteq DOMAIN s
      BY DEF FirstRows
    <2>5. /\ Cardinality(FirstRows(s)) \in Nat
          /\ \A n \in 1..Cardinality(FirstRows(s)) : Place(FirstRows(s), n) \in FirstRows(s)
          /\ Form!Filter(s, FirstRows(s)) = [n \in 1..Cardinality(FirstRows(s)) |-> s[Place(FirstRows(s), n)]]
      BY <2>4, Filters DEF FormPairs
    <2>6. Form!Filter(more, FirstRows(more)) = Form!Filter(s, FirstRows(s))
      <3>1. \A n \in 1..Cardinality(FirstRows(s)) : more[Place(FirstRows(s), n)] = s[Place(FirstRows(s), n)]
        BY <2>1, <2>4, <2>5
      <3> QED BY <2>3, <2>5, <3>1, FormFilter
    <2>7. \A k : LastRow(more, k) = LastRow(s, k)
      BY <2>2 DEF LastRow
    <2>8. ASSUME NEW n \in DOMAIN Form!Filter(s, FirstRows(s))
          PROVE  LET k == Form!Filter(s, FirstRows(s))[n].key IN more[LastRow(s, k)] = s[LastRow(s, k)]
      <3> DEFINE k == Form!Filter(s, FirstRows(s))[n].key
      <3>1. n \in 1..Cardinality(FirstRows(s)) /\ Form!Filter(s, FirstRows(s))[n] = s[Place(FirstRows(s), n)]
        BY <2>5
      <3>2. Place(FirstRows(s), n) \in Named(s, k)
        BY <2>5, <3>1 DEF FirstRows
      <3> HIDE DEF k
      <3>3. LastRow(s, k) \in DOMAIN s
        <4>1. LastRow(s, k) \in Named(s, k)
          BY <3>2, LastIsNamed
        <4> QED BY <4>1 DEF Named
      <3> QED BY <2>1, <3>3 DEF k
    <2> QED BY <2>1, <2>6, <2>7, <2>8, ObjectIs
  <1> QED BY <1>1

LEMMA TidyPairs ==
    ASSUME NEW list \in FormPairs
    PROVE  /\ Form!Tidied(list) \in FormPairs
           /\ \A i \in DOMAIN list : Form!Tidied(list)[i] = Form!Tidy(list[i])
           /\ DOMAIN Form!Tidied(list) = DOMAIN list
           /\ \A i \in DOMAIN list : Form!Tidy(Form!Tidied(list)[i]) = Form!Tidied(list)[i]
  <1>1. /\ Len(list) \in Nat /\ DOMAIN list = 1..Len(list)
        /\ \A i \in DOMAIN list : list[i] \in FormPair
    BY DEF FormPairs
  <1>2. \A r \in FormPair : Form!Tidy(r) \in FormPair /\ Form!Tidy(Form!Tidy(r)) = Form!Tidy(r)
    BY TrimAssumption DEF FormPair, FormText, Form!Tidy
  <1>3. Form!Tidied(list) = [i \in 1..Len(list) |-> Form!Tidy(list[i])]
    BY <1>1 DEF Form!Tidied
  <1>4. Form!Tidied(list) \in FormPairs
    BY <1>1, <1>2, <1>3 DEF FormPairs
  <1> QED BY <1>1, <1>2, <1>3, <1>4

\* The headers written are those of an object, without blanks around them.
LEMMA HeadersFit ==
    ASSUME NEW list \in FormPairs
    PROVE  /\ Form!Headers(list) \in FormHeaders
           /\ \A i \in DOMAIN list : Form!Complete(Form!Tidy(list[i])) =>
                 \E n \in DOMAIN Form!Headers(list), l \in DOMAIN list :
                     /\ Form!Headers(list)[n] = Form!Tidy(list[l])
                     /\ Form!Tidy(list[l]).key = Form!Tidy(list[i]).key
  <1> DEFINE tidy == Form!Tidied(list)
             h == Form!Headers(list)
  <1>1. /\ tidy \in FormPairs /\ DOMAIN tidy = DOMAIN list
        /\ \A i \in DOMAIN list : tidy[i] = Form!Tidy(list[i]) /\ Form!Tidy(tidy[i]) = tidy[i]
    BY TidyPairs
  <1> HIDE DEF tidy
  <1>2. h = Form!Object(tidy)
    BY DEF Form!Headers, tidy
  <1> HIDE DEF h
  <1>3. /\ h \in FormObjects
        /\ \A n \in DOMAIN h : \E l \in DOMAIN tidy : h[n] = tidy[l]
        /\ \A i \in DOMAIN tidy : Form!Complete(tidy[i]) =>
              \E n \in DOMAIN h, l \in DOMAIN tidy : h[n] = tidy[l] /\ tidy[l].key = tidy[i].key
    BY <1>1, <1>2, ObjectsFit
  <1>4. h \in FormHeaders
    BY <1>1, <1>3 DEF FormHeaders
  <1>5. \A i \in DOMAIN list : Form!Complete(Form!Tidy(list[i])) =>
            \E n \in DOMAIN h, l \in DOMAIN list :
                h[n] = Form!Tidy(list[l]) /\ Form!Tidy(list[l]).key = Form!Tidy(list[i]).key
    BY <1>1, <1>3
  <1> QED BY <1>4, <1>5 DEF h

\* What was written is read, and written again, as it is.
LEMMA HeadersStay ==
    ASSUME NEW list \in FormHeaders
    PROVE  Form!Headers(list) = list /\ Form!Tidied(list) = list /\ list \in FormPairs
  <1>1. list \in FormObjects /\ list \in FormPairs
    BY DEF FormHeaders, FormObjects
  <1>2. Form!Tidied(list) = list
    <2>1. list = [i \in DOMAIN list |-> list[i]]
      BY <1>1 DEF FormPairs
    <2>2. \A i \in DOMAIN list : Form!Tidy(list[i]) = list[i]
      BY DEF FormHeaders
    <2> QED BY <2>1, <2>2 DEF Form!Tidied
  <1> QED BY <1>1, <1>2, ObjectsStay DEF Form!Headers

\* A blank row changes no headers.
LEMMA BlankHeaders ==
    ASSUME NEW list \in FormPairs
    PROVE  /\ Append(list, Form!NoPair) \in FormPairs
           /\ Form!Headers(Append(list, Form!NoPair)) = Form!Headers(list)
           /\ Form!Headers(Form!AtLeastOne(list, Form!NoPair)) = Form!Headers(list)
  <1>1. Append(list, Form!NoPair) \in FormPairs
    BY BlankObjects
  <1>2. Form!Headers(Append(list, Form!NoPair)) = Form!Headers(list)
    <2> DEFINE more == Append(list, Form!NoPair)
               tidy == Form!Tidied(list)
    <2>1. /\ Len(list) \in Nat /\ DOMAIN list = 1..Len(list) /\ DOMAIN more = 1..Len(list) + 1
          /\ more[Len(list) + 1] = Form!NoPair /\ \A i \in 1..Len(list) : more[i] = list[i]
      BY DEF FormPairs
    <2>2. /\ tidy \in FormPairs /\ Len(tidy) = Len(list) /\ DOMAIN tidy = 1..Len(list)
          /\ \A i \in 1..Len(list) : tidy[i] = Form!Tidy(list[i])
      <3>1. /\ tidy \in FormPairs /\ DOMAIN tidy = DOMAIN list
            /\ \A i \in DOMAIN list : tidy[i] = Form!Tidy(list[i])
        BY TidyPairs
      <3> HIDE DEF tidy
      <3> QED BY <2>1, <3>1 DEF FormPairs
    <2>3. Form!Tidy(Form!NoPair) = Form!NoPair
      BY TrimAssumption DEF Form!Tidy, Form!NoPair
    <2>4. Form!Tidied(more) = [i \in 1..Len(list) + 1 |-> Form!Tidy(more[i])]
      BY <2>1 DEF Form!Tidied
    <2> HIDE DEF more, tidy
    <2>5. \A i \in 1..Len(list) + 1 :
              Form!Tidy(more[i]) = IF i <= Len(list) THEN tidy[i] ELSE Form!NoPair
      BY <2>1, <2>2, <2>3
    <2> DEFINE longer == Append(tidy, Form!NoPair)
    <2>6. longer = [i \in 1..Len(list) + 1 |-> IF i <= Len(list) THEN tidy[i] ELSE Form!NoPair]
      <3>1. tidy \in Seq(FormPair) /\ Form!NoPair \in FormPair
        BY <2>2 DEF FormPairs, FormPair, FormText, Form!NoPair
      <3>2. /\ longer \in Seq(FormPair) /\ Len(longer) = Len(tidy) + 1
            /\ longer[Len(tidy) + 1] = Form!NoPair
            /\ \A i \in 1..Len(tidy) : longer[i] = tidy[i]
        BY <3>1
      <3> HIDE DEF longer
      <3>3. longer = [i \in 1..Len(list) + 1 |-> longer[i]]
        BY <2>2, <3>2
      <3>4. \A i \in 1..Len(list) + 1 :
                longer[i] = IF i <= Len(list) THEN tidy[i] ELSE Form!NoPair
        BY <2>1, <2>2, <3>2
      <3> QED BY <3>3, <3>4
    <2>7. Form!Tidied(more) = longer
      <3> HIDE DEF longer
      <3> QED BY <2>4, <2>5, <2>6
    <2>8. Form!Object(Append(tidy, Form!NoPair)) = Form!Object(tidy)
      BY <2>2, BlankObjects
    <2> QED BY <2>7, <2>8 DEF Form!Headers, more, tidy
  <1>3. Form!Headers(Form!AtLeastOne(list, Form!NoPair)) = Form!Headers(list)
    <2>1. <<Form!NoPair>> = Append(<<>>, Form!NoPair)
      OBVIOUS
    <2> QED BY <1>2, <2>1 DEF Form!AtLeastOne
  <1> QED BY <1>1, <1>2, <1>3

FormPlain == Seq(FormText)
\* The rows of a type, as its text and its inputs hold them.
RowsOf(family) == CASE family = "api" -> FormHeaders
                    [] family = "endpoint" -> Seq(Name)
                    [] OTHER -> FormPlain
FieldsOf(family) == [plain : FormText, method : {"GET", "POST"}, rows : RowsOf(family)]
FormLines == [of : {"lines", "links"}, rows : Seq({"link", "comment"})]
ConfigsOf(family) ==
    [of : {family}, plain : FormText, method : {"GET", "POST"}, rows : RowsOf(family)]
FormBare == {Form!Empty} \cup FormLines \cup UNION {ConfigsOf(f) : f \in Form!Families}
FormQuoted == [of : {"quoted"}, text : FormBare, times : Nat \ {0}]
FormConfigs == FormBare \cup FormQuoted
FormSources == [type : Form!Types, config : FormConfigs]
FormViews ==
    {v \in [mounted : BOOLEAN, editing : FormSources \cup {Form!NoSource}, type : Form!Types,
            config : FormConfigs, fields : [Form!Families -> UNION {FieldsOf(f) : f \in Form!Families}],
            pairs : FormPairs \ {<<>>}, inputs : FormPlain \ {<<>>}, tokens : SUBSET FormText,
            names : BOOLEAN] :
        \A f \in Form!Families : v.fields[f] \in FieldsOf(f)}

\* What a view shows is what its text says.
Showing(v) ==
    LET family == Form!Family[v.type]
        fields == Form!Read(v.config, v.type)
    IN  v.mounted /\ v.type # "manual" /\ Form!IsJSON(v.config) =>
            /\ v.fields[family].plain = fields.plain
            /\ family \in {"lankong", "endpoint"} => v.fields[family].rows = fields.rows
            /\ family = "api" => Form!Headers(v.pairs) = fields.rows
            /\ family = "s3" => Form!NonBlank(v.inputs) = Form!NonBlank(fields.rows)

FormInv ==
    /\ server \in [tokens : SUBSET FormText, sources : SUBSET FormSources]
    /\ view \in FormViews
    /\ Showing(view)

LEMMA FamilyTypes ==
    /\ Form!Types = {"manual", "lankong", "api_get", "api_post", "endpoint", "s3"}
    /\ \A t \in Form!Types : t # "manual" => Form!Family[t] \in Form!Families
    /\ \A t \in Form!Types : t = "manual" => Form!Family[t] = "lines"
  BY DEF Form!Types, Form!Family, Form!Families

LEMMA NoRows ==
    /\ <<>> \in FormHeaders /\ <<>> \in Seq(Name) /\ <<Blank>> \in FormPlain
    /\ <<Form!NoPair>> \in FormPairs /\ <<>> \in FormPlain
    /\ Form!NonBlank(<<Blank>>) = Form!NonBlank(<<>>)
    /\ Form!Headers(<<Form!NoPair>>) = <<>>
  <1>1. <<>> \in FormHeaders /\ <<>> \in FormPairs /\ <<>> \in FormPlain /\ <<>> \in Seq(Name)
    BY DEF FormHeaders, FormObjects, FormPairs, FormPlain
  <1>2. <<Blank>> = Append(<<>>, Blank) /\ <<Form!NoPair>> = Append(<<>>, Form!NoPair)
    OBVIOUS
  <1>3. <<Blank>> \in FormPlain
    BY DEF FormPlain, FormText
  <1>4. Form!NonBlank(<<Blank>>) = Form!NonBlank(<<>>)
    BY <1>1, <1>2, NonBlanks DEF FormPlain
  <1>5. /\ <<Form!NoPair>> \in FormPairs
        /\ Form!Headers(<<Form!NoPair>>) = Form!Headers(<<>>)
    BY <1>1, <1>2, BlankHeaders
  <1>6. Form!Headers(<<>>) = <<>>
    BY <1>1, HeadersStay
  <1> QED BY <1>1, <1>3, <1>4, <1>5, <1>6

LEMMA DefaultTypes ==
    ASSUME NEW f \in Form!Families, NEW t \in Form!Types
    PROVE  Form!Default(f, t) \in FieldsOf(f)
  <1>1. Blank \in FormText /\ Form!MethodOf(t) \in {"GET", "POST"}
    BY DEF FormText, Form!MethodOf
  <1>2. (IF f = "lankong" THEN <<Blank>> ELSE <<>>) \in RowsOf(f)
    BY NoRows DEF RowsOf, Form!Families
  <1> HIDE DEF RowsOf
  <1> QED BY <1>1, <1>2 DEF Form!Default, FieldsOf

LEMMA ReadTypes ==
    ASSUME NEW c \in FormConfigs, NEW t \in Form!Types, t # "manual"
    PROVE  Form!Read(c, t) \in FieldsOf(Form!Family[t])
  <1> DEFINE f == Form!Family[t]
  <1>1. f \in Form!Families
    BY FamilyTypes
  <1> HIDE DEF f
  <1>2. CASE c.of # f
    BY <1>1, <1>2, DefaultTypes DEF Form!Read, f
  <1>3. CASE c.of = f
    <2>1. c \in ConfigsOf(f)
      BY <1>1, <1>3 DEF FormConfigs, FormBare, FormQuoted, FormLines, Form!Empty,
                        Form!Families, ConfigsOf
    <2>2. c.plain \in FormText /\ c.method \in {"GET", "POST"} /\ c.rows \in RowsOf(f)
      BY <2>1 DEF ConfigsOf
    <2>3. (IF f = "s3" THEN Form!AtLeastOne(c.rows, Blank) ELSE c.rows) \in RowsOf(f)
      BY <2>2, NoRows DEF Form!AtLeastOne, RowsOf
    <2>4. Form!Read(c, t) = [plain |-> c.plain, method |-> c.method,
              rows |-> IF f = "s3" THEN Form!AtLeastOne(c.rows, Blank) ELSE c.rows]
      BY <1>3 DEF Form!Read, f
    <2> QED BY <2>2, <2>3, <2>4 DEF FieldsOf, f
  <1> QED BY <1>2, <1>3 DEF f

\* Whatever the form had, after the effect it shows what the text says.
LEMMA ReadBackShows ==
    ASSUME NEW v \in FormViews
    PROVE  Form!ReadBack(v) \in FormViews /\ Showing(Form!ReadBack(v))
  <1> DEFINE f == Form!Family[v.type]
             fields == Form!Read(v.config, v.type)
             read == [v EXCEPT !.fields[f] = fields]
             w == Form!ReadBack(v)
  <1>1. CASE ~Form!IsJSON(v.config) \/ v.type = "manual"
    BY <1>1 DEF Form!ReadBack, Showing
  <1>2. CASE Form!IsJSON(v.config) /\ v.type # "manual"
    <2>1. v.type \in Form!Types /\ f \in Form!Families /\ fields \in FieldsOf(f)
      BY <1>2, FamilyTypes, ReadTypes DEF FormViews
    <2>2. fields.rows \in RowsOf(f)
      BY <2>1 DEF FieldsOf
    <2> HIDE DEF f, fields
    <2>3. /\ read \in FormViews /\ read.fields[f] = fields
          /\ read.type = v.type /\ read.config = v.config
      BY <2>1 DEF FormViews
    <2> HIDE DEF read
    <2>4. CASE f = "api"
      <3> DEFINE pairs == Form!AtLeastOne(fields.rows, Form!NoPair)
      <3>1. w = [read EXCEPT !.pairs = pairs]
        BY <1>2, <2>4 DEF Form!ReadBack, f, fields, read
      <3>2. fields.rows \in FormHeaders /\ fields.rows \in FormPairs
        BY <2>2, <2>4, HeadersStay DEF RowsOf
      <3>3. pairs \in FormPairs /\ pairs # <<>> /\ Form!Headers(pairs) = fields.rows
        <4>1. pairs \in FormPairs /\ pairs # <<>>
          BY <3>2, NoRows DEF Form!AtLeastOne
        <4> QED BY <3>2, <4>1, BlankHeaders, HeadersStay
      <3> HIDE DEF pairs, w
      <3>4. /\ w \in FormViews /\ w.type = v.type /\ w.config = v.config
            /\ w.fields[f] = fields /\ w.pairs = pairs
        BY <2>3, <3>1, <3>3 DEF FormViews
      <3>5. Showing(w)
        BY <2>4, <3>3, <3>4 DEF Showing, f, fields
      <3> QED BY <3>4, <3>5 DEF w
    <2>5. CASE f = "s3"
      <3> DEFINE inputs == Form!AtLeastOne(fields.rows, Blank)
      <3>1. w = [read EXCEPT !.inputs = inputs]
        BY <1>2, <2>5 DEF Form!ReadBack, f, fields, read
      <3>2. fields.rows \in FormPlain
        BY <2>2, <2>5 DEF RowsOf
      <3>3. /\ inputs \in FormPlain /\ inputs # <<>>
            /\ Form!NonBlank(inputs) = Form!NonBlank(fields.rows)
        <4>1. inputs \in FormPlain /\ inputs # <<>>
          BY <3>2, NoRows DEF Form!AtLeastOne
        <4> QED BY <3>2, <4>1, NonBlanks DEF FormPlain
      <3> HIDE DEF inputs, w
      <3>4. /\ w \in FormViews /\ w.type = v.type /\ w.config = v.config
            /\ w.fields[f] = fields /\ w.inputs = inputs
        BY <2>3, <3>1, <3>3 DEF FormViews
      <3>5. Showing(w)
        BY <2>5, <3>3, <3>4 DEF Showing, f, fields
      <3> QED BY <3>4, <3>5 DEF w
    <2>6. CASE f \notin {"api", "s3"}
      <3>1. w = read
        BY <1>2, <2>6 DEF Form!ReadBack, f, fields, read
      <3> HIDE DEF w
      <3>2. Showing(w)
        BY <2>3, <2>6, <3>1 DEF Showing, f, fields
      <3> QED BY <2>3, <3>1, <3>2 DEF w
    <2> QED BY <2>4, <2>5, <2>6
  <1> QED BY <1>1, <1>2

LEMMA AfterShows ==
    ASSUME NEW v \in FormViews,
           v.config = view.config /\ v.type = view.type => Showing(v)
    PROVE  Form!After(v) \in FormViews /\ Showing(Form!After(v))
  BY ReadBackShows DEF Form!After

LEMMA FormInit == Form!Init => FormInv
  <1> SUFFICES ASSUME Form!Init PROVE FormInv
    OBVIOUS
  <1> DEFINE k == CHOOSE x \in Key : Trim[x] = x
             t == CHOOSE x \in OneText : Trim[x] = x
             manual == [type |-> "manual", config |-> Form!Links(<<"link">>)]
             post == [type |-> "api_post", config |->
                        [of |-> "api", plain |-> Blank, method |-> "POST",
                         rows |-> <<[key |-> k, value |-> t]>>]]
             s3 == [type |-> "s3", config |->
                      [of |-> "s3", plain |-> Blank, method |-> "GET", rows |-> <<>>]]
  <1>1. k \in Key /\ t \in OneText /\ k # Blank /\ t # Blank /\ Trim[k] = k /\ Trim[t] = t
    BY TrimAssumption, BlankAssumption
  <1> HIDE DEF k, t
  <1>2. <<[key |-> k, value |-> t]>> \in FormHeaders
    <2> DEFINE row == [key |-> k, value |-> t]
    <2>1. row \in FormPair /\ Form!Complete(row) /\ Form!Tidy(row) = row
      BY <1>1 DEF FormPair, FormText, Form!Complete, Form!Tidy
    <2> HIDE DEF row
    <2>2. <<row>> \in FormPairs
      BY <2>1 DEF FormPairs
    <2>3. <<row>> \in FormObjects
      BY <2>1, <2>2 DEF FormObjects
    <2>4. <<row>> \in FormHeaders
      BY <2>1, <2>3 DEF FormHeaders
    <2> QED BY <2>4 DEF row
  <1>3. manual \in FormSources
    <2>1. Form!Links(<<"link">>) \in FormLines
      BY DEF Form!Links, FormLines
    <2> QED BY <2>1, FamilyTypes DEF FormSources, FormConfigs, FormBare
  <1>4. post \in FormSources
    <2>1. post.config \in ConfigsOf("api")
      BY <1>2 DEF ConfigsOf, RowsOf, FormText
    <2> QED BY <2>1, FamilyTypes DEF FormSources, FormConfigs, FormBare, Form!Families
  <1>5. s3 \in FormSources
    <2>1. s3.config \in ConfigsOf("s3")
      BY NoRows DEF ConfigsOf, RowsOf, FormText
    <2> QED BY <2>1, FamilyTypes DEF FormSources, FormConfigs, FormBare, Form!Families
  <1>6. server = [tokens |-> {}, sources |-> {manual, post, s3}]
    BY DEF Form!Init, k, t
  <1> HIDE DEF manual, post, s3
  <1>7. server \in [tokens : SUBSET FormText, sources : SUBSET FormSources]
    BY <1>3, <1>4, <1>5, <1>6
  <1>8. view = [mounted |-> FALSE, editing |-> Form!NoSource, type |-> "manual",
                config |-> Form!Empty,
                fields |-> [f \in Form!Families |-> Form!Default(f, "manual")],
                pairs |-> <<Form!NoPair>>, inputs |-> <<Blank>>, tokens |-> {}, names |-> FALSE]
    BY DEF Form!Init
  <1>9. "manual" \in Form!Types
    BY FamilyTypes
  <1>10. \A f \in Form!Families : Form!Default(f, "manual") \in FieldsOf(f)
    BY <1>9, DefaultTypes
  <1>11. view \in FormViews
    BY <1>8, <1>9, <1>10, NoRows DEF FormViews, FormConfigs, FormBare
  <1>12. Showing(view)
    BY <1>8 DEF Showing
  <1> QED BY <1>7, <1>11, <1>12 DEF FormInv

\* Opening a source, also where another is open.
LEMMA ShownShows ==
    ASSUME FormInv, NEW e \in FormSources \cup {Form!NoSource}, NEW t \in Form!Types,
           NEW c \in FormConfigs, Form!Shown(e, t, c)
    PROVE  view' \in FormViews /\ Showing(view')
  <1> USE DEF FormInv
  <1>1. CASE view.mounted
    <2> DEFINE v == [mounted |-> TRUE, editing |-> e, type |-> t, config |-> c,
                     fields |-> view.fields, pairs |-> view.pairs, inputs |-> view.inputs,
                     tokens |-> view.tokens, names |-> view.names]
    <2>1. view' = Form!After(v)
      BY <1>1 DEF Form!Shown
    <2>2. v \in FormViews
      BY DEF FormViews
    <2>3. ASSUME v.config = view.config, v.type = view.type PROVE Showing(v)
      BY <1>1, <2>3 DEF Showing
    <2> HIDE DEF v
    <2> QED BY <2>1, <2>2, <2>3, AfterShows
  <1>2. CASE ~view.mounted
    <2> DEFINE v == [mounted |-> TRUE, editing |-> e, type |-> t, config |-> c,
                     fields |-> [f \in Form!Families |-> Form!Default(f, t)],
                     pairs |-> <<Form!NoPair>>, inputs |-> <<Blank>>,
                     tokens |-> server.tokens, names |-> FALSE]
    <2>1. view' = Form!ReadBack(v)
      BY <1>2 DEF Form!Shown
    <2>2. \A f \in Form!Families : Form!Default(f, t) \in FieldsOf(f)
      BY DefaultTypes
    <2>3. v \in FormViews
      BY <2>2, NoRows DEF FormViews
    <2> HIDE DEF v
    <2> QED BY <2>1, <2>3, ReadBackShows
  <1> QED BY <1>1, <1>2

\* Writing the fields of a type, with rows that its inputs show.
LEMMA WrittenShows ==
    ASSUME FormInv, NEW v \in FormViews, NEW f \in Form!Families, NEW fields \in FieldsOf(f),
           v.type = view.type, Form!Family[view.type] = f,
           v.config = view.config, v.mounted = view.mounted,
           view.config.of = f /\ view.config.rows = fields.rows =>
               /\ f = "api" => Form!Headers(v.pairs) = fields.rows
               /\ f = "s3" => Form!NonBlank(v.inputs) = Form!NonBlank(fields.rows)
    PROVE  LET w == Form!Written(v, f, fields) IN
           /\ w \in FormViews /\ Showing(w)
           /\ w.config.rows = fields.rows
           /\ \/ w.pairs = v.pairs
              \/ f = "api" /\ w.pairs = Form!AtLeastOne(fields.rows, Form!NoPair)
  <1> DEFINE filled == [v EXCEPT !.fields[f] = fields]
             c == [of |-> f, plain |-> fields.plain, method |-> fields.method,
                   rows |-> fields.rows]
             g == [filled EXCEPT !.config = c]
             w == Form!Written(v, f, fields)
  <1>1. w = Form!After(g)
    BY DEF Form!Written
  <1>2. fields.plain \in FormText /\ fields.rows \in RowsOf(f) /\ fields.method \in {"GET", "POST"}
    BY DEF FieldsOf
  <1>3. c \in FormConfigs
    <2>1. c \in ConfigsOf(f)
      BY <1>2 DEF ConfigsOf
    <2> QED BY <2>1 DEF FormConfigs, FormBare
  <1>4. filled \in FormViews /\ filled.fields[f] = fields /\ filled.type = v.type
        /\ filled.pairs = v.pairs /\ filled.inputs = v.inputs
    BY DEF FormViews
  <1> HIDE DEF filled
  <1>5. /\ g \in FormViews /\ g.config = c /\ g.type = view.type /\ g.fields[f] = fields
        /\ g.pairs = v.pairs /\ g.inputs = v.inputs
    BY <1>3, <1>4 DEF FormViews
  <1> HIDE DEF g
  <1>6. view.type # "manual" /\ f # "lines"
    <2>1. f # "lines"
      BY DEF Form!Families
    <2> QED BY <2>1, FamilyTypes DEF FormInv, FormViews
  <1>7. c.of = f /\ c.plain = fields.plain /\ c.rows = fields.rows
    OBVIOUS
  <1> HIDE DEF c
  <1>8. ASSUME g.config = view.config, g.type = view.type PROVE Showing(g)
    <2>1. /\ f = "api" => Form!Headers(v.pairs) = fields.rows
          /\ f = "s3" => Form!NonBlank(v.inputs) = Form!NonBlank(fields.rows)
      BY <1>5, <1>7, <1>8
    <2>2. /\ Form!Read(c, view.type).plain = fields.plain
          /\ f # "s3" => Form!Read(c, view.type).rows = fields.rows
          /\ f = "s3" => Form!Read(c, view.type).rows = Form!AtLeastOne(fields.rows, Blank)
      BY <1>7 DEF Form!Read
    <2>3. f = "s3" => /\ fields.rows \in Seq(FormText)
                      /\ Form!NonBlank(Form!AtLeastOne(fields.rows, Blank))
                            = Form!NonBlank(fields.rows)
      BY <1>2, NonBlanks DEF RowsOf, FormPlain
    <2>4. Form!Read(g.config, g.type) = Form!Read(c, view.type) /\ Form!Family[g.type] = f
      BY <1>5
    <2> DEFINE got == Form!Read(c, view.type)
    <2> HIDE DEF got
    <2>5. /\ g.fields[f].plain = got.plain
          /\ f \in {"lankong", "endpoint"} => g.fields[f].rows = got.rows
          /\ f = "api" => Form!Headers(g.pairs) = got.rows
          /\ f = "s3" => Form!NonBlank(g.inputs) = Form!NonBlank(got.rows)
      BY <1>5, <2>1, <2>2, <2>3 DEF got
    <2> QED BY <2>4, <2>5 DEF Showing, got
  <1>9. w \in FormViews /\ Showing(w)
    BY <1>1, <1>5, <1>8, AfterShows
  <1>10. CASE Form!After(g) = g
    BY <1>1, <1>5, <1>7, <1>9, <1>10
  <1>11. CASE Form!After(g) = Form!ReadBack(g) /\ Form!After(g) # g
    <2> DEFINE got == Form!Read(g.config, g.type)
               read == [g EXCEPT !.fields[f] = got]
    <2>1. Form!IsJSON(g.config) /\ g.type # "manual" /\ Form!Family[g.type] = f
      BY <1>5, <1>6, <1>7 DEF Form!IsJSON
    <2>2. w = IF f = "api" THEN [read EXCEPT !.pairs = Form!AtLeastOne(got.rows, Form!NoPair)]
              ELSE IF f = "s3" THEN [read EXCEPT !.inputs = Form!AtLeastOne(got.rows, Blank)]
              ELSE read
      BY <1>1, <1>11, <2>1 DEF Form!ReadBack
    <2>3. f = "api" => got.rows = fields.rows
      BY <1>5, <1>7, <2>1 DEF Form!Read
    <2> HIDE DEF got
    <2>4. /\ read.config = c /\ read.pairs = v.pairs
          /\ "pairs" \in DOMAIN read /\ "inputs" \in DOMAIN read
      BY <1>5 DEF FormViews
    <2> HIDE DEF read, w
    <2> QED BY <1>7, <1>9, <2>2, <2>3, <2>4 DEF w
  <1>12. Form!After(g) \in {g, Form!ReadBack(g)}
    BY DEF Form!After
  <1> QED BY <1>10, <1>11, <1>12

\* What is written of an input that has no rows of its own.
LEMMA PlainShows ==
    ASSUME FormInv, view.mounted, NEW f \in Form!Families, Form!Family[view.type] = f,
           NEW fields \in FieldsOf(f), fields.rows = view.fields[f].rows \/ f \notin {"api", "s3"}
    PROVE  /\ Form!Written(view, f, fields) \in FormViews
           /\ Showing(Form!Written(view, f, fields))
  <1> USE DEF FormInv
  <1>1. ASSUME view.config.of = f, view.config.rows = fields.rows
        PROVE  /\ f = "api" => Form!Headers(view.pairs) = fields.rows
               /\ f = "s3" => Form!NonBlank(view.inputs) = Form!NonBlank(fields.rows)
    <2> DEFINE got == Form!Read(view.config, view.type)
    <2>1. view.type # "manual" /\ Form!IsJSON(view.config)
      <3>1. f # "lines"
        BY DEF Form!Families
      <3> QED BY <1>1, <3>1, FamilyTypes DEF Form!IsJSON, FormViews
    <2>2. /\ f = "api" => Form!Headers(view.pairs) = got.rows
          /\ f = "s3" => Form!NonBlank(view.inputs) = Form!NonBlank(got.rows)
      BY <2>1 DEF Showing
    <2>3. /\ f = "api" => got.rows = fields.rows
          /\ f = "s3" => got.rows = Form!AtLeastOne(fields.rows, Blank)
      BY <1>1 DEF Form!Read
    <2>4. f = "s3" => Form!NonBlank(Form!AtLeastOne(fields.rows, Blank)) = Form!NonBlank(fields.rows)
      BY NonBlanks DEF FieldsOf, RowsOf, FormPlain
    <2> HIDE DEF got
    <2> QED BY <2>2, <2>3, <2>4
  <1> DEFINE w == Form!Written(view, f, fields)
  <1>2. w \in FormViews /\ Showing(w)
    <2> HIDE DEF w
    <2> QED BY <1>1, WrittenShows DEF w
  <1> QED BY <1>2

LEMMA UpdatePlainShows ==
    ASSUME FormInv, NEW f \in Form!Families, NEW t \in FormText, Form!UpdatePlain(f, t)
    PROVE  view' \in FormViews /\ Showing(view')
  <1> DEFINE fields == [view.fields[f] EXCEPT !.plain = t]
  <1>1. fields \in FieldsOf(f) /\ fields.rows = view.fields[f].rows
    BY DEF FormInv, FormViews, FieldsOf
  <1>2. view.mounted /\ Form!Family[view.type] = f /\ view' = Form!Written(view, f, fields)
    BY DEF Form!UpdatePlain, Form!Shows
  <1> HIDE DEF fields
  <1> QED BY <1>1, <1>2, PlainShows

LEMMA RowsShow ==
    ASSUME FormInv, view.mounted, NEW f \in {"lankong", "endpoint"},
           Form!Family[view.type] = f, NEW list \in RowsOf(f),
           view' = Form!Written(view, f, [view.fields[f] EXCEPT !.rows = list])
    PROVE  view' \in FormViews /\ Showing(view')
  <1> DEFINE fields == [view.fields[f] EXCEPT !.rows = list]
  <1>1. f \in Form!Families
    BY DEF Form!Families
  <1>2. fields \in FieldsOf(f)
    BY <1>1 DEF FormInv, FormViews, FieldsOf
  <1> HIDE DEF fields
  <1>3. view' = Form!Written(view, f, fields)
    BY DEF fields
  <1> QED BY <1>1, <1>2, <1>3, PlainShows

\* The rows left without some of them.
LEMMA FilterTypes ==
    ASSUME NEW S, NEW list \in Seq(S), NEW at, at \subseteq DOMAIN list
    PROVE  Form!Filter(list, at) \in Seq(S)
  BY Filters

LEMMA AlbumsShow ==
    ASSUME FormInv,
           \/ Form!AddAlbumId
           \/ \E i \in DOMAIN Form!Albums :
                 Form!RemoveAlbumId(i) \/ \E t \in FormText : Form!UpdateAlbumId(i, t)
    PROVE  view' \in FormViews /\ Showing(view')
  <1> DEFINE albums == Form!Albums
  <1>1. albums \in Seq(FormText)
    BY DEF Form!Albums, FormInv, FormViews, FieldsOf, RowsOf, FormPlain, Form!Families
  <1>2. \E list : /\ Form!Shows("lankong") /\ Form!WriteAlbums(list)
                  /\ \/ list = Append(albums, Blank)
                     \/ \E i \in DOMAIN albums : list = Form!Without(albums, i)
                     \/ \E i \in DOMAIN albums, t \in FormText : list = [albums EXCEPT ![i] = t]
    BY DEF Form!AddAlbumId, Form!RemoveAlbumId, Form!UpdateAlbumId
  <1> HIDE DEF albums
  <1>3. PICK list : /\ Form!Shows("lankong") /\ Form!WriteAlbums(list)
                    /\ \/ list = Append(albums, Blank)
                       \/ \E i \in DOMAIN albums : list = Form!Without(albums, i)
                       \/ \E i \in DOMAIN albums, t \in FormText : list = [albums EXCEPT ![i] = t]
    BY <1>2
  <1>4. list \in FormPlain
    <2>1. CASE list = Append(albums, Blank)
      BY <1>1, <2>1 DEF FormPlain, FormText
    <2>2. ASSUME NEW i \in DOMAIN albums, list = Form!Without(albums, i)
          PROVE  list \in FormPlain
      BY <1>1, <2>2, FilterTypes DEF Form!Without, FormPlain
    <2>3. ASSUME NEW i \in DOMAIN albums, NEW t \in FormText, list = [albums EXCEPT ![i] = t]
          PROVE  list \in FormPlain
      BY <1>1, <2>3 DEF FormPlain
    <2> QED BY <1>3, <2>1, <2>2, <2>3
  <1>5. list \in RowsOf("lankong")
    BY <1>4 DEF RowsOf
  <1>6. /\ view.mounted /\ Form!Family[view.type] = "lankong"
        /\ view' = Form!Written(view, "lankong", [view.fields["lankong"] EXCEPT !.rows = list])
    BY <1>3 DEF Form!Shows, Form!WriteAlbums
  <1> QED BY <1>5, <1>6, RowsShow

LEMMA ToggleShows ==
    ASSUME FormInv, NEW e \in Name, Form!ToggleEndpoint(e)
    PROVE  view' \in FormViews /\ Showing(view')
  <1> DEFINE ids == view.fields["endpoint"].rows
             list == IF e \in Form!Range(ids) THEN Form!Filter(ids, {i \in DOMAIN ids : ids[i] # e})
                     ELSE Append(ids, e)
  <1>1. ids \in Seq(Name)
    BY DEF FormInv, FormViews, FieldsOf, RowsOf, Form!Families
  <1>2. list \in Seq(Name)
    <2> HIDE DEF ids
    <2>1. {i \in DOMAIN ids : ids[i] # e} \subseteq DOMAIN ids
      OBVIOUS
    <2>2. Form!Filter(ids, {i \in DOMAIN ids : ids[i] # e}) \in Seq(Name)
      BY <1>1, <2>1, FilterTypes
    <2> QED BY <1>1, <2>2
  <1>3. /\ view.mounted /\ Form!Family[view.type] = "endpoint"
        /\ view' = Form!Written(view, "endpoint", [view.fields["endpoint"] EXCEPT !.rows = list])
    BY DEF Form!ToggleEndpoint, Form!Shows
  <1> HIDE DEF ids, list
  <1>4. list \in RowsOf("endpoint")
    BY <1>2 DEF RowsOf
  <1> QED BY <1>3, <1>4, RowsShow

\* The rows of headers and of extensions that are not complete are shown only.
LEMMA BlankRowsShow ==
    ASSUME FormInv, Form!AddHeader \/ Form!AddExtension
    PROVE  view' \in FormViews /\ Showing(view')
  <1> USE DEF FormInv
  <1>1. CASE Form!AddHeader
    <2> DEFINE pairs == Append(view.pairs, Form!NoPair)
    <2>1. view' = [view EXCEPT !.pairs = pairs] /\ view.pairs \in FormPairs
      BY <1>1 DEF Form!AddHeader, FormViews
    <2>2. pairs \in FormPairs /\ Form!Headers(pairs) = Form!Headers(view.pairs)
      BY <2>1, BlankHeaders
    <2>3. pairs # <<>>
      BY <2>1 DEF FormPairs
    <2> HIDE DEF pairs
    <2>4. /\ view' \in FormViews /\ view'.pairs = pairs /\ view'.fields = view.fields
          /\ view'.type = view.type /\ view'.config = view.config /\ view'.mounted = view.mounted
          /\ view'.inputs = view.inputs
      BY <2>1, <2>2, <2>3 DEF FormViews
    <2> QED BY <2>2, <2>4 DEF Showing
  <1>2. CASE Form!AddExtension
    <2> DEFINE inputs == Append(view.inputs, Blank)
    <2>1. view' = [view EXCEPT !.inputs = inputs] /\ view.inputs \in Seq(FormText)
      BY <1>2 DEF Form!AddExtension, FormViews, FormPlain
    <2>2. Form!NonBlank(inputs) = Form!NonBlank(view.inputs)
      BY <2>1, NonBlanks
    <2>3. inputs \in FormPlain /\ inputs # <<>>
      BY <2>1 DEF FormPlain, FormText
    <2> HIDE DEF inputs
    <2>4. /\ view' \in FormViews /\ view'.inputs = inputs /\ view'.fields = view.fields
          /\ view'.type = view.type /\ view'.config = view.config /\ view'.mounted = view.mounted
          /\ view'.pairs = view.pairs
      BY <2>1, <2>2, <2>3 DEF FormViews
    <2> QED BY <2>2, <2>4 DEF Showing
  <1> QED BY <1>1, <1>2

LEMMA HeadersShow ==
    ASSUME FormInv, NEW pairs \in FormPairs, pairs # <<>>, Form!Shows("api"),
           Form!UpdateAPIHeaders(pairs)
    PROVE  /\ view' \in FormViews /\ Showing(view')
           /\ view'.config.rows = Form!Headers(pairs)
           /\ \/ view'.pairs = pairs
              \/ view'.pairs = Form!AtLeastOne(Form!Headers(pairs), Form!NoPair)
  <1> DEFINE v == [view EXCEPT !.pairs = pairs]
             fields == [view.fields["api"] EXCEPT !.rows = Form!Headers(pairs)]
             w == Form!Written(v, "api", fields)
  <1>1. view' = w /\ view.mounted /\ Form!Family[view.type] = "api"
    BY DEF Form!UpdateAPIHeaders, Form!Shows
  <1>2. "api" \in Form!Families
    BY DEF Form!Families
  <1>3. Form!Headers(pairs) \in RowsOf("api")
    BY HeadersFit DEF RowsOf
  <1>4. /\ v \in FormViews /\ v.pairs = pairs /\ v.type = view.type
        /\ v.config = view.config /\ v.mounted = view.mounted
    BY DEF FormInv, FormViews
  <1>5. fields \in FieldsOf("api") /\ fields.rows = Form!Headers(pairs)
    BY <1>2, <1>3 DEF FormInv, FormViews, FieldsOf
  <1> HIDE DEF v, fields
  <1>6. /\ w \in FormViews /\ Showing(w) /\ w.config.rows = fields.rows
        /\ \/ w.pairs = v.pairs
           \/ w.pairs = Form!AtLeastOne(fields.rows, Form!NoPair)
    <2> HIDE DEF w
    <2> QED BY <1>1, <1>2, <1>4, <1>5, WrittenShows DEF w
  <1> HIDE DEF w
  <1> QED BY <1>1, <1>4, <1>5, <1>6

LEMMA ExtensionsShow ==
    ASSUME FormInv, NEW inputs \in FormPlain, inputs # <<>>, Form!Shows("s3"),
           Form!UpdateExtensions(inputs)
    PROVE  view' \in FormViews /\ Showing(view')
  <1> DEFINE v == [view EXCEPT !.inputs = inputs]
             fields == [view.fields["s3"] EXCEPT !.rows = Form!NonBlank(inputs)]
             w == Form!Written(v, "s3", fields)
  <1>1. view' = w /\ view.mounted /\ Form!Family[view.type] = "s3"
    BY DEF Form!UpdateExtensions, Form!Shows
  <1>2. "s3" \in Form!Families
    BY DEF Form!Families
  <1>3. /\ Form!NonBlank(inputs) \in RowsOf("s3")
        /\ Form!NonBlank(Form!NonBlank(inputs)) = Form!NonBlank(inputs)
    BY NonBlanks DEF RowsOf, FormPlain
  <1>4. /\ v \in FormViews /\ v.inputs = inputs /\ v.type = view.type
        /\ v.config = view.config /\ v.mounted = view.mounted
    BY DEF FormInv, FormViews
  <1>5. fields \in FieldsOf("s3") /\ fields.rows = Form!NonBlank(inputs)
    BY <1>2, <1>3 DEF FormInv, FormViews, FieldsOf
  <1> HIDE DEF v, fields
  <1>6. w \in FormViews /\ Showing(w)
    <2> HIDE DEF w
    <2> QED BY <1>1, <1>2, <1>3, <1>4, <1>5, WrittenShows DEF w
  <1> QED BY <1>1, <1>6

LEMMA WithoutOne ==
    ASSUME NEW S, NEW list \in Seq(S), NEW i \in DOMAIN list
    PROVE  /\ Form!Without(list, i) \in Seq(S)
           /\ \A j \in DOMAIN list \ {i} :
                 \E n \in DOMAIN Form!Without(list, i) : Form!Without(list, i)[n] = list[j]
           /\ Len(list) > 1 => Form!Without(list, i) # <<>>
  <1> DEFINE at == DOMAIN list \ {i}
             w == Form!Without(list, i)
  <1>1. /\ w \in Seq(S) /\ w = [n \in 1..Cardinality(at) |-> list[Place(at, n)]]
        /\ \A j \in at : \E n \in 1..Cardinality(at) : Place(at, n) = j
    <2>1. at \subseteq DOMAIN list /\ w = Form!Filter(list, at)
      BY DEF Form!Without
    <2> HIDE DEF at, w
    <2> QED BY <2>1, Filters
  <1> HIDE DEF w
  <1>2. \A j \in at : \E n \in DOMAIN w : w[n] = list[j]
    <2> HIDE DEF at
    <2> QED BY <1>1
  <1>3. ASSUME Len(list) > 1 PROVE w # <<>>
    <2>1. \E j \in DOMAIN list : j # i
      <3>1. 1 \in DOMAIN list /\ 2 \in DOMAIN list
        BY <1>3
      <3> QED BY <3>1
    <2>2. \E n : n \in DOMAIN w
      BY <1>2, <2>1
    <2>3. DOMAIN <<>> = {}
      OBVIOUS
    <2> QED BY <2>2, <2>3
  <1> QED BY <1>1, <1>2, <1>3 DEF w

\* The rows of headers after one of them was typed in or removed.
Retyped(i) ==
    {p \in FormPairs \ {<<>>} :
        \A j \in DOMAIN view.pairs \ {i} : \E n \in DOMAIN p : p[n] = view.pairs[j]}

LEMMA HeaderEdits ==
    ASSUME FormInv, NEW i \in DOMAIN view.pairs,
           \/ Form!RemoveHeader(i)
           \/ \E k \in Key \cup {Blank} : Form!UpdateHeader(i, "key", k)
           \/ \E t \in FormText : Form!UpdateHeader(i, "value", t)
    PROVE  \E p \in Retyped(i) : Form!Shows("api") /\ Form!UpdateAPIHeaders(p)
  <1> DEFINE q == view.pairs
  <1>1. /\ q \in Seq(FormPair) /\ q # <<>> /\ Len(q) \in Nat /\ DOMAIN q = 1..Len(q)
        /\ q = [j \in 1..Len(q) |-> q[j]]
        /\ \A j \in 1..Len(q) : q[j] \in FormPair
    BY DEF FormInv, FormViews, FormPairs
  <1> HIDE DEF q
  <1>2. CASE Form!RemoveHeader(i)
    <2> DEFINE p == Form!Without(q, i)
    <2>1. Form!Shows("api") /\ Form!UpdateAPIHeaders(p) /\ Len(q) > 1 /\ i \in DOMAIN q
      BY <1>2 DEF Form!RemoveHeader, q
    <2>2. p \in Retyped(i)
      <3>1. /\ p \in Seq(FormPair) /\ p # <<>>
            /\ \A j \in DOMAIN q \ {i} : \E n \in DOMAIN p : p[n] = q[j]
        BY <1>1, <2>1, WithoutOne
      <3> HIDE DEF p
      <3> QED BY <3>1 DEF Retyped, FormPairs, q
    <2> QED BY <2>1, <2>2
  <1>3. ASSUME NEW row \in FormPair, NEW p, p = [q EXCEPT ![i] = row] PROVE p \in Retyped(i)
    <2>1. i \in 1..Len(q)
      BY <1>1 DEF q
    <2>2. p = [j \in 1..Len(q) |-> IF j = i THEN row ELSE q[j]]
      BY <1>1, <1>3
    <2>3. p \in Seq(FormPair) /\ DOMAIN p = 1..Len(q)
      BY <1>1, <2>2
    <2>4. p # <<>>
      <3>1. DOMAIN <<>> = {}
        OBVIOUS
      <3> QED BY <2>1, <2>3, <3>1
    <2>5. \A j \in DOMAIN q \ {i} : p[j] = q[j] /\ j \in DOMAIN p
      BY <1>1, <2>2
    <2> QED BY <2>3, <2>4, <2>5 DEF Retyped, FormPairs, q
  <1>4. ASSUME NEW k \in Key \cup {Blank}, Form!UpdateHeader(i, "key", k)
        PROVE  \E p \in Retyped(i) : Form!Shows("api") /\ Form!UpdateAPIHeaders(p)
    <2> DEFINE row == [key |-> k, value |-> q[i].value]
               p == [q EXCEPT ![i]["key"] = k]
    <2>1. Form!Shows("api") /\ Form!UpdateAPIHeaders(p)
      BY <1>4 DEF Form!UpdateHeader, q
    <2>2. q[i] \in FormPair
      BY <1>1 DEF q
    <2>3. row \in FormPair /\ [q[i] EXCEPT !["key"] = k] = row
      BY <2>2 DEF FormPair
    <2>4. p = [q EXCEPT ![i] = row]
      BY <2>3
    <2> HIDE DEF row, p
    <2> QED BY <1>3, <2>1, <2>3, <2>4
  <1>5. ASSUME NEW t \in FormText, Form!UpdateHeader(i, "value", t)
        PROVE  \E p \in Retyped(i) : Form!Shows("api") /\ Form!UpdateAPIHeaders(p)
    <2> DEFINE row == [key |-> q[i].key, value |-> t]
               p == [q EXCEPT ![i]["value"] = t]
    <2>1. Form!Shows("api") /\ Form!UpdateAPIHeaders(p)
      BY <1>5 DEF Form!UpdateHeader, q
    <2>2. q[i] \in FormPair
      BY <1>1 DEF q
    <2>3. row \in FormPair /\ [q[i] EXCEPT !["value"] = t] = row
      BY <2>2 DEF FormPair
    <2>4. p = [q EXCEPT ![i] = row]
      BY <2>3
    <2> HIDE DEF row, p
    <2> QED BY <1>3, <2>1, <2>3, <2>4
  <1> QED BY <1>2, <1>4, <1>5

LEMMA FormLeaves == FormInv => Form!LeavesOtherHeaders
  <1> DEFINE shown == Form!Tidied(view.pairs)
             next == Form!Tidied(view'.pairs)
  <1>1. FormInv => view.pairs \in FormPairs
    BY DEF FormInv, FormViews
  <1>2. FormInv => DOMAIN shown = DOMAIN view.pairs
    BY <1>1, TidyPairs
  <1> SUFFICES ASSUME FormInv, NEW i \in DOMAIN view.pairs,
                      \/ Form!RemoveHeader(i)
                      \/ \E k \in Key \cup {Blank} : Form!UpdateHeader(i, "key", k)
                      \/ \E t \in FormText : Form!UpdateHeader(i, "value", t),
                      NEW j \in DOMAIN view.pairs \ {i}, Form!Complete(shown[j]),
                      \A l \in DOMAIN next : next[l].key = shown[j].key => next[l] = shown[j]
               PROVE  shown[j] \in Form!Range(view'.config.rows) \cap Form!Range(next)
    BY DEF Form!LeavesOtherHeaders, FormText
  <1> DEFINE row == shown[j]
  <1>3. row = Form!Tidy(view.pairs[j])
    BY <1>1, TidyPairs
  <1> HIDE DEF shown, next
  <1>4. PICK p \in Retyped(i) : Form!Shows("api") /\ Form!UpdateAPIHeaders(p)
    BY HeaderEdits
  <1>5. PICK m \in DOMAIN p : p[m] = view.pairs[j]
    BY <1>4 DEF Retyped
  <1> DEFINE h == Form!Headers(p)
             tidy == Form!Tidied(p)
  <1>6. p \in FormPairs /\ p # <<>>
    BY <1>4 DEF Retyped
  <1>7. /\ view'.config.rows = h
        /\ view'.pairs = p \/ view'.pairs = Form!AtLeastOne(h, Form!NoPair)
    BY <1>4, <1>6, HeadersShow
  <1>8. DOMAIN tidy = DOMAIN p /\ \A l \in DOMAIN p : tidy[l] = Form!Tidy(p[l])
    BY <1>6, TidyPairs
  <1>9. tidy[m] = row /\ Form!Complete(Form!Tidy(p[m])) /\ Form!Tidy(p[m]) = row
    BY <1>3, <1>5, <1>8
  <1>10. PICK n \in DOMAIN h, l \in DOMAIN p :
            h[n] = Form!Tidy(p[l]) /\ Form!Tidy(p[l]).key = Form!Tidy(p[m]).key
    BY <1>6, <1>9, HeadersFit
  <1>11. h \in FormHeaders /\ Form!Tidied(h) = h
    BY <1>6, HeadersFit, HeadersStay
  <1> HIDE DEF h, tidy, row
  <1>12. h # <<>>
    <2>1. DOMAIN <<>> = {}
      OBVIOUS
    <2> QED BY <1>10, <2>1
  <1>13. next = tidy \/ next = h
    BY <1>7, <1>11, <1>12 DEF Form!AtLeastOne, next, tidy
  <1>14. \A d \in DOMAIN next : next[d].key = row.key => next[d] = row
    BY DEF row
  <1>15. h[n] = row
    <2>1. tidy[l].key = row.key /\ h[n] = tidy[l] /\ l \in DOMAIN tidy
      BY <1>8, <1>9, <1>10
    <2> QED BY <1>10, <1>13, <1>14, <2>1
  <1>16. row \in Form!Range(next)
    BY <1>5, <1>8, <1>9, <1>10, <1>13, <1>15 DEF Form!Range
  <1>17. row \in Form!Range(view'.config.rows)
    BY <1>7, <1>10, <1>15 DEF Form!Range
  <1> QED BY <1>16, <1>17 DEF row

LEMMA RetypedShows ==
    ASSUME FormInv,
           \/ \E i \in DOMAIN view.pairs :
                 \/ Form!RemoveHeader(i)
                 \/ \E k \in Key \cup {Blank} : Form!UpdateHeader(i, "key", k)
                 \/ \E t \in FormText : Form!UpdateHeader(i, "value", t)
           \/ \E i \in DOMAIN view.inputs :
                 \/ Form!RemoveExtension(i)
                 \/ \E t \in FormText : Form!UpdateExtension(i, t)
    PROVE  view' \in FormViews /\ Showing(view') /\ server' = server
  <1>1. ASSUME NEW i \in DOMAIN view.pairs,
               \/ Form!RemoveHeader(i)
               \/ \E k \in Key \cup {Blank} : Form!UpdateHeader(i, "key", k)
               \/ \E t \in FormText : Form!UpdateHeader(i, "value", t)
        PROVE  view' \in FormViews /\ Showing(view') /\ server' = server
    <2>1. PICK p \in Retyped(i) : Form!Shows("api") /\ Form!UpdateAPIHeaders(p)
      BY <1>1, HeaderEdits
    <2>2. p \in FormPairs /\ p # <<>> /\ server' = server
      BY <2>1 DEF Retyped, Form!Shows
    <2> QED BY <2>1, <2>2, HeadersShow
  <1>2. ASSUME NEW i \in DOMAIN view.inputs,
               \/ Form!RemoveExtension(i)
               \/ \E t \in FormText : Form!UpdateExtension(i, t)
        PROVE  view' \in FormViews /\ Showing(view') /\ server' = server
    <2> DEFINE q == view.inputs
    <2>1. q \in Seq(FormText) /\ q # <<>> /\ i \in DOMAIN q
      BY DEF FormInv, FormViews, FormPlain
    <2>2. \E p : /\ Form!Shows("s3") /\ Form!UpdateExtensions(p)
                 /\ \/ Len(q) > 1 /\ p = Form!Without(q, i)
                    \/ \E t \in FormText : p = [q EXCEPT ![i] = t]
      BY <1>2 DEF Form!RemoveExtension, Form!UpdateExtension
    <2> HIDE DEF q
    <2>3. PICK p : /\ Form!Shows("s3") /\ Form!UpdateExtensions(p)
                   /\ \/ Len(q) > 1 /\ p = Form!Without(q, i)
                      \/ \E t \in FormText : p = [q EXCEPT ![i] = t]
      BY <2>2
    <2>4. p \in FormPlain /\ p # <<>>
      <3>1. CASE Len(q) > 1 /\ p = Form!Without(q, i)
        BY <2>1, <3>1, WithoutOne DEF FormPlain
      <3>2. ASSUME NEW t \in FormText, p = [q EXCEPT ![i] = t] PROVE p \in FormPlain /\ p # <<>>
        <4>1. p \in Seq(FormText) /\ DOMAIN p = DOMAIN q
          BY <2>1, <3>2
        <4>2. DOMAIN <<>> = {}
          OBVIOUS
        <4> QED BY <2>1, <4>1, <4>2 DEF FormPlain
      <3> QED BY <2>3, <3>1, <3>2
    <2>5. server' = server
      BY <2>3 DEF Form!Shows
    <2> QED BY <2>3, <2>4, <2>5, ExtensionsShow
  <1> QED BY <1>1, <1>2

\* The texts of sources, and the JSON that they are saved as.
LEMMA QuotedTypes ==
    ASSUME NEW c \in FormConfigs
    PROVE  /\ Form!Quoted(c) \in FormConfigs
           /\ c.of = "quoted" => Form!Unquoted(c) \in FormConfigs
           /\ c.of = "links" => c \in FormLines
           /\ c # Form!Empty /\ ~Form!IsJSON(c) => c \in FormLines
  <1>1. \A b \in FormBare : /\ b.of # "quoted"
                            /\ b \in FormLines \/ b.of \in Form!Families \/ b = Form!Empty
    BY DEF FormBare, FormLines, ConfigsOf, Form!Empty, Form!Families
  <1>2. \A q \in FormQuoted : /\ q.of = "quoted" /\ q.times \in Nat \ {0} /\ q.text \in FormBare
                              /\ q = [of |-> "quoted", text |-> q.text, times |-> q.times]
    BY DEF FormQuoted
  <1>3. c.of = "quoted" <=> c \in FormQuoted
    BY <1>1, <1>2 DEF FormConfigs
  <1>4. CASE c \in FormQuoted
    <2>1. [c EXCEPT !.times = @ + 1] \in FormQuoted
      BY <1>2, <1>4 DEF FormQuoted
    <2>2. c.times > 1 => [c EXCEPT !.times = @ - 1] \in FormQuoted
      BY <1>2, <1>4 DEF FormQuoted
    <2>3. c.of = "quoted" /\ c.text \in FormBare
      BY <1>2, <1>4
    <2>4. Form!IsJSON(c) /\ c.of # "links"
      BY <2>3 DEF Form!IsJSON
    <2> QED BY <2>1, <2>2, <2>3, <2>4 DEF Form!Quoted, Form!Unquoted, FormConfigs
  <1>5. CASE c \notin FormQuoted
    <2>1. c \in FormBare /\ c.of # "quoted"
      BY <1>1, <1>5 DEF FormConfigs
    <2>2. [of |-> "quoted", text |-> c, times |-> 1] \in FormQuoted
      BY <2>1 DEF FormQuoted
    <2>3. c.of = "links" => c \in FormLines
      BY <1>1, <2>1 DEF Form!Empty, Form!Families
    <2>4. c # Form!Empty /\ ~Form!IsJSON(c) => c \in FormLines
      BY <1>1, <2>1 DEF Form!IsJSON
    <2> QED BY <2>1, <2>2, <2>3, <2>4 DEF Form!Quoted, FormConfigs
  <1> QED BY <1>4, <1>5

LEMMA LinesTyped ==
    ASSUME NEW list \in Seq({"link", "comment"})
    PROVE  Form!Lines(list) \in FormConfigs /\ Form!Links(list) \in FormConfigs
  BY DEF Form!Lines, Form!Links, FormLines, FormBare, FormConfigs

LEMMA TextTypes ==
    ASSUME NEW s \in FormSources PROVE Form!TextOf(s) \in FormConfigs
  <1>1. s.config \in FormConfigs
    BY DEF FormSources
  <1>2. s.config.of = "links" => Form!Lines(s.config.rows) \in FormConfigs
    <2>1. s.config.of = "links" => s.config.rows \in Seq({"link", "comment"})
      BY <1>1, QuotedTypes DEF FormLines
    <2> QED BY <2>1, LinesTyped
  <1>3. s.config.of = "quoted" => Form!Unquoted(s.config) \in FormConfigs
    BY <1>1, QuotedTypes
  <1>4. Form!Empty \in FormConfigs
    BY DEF FormConfigs, FormBare
  <1> QED BY <1>1, <1>2, <1>3, <1>4 DEF Form!TextOf

LEMMA OpenShows ==
    ASSUME FormInv, Form!OpenNew \/ \E s \in server.sources : Form!OpenSource(s)
    PROVE  view' \in FormViews /\ Showing(view') /\ server' = server
  <1>1. CASE Form!OpenNew
    <2>1. Form!Empty \in FormConfigs /\ "manual" \in Form!Types
      BY FamilyTypes DEF FormConfigs, FormBare
    <2>2. Form!Shown(Form!NoSource, "manual", Form!Empty) /\ server' = server
      BY <1>1 DEF Form!OpenNew
    <2> QED BY <2>1, <2>2, ShownShows
  <1>2. ASSUME NEW s \in server.sources, Form!OpenSource(s)
        PROVE  view' \in FormViews /\ Showing(view') /\ server' = server
    <2> DEFINE c == Form!TextOf(s)
    <2>1. s \in FormSources
      BY DEF FormInv
    <2>2. c \in FormConfigs /\ s.type \in Form!Types
      BY <2>1, TextTypes DEF FormSources
    <2>3. Form!Shown(s, s.type, c) /\ server' = server
      BY <1>2 DEF Form!OpenSource
    <2> HIDE DEF c
    <2> QED BY <2>1, <2>2, <2>3, ShownShows
  <1> QED BY <1>1, <1>2

LEMMA SubmittedTypes == FormInv => Form!Submitted \in FormSources
  <1> SUFFICES ASSUME FormInv PROVE Form!Submitted \in FormSources
    OBVIOUS
  <1>1. view.type \in Form!Types /\ view.config \in FormConfigs
    BY DEF FormInv, FormViews
  <1>2. CASE view.type # "manual"
    BY <1>1, <1>2 DEF Form!Submitted, FormSources
  <1>3. CASE view.type = "manual" /\ view.config = Form!Empty
    <2>1. <<>> \in Seq({"link", "comment"})
      OBVIOUS
    <2> QED BY <1>1, <1>3, <2>1, LinesTyped DEF Form!Submitted, FormSources
  <1>4. CASE view.type = "manual" /\ view.config # Form!Empty /\ Form!IsJSON(view.config)
    BY <1>1, <1>4, QuotedTypes DEF Form!Submitted, FormSources
  <1>5. CASE view.type = "manual" /\ view.config # Form!Empty /\ ~Form!IsJSON(view.config)
    <2> DEFINE lines == view.config.rows
               some == {i \in DOMAIN lines : lines[i] = "link"}
    <2>1. view.config \in FormLines
      BY <1>1, <1>5, QuotedTypes
    <2>2. lines \in Seq({"link", "comment"})
      BY <2>1 DEF FormLines
    <2> HIDE DEF lines
    <2>3. Form!Filter(lines, some) \in Seq({"link", "comment"})
      <3>1. some \subseteq DOMAIN lines
        OBVIOUS
      <3> HIDE DEF some
      <3> QED BY <2>2, <3>1, FilterTypes
    <2>4. Form!Submitted = [type |-> view.type, config |-> Form!Links(Form!Filter(lines, some))]
      BY <1>5 DEF Form!Submitted, lines
    <2>5. Form!Links(Form!Filter(lines, some)) \in FormConfigs
      BY <2>3, LinesTyped
    <2> QED BY <1>1, <2>4, <2>5 DEF FormSources
  <1> QED BY <1>2, <1>3, <1>4, <1>5

LEMMA StoreTypes ==
    ASSUME FormInv, ~Form!Refused, Form!Store
    PROVE  /\ Form!Stored \in FormSources
           /\ server' \in [tokens : SUBSET FormText, sources : SUBSET FormSources]
  <1>1. Form!Submitted \in FormSources
    BY SubmittedTypes
  <1>2. ASSUME Form!Submitted.config = Form!Empty
        PROVE  [type |-> view.type, config |-> view.editing.config] \in FormSources
    <2>1. view.editing # Form!NoSource
      BY <1>2 DEF Form!Refused
    <2> QED BY <2>1 DEF FormInv, FormViews, FormSources
  <1>3. Form!Stored \in FormSources
    BY <1>1, <1>2 DEF Form!Stored
  <1>4. server' = [server EXCEPT !.sources = (server.sources \ {view.editing}) \cup {Form!Stored}]
    BY DEF Form!Store
  <1>5. (server.sources \ {view.editing}) \cup {Form!Stored} \in SUBSET FormSources
    BY <1>3 DEF FormInv
  <1> QED BY <1>3, <1>4, <1>5 DEF FormInv

LEMMA CloseShows ==
    ASSUME FormInv, Form!Submit \/ Form!SubmitFails \/ Form!Cancel
    PROVE  FormInv'
  <1>1. ASSUME view' = Form!Unmounted PROVE view' \in FormViews /\ Showing(view')
    <2> DEFINE closed == [view EXCEPT !.mounted = FALSE]
    <2>1. view' = [closed EXCEPT !.editing = Form!NoSource]
      BY <1>1 DEF Form!Unmounted
    <2>2. closed \in FormViews /\ closed.mounted = FALSE
      BY DEF FormInv, FormViews
    <2> HIDE DEF closed
    <2>3. view' \in FormViews /\ view'.mounted = FALSE
      BY <2>1, <2>2 DEF FormViews
    <2> QED BY <2>3 DEF Showing
  <1>2. CASE Form!Cancel
    BY <1>1, <1>2 DEF Form!Cancel, FormInv
  <1>3. CASE Form!Submit
    <2>1. view' = Form!Unmounted /\ ~Form!Refused /\ Form!Store
      BY <1>3 DEF Form!Submit
    <2> QED BY <1>1, <2>1, StoreTypes DEF FormInv
  <1>4. CASE Form!SubmitFails
    <2>1. CASE UNCHANGED <<server, view>>
      BY <2>1 DEF FormInv
    <2>2. CASE ~Form!Refused /\ Form!Store /\ view' = view
      BY <2>2, StoreTypes DEF FormInv
    <2>3. CASE ~Form!Refused /\ Form!Store /\ view' = [view EXCEPT !.editing = Form!Stored]
      <3>1. /\ Form!Stored \in FormSources
            /\ server' \in [tokens : SUBSET FormText, sources : SUBSET FormSources]
        BY <2>3, StoreTypes
      <3>2. /\ view' \in FormViews /\ view'.fields = view.fields /\ view'.type = view.type
            /\ view'.config = view.config /\ view'.mounted = view.mounted
            /\ view'.inputs = view.inputs /\ view'.pairs = view.pairs
        BY <2>3, <3>1 DEF FormInv, FormViews
      <3>3. Showing(view')
        BY <3>2 DEF Showing, FormInv
      <3> QED BY <3>1, <3>2, <3>3 DEF FormInv
    <2> QED BY <1>4, <2>1, <2>2, <2>3 DEF Form!SubmitFails
  <1> QED BY <1>2, <1>3, <1>4

LEMMA TypeShows ==
    ASSUME FormInv,
           \/ \E t \in Form!Types : Form!SelectType(t)
           \/ \E list \in {<<>>, <<"link">>, <<"link", "comment">>} : Form!TypeLines(list)
    PROVE  view' \in FormViews /\ Showing(view') /\ server' = server
  <1> USE DEF FormInv
  <1>1. ASSUME NEW t \in Form!Types, Form!SelectType(t)
        PROVE  view' \in FormViews /\ Showing(view') /\ server' = server
    <2> DEFINE v == [view EXCEPT !.type = t]
    <2>1. view' = Form!After(v) /\ t # view.type /\ server' = server
      BY <1>1 DEF Form!SelectType
    <2>2. v \in FormViews /\ v.type = t
      BY DEF FormViews
    <2> HIDE DEF v
    <2> QED BY <2>1, <2>2, AfterShows
  <1>2. ASSUME NEW list \in {<<>>, <<"link">>, <<"link", "comment">>}, Form!TypeLines(list)
        PROVE  view' \in FormViews /\ Showing(view') /\ server' = server
    <2> DEFINE c == IF list = <<>> THEN Form!Empty ELSE Form!Lines(list)
               v == [view EXCEPT !.config = c]
    <2>1. /\ view' = Form!After(v) /\ Form!Family[view.type] = "lines" /\ server' = server
      BY <1>2 DEF Form!TypeLines, Form!Shows
    <2>2. c \in FormConfigs
      <3> DEFINE Line == {"link", "comment"}
      <3>0. "link" \in Line /\ "comment" \in Line
        OBVIOUS
      <3> HIDE DEF Line
      <3>1. /\ <<>> \in Seq(Line) /\ <<"link">> \in Seq(Line)
            /\ <<"link", "comment">> \in Seq(Line)
        BY <3>0
      <3>2. Form!Lines(list) \in FormConfigs
        BY <3>1, LinesTyped DEF Line
      <3>3. Form!Empty \in FormConfigs
        BY DEF FormConfigs, FormBare
      <3> QED BY <3>2, <3>3
    <2> HIDE DEF c
    <2>3. v \in FormViews /\ v.type = view.type
      BY <2>2 DEF FormViews
    <2>4. v.type = "manual"
      BY <2>1, <2>3, FamilyTypes DEF FormViews, Form!Families
    <2>5. Showing(v)
      BY <2>4 DEF Showing
    <2> HIDE DEF v
    <2> QED BY <2>1, <2>3, <2>5, AfterShows
  <1> QED BY <1>1, <1>2

LEMMA TokensShow ==
    ASSUME FormInv,
           \/ Form!SaveToken \/ Form!LoadAvailableEndpoints
           \/ \E t \in OneText : Form!DeleteToken(t)
    PROVE  FormInv'
  <1> USE DEF FormInv
  <1>1. ASSUME NEW T \in SUBSET FormText, Form!KeepTokens(T) PROVE FormInv'
    <2>1. /\ view' = [view EXCEPT !.tokens = T]
          /\ server' = [server EXCEPT !.tokens = T]
      BY <1>1 DEF Form!KeepTokens
    <2>2. /\ view' \in FormViews /\ view'.fields = view.fields /\ view'.type = view.type
          /\ view'.config = view.config /\ view'.mounted = view.mounted
          /\ view'.inputs = view.inputs /\ view'.pairs = view.pairs
      BY <2>1 DEF FormViews
    <2>3. Showing(view')
      BY <2>2 DEF Showing
    <2>4. server' \in [tokens : SUBSET FormText, sources : SUBSET FormSources]
      BY <2>1
    <2> QED BY <2>2, <2>3, <2>4
  <1>2. view.tokens \in SUBSET FormText /\ view.fields["lankong"].plain \in FormText
    BY DEF FormViews, FieldsOf, Form!Families
  <1>3. CASE Form!SaveToken
    <2>1. view.tokens \cup {view.fields["lankong"].plain} \in SUBSET FormText
      BY <1>2
    <2> QED BY <1>1, <1>3, <2>1 DEF Form!SaveToken
  <1>4. ASSUME NEW t \in OneText, Form!DeleteToken(t) PROVE FormInv'
    <2>1. view.tokens \ {t} \in SUBSET FormText
      BY <1>2
    <2> QED BY <1>1, <1>4, <2>1 DEF Form!DeleteToken
  <1>5. CASE Form!LoadAvailableEndpoints
    <2>1. view' = [view EXCEPT !.names = TRUE] /\ server' = server
      BY <1>5 DEF Form!LoadAvailableEndpoints, Form!Shows
    <2>2. /\ view' \in FormViews /\ view'.fields = view.fields /\ view'.type = view.type
          /\ view'.config = view.config /\ view'.mounted = view.mounted
          /\ view'.inputs = view.inputs /\ view'.pairs = view.pairs
      BY <2>1 DEF FormViews
    <2>3. Showing(view')
      BY <2>2 DEF Showing
    <2> QED BY <2>1, <2>2, <2>3
  <1> QED BY <1>3, <1>4, <1>5

LEMMA FormNext == FormInv /\ Form!Next => FormInv'
  <1> SUFFICES ASSUME FormInv, Form!Next PROVE FormInv'
    OBVIOUS
  <1>1. ASSUME view' \in FormViews, Showing(view'), server' = server PROVE FormInv'
    BY <1>1 DEF FormInv
  <1>2. OneText \cup {Blank} = FormText /\ view.tokens \subseteq FormText
    BY DEF FormText, FormInv, FormViews
  <1>3. CASE Form!OpenNew \/ \E s \in server.sources : Form!OpenSource(s)
    BY <1>1, <1>3, OpenShows
  <1>4. CASE Form!Submit \/ Form!SubmitFails \/ Form!Cancel
    BY <1>4, CloseShows
  <1>5. CASE \/ \E t \in Form!Types : Form!SelectType(t)
             \/ \E list \in {<<>>, <<"link">>, <<"link", "comment">>} : Form!TypeLines(list)
    BY <1>1, <1>5, TypeShows
  <1>6. ASSUME NEW f \in Form!Families, NEW t \in FormText, Form!UpdatePlain(f, t)
        PROVE  FormInv'
    <2>1. server' = server
      BY <1>6 DEF Form!UpdatePlain, Form!Shows
    <2> QED BY <1>1, <1>6, <2>1, UpdatePlainShows
  <1>7. CASE \/ Form!AddAlbumId
             \/ \E i \in DOMAIN Form!Albums :
                   Form!RemoveAlbumId(i) \/ \E t \in FormText : Form!UpdateAlbumId(i, t)
    <2>1. server' = server
      BY <1>7 DEF Form!AddAlbumId, Form!RemoveAlbumId, Form!UpdateAlbumId, Form!Shows
    <2> QED BY <1>1, <1>7, <2>1, AlbumsShow
  <1>8. CASE \/ Form!SaveToken \/ Form!LoadAvailableEndpoints
             \/ \E t \in OneText : Form!DeleteToken(t)
    BY <1>8, TokensShow
  <1>9. ASSUME NEW t \in OneText, Form!UseToken(t) PROVE FormInv'
    <2>1. t \in FormText /\ "lankong" \in Form!Families
      BY <1>2 DEF Form!Families
    <2> QED BY <1>6, <1>9, <2>1 DEF Form!UseToken
  <1>10. CASE Form!AddHeader \/ Form!AddExtension
    <2>1. server' = server
      BY <1>10 DEF Form!AddHeader, Form!AddExtension, Form!Shows
    <2> QED BY <1>1, <1>10, <2>1, BlankRowsShow
  <1>11. ASSUME NEW e \in Name, Form!ToggleEndpoint(e) PROVE FormInv'
    <2>1. server' = server
      BY <1>11 DEF Form!ToggleEndpoint, Form!Shows
    <2> QED BY <1>1, <1>11, <2>1, ToggleShows
  <1>12. CASE \/ \E i \in DOMAIN view.pairs :
                    \/ Form!RemoveHeader(i)
                    \/ \E k \in Key \cup {Blank} : Form!UpdateHeader(i, "key", k)
                    \/ \E t \in FormText : Form!UpdateHeader(i, "value", t)
              \/ \E i \in DOMAIN view.inputs :
                    \/ Form!RemoveExtension(i)
                    \/ \E t \in FormText : Form!UpdateExtension(i, t)
    BY <1>1, <1>12, RetypedShows
  <1> QED BY <1>2, <1>3, <1>4, <1>5, <1>6, <1>7, <1>8, <1>9, <1>10, <1>11, <1>12 DEF Form!Next

LEMMA FormStutters == FormInv /\ UNCHANGED vars => FormInv'
  BY DEF vars, FormInv

LEMMA FormShown == FormInv => Form!TypeOK /\ Form!FormShowsText
  <1> SUFFICES ASSUME FormInv PROVE Form!TypeOK /\ Form!FormShowsText
    OBVIOUS
  <1>1. Form!FormShowsText
    BY DEF FormInv, Showing, Form!FormShowsText
  <1>2. /\ view.type \in Form!Types /\ view.config \in FormConfigs
        /\ view.pairs # <<>> /\ view.inputs # <<>>
    BY DEF FormInv, FormViews
  <1>3. \A c \in FormConfigs : c.of \in Form!Families \cup {"empty", "lines", "links", "quoted"}
    BY DEF FormConfigs, FormBare, FormQuoted, FormLines, Form!Empty, ConfigsOf
  <1> QED BY <1>1, <1>2, <1>3 DEF Form!TypeOK

-----------------------------------------------------------------------------
(* One page at a time.                                                       *)

IInv ==
    /\ BlocklistInv
    /\ page = "home" => HomeInv /\ HomeTexts
    /\ page = "session" => SessionInv
    /\ page = "public" => PublicInv
    /\ page = "endpoints" => EndsInv
    /\ page = "form" => FormInv
    /\ page = "rules" => RulesInv
    /\ page = "sources" => SourcesInv
    /\ page = "stats" => StatsInv

LEMMA InitInv == Init => BlocklistInit /\ IInv
  <1>1. Stats!Init => BlocklistInit
    BY SameBlocklist DEF Stats!Init
  <1>2. Init => BlocklistInit
    BY <1>1 DEF Init
  <1> QED BY <1>2, BlocklistStarts, HomeInit, TextsInit, SessionInit, PublicInit, EndsInit, FormInit, RulesInit,
             SourcesInit, StatsInit DEF Init, IInv

\* Nothing that a page does reaches the blocklist but by its operations.
LEMMA StatsCalls == StatsInv /\ Stats!Next => [BlocklistNext]_blocklistVars
  <1> SUFFICES ASSUME StatsInv, Stats!Next PROVE [BlocklistNext]_blocklistVars
    OBVIOUS
  <1>0. StatsTypes /\ Stats!InFlight = DOMAIN net
    BY DEF StatsInv, Stats!InFlight, Stats!BagToSet
  <1>1. CASE Stats!Administrator
    BY <1>1 DEF Stats!Administrator, blocklistVars
  <1>2. CASE Stats!Calling
    BY <1>2, SameBlocklist DEF Stats!Calling, BlocklistNext
  <1>3. CASE Stats!ServerRestarts
    BY <1>3, SameBlocklist DEF Stats!ServerRestarts, BlocklistNext
  <1>4. ASSUME NEW r \in DOMAIN net,
               \/ Stats!GetDomainStats(r) \/ Stats!ListBlockedDomains(r)
               \/ Stats!Receive(r) \/ Stats!RequestFails(r)
        PROVE  UNCHANGED blocklistVars
    BY <1>4 DEF Stats!GetDomainStats, Stats!ListBlockedDomains, Stats!Receive,
                Stats!RequestFails, blocklistVars
  <1>5. ASSUME NEW r \in DOMAIN net, Stats!UpdateDomainBlockStatus(r)
        PROVE  [BlocklistNext]_blocklistVars
    <2>1. r.kind \in Stats!Blocks /\ r.stage = "sent"
      BY <1>5 DEF Stats!UpdateDomainBlockStatus
    <2>2. r.domain \in Domain /\ r.blocked \in BOOLEAN
      BY <1>0, <2>1, ChangeShapes
    <2>3. \/ \E a \in Admin : SetBlocked(a, r.domain, r.blocked)
          \/ UNCHANGED <<rows, blockedHosts, call>>
      BY <1>5, SameBlocklist DEF Stats!UpdateDomainBlockStatus
    <2> QED BY <2>2, <2>3 DEF BlocklistNext, blocklistVars
  <1>6. ASSUME NEW r \in DOMAIN net, Stats!Called(r)
        PROVE  [BlocklistNext]_blocklistVars
    <2>1. r.stage = "called"
      BY <1>6 DEF Stats!Called, Stats!Calls
    <2>2. r \in StatsRequests \/ RankRequest(r)
      BY <1>0 DEF StatsTypes
    <2>3. r.slot \in Admin
      BY <1>0, <2>1, <2>2, StatsShapes, ChangeShapes
    <2>4. Install(r.slot) \/ CallFails(r.slot)
      BY <1>6, SameBlocklist DEF Stats!Called
    <2> QED BY <2>3, <2>4 DEF BlocklistNext
  <1> QED BY <1>0, <1>1, <1>2, <1>3, <1>4, <1>5, <1>6 DEF Stats!Next

LEMMA PagesCall == IInv /\ [Next]_vars => [BlocklistNext]_blocklistVars
  BY StatsCalls DEF Next, vars, blocklistVars, IInv

LEMMA StatsStutters == StatsInv /\ UNCHANGED vars => StatsInv'
  <1> SUFFICES ASSUME StatsInv, UNCHANGED vars PROVE StatsInv'
    OBVIOUS
  <1> USE DEF vars
  <1>1. Stays(CoreKinds) /\ Stays({"paths"}) /\ Stays({"trend"})
    BY DEF Stays
  <1>2. StatsTypes'
    BY DEF StatsInv, StatsTypes, Stats!DrillOpen, Stats!Loaded
  <1>3. QuestionsFit'
    BY <1>1, FitsKeeps DEF StatsInv, QuestionsFit, Questions
  <1>4. CallsAreAsked' /\ RanksAreAlone' /\ MarksFollow'
    BY <1>1, CoreKeeps DEF StatsInv
  <1>5. PanelListed'
    BY DEF StatsInv, PanelListed, NoBlocks
  <1> QED BY <1>2, <1>3, <1>4, <1>5 DEF StatsInv

LEMMA PublicStutters == PublicInv /\ UNCHANGED vars => PublicInv'
  BY DEF vars, PublicInv, PublicTypes, SectionsCame, MarksHaveTimers, Public!Got,
         Public!VisibleEndpoints, Public!Card

LEMMA RulesStutters == RulesInv /\ UNCHANGED vars => RulesInv'
  BY DEF vars, RulesInv, RulesTypes, RulesListed, RulesKnown, RulesFresh, RuleKeeps,
         RuleWrites, RuleIsAlone, Rules!Rows, Rules!Row, Rules!Live

LEMMA SourcesStutters == SourcesInv /\ UNCHANGED vars => SourcesInv'
  BY DEF vars, SourcesInv, SourcesTypes, SourcesCalm, SourcesListed, SourcesKnown,
         SourcesFresh, SourceFormIsFresh, SourceWritesAreFresh, SourceIsAlone, SourceSaves,
         SourceKeeps, SourceWrites, SourceIsStored, Sources!Rows,
         Sources!Row, Sources!Live, Sources!Open

LEMMA NextInv == IInv /\ [Next]_vars => IInv'
  <1>1. ASSUME IInv, UNCHANGED vars PROVE IInv'
    <2>1. BlocklistInv'
      BY <1>1, BlocklistKeeps, PagesCall DEF IInv
    <2>2. /\ (HomeInv => HomeInv') /\ (HomeTexts => HomeTexts')
          /\ (SessionInv => SessionInv')
      BY <1>1 DEF vars, HomeInv, HomeTypes, ReadsAreFresh, CacheIsFresh, TypedIsSent,
                  Invalidated, Matches, HomeTexts, SessionInv, SessionTypes, LoginIsCarried
    <2>3. page' = page /\ UNCHANGED Endpoints!vars
      BY <1>1 DEF vars, Endpoints!vars
    <2> QED BY <1>1, <2>1, <2>2, <2>3, StatsStutters, PublicStutters, EndsStutters, FormStutters,
               RulesStutters, SourcesStutters DEF IInv
  <1>2. ASSUME IInv, Next PROVE IInv'
    <2>1. BlocklistInv'
      BY <1>2, BlocklistKeeps, PagesCall DEF IInv
    <2>2. (HomeInv /\ HomeTexts /\ Home!Next => HomeTexts')
      BY TextsNext DEF HomeInv
    <2> QED BY <1>2, <2>1, <2>2, HomeNext, SessionNext, PublicNext, EndsNext, FormNext, RulesNext,
               SourcesNext, StatsNext DEF Next, IInv
  <1> QED BY <1>1, <1>2

LEMMA Invariant == Spec => []IInv
  BY InitInv, NextInv, PTL DEF Spec

-----------------------------------------------------------------------------
(* The types of the pages.                                                   *)

LEMMA EndsTyped == EndsInv => Endpoints!TypeOK
  <1> SUFFICES ASSUME EndsInv PROVE Endpoints!TypeOK
    OBVIOUS
  <1>1. /\ server \in [Endpoints!Id -> EndRecords] /\ view.list \in EndLists
        /\ view.dialog \in {"none", "create", "edit", "delete"}
    BY DEF EndsInv, EndsTypes
  <1>2. \A e \in Endpoints!Id : server[e].order \in 0..MaxRecords - 1
    BY <1>1 DEF EndRecords
  <1>3. Endpoints!Ids(view.list) \in Seq(Endpoints!Id)
    BY <1>1 DEF EndLists, EndOrders
  <1>4. ASSUME NEW s \in Seq(Endpoints!Id) PROVE Endpoints!Range(s) \subseteq Endpoints!Id
    BY DEF Endpoints!Range
  <1>5. Endpoints!Range(Endpoints!Ids(view.list)) \subseteq Endpoints!Id
    BY <1>3, <1>4
  <1> QED BY <1>1, <1>2, <1>5 DEF Endpoints!TypeOK

LEMMA SourcesTyped == SourcesInv => Sources!TypeOK
  <1> SUFFICES ASSUME SourcesInv PROVE Sources!TypeOK
    OBVIOUS
  <1>1. view \in SourceViews /\ (view.creating => view.editing = Sources!NoRow)
    BY DEF SourcesInv, SourcesTypes
  <1> DEFINE Any == [id : 0..MaxSources, text : OneText \cup {Blank},
                     body : Body \cup {NoLinks}, active : BOOLEAN]
  <1>2. SourceRows \subseteq Any
    BY RecordsAssumption DEF SourceRows, Sources!Id
  <1>3. Sources!NoRow \in Any
    BY RecordsAssumption DEF Sources!NoRow
  <1>4. /\ view.selected \in Owner \cup {Nobody} /\ view.rows \subseteq SourceRows
        /\ view.editing \in SourceRows \cup {Sources!NoRow}
    BY <1>1 DEF SourceViews
  <1>5. view.rows \cup {view.editing} \subseteq Any
    <2> HIDE DEF Any
    <2> QED BY <1>2, <1>3, <1>4
  <1> QED BY <1>1, <1>4, <1>5 DEF Sources!TypeOK

LEMMA RulesTyped == RulesInv => Rules!TypeOK
  <1> SUFFICES ASSUME RulesInv PROVE Rules!TypeOK
    OBVIOUS
  <1>1. /\ view.list \subseteq RuleRows /\ view.editing \in RuleRows \cup {Rules!NoRow}
        /\ view.editing # Rules!NoRow => view.open
    BY DEF RulesInv, RulesTypes
  <1> DEFINE Any == [id : 0..MaxRecords, text : OneText \cup {Blank},
                     owner : Name \cup {Everyone}, active : BOOLEAN,
                     created : BOOLEAN]
  <1>2. RuleRows \subseteq Any
    BY RecordsAssumption DEF RuleRows, RuleText, RuleOwner, Rules!Id
  <1>3. Rules!NoRow \in Any
    BY RecordsAssumption DEF Rules!NoRow
  <1>5. view.list \cup {view.editing} \subseteq Any
    <2> HIDE DEF Any
    <2> QED BY <1>1, <1>2, <1>3
  <1> QED BY <1>1, <1>5 DEF Rules!TypeOK

LEMMA StatsTyped == StatsInv => Stats!TypeOK
  <1> SUFFICES ASSUME StatsInv PROVE Stats!TypeOK
    OBVIOUS
  <1>1. /\ view \in StatsViews /\ (view.submitting => view.tab = "blocked")
        /\ Stats!DrillOpen => view.tab = "ranking"
    BY DEF StatsInv, StatsTypes
  <1>2. /\ view.tab \in Stats!Tabs \cup {"none"}
        /\ view.marks \in [Rankings -> (SUBSET Domain) \cup {Stats!Unknown}]
    BY <1>1 DEF StatsViews
  <1>3. \A k \in Rankings : view.marks[k] = Stats!Unknown \/ view.marks[k] \subseteq Domain
    BY <1>2
  <1> QED BY <1>1, <1>2, <1>3 DEF Stats!TypeOK

LEMMA FormTyped == FormInv => Form!TypeOK
  <1> SUFFICES ASSUME FormInv PROVE Form!TypeOK
    OBVIOUS
  <1>1. /\ view.type \in Form!Types /\ view.config \in FormConfigs
        /\ view.pairs # <<>> /\ view.inputs # <<>>
    BY DEF FormInv, FormViews
  <1>2. \A c \in FormConfigs : c.of \in Form!Families \cup {"empty", "lines", "links", "quoted"}
    BY DEF FormConfigs, FormBare, FormQuoted, FormLines, ConfigsOf, Form!Empty
  <1> QED BY <1>1, <1>2 DEF Form!TypeOK

LEMMA HomeTyped == HomeTexts => Home!TypeOK
  BY DEF HomeTexts, Home!TypeOK

LEMMA SessionTyped == SessionInv => Session!TypeOK
  BY DEF SessionInv, SessionTypes, SessionViews, OwnTabs, Session!TypeOK

LEMMA PublicTyped == PublicInv => Public!TypeOK
  <1> SUFFICES ASSUME PublicInv PROVE Public!TypeOK
    OBVIOUS
  <1>1. view.mark \in Path \cup {Blank}
    BY DEF PublicInv, MarksHaveTimers
  <1>2. /\ view.timers \in Nat /\ hist.commands \in Nat /\ hist.commands <= Commands.public
        /\ view.timers + Cardinality(view.copying) <= hist.commands
        /\ IsFiniteSet(view.copying)
    BY DEF PublicInv, PublicTypes, MarksHaveTimers
  <1>3. Cardinality(view.copying) \in Nat
    BY <1>2, FS_CardinalityType
  <1>4. Commands.public \in Nat
    BY CommandsAssumption
  <1>5. view.timers <= Commands.public
    BY <1>2, <1>3, <1>4
  <1>6. view.timers \in 0..Commands.public
    BY <1>2, <1>4, <1>5
  <1> QED BY <1>1, <1>6 DEF Public!TypeOK

-----------------------------------------------------------------------------
(* The blocklist.                                                            *)

\* Whatever the page of statistics sends, however its calls overlap, fail or
\* end with the process, it drives the blocklist by its own steps only.
THEOREM PagesKeepToBlocklist == Spec => BlocklistSpec
  BY InitInv, Invariant, PagesCall, PTL DEF Spec, BlocklistSpec

LEMMA BlocklistInvariant == BlocklistSpec => []BlocklistInv
  BY BlocklistStarts, BlocklistKeeps, PTL DEF BlocklistSpec

\* The table and the memory hold domains, and the table no placeholder.
THEOREM BlocklistTypes == BlocklistSpec => []BlocklistOK
  <1>1. BlocklistInv => BlocklistOK
    BY DEF BlocklistInv
  <1> QED BY <1>1, BlocklistInvariant, PTL

\* Visitors without a referrer are never refused, whatever is typed into the
\* page of statistics.
THEOREM PlaceholdersAlwaysPass == Spec => []PlaceholdersPass
  <1>1. BlocklistInv => PlaceholdersPass
    BY PlaceholderAssumption
       DEF BlocklistInv, HostsOnly, Host, PlaceholdersPass, IsBlocked
  <1> QED BY <1>1, BlocklistInvariant, PagesKeepToBlocklist, PTL

\* A call that no other overlaps leaves the table in memory.
THEOREM AloneCallsSync == Spec => CallsAloneSync
  <1>1. BlocklistInv /\ [BlocklistNext]_blocklistVars =>
            [\A a \in Admin :
                Install(a) /\ call[a].alone => blockedHosts' = rows']_blocklistVars
    BY DEF BlocklistInv, AloneIsAlone, Install
  <1> QED BY <1>1, BlocklistInvariant, PagesKeepToBlocklist, PTL
          DEF BlocklistSpec, CallsAloneSync

-----------------------------------------------------------------------------
(* The pages.                                                                *)

\* Rows, texts, tabs, marks and bounds stay what they are taken for. The default
\* of the visitors is never saved, and a tab that is at the provider has a login
\* begun.
THEOREM PagesKeepTheirTypes == Spec => []TypeOK
  <1>1. IInv => TypeOK
    BY EndsTyped, SourcesTyped, FormTyped, RulesTyped, HomeTyped, StatsTyped, SessionTyped,
       PublicTyped DEF IInv, TypeOK, BlocklistInv
  <1> QED BY <1>1, Invariant, PTL

\* The cache of the configuration never holds an old text of the home page but
\* after a read that a change has overtaken: invalidating after writing, and
\* reading without a lock, leave no other way.
THEOREM CacheStaysStored == Spec => []CacheIsStored
  <1>1. IInv => CacheIsStored
    BY DEF IInv, HomeInv, CacheIsFresh, Invalidated, Matches, CacheIsStored,
           Home!CacheIsStored, Home!In, Home!InFlight, Home!BagToSet
  <1> QED BY <1>1, Invariant, PTL

\* What is typed while the editor waits for nothing is overwritten by no save.
THEOREM TypedTextIsKept == Spec => []TypedTextStays
  <1>1. IInv => TypedTextStays
    BY DEF IInv, HomeInv, TypedIsSent, TypedTextStays, Home!TypedTextStays
  <1> QED BY <1>1, Invariant, PTL

\* A login that nothing was on its way for is lost to nobody's refusal but its
\* own, for any tabs and any number of calls and logins.
THEOREM LoginStays == Spec => []LoginIsKept
  <1>1. IInv => LoginIsKept
    BY DEF IInv, SessionInv, LoginIsCarried, LoginIsKept, Session!LoginIsKept
  <1> QED BY <1>1, Invariant, PTL

\* Whichever of its requests fail, the public page shows what it got, and no
\* mark of a copied path stays without a timer that takes it away.
THEOREM PublicPageIsComplete == Spec => []HomeIsComplete
  <1>1. IInv => HomeIsComplete
    BY PublicComplete DEF IInv, HomeIsComplete
  <1> QED BY <1>1, Invariant, PTL

\* An answer that comes late is not shown for what was chosen after it: by the
\* dialog of sources, if nothing was on its way when it was opened, and by the
\* dialog of paths and the chart in any case, for they number their questions.
THEOREM WindowsStayChosen == Spec => []WindowsAreChosen
  <1>1. IInv => WindowsAreChosen
    BY SourcesShown, StatsShown DEF IInv, WindowsAreChosen
  <1> QED BY <1>1, Invariant, PTL

\* A table that waits for nothing shows what the server stores, unless a list
\* was overtaken by a later one or an answer is missing: for any rows, and any
\* requests that overlap, fail or change a row meanwhile.
THEOREM TablesStayStored == Spec => []TablesAreStored
  <1>1. IInv => TablesAreStored
    BY EndsShown, SourcesShown, RulesShown, StatsShown DEF IInv, TablesAreStored
  <1> QED BY <1>1, Invariant, PTL

\* Of the fields of a form an update changes none but those that were typed, if
\* its row was shown as stored and had no other write at the time; a rule
\* loses its time of creation, which is no field of its form.
THEOREM UntouchedFieldsAreKept == Spec => UntouchedFieldsStay
  <1> DEFINE Leaves == /\ page = "endpoints" => Endpoints!LeavesUntouched
                       /\ page = "sources" => Sources!LeavesUntouched
                       /\ page = "rules" => Rules!LeavesUntouched
  <1>1. IInv => Leaves
    BY EndsLeave, SourcesShown, RulesShown DEF IInv
  <1>2. IInv /\ [Next]_vars => [Leaves]_vars
    BY <1>1
  <1> QED BY <1>2, Invariant, PTL DEF Spec, UntouchedFieldsStay

\* Writing the order of the endpoints row by row, the server puts them as they
\* were dropped, whatever was edited before, meanwhile or since.
THEOREM DroppedOrderSticks == Spec => []DropsStick
  <1>1. IInv => DropsStick
    BY EndsShown DEF IInv, DropsStick
  <1> QED BY <1>1, Invariant, PTL

\* The form of a source, which keeps every field twice, shows what its text says,
\* however the text, the type and the source were changed, one after the other.
THEOREM FormShowsItsText == Spec => []FormShowsText
  <1>1. IInv => FormShowsText
    BY FormShown DEF IInv, FormShowsText
  <1> QED BY <1>1, Invariant, PTL

\* A header that is complete, and the only one of its name, stays in the text and
\* in its row while the others are typed in or removed.
THEOREM OtherHeadersAreKept == Spec => OtherHeadersStay
  <1>1. IInv /\ [Next]_vars => [page = "form" => Form!LeavesOtherHeaders]_vars
    BY FormLeaves DEF IInv
  <1> QED BY <1>1, Invariant, PTL DEF Spec, OtherHeadersStay
=============================================================================
