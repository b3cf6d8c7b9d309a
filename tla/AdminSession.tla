----------------------------- MODULE AdminSession -----------------------------
(***************************************************************************)
(* Who is logged in: the tabs of one browser (AdminLayout and LoginPage),  *)
(* the two cookies they share and the state each keeps of its own login    *)
(* (lib/auth.ts), the provider of the accounts, and the check that the     *)
(* server makes of each call (middleware/auth.go).  Logging in leaves the  *)
(* page and comes back with a token in the URL. A call that is refused     *)
(* clears the cookies of all the tabs, whichever token it had carried. The *)
(* cookies are written and removed one after the other, the token first: a *)
(* script of one tab runs to its end, but the other tabs go on meanwhile.  *)
(***************************************************************************)
EXTENDS Requests, FiniteSets

CONSTANTS
    Tab,            \* tabs of the browser
    MaxAttempts     \* bound on logins

vars == <<server, view, net, hist>>

None == 0
Attempt == 1..MaxAttempts        \* a login, its state and its token
Plain == [kind |-> "none"]       \* a URL without parameters
Error == [kind |-> "error"]

(***************************************************************************)
(* Server. Tokens "alive" at the provider, and "cached" as valid.          *)
(* View. "cookie" is the token, "user" whether the cookie of the user is   *)
(* there; each tab is "mounting" the login page, on it at "login", in the  *)
(* "admin", "away" at the provider, "leaving" for /admin, or between the   *)
(* two cookies: "saving" them, "clearing" them, or, when a call of its own *)
(* was "refused", clearing them to leave. Of a tab there are its URL, the  *)
(* state it has saved, the logins it may still come back from, and the     *)
(* configuration that a login needs.                                       *)
(* History. "token": of the last login saved while no call was on its way  *)
(* and no tab was clearing the cookies, until a cookie expires, somebody   *)
(* logs out or in, or the server refuses it; "attempts": logins begun.     *)
(***************************************************************************)
NewTab == [at |-> "login", url |-> Plain, state |-> None, pending |-> {}, config |-> FALSE]

Init ==
    /\ server = [alive |-> {}, cached |-> {}]
    /\ view = [cookie |-> None, user |-> FALSE, tabs |-> [t \in Tab |-> NewTab]]
    /\ hist = [token |-> None, attempts |-> 0, commands |-> 0]
    /\ net = EmptyBag

At(t, place) == view.tabs[t].at = place
Between(t) == view.tabs[t].at \in {"saving", "clearing", "refused"}
Clearing == \E t \in Tab : At(t, "clearing") \/ At(t, "refused")

-----------------------------------------------------------------------------
(* Loading /admin.                                                         *)

\* Mutant: a login that failed ends the one there was.
MutCheckAuth(t, v) ==
    LET failed == v.tabs[t].url.kind = "error"
    IN  [cookie |-> IF failed THEN None ELSE v.cookie, user |-> v.user,
         tabs |-> [v.tabs EXCEPT ![t].at =
                       IF failed THEN "clearing"
                       ELSE IF v.cookie = None THEN "mounting" ELSE "admin"]]

\* With both cookies the parameters are not looked at, and stay in the URL. A
\* token without its user is removed, and then the user.
CheckAuth(t, v) ==
    [cookie |-> IF v.user THEN v.cookie ELSE None, user |-> v.user,
     tabs |-> [v.tabs EXCEPT ![t].at =
                   IF v.cookie = None THEN "mounting"
                   ELSE IF v.user THEN "admin" ELSE "clearing"]]

\* The state of the page is new; what is kept of a login is in the browser.
Mounted(t, url) ==
    LET tab == view.tabs[t]
        next == [at |-> tab.at, url |-> url, state |-> tab.state,
                 pending |-> tab.pending, config |-> FALSE]
    IN  [cookie |-> view.cookie, user |-> view.user,
         tabs |-> [view.tabs EXCEPT ![t] = next]]

\* A page that is loaded waits for no answer of the one before.
Loaded(t, url) ==
    /\ view' = CheckAuth(t, Mounted(t, url))
    /\ net' = [r \in {q \in InFlight : q.tab # t} |-> net[r]]
    /\ UNCHANGED hist

\* Opening the page or reloading it. A link of the menu keeps the layout, with
\* its user, and what the tab does.
Open(t) ==
    /\ view.tabs[t].at \in {"mounting", "login", "admin", "leaving"}
    /\ Loaded(t, Plain)
    /\ UNCHANGED server

\* When the login page is mounted. Only a URL that brings the token of the login
\* begun last in this tab is accepted; a state that is another is forgotten, so
\* that its login cannot come back either.
CheckURLParams(t) ==
    LET tab == view.tabs[t]
        own == tab.url.kind = "token" /\ tab.url.state = tab.state
        next == [at |-> IF own THEN "saving" ELSE "login", url |-> Plain,
                 state |-> IF tab.url.kind = "token" THEN None ELSE tab.state,
                 pending |-> tab.pending, config |-> tab.config]
    IN  /\ At(t, "mounting")
        /\ view' = [cookie |-> IF own THEN tab.url.token ELSE view.cookie,
                    user |-> view.user, tabs |-> [view.tabs EXCEPT ![t] = next]]
        /\ hist' = [hist EXCEPT !.token = IF own THEN None ELSE @]
        /\ UNCHANGED <<server, net>>

\* SaveAuthInfo goes on: the token is written, the user is next.
SaveUser(t) ==
    /\ At(t, "saving")
    /\ view' = [cookie |-> view.cookie, user |-> TRUE,
                tabs |-> [view.tabs EXCEPT ![t].at = "admin"]]
    /\ hist' = [hist EXCEPT !.token = IF InFlight # {} \/ Clearing THEN None ELSE view.cookie]
    /\ UNCHANGED <<server, net>>

\* ClearAuthInfo goes on.
RemoveUser(t) ==
    /\ At(t, "clearing") \/ At(t, "refused")
    /\ view' = [cookie |-> view.cookie, user |-> FALSE,
                tabs |-> [view.tabs EXCEPT ![t].at =
                              IF At(t, "refused") THEN "leaving" ELSE "mounting"]]
    /\ UNCHANGED <<server, net, hist>>

LoadOAuthConfig(t) ==
    /\ At(t, "login") /\ ~view.tabs[t].config
    /\ view' = [view EXCEPT !.tabs[t].config = TRUE]
    /\ UNCHANGED <<server, net, hist>>

HandleLogin(t) ==
    LET s == hist.attempts + 1
    IN  /\ At(t, "login") /\ view.tabs[t].config /\ s \in Attempt
        /\ view' = [view EXCEPT !.tabs[t] =
                        [at |-> "away", url |-> view.tabs[t].url, state |-> s,
                         pending |-> view.tabs[t].pending \cup {s}, config |-> TRUE]]
        /\ hist' = [hist EXCEPT !.attempts = s]
        /\ net' = [r \in {q \in InFlight : q.tab # t} |-> net[r]]
        /\ UNCHANGED server

\* HandleOAuthCallback sends the tab back, with a token or with an error. It may
\* be for a login begun earlier in this tab, found again in its history.
HandleOAuthCallback(t, s) ==
    /\ At(t, "away") /\ s \in view.tabs[t].pending
    /\ \/ /\ server' = [server EXCEPT !.alive = @ \cup {s}]
          /\ Loaded(t, [kind |-> "token", token |-> s, state |-> s])
       \/ /\ Loaded(t, Error)
          /\ UNCHANGED server

\* Back to the login page without having logged in.
GoBack(t) == At(t, "away") /\ Loaded(t, Plain) /\ UNCHANGED server

\* The login page may be mounted before the URL has become /admin.
HandleLogout(t) ==
    /\ At(t, "admin")
    /\ \E url \in {view.tabs[t].url, Plain} :
          LET next == [at |-> "clearing", url |-> url, state |-> view.tabs[t].state,
                       pending |-> view.tabs[t].pending, config |-> FALSE]
          IN  view' = [cookie |-> None, user |-> view.user,
                       tabs |-> [view.tabs EXCEPT ![t] = next]]
    /\ hist' = [hist EXCEPT !.token = None]
    /\ UNCHANGED <<server, net>>

\* The cookies expire a week after they were written: a token does so before the
\* user that was written after it, but not before that of an older login.
TokenCookieExpires ==
    /\ view.cookie # None
    /\ view' = [view EXCEPT !.cookie = None]
    /\ hist' = [hist EXCEPT !.token = None]
    /\ UNCHANGED <<server, net>>

UserCookieExpires ==
    /\ view.user
    /\ view.cookie = None \/ \E t \in Tab : At(t, "saving")
    /\ view' = [view EXCEPT !.user = FALSE]
    /\ hist' = [hist EXCEPT !.token = None]
    /\ UNCHANGED <<server, net>>

-----------------------------------------------------------------------------
(* Calls of a page of the admin.                                           *)

\* The token is that of the moment, whoever has logged in since.
AuthenticatedFetch(t) ==
    /\ At(t, "admin") /\ Command
    /\ net' = Send([kind |-> "call", stage |-> "sent", tab |-> t, token |-> view.cookie])
    /\ hist' = Counted(hist)
    /\ UNCHANGED <<server, view>>

\* A token that was found valid is not asked about again for half an hour. If
\* the provider cannot be asked, the answer is the same as for one that is not.
RequireAuth(r) ==
    /\ r.stage = "sent"
    /\ \/ /\ r.token \in server.alive \cup server.cached
          /\ server' = [server EXCEPT !.cached = @ \cup {r.token}]
          /\ net' = Turn(r, [r EXCEPT !.stage = "ok"])
       \/ /\ r.token \notin server.cached
          /\ net' = Turn(r, [r EXCEPT !.stage = "refused"])
          /\ UNCHANGED server
    /\ UNCHANGED <<view, hist>>

\* Answers other than 401 are up to the page that asked.
Answered(r) ==
    /\ r.stage = "ok" /\ ~Between(r.tab)
    /\ net' = Done(r)
    /\ UNCHANGED <<server, view, hist>>

Refused(r) ==
    /\ r.stage = "refused" /\ ~Between(r.tab)
    /\ view' = [cookie |-> None, user |-> view.user,
                tabs |-> [view.tabs EXCEPT ![r.tab].at = "refused"]]
    /\ net' = Done(r)
    /\ hist' = [hist EXCEPT !.token = IF r.token = @ THEN None ELSE @]
    /\ UNCHANGED server

TokenExpires(token) ==
    /\ \/ token \in server.alive /\ server' = [server EXCEPT !.alive = @ \ {token}]
       \/ token \in server.cached /\ server' = [server EXCEPT !.cached = @ \ {token}]
    /\ UNCHANGED <<view, net, hist>>

Next ==
    \/ \E t \in Tab :
          \/ Open(t) \/ CheckURLParams(t) \/ SaveUser(t) \/ RemoveUser(t)
          \/ LoadOAuthConfig(t) \/ HandleLogin(t) \/ GoBack(t) \/ HandleLogout(t)
          \/ AuthenticatedFetch(t)
          \/ \E s \in Attempt : HandleOAuthCallback(t, s)
    \/ \E token \in Attempt : TokenExpires(token)
    \/ TokenCookieExpires \/ UserCookieExpires
    \/ \E r \in InFlight : RequireAuth(r) \/ Answered(r) \/ Refused(r)

Spec == Init /\ [][Next]_vars

-----------------------------------------------------------------------------
(* Properties.                                                             *)

TypeOK ==
    /\ view.cookie \in Attempt \cup {None} /\ view.user \in BOOLEAN
    /\ \A t \in Tab : view.tabs[t].at = "away" => view.tabs[t].state # None

\* A login that was saved while no call was on its way, and while no other tab
\* was clearing the cookies, is kept with its user in the cookies until one of
\* them expires, somebody logs out or in again, or the server refuses that very
\* token: through calls of all the tabs, pages that are loaded in them, also with
\* the token of another login in the URL, and logins that fail.
LoginIsKept == hist.token # None => view.cookie = hist.token /\ view.user
=============================================================================
