------------------------------ MODULE WebAuth ------------------------------
(***************************************************************************)
(* The browser side of a login session: the tabs of one browser, their      *)
(* auth stores, the refresh they coordinate through navigator.locks, the    *)
(* cookie jar they share and the events they broadcast to each other        *)
(* (web/src/lib/auth-session.ts and its callers).                           *)
(*                                                                          *)
(* The server's handlers are one step each; UserSession interleaves them.   *)
(* A refresh token is its session and its age in rotations: 0 is the newest *)
(* one, 1 the one before it, 2 anything older.                              *)
(***************************************************************************)
EXTENDS Naturals, Sequences

CONSTANTS Tabs,         \* the tabs of the browser
          MaxSessions,  \* bound on the login sessions created
          MaxLogouts,   \* bound on the sign-outs
          MaxFaults     \* bound on lost requests, answers and events, on pages
                        \* reloaded and on sessions revoked from elsewhere

ASSUME WebBounds == MaxSessions \in Nat \ {0} /\ MaxLogouts \in Nat /\ MaxFaults \in Nat

VARIABLES server,   \* the state of each login session on the server
          grace,    \* whether the token of age 1 is inside the replay window
          cookie,   \* the refresh cookie in the browser's jar
          tab,      \* each tab's page and auth store
          rf,       \* each tab's refreshPromise
          api,      \* each tab's request that was refused, if any
          fg,       \* each tab's login or logout in flight
          inbox,    \* broadcast events on their way to each tab
          logouts, faults,  \* how many there have been
          \* History: the sessions a tab has dropped after their revocation, the
          \* ones a user signed out of, and the ones whose newest cookie the browser
          \* did not keep: the answer was lost, or one that was about another
          \* session took its place.
          dropped,
          signedOut,
          lost

vars == <<server, grace, cookie, tab, rf, api, fg, inbox, logouts, faults, dropped, signedOut, lost>>
history == <<dropped, signedOut, lost>>

Sids == 1..MaxSessions
NoSid == 0
Cookies == [sid : 0..MaxSessions, age : 0..2]
NoCookie == [sid |-> NoSid, age |-> 0]
New(s) == [sid |-> s, age |-> 0]

\* sid and fresh are the session and whether its access token is unexpired;
\* done is bootstrapState = 'complete' ('idle' and 'checking' act alike).
Tab == [page : {"boot", "up"}, sid : 0..MaxSessions, fresh : BOOLEAN, done : BOOLEAN]
NewPage == [page |-> "boot", sid |-> NoSid, fresh |-> FALSE, done |-> FALSE]

\* stale: authEpoch has moved since the refresh began; expected: the session
\* named in the request; token: the cookie sent, then the one set.
Refresh == [pc : {"none", "lock", "sent", "ok", "unauthorized", "mismatch", "transient"},
            stale : BOOLEAN, expected : 0..MaxSessions, token : Cookies]
NoRefresh == [pc |-> "none", stale |-> FALSE, expected |-> NoSid, token |-> NoCookie]
NewRefresh == [NoRefresh EXCEPT !.pc = "lock"]

Foreground == [pc : {"none", "login", "ok", "kept", "recover", "again"},
               sid : 0..MaxSessions]
NoForeground == [pc |-> "none", sid |-> NoSid]

Event == [kind : {"authenticated", "signed_out"}, sid : Sids]

WebTypeOK ==
    /\ server \in [Sids -> {"unused", "active", "revoked"}]
    /\ grace \in [Sids -> BOOLEAN] /\ cookie \in Cookies
    /\ tab \in [Tabs -> Tab] /\ rf \in [Tabs -> Refresh]
    /\ api \in [Tabs -> {"none", "wait", "refused"}]
    /\ fg \in [Tabs -> Foreground]
    /\ \A t \in Tabs : inbox[t] \in Seq(Event)
    /\ logouts \in 0..MaxLogouts /\ faults \in 0..MaxFaults
    /\ dropped \in [Tabs -> SUBSET Sids] /\ signedOut \subseteq Sids /\ lost \subseteq Sids

\* A browser that still holds the cookie of an earlier login opens the tabs.
Init ==
    /\ server = [s \in Sids |-> IF s = 1 THEN "active" ELSE "unused"]
    /\ grace = [s \in Sids |-> FALSE]
    /\ cookie = New(1)
    /\ tab = [t \in Tabs |-> NewPage]
    /\ rf = [t \in Tabs |-> NewRefresh]
    /\ api = [t \in Tabs |-> "none"]
    /\ fg = [t \in Tabs |-> NoForeground]
    /\ inbox = [t \in Tabs |-> <<>>]
    /\ logouts = 0 /\ faults = 0
    /\ dropped = [t \in Tabs |-> {}] /\ signedOut = {} /\ lost = {}

-----------------------------------------------------------------------------
(* Tokens, events and the auth store.                                       *)

Older(c, s) == IF c.sid = s /\ c.age < 2 THEN [c EXCEPT !.age = @ + 1] ELSE c

\* A tab's access token is accepted by the server.
TokenOk(t) == tab[t].sid # NoSid /\ tab[t].fresh /\ server[tab[t].sid] = "active"

Up(t) == tab[t].page = "up"

PublishAnonymous(t, kind, s) ==
    inbox' = [u \in Tabs |-> IF u # t /\ Up(u)
                               THEN Append(inbox[u], [kind |-> kind, sid |-> s])
                               ELSE inbox[u]]

\* publishAuthSessionEvent: every other page that has mounted hears it.
Publish(t, kind, s) ==
    inbox' = [u \in Tabs |-> IF u # t /\ Up(u) /\ s # NoSid
                               THEN Append(inbox[u], [kind |-> kind, sid |-> s])
                               ELSE inbox[u]]

Store(t, s) == [tab[t] EXCEPT !.sid = s, !.fresh = TRUE, !.done = TRUE]
Cleared(t, complete) == [tab[t] EXCEPT !.sid = NoSid, !.fresh = FALSE, !.done = complete]

\* The jar goes from the cookie of a session in use to another one, or to none.
Displaced(c) ==
    IF cookie.sid \notin {NoSid, c.sid} /\ server[cookie.sid] = "active" THEN {cookie.sid} ELSE {}

\* What clearAuthentication drops, if the server has revoked it.
Drops(t) ==
    IF tab[t].sid # NoSid /\ server[tab[t].sid] = "revoked" THEN {tab[t].sid} ELSE {}

\* authEpoch += 1: a refresh in flight is superseded.
Superseded(t) == [rf[t] EXCEPT !.stale = rf[t].pc # "none"]

\* The page is gone with everything in flight; an answer that carried a new
\* cookie is lost.  The new page runs bootstrapAuthentication: without the hint
\* cookie, which is written and cleared with the refresh cookie, it asks nothing.
Reload(t) ==
    /\ IF cookie = NoCookie
         THEN /\ tab' = [tab EXCEPT ![t] = [NewPage EXCEPT !.page = "up"]]
              /\ rf' = [rf EXCEPT ![t] = NoRefresh]
         ELSE /\ tab' = [tab EXCEPT ![t] = NewPage]
              /\ rf' = [rf EXCEPT ![t] = NewRefresh]
    /\ api' = [api EXCEPT ![t] = "none"]
    /\ fg' = [fg EXCEPT ![t] = NoForeground]
    /\ inbox' = [inbox EXCEPT ![t] = <<>>]
    /\ lost' = IF rf[t].pc = "ok" THEN lost \cup {rf[t].token.sid} ELSE lost

-----------------------------------------------------------------------------
(* refreshAuthentication.                                                   *)

\* One promise per tab: a second caller joins the refresh in flight.
RefreshAuthentication(t) ==
    rf' = [rf EXCEPT ![t] = IF @.pc # "none" THEN @
                            ELSE NewRefresh]

Holds(u) == rf[u].pc \notin {"none", "lock"}

LockIgnored(t) == TRUE

\* navigator.locks, exclusive.
LockFree(t) == \A u \in Tabs \ {t} : ~Holds(u)

\* What the refresh's end means for those who await it: a page that is booting
\* mounts, a refused request is sent again with the new token (and may be
\* refused again), a logout that found another session's cookie goes on.
Settle(t, outcome, s, store) ==
    /\ rf' = [rf EXCEPT ![t] = NoRefresh]
    /\ tab' = [tab EXCEPT ![t] = [store EXCEPT !.page = IF @ = "boot" THEN "up" ELSE @]]
    /\ api' = [api EXCEPT ![t] =
                 IF @ # "wait" THEN @
                 ELSE IF outcome = "authenticated" /\ server[s] = "revoked" THEN "refused"
                 ELSE "none"]
    /\ fg' = [fg EXCEPT ![t] =
                IF @.pc # "recover" THEN @
                ELSE IF outcome = "authenticated" THEN [NoForeground EXCEPT !.pc = "again"]
                ELSE NoForeground]

Send(t, expected) ==
    [rf[t] EXCEPT !.pc = "sent", !.expected = expected, !.token = cookie]

\* The lock is granted: nothing is sent when the epoch has moved.
RunRefresh(t) ==
    /\ rf[t].pc = "lock" /\ LockFree(t)
    /\ \/ /\ rf[t].stale
          /\ Settle(t, "transient", NoSid, tab[t])
       \/ /\ ~rf[t].stale
          /\ rf' = [rf EXCEPT ![t] = Send(t, tab[t].sid)]
          /\ UNCHANGED <<tab, api, fg>>
    /\ UNCHANGED <<logouts, server, grace, cookie, inbox, faults, history>>

Answered(t, pc) == [rf[t] EXCEPT !.pc = pc, !.expected = NoSid]

\* RefreshAuth.  A rotation makes every other copy of the token one older.
Rotate(t, s) ==
    /\ grace' = [grace EXCEPT ![s] = TRUE]
    /\ cookie' = Older(cookie, s)
    /\ rf' = [u \in Tabs |-> IF u = t THEN [Answered(t, "ok") EXCEPT !.token = New(s)]
                             ELSE [rf[u] EXCEPT !.token = Older(@, s)]]
    /\ UNCHANGED server

Answer(t, pc, token) ==
    /\ rf' = [rf EXCEPT ![t] = [Answered(t, pc) EXCEPT !.token = token]]
    /\ UNCHANGED <<grace, cookie>>

RefreshAuth(t) ==
    LET c == rf[t].token  s == c.sid IN
    /\ rf[t].pc = "sent"
    /\ \/ /\ s # NoSid /\ rf[t].expected \notin {NoSid, s}
          /\ Answer(t, "mismatch", NoCookie) /\ UNCHANGED server
       \/ /\ s # NoSid /\ rf[t].expected \in {NoSid, s} /\ server[s] = "active"
          /\ \/ c.age = 0 /\ Rotate(t, s)
             \/ c.age = 1 /\ grace[s] /\ Answer(t, "ok", New(s)) /\ UNCHANGED server
             \/ /\ c.age = 1 => ~grace[s]
                /\ c.age # 0
                /\ Answer(t, "unauthorized", NoCookie)
                /\ server' = IF c.age = 1 THEN [server EXCEPT ![s] = "revoked"] ELSE server
       \/ /\ s # NoSid => rf[t].expected \in {NoSid, s} /\ server[s] = "revoked"
          /\ Answer(t, "unauthorized", NoCookie) /\ UNCHANGED server
    /\ UNCHANGED <<logouts, tab, api, fg, inbox, faults, history>>

\* The network loses the request or its answer, or the server fails.
RefreshFails(t) ==
    /\ rf[t].pc \in {"sent", "ok", "unauthorized", "mismatch"} /\ faults < MaxFaults
    /\ faults' = faults + 1
    /\ rf' = [rf EXCEPT ![t] = [Answered(t, "transient") EXCEPT !.token = NoCookie]]
    /\ lost' = IF rf[t].pc = "ok" THEN lost \cup {rf[t].token.sid} ELSE lost
    /\ UNCHANGED <<logouts, server, grace, cookie, tab, api, fg, inbox, dropped, signedOut>>

\* Set-Cookie takes effect whatever the page then makes of the answer.
JarAfter(t) ==
    CASE rf[t].pc = "ok" -> rf[t].token
      [] rf[t].pc = "unauthorized" -> NoCookie
      [] OTHER -> cookie

RefreshAcceptsStale(t) ==
    /\ rf[t].pc = "ok"
    /\ cookie' = JarAfter(t)
    /\ Settle(t, "authenticated", rf[t].token.sid, Store(t, rf[t].token.sid))
    /\ lost' = lost \cup Displaced(cookie')
    /\ UNCHANGED <<logouts, server, grace, inbox, faults, dropped, signedOut>>

RefreshAccepted(t) ==
    /\ rf[t].pc = "ok"
    /\ cookie' = JarAfter(t)
    /\ IF rf[t].stale
         THEN Settle(t, "transient", NoSid, tab[t])
         ELSE Settle(t, "authenticated", rf[t].token.sid, Store(t, rf[t].token.sid))
    /\ lost' = lost \cup Displaced(cookie')
    /\ UNCHANGED <<logouts, server, grace, inbox, faults, dropped, signedOut>>

RefreshUnauthorizedKeeps(t) ==
    /\ rf[t].pc = "unauthorized"
    /\ cookie' = JarAfter(t)
    /\ Settle(t, "transient", NoSid, tab[t])
    /\ lost' = lost \cup Displaced(cookie')
    /\ UNCHANGED <<logouts, server, grace, inbox, faults, dropped, signedOut>>

\* 401: the store is cleared and the other tabs are told.
RefreshUnauthorized(t) ==
    /\ rf[t].pc = "unauthorized"
    /\ cookie' = JarAfter(t)
    /\ IF rf[t].stale
         THEN /\ Settle(t, "transient", NoSid, tab[t])
              /\ UNCHANGED <<inbox, dropped>>
         ELSE /\ Settle(t, "anonymous", NoSid, Cleared(t, TRUE))
              /\ Publish(t, "signed_out", tab[t].sid)
              /\ dropped' = [dropped EXCEPT ![t] = @ \cup Drops(t)]
    /\ lost' = lost \cup Displaced(cookie')
    /\ UNCHANGED <<logouts, server, grace, faults, signedOut>>

\* 409: the store is emptied without moving the epoch, and the refresh is sent
\* once more, under the same lock, expecting no session in particular: it cannot
\* be answered with a second mismatch.
RefreshMismatched(t) ==
    /\ rf[t].pc = "mismatch"
    /\ IF rf[t].stale
         THEN Settle(t, "transient", NoSid, tab[t])
         ELSE /\ tab' = [tab EXCEPT ![t] = Cleared(t, FALSE)]
              /\ rf' = [rf EXCEPT ![t] = Send(t, NoSid)]
              /\ UNCHANGED <<api, fg>>
    /\ UNCHANGED <<logouts, server, grace, cookie, inbox, faults, history>>

\* markTransient, unless the refresh was superseded: the store keeps its session.
RefreshTransient(t) ==
    /\ rf[t].pc = "transient"
    /\ Settle(t, "transient", NoSid, [tab[t] EXCEPT !.done = @ /\ rf[t].stale])
    /\ UNCHANGED <<logouts, server, grace, cookie, inbox, faults, history>>

-----------------------------------------------------------------------------
(* Pages, guards and requests.                                              *)

\* resolveAuthentication, from a route guard.
ResolveAuthentication(t) ==
    /\ Up(t) /\ ~(tab[t].sid # NoSid /\ tab[t].fresh)
    /\ ~tab[t].done \/ tab[t].sid # NoSid
    /\ tab' = [tab EXCEPT ![t].done = FALSE]
    /\ RefreshAuthentication(t)
    /\ UNCHANGED <<logouts, server, grace, cookie, api, fg, inbox, faults, history>>

\* getFreshAuthHeaders, with a token in its last minute or none.
GetFreshAuthHeaders(t) ==
    /\ Up(t) /\ rf[t].pc = "none"
    /\ RefreshAuthentication(t)
    /\ UNCHANGED <<logouts, server, grace, cookie, tab, api, fg, inbox, faults, history>>

\* The server refuses a request with the tab's access token.
ApiUnauthorized(t) ==
    /\ Up(t) /\ api[t] = "none" /\ ~TokenOk(t)
    /\ api' = [api EXCEPT ![t] = "wait"]
    /\ RefreshAuthentication(t)
    /\ UNCHANGED <<logouts, server, grace, cookie, tab, fg, inbox, faults, history>>

\* The retry is refused too.
ApiRetryUnauthorized(t) ==
    /\ api[t] = "refused"
    /\ tab' = [tab EXCEPT ![t] = Cleared(t, TRUE)]
    /\ rf' = [rf EXCEPT ![t] = Superseded(t)]
    /\ api' = [api EXCEPT ![t] = "none"]
    /\ dropped' = [dropped EXCEPT ![t] = @ \cup Drops(t)]
    /\ UNCHANGED <<logouts, server, grace, cookie, fg, inbox, faults, signedOut, lost>>

\* The user reloads the page, or redirectToSignIn does: the store it starts
\* with is empty either way.
UserReload(t) ==
    /\ Up(t) /\ faults < MaxFaults
    /\ faults' = faults + 1
    /\ Reload(t)
    /\ UNCHANGED <<logouts, server, grace, cookie, dropped, signedOut>>

\* A security setting was changed in this tab: applyAuthRotation.
ApplyAuthRotation(t) ==
    /\ Up(t) /\ TokenOk(t)
    /\ rf' = [rf EXCEPT ![t] = Superseded(t)]
    /\ tab' = [tab EXCEPT ![t] = Store(t, tab[t].sid)]
    /\ rf' # rf \/ tab' # tab
    /\ UNCHANGED <<logouts, server, grace, cookie, api, fg, inbox, faults, history>>

TokenExpires(t) ==
    /\ tab[t].fresh
    /\ tab' = [tab EXCEPT ![t].fresh = FALSE]
    /\ UNCHANGED <<logouts, server, grace, cookie, rf, api, fg, inbox, faults, history>>

-----------------------------------------------------------------------------
(* Login and logout.                                                        *)

\* The sign-in form: the server has created the session.
Login(t) ==
    /\ Up(t) /\ tab[t].sid = NoSid /\ fg[t].pc = "none"
    /\ \E s \in Sids :
         /\ server[s] = "unused" /\ \A r \in Sids : r < s => server[r] # "unused"
         /\ server' = [server EXCEPT ![s] = "active"]
         /\ fg' = [fg EXCEPT ![t] = [NoForeground EXCEPT !.pc = "login", !.sid = s]]
    /\ UNCHANGED <<logouts, grace, cookie, tab, rf, api, inbox, faults, history>>

\* handleLoginSuccess: applyAuthBundle.
LoginAnswered(t) ==
    /\ fg[t].pc = "login"
    /\ cookie' = New(fg[t].sid)
    /\ lost' = lost \cup Displaced(cookie')
    /\ tab' = [tab EXCEPT ![t] = Store(t, fg[t].sid)]
    /\ rf' = [rf EXCEPT ![t] = Superseded(t)]
    /\ Publish(t, "authenticated", fg[t].sid)
    /\ fg' = [fg EXCEPT ![t] = NoForeground]
    /\ UNCHANGED <<logouts, server, grace, api, faults, dropped, signedOut>>

NewestKnown == cookie.age = 0

\* RevokeUserSessionByRefreshHash: the newest token, or the one before it inside
\* the replay window.
CookieKnown == cookie.age = 0 \/ (cookie.age = 1 /\ grace[cookie.sid])

\* AuthLogout.  With a valid access token its session is revoked, and the cookie
\* is cleared ("ok") when it is of that session; without one the cookie decides,
\* if the server still knows its token.
AuthLogout(t) ==
    LET s == tab[t].sid
        answer(pc) == fg' = [fg EXCEPT ![t] = [pc |-> pc, sid |-> s]]
    IN  \/ /\ s # NoSid /\ tab[t].fresh
           /\ server' = [server EXCEPT ![s] = "revoked"]
           /\ answer(IF cookie.sid = s THEN "ok" ELSE "kept")
        \/ /\ s = NoSid \/ ~tab[t].fresh
           /\ server' = IF cookie # NoCookie /\ CookieKnown
                          THEN [server EXCEPT ![cookie.sid] = "revoked"] ELSE server
           /\ answer("ok")

\* 409 AUTH_SESSION_MISMATCH: the cookie is of another session.
LogoutMismatch(t) == tab[t].sid # NoSid /\ cookie.sid \notin {NoSid, tab[t].sid}

\* executeLogout, from the sign-out dialog or before an OAuth login.  The first
\* mismatch is recovered by a refresh.
Logout(t) ==
    /\ Up(t) /\ fg[t].pc = "none" /\ logouts < MaxLogouts
    /\ logouts' = logouts + 1
    /\ IF LogoutMismatch(t)
         THEN /\ fg' = [fg EXCEPT ![t] = [NoForeground EXCEPT !.pc = "recover"]]
              /\ RefreshAuthentication(t)
              /\ UNCHANGED server
         ELSE AuthLogout(t) /\ UNCHANGED rf
    /\ UNCHANGED <<grace, cookie, tab, api, inbox, faults, history>>

\* executeLogout again, after the refresh has adopted the cookie's session; the
\* second mismatch is an error.  (A refresh that found the browser anonymous has
\* cleared the store already.)
LogoutAgain(t) ==
    /\ fg[t].pc = "again"
    /\ IF LogoutMismatch(t)
         THEN fg' = [fg EXCEPT ![t] = NoForeground] /\ UNCHANGED server
         ELSE AuthLogout(t)
    /\ UNCHANGED <<logouts, grace, cookie, tab, rf, api, inbox, faults, history>>

\* The answer arrives: the store is cleared, whichever session it holds by now,
\* and the other tabs are told.
LogoutSucceeds(t) ==
    /\ fg[t].pc \in {"ok", "kept"}
    /\ cookie' = IF fg[t].pc = "ok" THEN NoCookie ELSE cookie
    /\ lost' = lost \cup (Displaced(cookie') \ {fg[t].sid})
    /\ signedOut' = signedOut \cup ({fg[t].sid} \ {NoSid})
    /\ dropped' = [dropped EXCEPT ![t] = @ \cup Drops(t)]
    /\ tab' = [tab EXCEPT ![t] = Cleared(t, TRUE)]
    /\ rf' = [rf EXCEPT ![t] = Superseded(t)]
    /\ Publish(t, "signed_out", tab[t].sid)
    /\ fg' = [fg EXCEPT ![t] = NoForeground]
    /\ UNCHANGED <<logouts, server, grace, api, faults>>

\* The answer to a login or a logout is lost: an error is shown.
ForegroundFails(t) ==
    /\ fg[t].pc \in {"login", "ok", "kept"} /\ faults < MaxFaults
    /\ faults' = faults + 1
    /\ fg' = [fg EXCEPT ![t] = NoForeground]
    /\ UNCHANGED <<logouts, server, grace, cookie, tab, rf, api, inbox, history>>

-----------------------------------------------------------------------------
(* Events and the server's own steps.                                       *)

\* The listener of routes/__root.tsx.
Deliver(t) ==
    /\ Up(t) /\ inbox[t] # <<>>
    /\ LET e == Head(inbox[t])  s == tab[t].sid IN
       \/ /\ e.kind = "authenticated" /\ e.sid # s
          /\ Reload(t)
          /\ UNCHANGED dropped
       \/ /\ e.kind = "signed_out" /\ e.sid = s
          /\ tab' = [tab EXCEPT ![t] = Cleared(t, TRUE)]
          /\ rf' = [rf EXCEPT ![t] = Superseded(t)]
          /\ dropped' = [dropped EXCEPT ![t] = @ \cup Drops(t)]
          /\ inbox' = [inbox EXCEPT ![t] = Tail(@)]
          /\ UNCHANGED <<api, fg, lost>>
       \/ /\ (e.kind = "authenticated") = (e.sid = s)
          /\ inbox' = [inbox EXCEPT ![t] = Tail(@)]
          /\ UNCHANGED <<tab, rf, api, fg, dropped, lost>>
    /\ UNCHANGED <<logouts, server, grace, cookie, faults, signedOut>>

\* An event older than a minute is not delivered.
EventTooOld(t) ==
    /\ Up(t) /\ inbox[t] # <<>> /\ faults < MaxFaults
    /\ faults' = faults + 1
    /\ inbox' = [inbox EXCEPT ![t] = Tail(@)]
    /\ UNCHANGED <<logouts, server, grace, cookie, tab, rf, api, fg, history>>

\* Another browser, an administrator or a changed password revokes a session.
ServerRevokes(s) ==
    /\ server[s] = "active" /\ faults < MaxFaults
    /\ faults' = faults + 1
    /\ server' = [server EXCEPT ![s] = "revoked"]
    /\ UNCHANGED <<logouts, grace, cookie, tab, rf, api, fg, inbox, history>>

\* The replay window closes on the token in the jar; requests take less time
\* than it lasts.
GraceEnds(s) ==
    /\ grace[s] /\ cookie.sid = s /\ cookie.age = 1
    /\ \A t \in Tabs : rf[t].token.sid # s
    /\ grace' = [grace EXCEPT ![s] = FALSE]
    /\ UNCHANGED <<logouts, server, cookie, tab, rf, api, fg, inbox, faults, history>>

-----------------------------------------------------------------------------
RefreshAnswered(t) ==
    \/ RefreshAccepted(t) \/ RefreshUnauthorized(t)
    \/ RefreshMismatched(t) \/ RefreshTransient(t)

TabStep(t) ==
    \/ RunRefresh(t) \/ RefreshAuth(t) \/ RefreshFails(t) \/ RefreshAnswered(t)
    \/ ResolveAuthentication(t) \/ GetFreshAuthHeaders(t)
    \/ ApiUnauthorized(t) \/ ApiRetryUnauthorized(t)
    \/ UserReload(t)
    \/ ApplyAuthRotation(t) \/ TokenExpires(t)
    \/ Login(t) \/ LoginAnswered(t) \/ Logout(t) \/ LogoutAgain(t)
    \/ LogoutSucceeds(t) \/ ForegroundFails(t)
    \/ Deliver(t) \/ EventTooOld(t)

Next ==
    \/ \E t \in Tabs : TabStep(t)
    \/ \E s \in Sids : ServerRevokes(s) \/ GraceEnds(s)

\* Requests are sent and answered; navigator.locks grants in the order of the
\* requests, so a tab that waits for the lock gets it however often others do.
Fairness ==
    \A t \in Tabs :
      /\ WF_vars(ApiUnauthorized(t))
      /\ WF_vars(ApiRetryUnauthorized(t))
      /\ WF_vars(RefreshAuth(t)) /\ WF_vars(RefreshAnswered(t))
      /\ SF_vars(RunRefresh(t))

Spec == Init /\ [][Next]_vars
LiveSpec == Spec /\ Fairness

-----------------------------------------------------------------------------
(* Properties.                                                              *)

\* A tab that has dropped a session after its revocation (sign-out here or in
\* another tab, a refused refresh, a refused retry) never takes it back: no
\* refresh that was under way then puts the old credentials into the store.
SignedOutStaysOut == \A t \in Tabs : tab[t].sid \notin dropped[t]

\* Tabs that refresh at the same time never leave the browser with a token the
\* server has forgotten: the jar holds the newest one, or the one before it
\* while the answer with the newest is on its way or was lost.
CookieKeepsUp ==
    /\ cookie.age <= 1
    /\ cookie.age = 1 => \/ cookie.sid \in lost
                         \/ \E t \in Tabs : rf[t].pc = "ok" /\ rf[t].token = New(cookie.sid)

\* A sign-out that was reported as successful has revoked the session it named,
\* whatever refreshes were under way; the exception is a session whose newest
\* cookie the browser had lost.
SignOutRevokes == \A s \in signedOut : server[s] = "revoked" \/ s \in lost

\* A tab does not keep a revoked session: its requests are refused, the refresh
\* they start is answered, and the store is cleared or takes over the session
\* the browser has by then.
RevokedSessionDropped ==
    \A t \in Tabs, s \in Sids :
      (tab[t].sid = s /\ server[s] = "revoked") ~> (tab[t].sid # s)
=============================================================================
