--------------------------- MODULE WebAuthProofs ---------------------------
(***************************************************************************)
(* What the browser side of a login session guarantees for any number of   *)
(* tabs, sessions, sign-outs and faults.                                   *)
(***************************************************************************)
EXTENDS WebAuth, TLAPS

-----------------------------------------------------------------------------
(* The inductive invariant.                                                  *)

\* Every tab's inbox is a queue of events.
InboxTyped == inbox \in [Tabs -> Seq(Event)]

\* The lock has one holder; only its request carries a token, and that token is
\* the jar's, unless the jar has moved to another session.
Locked ==
    /\ \A t, u \in Tabs : Holds(t) /\ Holds(u) => t = u
    /\ cookie.sid = NoSid => cookie.age = 0
    /\ \A t \in Tabs :
          /\ rf[t].pc \notin {"sent", "ok"} => rf[t].token = NoCookie
          /\ rf[t].pc = "sent" => rf[t].token.sid # cookie.sid \/ rf[t].token = cookie
          /\ rf[t].pc = "ok" => rf[t].token.sid # NoSid /\ rf[t].token.age = 0
          /\ rf[t].token.sid = NoSid => rf[t].token.age = 0

\* The jar is at most one rotation behind, and then the newest token is on its
\* way and the one in the jar still inside the replay window, or it was lost.
JarKeepsUp ==
    /\ cookie.age <= 1
    /\ cookie.age = 1 =>
          \/ cookie.sid \in lost
          \/ grace[cookie.sid] /\ \E t \in Tabs : rf[t].pc = "ok" /\ rf[t].token = New(cookie.sid)

\* A session that anything refers to was created, and one that a tab has dropped
\* is revoked.
Created ==
    /\ cookie.sid # NoSid => server[cookie.sid] # "unused"
    /\ \A t \in Tabs :
          /\ tab[t].sid # NoSid => server[tab[t].sid] # "unused"
          /\ rf[t].token.sid # NoSid => server[rf[t].token.sid] # "unused"
          /\ fg[t].pc = "login" => fg[t].sid # NoSid /\ server[fg[t].sid] # "unused"
          /\ \A s \in dropped[t] : server[s] = "revoked"

\* The session of a login whose answer is on its way is known to nobody else.
LoginIsNew ==
    \A t \in Tabs : fg[t].pc = "login" =>
       /\ cookie.sid # fg[t].sid
       /\ \A u \in Tabs : /\ tab[u].sid # fg[t].sid /\ rf[u].token.sid # fg[t].sid
                          /\ fg[t].sid \notin dropped[u]
                          /\ fg[u].pc = "login" /\ fg[u].sid = fg[t].sid => u = t

\* Neither a store nor an answer that will be accepted holds a dropped session.
DroppedIsGone ==
    \A t \in Tabs :
       /\ tab[t].sid \notin dropped[t]
       /\ rf[t].pc = "ok" /\ ~rf[t].stale => rf[t].token.sid \notin dropped[t]

\* A session that a tab holds without its cookie, or that a sign-out names, is
\* revoked, unless the browser lost its newest cookie.
Ended(s) == server[s] = "revoked" \/ s \in lost
SignOuts ==
    /\ \A t \in Tabs :
          /\ tab[t].sid \notin {NoSid, cookie.sid} => Ended(tab[t].sid)
          /\ fg[t].pc \in {"ok", "kept"} /\ fg[t].sid # NoSid => Ended(fg[t].sid)
    /\ \A s \in signedOut : Ended(s)

-----------------------------------------------------------------------------
(* Types.                                                                    *)

PageTyped == /\ tab \in [Tabs -> Tab] /\ rf \in [Tabs -> Refresh]
             /\ api \in [Tabs -> {"none", "wait", "refused"}] /\ fg \in [Tabs -> Foreground]

Typed == /\ server \in [Sids -> {"unused", "active", "revoked"}]
         /\ grace \in [Sids -> BOOLEAN] /\ cookie \in Cookies
         /\ PageTyped /\ InboxTyped
         /\ logouts \in 0..MaxLogouts /\ faults \in 0..MaxFaults
         /\ dropped \in [Tabs -> SUBSET Sids] /\ signedOut \subseteq Sids /\ lost \subseteq Sids

\* The cookies the server sets, and a token made one rotation older.
LEMMA CookieTypes ==
    /\ NoSid \in 0..MaxSessions /\ NoCookie \in Cookies
    /\ \A s \in 0..MaxSessions : New(s) \in Cookies
    /\ \A c \in Cookies, s \in 0..MaxSessions : Older(c, s) \in Cookies
    /\ \A c \in Cookies : c.sid \in 0..MaxSessions /\ c.age \in 0..2
    /\ \A s \in 0..MaxSessions : s # NoSid => s \in Sids
<1>0. MaxSessions \in Nat \ {0}
  BY WebBounds
<1>1. NoSid \in 0..MaxSessions /\ NoCookie \in Cookies
  BY <1>0 DEF NoSid, NoCookie, Cookies
<1>2. ASSUME NEW s \in 0..MaxSessions PROVE New(s) \in Cookies
  BY <1>0 DEF New, Cookies
<1>3. ASSUME NEW c \in Cookies, NEW s \in 0..MaxSessions PROVE Older(c, s) \in Cookies
  <2>1. c.age \in 0..2
    BY DEF Cookies
  <2>2. c.age < 2 => c.age + 1 \in 0..2
    BY <2>1
  <2> QED BY <2>2 DEF Older, Cookies
<1>4. ASSUME NEW s \in 0..MaxSessions, s # NoSid PROVE s \in Sids
  BY <1>0, <1>4 DEF Sids, NoSid
<1>5. ASSUME NEW c \in Cookies PROVE c.sid \in 0..MaxSessions /\ c.age \in 0..2
  BY DEF Cookies
<1> QED BY <1>1, <1>2, <1>3, <1>4, <1>5

\* What one tab holds.
LEMMA TabNumbers ==
    ASSUME Typed, NEW t \in Tabs
    PROVE  /\ tab[t] \in Tab /\ rf[t] \in Refresh /\ fg[t] \in Foreground
           /\ tab[t].sid \in 0..MaxSessions /\ tab[t].fresh \in BOOLEAN /\ tab[t].done \in BOOLEAN
           /\ tab[t].page \in {"boot", "up"}
           /\ rf[t].token \in Cookies /\ rf[t].stale \in BOOLEAN
           /\ rf[t].token.sid \in 0..MaxSessions /\ fg[t].sid \in 0..MaxSessions
           /\ dropped[t] \subseteq Sids
<1>1. tab[t] \in Tab /\ rf[t] \in Refresh /\ fg[t] \in Foreground /\ dropped[t] \subseteq Sids
  BY DEF Typed, PageTyped
<1>2. /\ tab[t].sid \in 0..MaxSessions /\ tab[t].fresh \in BOOLEAN /\ tab[t].done \in BOOLEAN
      /\ tab[t].page \in {"boot", "up"}
  BY <1>1 DEF Tab
<1>3. rf[t].token \in Cookies /\ rf[t].stale \in BOOLEAN
  BY <1>1 DEF Refresh
<1>4. fg[t].sid \in 0..MaxSessions
  BY <1>1 DEF Foreground
<1> QED BY <1>1, <1>2, <1>3, <1>4, CookieTypes

\* What the auth store and the refresh promise are set to.
LEMMA StoreTypes ==
    ASSUME Typed, NEW t \in Tabs
    PROVE  /\ NewPage \in Tab /\ [NewPage EXCEPT !.page = "up"] \in Tab
           /\ NoRefresh \in Refresh /\ NewRefresh \in Refresh /\ NoForeground \in Foreground
           /\ \A s \in 0..MaxSessions : Store(t, s) \in Tab /\ Store(t, s).sid = s
           /\ \A b \in BOOLEAN : Cleared(t, b) \in Tab /\ Cleared(t, b).sid = NoSid
           /\ Superseded(t) \in Refresh
           /\ \A s \in 0..MaxSessions : Send(t, s) \in Refresh
           /\ \A c \in Cookies, pc \in {"ok", "unauthorized", "mismatch", "transient"} :
                 [Answered(t, pc) EXCEPT !.token = c] \in Refresh
           /\ Drops(t) \subseteq Sids
           /\ \A c \in Cookies : Displaced(c) \subseteq Sids
<1>0. /\ tab[t] \in Tab /\ rf[t] \in Refresh /\ cookie \in Cookies /\ NoSid \in 0..MaxSessions
      /\ NoCookie \in Cookies
  BY TabNumbers, CookieTypes DEF Typed
<1>1. NewPage \in Tab /\ [NewPage EXCEPT !.page = "up"] \in Tab
  BY <1>0 DEF NewPage, Tab
<1>2. NoRefresh \in Refresh
  BY <1>0 DEF NoRefresh, Refresh
<1>3. NewRefresh \in Refresh
  BY <1>2 DEF NewRefresh, Refresh
<1>4. NoForeground \in Foreground
  BY <1>0 DEF NoForeground, Foreground
<1>5. ASSUME NEW s \in 0..MaxSessions PROVE Store(t, s) \in Tab /\ Store(t, s).sid = s
  BY <1>0 DEF Store, Tab
<1>6. ASSUME NEW b \in BOOLEAN PROVE Cleared(t, b) \in Tab /\ Cleared(t, b).sid = NoSid
  BY <1>0 DEF Cleared, Tab
<1>7. Superseded(t) \in Refresh
  <2>1. (rf[t].pc # "none") \in BOOLEAN
    OBVIOUS
  <2> QED BY <1>0, <2>1 DEF Superseded, Refresh
<1>8. ASSUME NEW s \in 0..MaxSessions PROVE Send(t, s) \in Refresh
  BY <1>0 DEF Send, Refresh
<1>9. ASSUME NEW c \in Cookies, NEW pc \in {"ok", "unauthorized", "mismatch", "transient"}
      PROVE  [Answered(t, pc) EXCEPT !.token = c] \in Refresh
  <2>1. Answered(t, pc) \in Refresh
    BY <1>0 DEF Answered, Refresh
  <2> QED BY <2>1 DEF Refresh
<1>10. Drops(t) \subseteq Sids
  BY TabNumbers, CookieTypes DEF Drops
<1>11. ASSUME NEW c \in Cookies PROVE Displaced(c) \subseteq Sids
  BY <1>0, CookieTypes DEF Displaced
<1> QED BY <1>1, <1>2, <1>3, <1>4, <1>5, <1>6, <1>7, <1>8, <1>9, <1>10, <1>11

\* Ending a refresh, reloading the page and publishing an event.
LEMMA PageTypes ==
    ASSUME Typed, NEW t \in Tabs
    PROVE  /\ \A outcome, s : \A store \in Tab : Settle(t, outcome, s, store) => PageTyped'
           /\ Reload(t) => PageTyped' /\ InboxTyped'
           /\ \A kind \in {"authenticated", "signed_out"}, s \in 0..MaxSessions :
                 Publish(t, kind, s) => InboxTyped'
           /\ RefreshAuthentication(t) => rf' \in [Tabs -> Refresh]
<1>0. PageTyped /\ InboxTyped
  BY DEF Typed
<1>1. ASSUME NEW outcome, NEW s, NEW store \in Tab, Settle(t, outcome, s, store) PROVE PageTyped'
  <2>1. [store EXCEPT !.page = IF @ = "boot" THEN "up" ELSE @] \in Tab
    BY DEF Tab
  <2>2. [NoForeground EXCEPT !.pc = "again"] \in Foreground
    BY StoreTypes DEF Foreground
  <2>3. tab' \in [Tabs -> Tab] /\ rf' \in [Tabs -> Refresh]
    BY <1>0, <1>1, <2>1, StoreTypes DEF Settle, PageTyped
  <2>4. api' \in [Tabs -> {"none", "wait", "refused"}]
    BY <1>0, <1>1 DEF Settle, PageTyped
  <2>5. fg' \in [Tabs -> Foreground]
    BY <1>0, <1>1, <2>2, StoreTypes DEF Settle, PageTyped
  <2> QED BY <2>3, <2>4, <2>5 DEF PageTyped
<1>2. ASSUME Reload(t) PROVE PageTyped' /\ InboxTyped'
  <2>1. <<>> \in Seq(Event)
    OBVIOUS
  <2>2. InboxTyped'
    BY <1>0, <1>2, <2>1 DEF Reload, InboxTyped
  <2>3. tab' \in [Tabs -> Tab] /\ rf' \in [Tabs -> Refresh]
    BY <1>0, <1>2, StoreTypes DEF Reload, PageTyped
  <2>4. api' \in [Tabs -> {"none", "wait", "refused"}] /\ fg' \in [Tabs -> Foreground]
    BY <1>0, <1>2, StoreTypes DEF Reload, PageTyped
  <2> QED BY <2>2, <2>3, <2>4 DEF PageTyped
<1>3. ASSUME NEW kind \in {"authenticated", "signed_out"}, NEW s \in 0..MaxSessions, Publish(t, kind, s)
      PROVE  InboxTyped'
  <2>1. s # NoSid => [kind |-> kind, sid |-> s] \in Event
    BY CookieTypes DEF Event
  <2>2. ASSUME NEW u \in Tabs
        PROVE  (IF u # t /\ Up(u) /\ s # NoSid THEN Append(inbox[u], [kind |-> kind, sid |-> s])
                ELSE inbox[u]) \in Seq(Event)
    <3>1. inbox[u] \in Seq(Event)
      BY <1>0 DEF InboxTyped
    <3> QED BY <2>1, <3>1
  <2> QED BY <1>3, <2>2 DEF Publish, InboxTyped
<1>4. ASSUME RefreshAuthentication(t) PROVE rf' \in [Tabs -> Refresh]
  BY <1>0, <1>4, StoreTypes DEF RefreshAuthentication, PageTyped
<1> QED BY <1>1, <1>2, <1>3, <1>4

\* Every step of a tab keeps the types.
LEMMA TabTypes ==
    ASSUME Typed, Locked, NEW t \in Tabs, TabStep(t)
    PROVE  Typed'
<1>0. /\ PageTyped /\ InboxTyped /\ cookie \in Cookies /\ cookie.sid \in 0..MaxSessions
      /\ server \in [Sids -> {"unused", "active", "revoked"}] /\ grace \in [Sids -> BOOLEAN]
      /\ logouts \in 0..MaxLogouts /\ faults \in 0..MaxFaults
      /\ dropped \in [Tabs -> SUBSET Sids] /\ signedOut \subseteq Sids /\ lost \subseteq Sids
      /\ NoSid \in 0..MaxSessions /\ NoCookie \in Cookies
  BY CookieTypes DEF Typed
<1>1. /\ tab[t] \in Tab /\ rf[t] \in Refresh /\ fg[t] \in Foreground
      /\ tab[t].sid \in 0..MaxSessions /\ rf[t].token \in Cookies
      /\ rf[t].token.sid \in 0..MaxSessions /\ fg[t].sid \in 0..MaxSessions
      /\ rf[t].pc = "ok" => rf[t].token.sid \in Sids
  BY TabNumbers, CookieTypes DEF Locked
<1>2. faults < MaxFaults => faults + 1 \in 0..MaxFaults
  BY <1>0, WebBounds
<1>3. logouts < MaxLogouts => logouts + 1 \in 0..MaxLogouts
  BY <1>0, WebBounds
<1>4. ASSUME NEW c \in Cookies, cookie' = c, lost' = lost \cup Displaced(cookie')
      PROVE  cookie' \in Cookies /\ lost' \subseteq Sids
  BY <1>0, <1>4, StoreTypes
<1>5. ASSUME dropped' = [dropped EXCEPT ![t] = @ \cup Drops(t)] PROVE dropped' \in [Tabs -> SUBSET Sids]
  BY <1>0, <1>5, StoreTypes
<1>6. ASSUME rf' = [rf EXCEPT ![t] = Superseded(t)] PROVE rf' \in [Tabs -> Refresh]
  BY <1>0, <1>6, StoreTypes DEF PageTyped
<1>7. ASSUME NEW b \in BOOLEAN, tab' = [tab EXCEPT ![t] = Cleared(t, b)] PROVE tab' \in [Tabs -> Tab]
  BY <1>0, <1>7, StoreTypes DEF PageTyped
<1>8. ASSUME NEW pc \in {"none", "login", "ok", "kept", "recover", "again"}, NEW s \in 0..MaxSessions,
             fg' = [fg EXCEPT ![t] = [pc |-> pc, sid |-> s]]
      PROVE  fg' \in [Tabs -> Foreground]
  <2>1. [pc |-> pc, sid |-> s] \in Foreground
    BY DEF Foreground
  <2> QED BY <1>0, <1>8, <2>1 DEF PageTyped
<1>9. ASSUME fg' = [fg EXCEPT ![t] = NoForeground] PROVE fg' \in [Tabs -> Foreground]
  BY <1>0, <1>9, StoreTypes DEF PageTyped
<1>10. CASE RunRefresh(t)
  <2>1. PageTyped'
    <3>1. CASE Settle(t, "transient", NoSid, tab[t])
      BY <1>1, <3>1, PageTypes
    <3>2. CASE rf' = [rf EXCEPT ![t] = Send(t, tab[t].sid)] /\ UNCHANGED <<tab, api, fg>>
      BY <1>0, <1>1, <3>2, StoreTypes DEF PageTyped
    <3> QED BY <1>10, <3>1, <3>2 DEF RunRefresh
  <2> QED BY <1>0, <1>10, <2>1 DEF RunRefresh, Typed, InboxTyped, history
<1>11. CASE RefreshAuth(t)
  <2>1. /\ UNCHANGED <<logouts, tab, api, fg, inbox, faults, dropped, signedOut, lost>>
    BY <1>11 DEF RefreshAuth, history
  <2>2. ASSUME NEW pc \in {"ok", "unauthorized", "mismatch", "transient"}, NEW c \in Cookies, Answer(t, pc, c)
        PROVE  rf' \in [Tabs -> Refresh] /\ UNCHANGED <<grace, cookie>>
    BY <1>0, <2>2, StoreTypes DEF Answer, PageTyped
  <2>3. CASE Answer(t, "mismatch", NoCookie) /\ UNCHANGED server
    BY <1>0, <2>1, <2>2, <2>3 DEF Typed, PageTyped, InboxTyped
  <2>4. CASE Answer(t, "unauthorized", NoCookie) /\ UNCHANGED server
    BY <1>0, <2>1, <2>2, <2>4 DEF Typed, PageTyped, InboxTyped
  <2>5. CASE /\ rf[t].token.sid # NoSid /\ Answer(t, "unauthorized", NoCookie)
             /\ server' = IF rf[t].token.age = 1 THEN [server EXCEPT ![rf[t].token.sid] = "revoked"] ELSE server
    <3>1. server' \in [Sids -> {"unused", "active", "revoked"}]
      BY <1>0, <1>1, <2>5
    <3> QED BY <1>0, <2>1, <2>2, <2>5, <3>1 DEF Typed, PageTyped, InboxTyped
  <2>6. CASE rf[t].token.sid # NoSid /\ Answer(t, "ok", New(rf[t].token.sid)) /\ UNCHANGED server
    <3>1. New(rf[t].token.sid) \in Cookies
      BY <1>1, CookieTypes
    <3>2. rf' \in [Tabs -> Refresh] /\ UNCHANGED <<grace, cookie>>
      BY <2>2, <2>6, <3>1
    <3> QED BY <1>0, <2>1, <2>6, <3>2 DEF Typed, PageTyped, InboxTyped
  <2>7. CASE rf[t].token.sid # NoSid /\ Rotate(t, rf[t].token.sid)
    <3>1. New(rf[t].token.sid) \in Cookies /\ rf[t].token.sid \in Sids
      BY <1>1, <2>7, CookieTypes
    <3>2. ASSUME NEW u \in Tabs PROVE [rf[u] EXCEPT !.token = Older(@, rf[t].token.sid)] \in Refresh
      <4>1. rf[u] \in Refresh /\ Older(rf[u].token, rf[t].token.sid) \in Cookies
        BY <1>1, TabNumbers, CookieTypes
      <4> QED BY <4>1 DEF Refresh
    <3>3. [Answered(t, "ok") EXCEPT !.token = New(rf[t].token.sid)] \in Refresh
      BY <3>1, StoreTypes
    <3>4. rf' \in [Tabs -> Refresh]
      BY <2>7, <3>2, <3>3 DEF Rotate
    <3>5. cookie' \in Cookies
      BY <1>0, <1>1, <2>7, CookieTypes DEF Rotate
    <3>6. grace' \in [Sids -> BOOLEAN] /\ server' = server
      BY <1>0, <2>7 DEF Rotate
    <3> QED BY <1>0, <2>1, <3>4, <3>5, <3>6 DEF Typed, PageTyped, InboxTyped
  <2> QED BY <1>11, <2>3, <2>4, <2>5, <2>6, <2>7 DEF RefreshAuth
<1>12. CASE RefreshFails(t)
  <2>1. rf' \in [Tabs -> Refresh]
    BY <1>0, <1>12, StoreTypes DEF RefreshFails, PageTyped
  <2>2. lost' \subseteq Sids
    BY <1>0, <1>1, <1>12 DEF RefreshFails
  <2> QED BY <1>0, <1>2, <1>12, <2>1, <2>2 DEF RefreshFails, Typed, PageTyped, InboxTyped
<1>13. CASE RefreshAccepted(t)
  <2>1. cookie' \in Cookies /\ lost' \subseteq Sids
    BY <1>1, <1>4, <1>13 DEF RefreshAccepted, JarAfter
  <2>2. PageTyped'
    BY <1>1, <1>13, PageTypes, StoreTypes DEF RefreshAccepted
  <2> QED BY <1>0, <1>13, <2>1, <2>2 DEF RefreshAccepted, Typed, InboxTyped
<1>14. CASE RefreshUnauthorized(t)
  <2>1. cookie' \in Cookies /\ lost' \subseteq Sids
    BY <1>0, <1>4, <1>14 DEF RefreshUnauthorized, JarAfter
  <2>2. CASE Settle(t, "transient", NoSid, tab[t]) /\ UNCHANGED <<inbox, dropped>>
    BY <1>0, <1>1, <1>14, <2>1, <2>2, PageTypes DEF RefreshUnauthorized, Typed, InboxTyped
  <2>3. CASE /\ Settle(t, "anonymous", NoSid, Cleared(t, TRUE))
             /\ Publish(t, "signed_out", tab[t].sid)
             /\ dropped' = [dropped EXCEPT ![t] = @ \cup Drops(t)]
    <3>1. PageTyped' /\ InboxTyped'
      BY <1>1, <2>3, PageTypes, StoreTypes
    <3> QED BY <1>0, <1>5, <1>14, <2>1, <2>3, <3>1 DEF RefreshUnauthorized, Typed
  <2> QED BY <1>14, <2>2, <2>3 DEF RefreshUnauthorized
<1>15. CASE RefreshMismatched(t)
  <2>1. CASE Settle(t, "transient", NoSid, tab[t])
    BY <1>0, <1>1, <1>15, <2>1, PageTypes DEF RefreshMismatched, Typed, InboxTyped, history
  <2>2. CASE /\ tab' = [tab EXCEPT ![t] = Cleared(t, FALSE)]
             /\ rf' = [rf EXCEPT ![t] = Send(t, NoSid)] /\ UNCHANGED <<api, fg>>
    <3>1. tab' \in [Tabs -> Tab] /\ rf' \in [Tabs -> Refresh]
      BY <1>0, <1>7, <2>2, StoreTypes DEF PageTyped
    <3> QED BY <1>0, <1>15, <2>2, <3>1 DEF RefreshMismatched, Typed, PageTyped, InboxTyped, history
  <2> QED BY <1>15, <2>1, <2>2 DEF RefreshMismatched
<1>16. CASE RefreshTransient(t)
  <2>1. (tab[t].done /\ rf[t].stale) \in BOOLEAN
    OBVIOUS
  <2>2. [tab[t] EXCEPT !.done = @ /\ rf[t].stale] \in Tab
    BY <1>1, <2>1 DEF Tab
  <2>3. PageTyped'
    BY <1>16, <2>2, PageTypes DEF RefreshTransient
  <2> QED BY <1>0, <1>16, <2>3 DEF RefreshTransient, Typed, InboxTyped, history
<1>17. CASE ResolveAuthentication(t)
  <2>1. tab' \in [Tabs -> Tab]
    <3>1. [tab[t] EXCEPT !.done = FALSE] \in Tab
      BY <1>1 DEF Tab
    <3> QED BY <1>0, <1>17, <3>1 DEF ResolveAuthentication, PageTyped
  <2>2. rf' \in [Tabs -> Refresh]
    BY <1>17, PageTypes DEF ResolveAuthentication
  <2> QED BY <1>0, <1>17, <2>1, <2>2 DEF ResolveAuthentication, Typed, PageTyped, InboxTyped, history
<1>18. CASE GetFreshAuthHeaders(t)
  <2>2. rf' \in [Tabs -> Refresh]
    BY <1>18, PageTypes DEF GetFreshAuthHeaders
  <2> QED BY <1>0, <1>18, <2>2 DEF GetFreshAuthHeaders, Typed, PageTyped, InboxTyped, history
<1>19. CASE ApiUnauthorized(t)
  <2>1. api' \in [Tabs -> {"none", "wait", "refused"}]
    BY <1>0, <1>19 DEF ApiUnauthorized, PageTyped
  <2>2. rf' \in [Tabs -> Refresh]
    BY <1>19, PageTypes DEF ApiUnauthorized
  <2> QED BY <1>0, <1>19, <2>1, <2>2 DEF ApiUnauthorized, Typed, PageTyped, InboxTyped, history
<1>20. CASE ApiRetryUnauthorized(t)
  <2>1. api' \in [Tabs -> {"none", "wait", "refused"}]
    BY <1>0, <1>20 DEF ApiRetryUnauthorized, PageTyped
  <2>2. rf' \in [Tabs -> Refresh] /\ tab' \in [Tabs -> Tab] /\ dropped' \in [Tabs -> SUBSET Sids]
    BY <1>5, <1>6, <1>7, <1>20 DEF ApiRetryUnauthorized
  <2> QED BY <1>0, <1>20, <2>1, <2>2 DEF ApiRetryUnauthorized, Typed, PageTyped, InboxTyped
<1>21. CASE UserReload(t)
  <2>1. PageTyped' /\ InboxTyped'
    BY <1>21, PageTypes DEF UserReload
  <2>2. lost' \subseteq Sids
    BY <1>0, <1>1, <1>21 DEF UserReload, Reload
  <2> QED BY <1>0, <1>2, <1>21, <2>1, <2>2 DEF UserReload, Typed
<1>22. CASE ApplyAuthRotation(t)
  <2>1. rf' \in [Tabs -> Refresh]
    BY <1>6, <1>22 DEF ApplyAuthRotation
  <2>2. tab' \in [Tabs -> Tab]
    BY <1>0, <1>1, <1>22, StoreTypes DEF ApplyAuthRotation, PageTyped
  <2> QED BY <1>0, <1>22, <2>1, <2>2 DEF ApplyAuthRotation, Typed, PageTyped, InboxTyped, history
<1>23. CASE TokenExpires(t)
  <2>1. [tab[t] EXCEPT !.fresh = FALSE] \in Tab
    BY <1>1 DEF Tab
  <2>2. tab' \in [Tabs -> Tab]
    BY <1>0, <1>23, <2>1 DEF TokenExpires, PageTyped
  <2> QED BY <1>0, <1>23, <2>2 DEF TokenExpires, Typed, PageTyped, InboxTyped, history
<1>24. CASE Login(t)
  <2>1. PICK s \in Sids : /\ server' = [server EXCEPT ![s] = "active"]
                          /\ fg' = [fg EXCEPT ![t] = [NoForeground EXCEPT !.pc = "login", !.sid = s]]
    BY <1>24 DEF Login
  <2>2. server' \in [Sids -> {"unused", "active", "revoked"}]
    BY <1>0, <2>1
  <2>3. s \in 0..MaxSessions
    BY WebBounds DEF Sids
  <2>4. [NoForeground EXCEPT !.pc = "login", !.sid = s] \in Foreground
    BY <2>3 DEF NoForeground, Foreground
  <2>5. fg' \in [Tabs -> Foreground]
    BY <1>0, <2>1, <2>4 DEF PageTyped
  <2> QED BY <1>0, <1>24, <2>2, <2>5 DEF Login, Typed, PageTyped, InboxTyped, history
<1>25. CASE LoginAnswered(t)
  <2>1. cookie' \in Cookies /\ lost' \subseteq Sids
    BY <1>1, <1>4, <1>25, CookieTypes DEF LoginAnswered
  <2>2. tab' \in [Tabs -> Tab]
    BY <1>0, <1>1, <1>25, StoreTypes DEF LoginAnswered, PageTyped
  <2>3. rf' \in [Tabs -> Refresh] /\ fg' \in [Tabs -> Foreground]
    BY <1>6, <1>9, <1>25 DEF LoginAnswered
  <2>4. InboxTyped'
    BY <1>1, <1>25, PageTypes DEF LoginAnswered
  <2> QED BY <1>0, <1>25, <2>1, <2>2, <2>3, <2>4 DEF LoginAnswered, Typed, PageTyped
<1>26. ASSUME AuthLogout(t)
       PROVE  fg' \in [Tabs -> Foreground] /\ server' \in [Sids -> {"unused", "active", "revoked"}]
  <2>1. fg' \in [Tabs -> Foreground]
    BY <1>1, <1>8, <1>26 DEF AuthLogout
  <2>2. server' \in [Sids -> {"unused", "active", "revoked"}]
    BY <1>0, <1>26 DEF AuthLogout
  <2> QED BY <2>1, <2>2
<1>27. CASE Logout(t)
  <2>1. [NoForeground EXCEPT !.pc = "recover"] \in Foreground
    BY StoreTypes DEF Foreground
  <2>2. fg' \in [Tabs -> Foreground]
    BY <1>0, <1>26, <1>27, <2>1 DEF Logout, PageTyped
  <2>3. rf' \in [Tabs -> Refresh]
    BY <1>0, <1>27, PageTypes DEF Logout, PageTyped
  <2>4. server' \in [Sids -> {"unused", "active", "revoked"}]
    BY <1>0, <1>26, <1>27 DEF Logout
  <2> QED BY <1>0, <1>3, <1>27, <2>2, <2>3, <2>4 DEF Logout, Typed, PageTyped, InboxTyped, history
<1>28. CASE LogoutAgain(t)
  <2>2. fg' \in [Tabs -> Foreground]
    BY <1>9, <1>26, <1>28 DEF LogoutAgain
  <2>4. server' \in [Sids -> {"unused", "active", "revoked"}]
    BY <1>0, <1>26, <1>28 DEF LogoutAgain
  <2> QED BY <1>0, <1>28, <2>2, <2>4 DEF LogoutAgain, Typed, PageTyped, InboxTyped, history
<1>29. CASE LogoutSucceeds(t)
  <2>1. cookie' \in Cookies
    BY <1>0, <1>29 DEF LogoutSucceeds
  <2>2. lost' \subseteq Sids
    BY <1>0, <1>29, <2>1, StoreTypes DEF LogoutSucceeds
  <2>3. signedOut' \subseteq Sids
    BY <1>0, <1>1, <1>29, CookieTypes DEF LogoutSucceeds
  <2>4. tab' \in [Tabs -> Tab] /\ rf' \in [Tabs -> Refresh] /\ fg' \in [Tabs -> Foreground]
        /\ dropped' \in [Tabs -> SUBSET Sids]
    BY <1>5, <1>6, <1>7, <1>9, <1>29 DEF LogoutSucceeds
  <2>5. InboxTyped'
    BY <1>1, <1>29, PageTypes DEF LogoutSucceeds
  <2> QED BY <1>0, <1>29, <2>1, <2>2, <2>3, <2>4, <2>5 DEF LogoutSucceeds, Typed, PageTyped
<1>30. CASE ForegroundFails(t)
  <2>1. fg' \in [Tabs -> Foreground]
    BY <1>9, <1>30 DEF ForegroundFails
  <2> QED BY <1>0, <1>2, <1>30, <2>1 DEF ForegroundFails, Typed, PageTyped, InboxTyped, history
<1>31. ASSUME inbox[t] # <<>>, inbox' = [inbox EXCEPT ![t] = Tail(@)] PROVE InboxTyped'
  <2>1. inbox[t] \in Seq(Event)
    BY <1>0 DEF InboxTyped
  <2>2. Tail(inbox[t]) \in Seq(Event)
    BY <1>31, <2>1
  <2> QED BY <1>0, <1>31, <2>2 DEF InboxTyped
<1>32. CASE Deliver(t)
  <2>1. CASE Reload(t) /\ UNCHANGED dropped
    <3>1. lost' \subseteq Sids
      BY <1>0, <1>1, <2>1 DEF Reload
    <3> QED BY <1>0, <1>32, <2>1, <3>1, PageTypes DEF Deliver, Typed
  <2>2. CASE /\ tab' = [tab EXCEPT ![t] = Cleared(t, TRUE)]
             /\ rf' = [rf EXCEPT ![t] = Superseded(t)]
             /\ dropped' = [dropped EXCEPT ![t] = @ \cup Drops(t)]
             /\ inbox' = [inbox EXCEPT ![t] = Tail(@)]
             /\ UNCHANGED <<api, fg, lost>>
    <3>1. tab' \in [Tabs -> Tab] /\ rf' \in [Tabs -> Refresh] /\ dropped' \in [Tabs -> SUBSET Sids]
      BY <1>5, <1>6, <1>7, <2>2
    <3>2. InboxTyped'
      BY <1>31, <1>32, <2>2 DEF Deliver
    <3> QED BY <1>0, <1>32, <2>2, <3>1, <3>2 DEF Deliver, Typed, PageTyped
  <2>3. CASE inbox' = [inbox EXCEPT ![t] = Tail(@)] /\ UNCHANGED <<tab, rf, api, fg, dropped, lost>>
    <3>2. InboxTyped'
      BY <1>31, <1>32, <2>3 DEF Deliver
    <3> QED BY <1>0, <1>32, <2>3, <3>2 DEF Deliver, Typed, PageTyped
  <2> QED BY <1>32, <2>1, <2>2, <2>3 DEF Deliver
<1>33. CASE EventTooOld(t)
  <2>1. InboxTyped'
    BY <1>31, <1>33 DEF EventTooOld
  <2> QED BY <1>0, <1>2, <1>33, <2>1 DEF EventTooOld, Typed, PageTyped, history
<1> QED BY <1>10, <1>11, <1>12, <1>13, <1>14, <1>15, <1>16, <1>17, <1>18, <1>19, <1>20, <1>21, <1>22,
           <1>23, <1>24, <1>25, <1>27, <1>28, <1>29, <1>30, <1>32, <1>33 DEF TabStep, RefreshAnswered

-----------------------------------------------------------------------------
(* What a step means for the sessions, the tokens and the jar.               *)

\* The other tabs are left alone.
OthersKeep(t) ==
    \A u \in Tabs \ {t} : /\ tab'[u] = tab[u] /\ rf'[u] = rf[u] /\ fg'[u] = fg[u]
                          /\ dropped'[u] = dropped[u]

\* A login or a logout in flight stays as it is, or is no longer waited for.
FgQuiet(t) == fg'[t] = fg[t] \/ fg'[t].pc \notin {"login", "ok", "kept"}

\* The tab's refresh begins, goes on or ends without the jar; the tab keeps its
\* session or forgets it.
Waits(t) ==
    /\ UNCHANGED <<grace, cookie, dropped, signedOut>> /\ lost \subseteq lost'
    /\ \A s \in Sids : server'[s] \in {server[s], "revoked"}
    /\ tab'[t].sid \in {NoSid, tab[t].sid}
    /\ \/ /\ rf'[t].pc = rf[t].pc /\ rf'[t].token = rf[t].token
          /\ rf[t].pc = "ok" /\ ~rf'[t].stale => ~rf[t].stale
       \/ /\ rf'[t].token = NoCookie /\ rf'[t].pc \notin {"sent", "ok"}
          /\ rf'[t].pc \in {"none", "lock"} \/ Holds(t)
          /\ rf[t].pc = "ok" => rf[t].token.sid \in lost'
    /\ FgQuiet(t)

\* The jar's cookie is sent.
Sends(t) ==
    /\ UNCHANGED <<server, grace, cookie, fg, dropped, signedOut, lost>>
    /\ LockFree(t) /\ rf[t].pc # "ok"
    /\ tab'[t].sid \in {NoSid, tab[t].sid}
    /\ rf'[t].pc = "sent" /\ rf'[t].token = cookie

\* The server answers with the newest token: a rotation, or a replay inside the
\* window.
Renews(t) ==
    LET s == rf[t].token.sid IN
    /\ UNCHANGED <<server, tab, fg, dropped, signedOut, lost>>
    /\ rf[t].pc = "sent" /\ s # NoSid /\ server[s] = "active"
    /\ rf'[t].pc = "ok" /\ rf'[t].token = New(s)
    /\ \/ UNCHANGED <<cookie, grace>>
       \/ /\ rf[t].token.age = 0
          /\ cookie' = Older(cookie, s) /\ grace' = [grace EXCEPT ![s] = TRUE]

\* The answer to a refresh puts its token into the jar.
Adopts(t) ==
    /\ UNCHANGED <<server, grace, dropped, signedOut>>
    /\ rf[t].pc = "ok" /\ rf'[t].pc = "none" /\ rf'[t].token = NoCookie
    /\ cookie' = rf[t].token /\ lost' = lost \cup Displaced(cookie')
    /\ tab'[t].sid = tab[t].sid \/ (~rf[t].stale /\ tab'[t].sid = rf[t].token.sid)
    /\ FgQuiet(t)

\* The tab drops its session, or the jar its cookie, or both.
Clears(t) ==
    /\ UNCHANGED <<server, grace>>
    /\ \/ tab'[t].sid = tab[t].sid /\ dropped'[t] = dropped[t]
       \/ tab'[t].sid = NoSid /\ dropped'[t] = dropped[t] \cup Drops(t)
    /\ \/ rf[t].pc = "unauthorized" /\ rf'[t].pc = "none" /\ rf'[t].token = NoCookie
       \/ /\ rf'[t].pc = rf[t].pc /\ rf'[t].token = rf[t].token
          /\ rf'[t].pc = "ok" => rf'[t].stale
    /\ lost \subseteq lost'
    /\ \/ cookie' = cookie
       \/ /\ cookie' = NoCookie
          /\ \A s \in Displaced(cookie') :
                s \in lost' \/ (fg[t].pc \in {"ok", "kept"} /\ fg[t].sid = s)
    /\ FgQuiet(t)
    /\ \A s \in signedOut' :
          s \in signedOut \/ (fg[t].pc \in {"ok", "kept"} /\ fg[t].sid = s /\ s # NoSid)

\* A login's answer.
LogsIn(t) ==
    /\ UNCHANGED <<server, grace, dropped, signedOut>>
    /\ fg[t].pc = "login" /\ fg'[t].pc = "none"
    /\ cookie' = New(fg[t].sid) /\ lost' = lost \cup Displaced(cookie')
    /\ tab'[t].sid = fg[t].sid
    /\ rf'[t].pc = rf[t].pc /\ rf'[t].token = rf[t].token
    /\ rf'[t].pc = "ok" => rf'[t].stale

\* The server's handler of a sign-out: the session that it names is revoked, or
\* the cookie that should prove it is not of that session or not known any more.
SignsOut(t) ==
    /\ UNCHANGED <<grace, cookie, tab, rf, dropped, signedOut, lost>>
    /\ \A s \in Sids : server'[s] \in {server[s], "revoked"}
    /\ fg'[t].pc \in {"ok", "kept"} /\ fg'[t].sid = tab[t].sid
    /\ tab[t].sid # NoSid =>
          \/ server'[tab[t].sid] = "revoked" \/ cookie.sid # tab[t].sid \/ ~CookieKnown

Effect(t) ==
    \/ Waits(t) \/ Sends(t) \/ Renews(t) \/ Adopts(t) \/ Clears(t)
    \/ Login(t) \/ LogsIn(t) \/ SignsOut(t)

\* The fields of the records that the operators build.
LEMMA Fields ==
    ASSUME Typed, NEW t \in Tabs
    PROVE  /\ NoCookie.sid = NoSid /\ NoCookie.age = 0
           /\ \A s : New(s).sid = s /\ New(s).age = 0
           /\ NewPage.sid = NoSid /\ [NewPage EXCEPT !.page = "up"].sid = NoSid
           /\ NoRefresh.pc = "none" /\ NoRefresh.token = NoCookie
           /\ NewRefresh.pc = "lock" /\ NewRefresh.token = NoCookie
           /\ NoForeground.pc = "none"
           /\ Superseded(t).pc = rf[t].pc /\ Superseded(t).token = rf[t].token
           /\ Superseded(t).stale = (rf[t].pc # "none")
           /\ \A s : Send(t, s).pc = "sent" /\ Send(t, s).token = cookie
           /\ \A pc, c : /\ [Answered(t, pc) EXCEPT !.token = c].pc = pc
                         /\ [Answered(t, pc) EXCEPT !.token = c].token = c
           /\ \A s : Store(t, s).sid = s
           /\ \A b : Cleared(t, b).sid = NoSid
<1>0. tab[t] \in Tab /\ rf[t] \in Refresh
  BY TabNumbers
<1>1. /\ NoCookie.sid = NoSid /\ NoCookie.age = 0 /\ \A s : New(s).sid = s /\ New(s).age = 0
  BY DEF NoCookie, New
<1>2. NewPage.sid = NoSid /\ [NewPage EXCEPT !.page = "up"].sid = NoSid
  BY DEF NewPage
<1>3. /\ NoRefresh.pc = "none" /\ NoRefresh.token = NoCookie
      /\ NewRefresh.pc = "lock" /\ NewRefresh.token = NoCookie
  BY DEF NoRefresh, NewRefresh
<1>4. NoForeground.pc = "none"
  BY DEF NoForeground
<1>5. /\ Superseded(t).pc = rf[t].pc /\ Superseded(t).token = rf[t].token
      /\ Superseded(t).stale = (rf[t].pc # "none")
  BY <1>0 DEF Superseded, Refresh
<1>6. ASSUME NEW s PROVE Send(t, s).pc = "sent" /\ Send(t, s).token = cookie
  BY <1>0 DEF Send, Refresh
<1>7. ASSUME NEW pc, NEW c
      PROVE  /\ [Answered(t, pc) EXCEPT !.token = c].pc = pc
             /\ [Answered(t, pc) EXCEPT !.token = c].token = c
  BY <1>0 DEF Answered, Refresh
<1>8. ASSUME NEW s PROVE Store(t, s).sid = s
  BY <1>0 DEF Store, Tab
<1>9. ASSUME NEW b PROVE Cleared(t, b).sid = NoSid
  BY <1>0 DEF Cleared, Tab
<1> QED BY <1>1, <1>2, <1>3, <1>4, <1>5, <1>6, <1>7, <1>8, <1>9

\* The end of a refresh and a new page, field by field.
LEMMA PageEffects ==
    ASSUME Typed, NEW t \in Tabs
    PROVE  /\ \A outcome, s : \A store \in Tab : Settle(t, outcome, s, store) =>
                 /\ rf'[t] = NoRefresh /\ tab'[t].sid = store.sid /\ FgQuiet(t)
                 /\ \A u \in Tabs \ {t} : tab'[u] = tab[u] /\ rf'[u] = rf[u] /\ fg'[u] = fg[u]
           /\ Reload(t) =>
                 /\ rf'[t] \in {NoRefresh, NewRefresh} /\ tab'[t].sid = NoSid /\ FgQuiet(t)
                 /\ \A u \in Tabs \ {t} : tab'[u] = tab[u] /\ rf'[u] = rf[u] /\ fg'[u] = fg[u]
                 /\ lost \subseteq lost' /\ (rf[t].pc = "ok" => rf[t].token.sid \in lost')
<1>0. PageTyped
  BY DEF Typed
<1>1. ASSUME NEW outcome, NEW s, NEW store \in Tab, Settle(t, outcome, s, store)
      PROVE  /\ rf'[t] = NoRefresh /\ tab'[t].sid = store.sid /\ FgQuiet(t)
             /\ \A u \in Tabs \ {t} : tab'[u] = tab[u] /\ rf'[u] = rf[u] /\ fg'[u] = fg[u]
  <2>1. [store EXCEPT !.page = IF @ = "boot" THEN "up" ELSE @].sid = store.sid
    BY DEF Tab
  <2>2. rf'[t] = NoRefresh /\ tab'[t].sid = store.sid
    BY <1>0, <1>1, <2>1 DEF Settle, PageTyped
  <2>3. NoForeground.pc = "none" /\ [NoForeground EXCEPT !.pc = "again"].pc = "again"
    BY DEF NoForeground
  <2>4. FgQuiet(t)
    BY <1>0, <1>1, <2>3 DEF Settle, PageTyped, FgQuiet
  <2>5. \A u \in Tabs \ {t} : tab'[u] = tab[u] /\ rf'[u] = rf[u] /\ fg'[u] = fg[u]
    BY <1>0, <1>1 DEF Settle, PageTyped
  <2> QED BY <2>2, <2>4, <2>5
<1>2. ASSUME Reload(t)
      PROVE  /\ rf'[t] \in {NoRefresh, NewRefresh} /\ tab'[t].sid = NoSid /\ FgQuiet(t)
             /\ \A u \in Tabs \ {t} : tab'[u] = tab[u] /\ rf'[u] = rf[u] /\ fg'[u] = fg[u]
             /\ lost \subseteq lost' /\ (rf[t].pc = "ok" => rf[t].token.sid \in lost')
  <2>1. rf'[t] \in {NoRefresh, NewRefresh} /\ tab'[t] \in {NewPage, [NewPage EXCEPT !.page = "up"]}
    BY <1>0, <1>2 DEF Reload, PageTyped
  <2>2. tab'[t].sid = NoSid
    BY <2>1, Fields
  <2>3. FgQuiet(t)
    BY <1>0, <1>2, Fields DEF Reload, PageTyped, FgQuiet
  <2>4. \A u \in Tabs \ {t} : tab'[u] = tab[u] /\ rf'[u] = rf[u] /\ fg'[u] = fg[u]
    BY <1>0, <1>2 DEF Reload, PageTyped
  <2> QED BY <1>2, <2>1, <2>2, <2>3, <2>4 DEF Reload
<1> QED BY <1>1, <1>2

\* A rotation leaves the other tabs alone: none of them has a token in flight.
LEMMA RotateAlone ==
    ASSUME Typed, Locked, NEW t \in Tabs, rf[t].pc = "sent", NEW s, s # NoSid, Rotate(t, s)
    PROVE  \A u \in Tabs \ {t} : rf'[u] = rf[u]
<1>1. ASSUME NEW u \in Tabs \ {t} PROVE rf'[u] = rf[u]
  <2>1. Holds(t)
    BY DEF Holds
  <2>2. ~Holds(u)
    BY <2>1 DEF Locked
  <2>3. rf[u].token = NoCookie
    BY <2>2 DEF Locked, Holds
  <2>4. Older(rf[u].token, s) = rf[u].token
    BY <2>3, Fields DEF Older
  <2>5. rf[u] \in Refresh
    BY TabNumbers
  <2>6. [rf[u] EXCEPT !.token = rf[u].token] = rf[u]
    BY <2>5 DEF Refresh
  <2>7. rf'[u] = [rf[u] EXCEPT !.token = Older(rf[u].token, s)]
    BY DEF Rotate
  <2> QED BY <2>4, <2>6, <2>7
<1> QED BY <1>1

\* Each step of a tab is one of these effects.
LEMMA TabEffect ==
    ASSUME Typed, Locked, NEW t \in Tabs, TabStep(t)
    PROVE  OthersKeep(t) /\ Effect(t)
<1>0. /\ PageTyped /\ cookie \in Cookies /\ cookie.sid \in 0..MaxSessions
      /\ server \in [Sids -> {"unused", "active", "revoked"}] /\ grace \in [Sids -> BOOLEAN]
      /\ dropped \in [Tabs -> SUBSET Sids]
      /\ tab \in [Tabs -> Tab] /\ rf \in [Tabs -> Refresh] /\ fg \in [Tabs -> Foreground]
      /\ NoSid \in 0..MaxSessions
  BY CookieTypes DEF Typed, PageTyped
<1>1. tab[t] \in Tab /\ rf[t] \in Refresh /\ fg[t] \in Foreground
  BY TabNumbers
<1>2. ASSUME rf' = [rf EXCEPT ![t] = Superseded(t)]
      PROVE  /\ rf'[t].pc = rf[t].pc /\ rf'[t].token = rf[t].token
             /\ rf'[t].pc = "ok" => rf'[t].stale
             /\ \A u \in Tabs \ {t} : rf'[u] = rf[u]
  BY <1>0, <1>2, Fields
<1>3. ASSUME RefreshAuthentication(t)
      PROVE  /\ rf'[t] = rf[t] \/ (rf'[t] = NewRefresh /\ rf[t].pc = "none")
             /\ \A u \in Tabs \ {t} : rf'[u] = rf[u]
  BY <1>0, <1>3 DEF RefreshAuthentication
<1>4. Holds(t) => LockFree(t)
  BY DEF Locked, LockFree
<1>5. ASSUME rf'[t] \in {NoRefresh, NewRefresh}
      PROVE  rf'[t].token = NoCookie /\ rf'[t].pc \in {"none", "lock"}
  BY <1>5, Fields
<1>10. CASE RunRefresh(t)
  <2>1. CASE Settle(t, "transient", NoSid, tab[t])
    <3>1. Waits(t) /\ OthersKeep(t)
      BY <1>0, <1>1, <1>5, <1>10, <2>1, PageEffects DEF RunRefresh, Waits, OthersKeep, history
    <3> QED BY <3>1 DEF Effect
  <2>2. CASE rf' = [rf EXCEPT ![t] = Send(t, tab[t].sid)] /\ UNCHANGED <<tab, api, fg>>
    <3>1. Sends(t) /\ OthersKeep(t)
      BY <1>0, <1>10, <2>2, Fields DEF RunRefresh, Sends, OthersKeep, history
    <3> QED BY <3>1 DEF Effect
  <2> QED BY <1>10, <2>1, <2>2 DEF RunRefresh
<1>11. CASE RefreshAuth(t)
  <2>1. UNCHANGED <<tab, fg, dropped, signedOut, lost>> /\ rf[t].pc = "sent" /\ Holds(t)
    BY <1>11 DEF RefreshAuth, history, Holds
  <2>2. ASSUME NEW pc \in {"ok", "unauthorized", "mismatch"}, NEW c, Answer(t, pc, c)
        PROVE  /\ rf'[t].pc = pc /\ rf'[t].token = c /\ UNCHANGED <<grace, cookie>>
               /\ \A u \in Tabs \ {t} : rf'[u] = rf[u]
    BY <1>0, <2>2, Fields DEF Answer
  <2>3. ASSUME NEW pc \in {"unauthorized", "mismatch"}, Answer(t, pc, NoCookie),
               \A s \in Sids : server'[s] \in {server[s], "revoked"}
        PROVE  Waits(t) /\ OthersKeep(t)
    BY <2>1, <2>2, <2>3 DEF Waits, OthersKeep, FgQuiet
  <2>4. CASE Answer(t, "mismatch", NoCookie) /\ UNCHANGED server
    BY <2>3, <2>4 DEF Effect
  <2>5. CASE Answer(t, "unauthorized", NoCookie) /\ UNCHANGED server
    BY <2>3, <2>5 DEF Effect
  <2>6. CASE /\ rf[t].token.sid # NoSid /\ Answer(t, "unauthorized", NoCookie)
             /\ server' = IF rf[t].token.age = 1 THEN [server EXCEPT ![rf[t].token.sid] = "revoked"] ELSE server
    <3>1. \A s \in Sids : server'[s] \in {server[s], "revoked"}
      BY <1>0, <2>6
    <3> QED BY <2>3, <2>6, <3>1 DEF Effect
  <2>7. CASE /\ rf[t].token.sid # NoSid /\ server[rf[t].token.sid] = "active"
             /\ Answer(t, "ok", New(rf[t].token.sid)) /\ UNCHANGED server
    <3>1. Renews(t) /\ OthersKeep(t)
      BY <2>1, <2>2, <2>7 DEF Renews, OthersKeep
    <3> QED BY <3>1 DEF Effect
  <2>8. CASE /\ rf[t].token.sid # NoSid /\ server[rf[t].token.sid] = "active"
             /\ rf[t].token.age = 0 /\ Rotate(t, rf[t].token.sid)
    <3>1. \A u \in Tabs \ {t} : rf'[u] = rf[u]
      BY <2>1, <2>8, RotateAlone
    <3>2. rf'[t].pc = "ok" /\ rf'[t].token = New(rf[t].token.sid)
      <4>1. rf'[t] = [Answered(t, "ok") EXCEPT !.token = New(rf[t].token.sid)]
        BY <2>8 DEF Rotate
      <4> QED BY <4>1, Fields
    <3>3. Renews(t) /\ OthersKeep(t)
      BY <2>1, <2>8, <3>1, <3>2 DEF Renews, OthersKeep, Rotate
    <3> QED BY <3>3 DEF Effect
  <2> QED BY <1>11, <2>4, <2>5, <2>6, <2>7, <2>8 DEF RefreshAuth
<1>12. CASE RefreshFails(t)
  <2>1. rf'[t].pc = "transient" /\ rf'[t].token = NoCookie /\ \A u \in Tabs \ {t} : rf'[u] = rf[u]
    BY <1>0, <1>12, Fields DEF RefreshFails
  <2>2. Waits(t) /\ OthersKeep(t)
    BY <1>0, <1>12, <2>1 DEF RefreshFails, Waits, OthersKeep, FgQuiet, Holds
  <2> QED BY <2>2 DEF Effect
<1>13. CASE RefreshAccepted(t)
  <2>1. cookie' = rf[t].token /\ rf[t].pc = "ok" /\ lost' = lost \cup Displaced(cookie')
        /\ UNCHANGED <<server, grace, dropped, signedOut>>
    BY <1>13 DEF RefreshAccepted, JarAfter
  <2>2. rf[t].token.sid \in 0..MaxSessions
    BY TabNumbers
  <2>3. /\ rf'[t] = NoRefresh /\ FgQuiet(t)
        /\ tab'[t].sid = tab[t].sid \/ (~rf[t].stale /\ tab'[t].sid = rf[t].token.sid)
        /\ \A u \in Tabs \ {t} : tab'[u] = tab[u] /\ rf'[u] = rf[u] /\ fg'[u] = fg[u]
    <3>1. Store(t, rf[t].token.sid) \in Tab /\ Store(t, rf[t].token.sid).sid = rf[t].token.sid
      BY <2>2, StoreTypes
    <3>2. CASE rf[t].stale
      <4>1. Settle(t, "transient", NoSid, tab[t])
        BY <1>13, <3>2 DEF RefreshAccepted
      <4> QED BY <1>1, <4>1, PageEffects
    <3>3. CASE ~rf[t].stale
      <4>1. Settle(t, "authenticated", rf[t].token.sid, Store(t, rf[t].token.sid))
        BY <1>13, <3>3 DEF RefreshAccepted
      <4> QED BY <3>1, <3>3, <4>1, PageEffects
    <3> QED BY <3>2, <3>3
  <2>4. rf'[t].pc = "none" /\ rf'[t].token = NoCookie
    BY <2>3, Fields
  <2>5. Adopts(t) /\ OthersKeep(t)
    BY <2>1, <2>3, <2>4 DEF Adopts, OthersKeep
  <2> QED BY <2>5 DEF Effect
<1>14. CASE RefreshUnauthorized(t)
  <2>1. cookie' = NoCookie /\ rf[t].pc = "unauthorized" /\ lost' = lost \cup Displaced(cookie')
        /\ UNCHANGED <<server, grace, signedOut>>
    BY <1>14 DEF RefreshUnauthorized, JarAfter
  <2>2. CASE Settle(t, "transient", NoSid, tab[t]) /\ UNCHANGED <<inbox, dropped>>
    <3>1. /\ rf'[t] = NoRefresh /\ tab'[t].sid = tab[t].sid /\ FgQuiet(t)
          /\ \A u \in Tabs \ {t} : tab'[u] = tab[u] /\ rf'[u] = rf[u] /\ fg'[u] = fg[u]
      BY <1>1, <2>2, PageEffects
    <3>2. rf'[t].pc = "none" /\ rf'[t].token = NoCookie
      BY <3>1, Fields
    <3>3. Clears(t) /\ OthersKeep(t)
      BY <2>1, <2>2, <3>1, <3>2 DEF Clears, OthersKeep
    <3> QED BY <3>3 DEF Effect
  <2>3. CASE /\ Settle(t, "anonymous", NoSid, Cleared(t, TRUE))
             /\ dropped' = [dropped EXCEPT ![t] = @ \cup Drops(t)]
    <3>0. Cleared(t, TRUE) \in Tab /\ Cleared(t, TRUE).sid = NoSid
      BY StoreTypes
    <3>1. /\ rf'[t] = NoRefresh /\ tab'[t].sid = NoSid /\ FgQuiet(t)
          /\ \A u \in Tabs \ {t} : tab'[u] = tab[u] /\ rf'[u] = rf[u] /\ fg'[u] = fg[u]
      BY <2>3, <3>0, PageEffects
    <3>2. rf'[t].pc = "none" /\ rf'[t].token = NoCookie
      BY <3>1, Fields
    <3>3. dropped'[t] = dropped[t] \cup Drops(t) /\ \A u \in Tabs \ {t} : dropped'[u] = dropped[u]
      BY <1>0, <2>3
    <3>4. Clears(t) /\ OthersKeep(t)
      BY <2>1, <3>1, <3>2, <3>3 DEF Clears, OthersKeep
    <3> QED BY <3>4 DEF Effect
  <2> QED BY <1>14, <2>2, <2>3 DEF RefreshUnauthorized
<1>15. CASE RefreshMismatched(t)
  <2>1. CASE Settle(t, "transient", NoSid, tab[t])
    <3>1. Waits(t) /\ OthersKeep(t)
      BY <1>0, <1>1, <1>5, <1>15, <2>1, PageEffects DEF RefreshMismatched, Waits, OthersKeep, history
    <3> QED BY <3>1 DEF Effect
  <2>2. CASE /\ tab' = [tab EXCEPT ![t] = Cleared(t, FALSE)]
             /\ rf' = [rf EXCEPT ![t] = Send(t, NoSid)] /\ UNCHANGED <<api, fg>>
    <3>0. LockFree(t)
      BY <1>4, <1>15 DEF RefreshMismatched, Holds
    <3>1. /\ Cleared(t, FALSE).sid = NoSid
          /\ Send(t, NoSid).pc = "sent" /\ Send(t, NoSid).token = cookie
      BY Fields
    <3>2. /\ tab'[t] = Cleared(t, FALSE) /\ rf'[t] = Send(t, NoSid)
          /\ \A u \in Tabs \ {t} : tab'[u] = tab[u] /\ rf'[u] = rf[u]
      BY <1>0, <2>2
    <3>3. UNCHANGED <<server, grace, cookie, fg, dropped, signedOut, lost>> /\ rf[t].pc = "mismatch"
      BY <1>15, <2>2 DEF RefreshMismatched, history
    <3>4. Sends(t) /\ OthersKeep(t)
      BY <3>0, <3>1, <3>2, <3>3 DEF Sends, OthersKeep
    <3> QED BY <3>4 DEF Effect
  <2> QED BY <1>15, <2>1, <2>2 DEF RefreshMismatched
<1>16. CASE RefreshTransient(t)
  <2>1. (tab[t].done /\ rf[t].stale) \in BOOLEAN
    OBVIOUS
  <2> DEFINE store == [tab[t] EXCEPT !.done = @ /\ rf[t].stale]
  <2>2. store \in Tab /\ store.sid = tab[t].sid
    BY <1>1, <2>1 DEF Tab
  <2>3. Settle(t, "transient", NoSid, store)
    BY <1>16 DEF RefreshTransient
  <2> HIDE DEF store
  <2>4. /\ rf'[t] = NoRefresh /\ tab'[t].sid = tab[t].sid /\ FgQuiet(t)
        /\ \A u \in Tabs \ {t} : tab'[u] = tab[u] /\ rf'[u] = rf[u] /\ fg'[u] = fg[u]
    BY <2>2, <2>3, PageEffects
  <2>5. UNCHANGED <<server, grace, cookie, dropped, signedOut, lost>> /\ rf[t].pc = "transient"
    BY <1>16 DEF RefreshTransient, history
  <2>6. Waits(t) /\ OthersKeep(t)
    BY <1>0, <1>5, <2>4, <2>5 DEF Waits, OthersKeep
  <2> QED BY <2>6 DEF Effect
<1>17. CASE ResolveAuthentication(t)
  <2>1. tab'[t].sid = tab[t].sid /\ \A u \in Tabs \ {t} : tab'[u] = tab[u]
    BY <1>0, <1>1, <1>17 DEF ResolveAuthentication, Tab
  <2>2. Waits(t) /\ OthersKeep(t)
    BY <1>0, <1>3, <1>5, <1>17, <2>1 DEF ResolveAuthentication, Waits, OthersKeep, FgQuiet, history
  <2> QED BY <2>2 DEF Effect
<1>18. CASE GetFreshAuthHeaders(t)
  <2>2. Waits(t) /\ OthersKeep(t)
    BY <1>0, <1>3, <1>5, <1>18 DEF GetFreshAuthHeaders, Waits, OthersKeep, FgQuiet, history
  <2> QED BY <2>2 DEF Effect
<1>19. CASE ApiUnauthorized(t)
  <2>2. Waits(t) /\ OthersKeep(t)
    BY <1>0, <1>3, <1>5, <1>19 DEF ApiUnauthorized, Waits, OthersKeep, FgQuiet, history
  <2> QED BY <2>2 DEF Effect
<1>20. CASE ApiRetryUnauthorized(t)
  <2>1. /\ tab'[t].sid = NoSid /\ dropped'[t] = dropped[t] \cup Drops(t)
        /\ \A u \in Tabs \ {t} : tab'[u] = tab[u] /\ dropped'[u] = dropped[u]
    <3>1. Cleared(t, TRUE).sid = NoSid
      BY Fields
    <3> QED BY <1>0, <1>20, <3>1 DEF ApiRetryUnauthorized
  <2>2. Clears(t) /\ OthersKeep(t)
    BY <1>2, <1>20, <2>1 DEF ApiRetryUnauthorized, Clears, OthersKeep, FgQuiet
  <2> QED BY <2>2 DEF Effect
<1>21. CASE UserReload(t)
  <2>1. /\ rf'[t] \in {NoRefresh, NewRefresh} /\ tab'[t].sid = NoSid /\ FgQuiet(t)
        /\ \A u \in Tabs \ {t} : tab'[u] = tab[u] /\ rf'[u] = rf[u] /\ fg'[u] = fg[u]
        /\ lost \subseteq lost' /\ (rf[t].pc = "ok" => rf[t].token.sid \in lost')
    BY <1>21, PageEffects DEF UserReload
  <2>2. Waits(t) /\ OthersKeep(t)
    BY <1>0, <1>5, <1>21, <2>1 DEF UserReload, Waits, OthersKeep
  <2> QED BY <2>2 DEF Effect
<1>22. CASE ApplyAuthRotation(t)
  <2>1. tab'[t].sid = tab[t].sid /\ \A u \in Tabs \ {t} : tab'[u] = tab[u]
    BY <1>0, <1>1, <1>22, Fields DEF ApplyAuthRotation
  <2>2. Waits(t) /\ OthersKeep(t)
    BY <1>0, <1>2, <1>22, <2>1 DEF ApplyAuthRotation, Waits, OthersKeep, FgQuiet, history
  <2> QED BY <2>2 DEF Effect
<1>23. CASE TokenExpires(t)
  <2>1. tab'[t].sid = tab[t].sid /\ \A u \in Tabs \ {t} : tab'[u] = tab[u]
    BY <1>0, <1>1, <1>23 DEF TokenExpires, Tab
  <2>2. Waits(t) /\ OthersKeep(t)
    BY <1>0, <1>23, <2>1 DEF TokenExpires, Waits, OthersKeep, FgQuiet, history
  <2> QED BY <2>2 DEF Effect
<1>24. CASE Login(t)
  <2>1. OthersKeep(t)
    BY <1>0, <1>24 DEF Login, OthersKeep, history
  <2> QED BY <1>24, <2>1 DEF Effect
<1>25. CASE LoginAnswered(t)
  <2>1. /\ tab'[t].sid = fg[t].sid /\ fg'[t].pc = "none"
        /\ \A u \in Tabs \ {t} : tab'[u] = tab[u] /\ fg'[u] = fg[u]
    BY <1>0, <1>25, Fields DEF LoginAnswered
  <2>2. LogsIn(t) /\ OthersKeep(t)
    BY <1>2, <1>25, <2>1 DEF LoginAnswered, LogsIn, OthersKeep
  <2> QED BY <2>2 DEF Effect
<1>26. ASSUME AuthLogout(t), UNCHANGED <<grace, cookie, tab, rf, dropped, signedOut, lost>>
       PROVE  SignsOut(t) /\ OthersKeep(t)
  <2>1. PICK pc \in {"ok", "kept"} : fg' = [fg EXCEPT ![t] = [pc |-> pc, sid |-> tab[t].sid]]
    BY <1>26 DEF AuthLogout
  <2>2. fg'[t].pc \in {"ok", "kept"} /\ fg'[t].sid = tab[t].sid /\ \A u \in Tabs \ {t} : fg'[u] = fg[u]
    BY <1>0, <2>1
  <2>3. \A s \in Sids : server'[s] \in {server[s], "revoked"}
    BY <1>0, <1>26 DEF AuthLogout
  <2>4. tab[t].sid # NoSid => tab[t].sid \in Sids
    BY TabNumbers, CookieTypes
  <2>5. ASSUME tab[t].sid # NoSid, cookie.sid = tab[t].sid, CookieKnown
        PROVE  server'[tab[t].sid] = "revoked"
    <3>1. cookie # NoCookie
      BY <2>5, Fields
    <3> QED BY <1>0, <1>26, <2>4, <2>5, <3>1 DEF AuthLogout
  <2> QED BY <1>26, <2>2, <2>3, <2>5 DEF SignsOut, OthersKeep
<1>27. CASE Logout(t)
  <2>1. CASE /\ fg' = [fg EXCEPT ![t] = [NoForeground EXCEPT !.pc = "recover"]]
             /\ RefreshAuthentication(t) /\ UNCHANGED server
    <3>1. [NoForeground EXCEPT !.pc = "recover"].pc = "recover"
      BY DEF NoForeground
    <3>2. FgQuiet(t) /\ \A u \in Tabs \ {t} : fg'[u] = fg[u]
      BY <1>0, <2>1, <3>1 DEF FgQuiet
    <3>3. Waits(t) /\ OthersKeep(t)
      BY <1>0, <1>3, <1>5, <1>27, <2>1, <3>2 DEF Logout, Waits, OthersKeep, history
    <3> QED BY <3>3 DEF Effect
  <2>2. CASE AuthLogout(t) /\ UNCHANGED rf
    BY <1>26, <1>27, <2>2 DEF Logout, Effect, history
  <2> QED BY <1>27, <2>1, <2>2 DEF Logout
<1>28. CASE LogoutAgain(t)
  <2>1. CASE fg' = [fg EXCEPT ![t] = NoForeground] /\ UNCHANGED server
    <3>1. FgQuiet(t) /\ \A u \in Tabs \ {t} : fg'[u] = fg[u]
      BY <1>0, <2>1, Fields DEF FgQuiet
    <3>2. Waits(t) /\ OthersKeep(t)
      BY <1>0, <1>28, <2>1, <3>1 DEF LogoutAgain, Waits, OthersKeep, history
    <3> QED BY <3>2 DEF Effect
  <2>2. CASE AuthLogout(t)
    BY <1>26, <1>28, <2>2 DEF LogoutAgain, Effect, history
  <2> QED BY <1>28, <2>1, <2>2 DEF LogoutAgain
<1>29. CASE LogoutSucceeds(t)
  <2>1. /\ tab'[t].sid = NoSid /\ dropped'[t] = dropped[t] \cup Drops(t)
        /\ \A u \in Tabs \ {t} : tab'[u] = tab[u] /\ dropped'[u] = dropped[u] /\ fg'[u] = fg[u]
    BY <1>0, <1>29, Fields DEF LogoutSucceeds
  <2>2. FgQuiet(t)
    BY <1>0, <1>29, Fields DEF LogoutSucceeds, FgQuiet
  <2>3. Clears(t) /\ OthersKeep(t)
    BY <1>2, <1>29, <2>1, <2>2 DEF LogoutSucceeds, Clears, OthersKeep
  <2> QED BY <2>3 DEF Effect
<1>30. CASE ForegroundFails(t)
  <2>1. FgQuiet(t) /\ \A u \in Tabs \ {t} : fg'[u] = fg[u]
    BY <1>0, <1>30, Fields DEF ForegroundFails, FgQuiet
  <2>2. Waits(t) /\ OthersKeep(t)
    BY <1>0, <1>30, <2>1 DEF ForegroundFails, Waits, OthersKeep, history
  <2> QED BY <2>2 DEF Effect
<1>31. CASE Deliver(t)
  <2>0. UNCHANGED <<server, grace, cookie, signedOut>>
    BY <1>31 DEF Deliver
  <2>1. CASE Reload(t) /\ UNCHANGED dropped
    <3>1. /\ rf'[t] \in {NoRefresh, NewRefresh} /\ tab'[t].sid = NoSid /\ FgQuiet(t)
          /\ \A u \in Tabs \ {t} : tab'[u] = tab[u] /\ rf'[u] = rf[u] /\ fg'[u] = fg[u]
          /\ lost \subseteq lost' /\ (rf[t].pc = "ok" => rf[t].token.sid \in lost')
      BY <2>1, PageEffects
    <3>2. Waits(t) /\ OthersKeep(t)
      BY <1>0, <1>5, <2>0, <2>1, <3>1 DEF Waits, OthersKeep
    <3> QED BY <3>2 DEF Effect
  <2>2. CASE /\ tab' = [tab EXCEPT ![t] = Cleared(t, TRUE)]
             /\ rf' = [rf EXCEPT ![t] = Superseded(t)]
             /\ dropped' = [dropped EXCEPT ![t] = @ \cup Drops(t)]
             /\ UNCHANGED <<api, fg, lost>>
    <3>1. /\ tab'[t].sid = NoSid /\ dropped'[t] = dropped[t] \cup Drops(t)
          /\ \A u \in Tabs \ {t} : tab'[u] = tab[u] /\ dropped'[u] = dropped[u]
      <4>1. Cleared(t, TRUE).sid = NoSid
        BY Fields
      <4> QED BY <1>0, <2>2, <4>1
    <3>2. Clears(t) /\ OthersKeep(t)
      BY <1>2, <2>0, <2>2, <3>1 DEF Clears, OthersKeep, FgQuiet
    <3> QED BY <3>2 DEF Effect
  <2>3. CASE UNCHANGED <<tab, rf, api, fg, dropped, lost>>
    <3>1. Waits(t) /\ OthersKeep(t)
      BY <1>0, <2>0, <2>3 DEF Waits, OthersKeep, FgQuiet
    <3> QED BY <3>1 DEF Effect
  <2> QED BY <1>31, <2>1, <2>2, <2>3 DEF Deliver
<1>32. CASE EventTooOld(t)
  <2>1. Waits(t) /\ OthersKeep(t)
    BY <1>0, <1>32 DEF EventTooOld, Waits, OthersKeep, FgQuiet, history
  <2> QED BY <2>1 DEF Effect
<1> QED BY <1>10, <1>11, <1>12, <1>13, <1>14, <1>15, <1>16, <1>17, <1>18, <1>19, <1>20, <1>21, <1>22,
           <1>23, <1>24, <1>25, <1>27, <1>28, <1>29, <1>30, <1>31, <1>32 DEF TabStep, RefreshAnswered

-----------------------------------------------------------------------------
(* The invariant is inductive.                                               *)

WInv == /\ Typed /\ Locked /\ JarKeepsUp /\ Created /\ LoginIsNew /\ DroppedIsGone /\ SignOuts

\* A session never comes back: it stays created, revoked and lost.
Onward == /\ \A s \in Sids : /\ server[s] # "unused" => server'[s] # "unused"
                             /\ server[s] = "revoked" => server'[s] = "revoked"
          /\ lost \subseteq lost'

\* Every effect moves the sessions onward.
LEMMA EffectOnward ==
    ASSUME Typed, NEW t \in Tabs, Effect(t)
    PROVE  Onward
<1>0. server \in [Sids -> {"unused", "active", "revoked"}]
  BY DEF Typed
<1>1. CASE Waits(t)
  BY <1>0, <1>1 DEF Waits, Onward
<1>2. CASE Sends(t)
  BY <1>2 DEF Sends, Onward
<1>3. CASE Renews(t)
  BY <1>3 DEF Renews, Onward
<1>4. CASE Adopts(t)
  BY <1>4 DEF Adopts, Onward
<1>5. CASE Clears(t)
  BY <1>5 DEF Clears, Onward
<1>6. CASE Login(t)
  BY <1>0, <1>6 DEF Login, Onward, history
<1>7. CASE LogsIn(t)
  BY <1>7 DEF LogsIn, Onward
<1>8. CASE SignsOut(t)
  BY <1>0, <1>8 DEF SignsOut, Onward
<1> QED BY <1>1, <1>2, <1>3, <1>4, <1>5, <1>6, <1>7, <1>8 DEF Effect

\* The jar's cookie is one record or another by its two fields.
LEMMA CookieFields ==
    ASSUME NEW c \in Cookies, NEW d \in Cookies, c.sid = d.sid, c.age = d.age
    PROVE  c = d
BY DEF Cookies

\* One tab refreshes at a time, with the jar's own token.
LEMMA LockedStep ==
    ASSUME WInv, Typed', NEW t \in Tabs, OthersKeep(t), Effect(t)
    PROVE  Locked'
<1>0. Typed /\ Locked /\ LoginIsNew /\ cookie \in Cookies /\ cookie.sid \in 0..MaxSessions /\ cookie.age \in 0..2
  BY CookieTypes DEF WInv, Typed
<1>1. NoCookie.sid = NoSid /\ NoCookie.age = 0 /\ NoCookie \in Cookies /\ \A s : New(s).sid = s /\ New(s).age = 0
  BY <1>0, Fields, CookieTypes
<1>2. Holds(t) => LockFree(t)
  BY <1>0 DEF Locked, LockFree
<1>3. \A u \in Tabs \ {t} : Holds(u)' = Holds(u) /\ rf'[u] = rf[u]
  BY DEF OthersKeep, Holds
<1>4. ASSUME Holds(t)' => LockFree(t) PROVE \A u, v \in Tabs : Holds(u)' /\ Holds(v)' => u = v
  BY <1>0, <1>3, <1>4 DEF LockFree, Locked
\* What must be shown: the lock, the jar and the tokens.
<1>5. ASSUME Holds(t)' => LockFree(t), cookie'.sid = NoSid => cookie'.age = 0,
             rf'[t].pc \notin {"sent", "ok"} => rf'[t].token = NoCookie,
             rf'[t].pc = "sent" => rf'[t].token.sid # cookie'.sid \/ rf'[t].token = cookie',
             rf'[t].pc = "ok" => rf'[t].token.sid # NoSid /\ rf'[t].token.age = 0,
             rf'[t].token.sid = NoSid => rf'[t].token.age = 0,
             \A u \in Tabs \ {t} : rf[u].pc = "sent" => rf[u].token.sid # cookie'.sid \/ rf[u].token = cookie'
      PROVE  Locked'
  <2>1. \A u, v \in Tabs : Holds(u)' /\ Holds(v)' => u = v
    BY <1>4, <1>5
  <2>2. ASSUME NEW u \in Tabs
        PROVE  /\ rf'[u].pc \notin {"sent", "ok"} => rf'[u].token = NoCookie
               /\ rf'[u].pc = "sent" => rf'[u].token.sid # cookie'.sid \/ rf'[u].token = cookie'
               /\ rf'[u].pc = "ok" => rf'[u].token.sid # NoSid /\ rf'[u].token.age = 0
               /\ rf'[u].token.sid = NoSid => rf'[u].token.age = 0
    <3>1. CASE u = t
      BY <1>5, <3>1
    <3>2. CASE u # t
      BY <1>0, <1>3, <1>5, <3>2 DEF Locked
    <3> QED BY <3>1, <3>2
  <2> QED BY <1>5, <2>1, <2>2 DEF Locked
<1>6. ASSUME cookie' = NoCookie, NEW u \in Tabs, rf[u].pc = "sent"
      PROVE  rf[u].token.sid # cookie'.sid \/ rf[u].token = cookie'
  <2>1. rf[u].token \in Cookies
    BY <1>0, TabNumbers
  <2>2. rf[u].token.sid = NoSid => rf[u].token = NoCookie
    BY <1>0, <1>1, <2>1, CookieFields DEF Locked
  <2> QED BY <1>1, <1>6, <2>2
<1>7. CASE Waits(t)
  <2>1. Holds(t)' => LockFree(t)
    BY <1>2, <1>7 DEF Waits, Holds
  <2> QED BY <1>0, <1>1, <1>5, <1>7, <2>1 DEF Waits, Locked
<1>8. CASE Sends(t)
  BY <1>0, <1>1, <1>5, <1>8 DEF Sends, Locked
<1>9. ASSUME Holds(t) PROVE \A u \in Tabs \ {t} : rf[u].pc # "sent"
  BY <1>2, <1>9 DEF LockFree, Holds
<1>10. CASE Renews(t)
  <2>1. Holds(t)
    BY <1>10 DEF Renews, Holds
  <2>2. cookie'.sid = NoSid => cookie'.age = 0
    <3>1. CASE cookie' = cookie
      BY <1>0, <3>1 DEF Locked
    <3>2. CASE cookie' = Older(cookie, rf[t].token.sid)
      <4>1. cookie.sid = NoSid => cookie' = cookie
        BY <1>10, <3>2 DEF Renews, Older
      <4>2. cookie'.sid = cookie.sid
        BY <1>0, <3>2 DEF Older, Cookies
      <4> QED BY <1>0, <4>1, <4>2 DEF Locked
    <3> QED BY <1>10, <3>1, <3>2 DEF Renews
  <2> QED BY <1>0, <1>1, <1>2, <1>5, <1>9, <1>10, <2>1, <2>2 DEF Renews
<1>11. CASE Adopts(t)
  <2>1. Holds(t) /\ ~Holds(t)'
    BY <1>11 DEF Adopts, Holds
  <2> QED BY <1>0, <1>1, <1>5, <1>9, <1>11, <2>1 DEF Adopts, Locked
<1>12. CASE Clears(t)
  <2>1. Holds(t)' => LockFree(t)
    BY <1>2, <1>12 DEF Clears, Holds
  <2>2. CASE cookie' = cookie
    BY <1>0, <1>1, <1>5, <1>12, <2>1, <2>2 DEF Clears, Locked
  <2>3. CASE cookie' = NoCookie
    BY <1>0, <1>1, <1>5, <1>6, <1>12, <2>1, <2>3 DEF Clears, Locked
  <2> QED BY <1>12, <2>2, <2>3 DEF Clears
<1>13. CASE Login(t)
  <2>1. rf' = rf /\ cookie' = cookie
    BY <1>13 DEF Login
  <2> QED BY <1>0, <2>1 DEF Locked, Holds
<1>14. CASE LogsIn(t)
  <2>1. Holds(t)' => LockFree(t)
    BY <1>2, <1>14 DEF LogsIn, Holds
  <2>2. cookie'.sid = fg[t].sid /\ cookie'.age = 0
    BY <1>1, <1>14 DEF LogsIn
  <2>3. \A u \in Tabs : rf[u].token.sid # fg[t].sid
    BY <1>0, <1>14 DEF LogsIn, LoginIsNew
  <2> QED BY <1>0, <1>1, <1>5, <1>14, <2>1, <2>2, <2>3 DEF LogsIn, Locked
<1>15. CASE SignsOut(t)
  <2>1. rf' = rf /\ cookie' = cookie
    BY <1>15 DEF SignsOut
  <2> QED BY <1>0, <2>1 DEF Locked, Holds
<1> QED BY <1>7, <1>8, <1>10, <1>11, <1>12, <1>13, <1>14, <1>15 DEF Effect

\* The jar never falls two rotations behind.
LEMMA JarStep ==
    ASSUME WInv, Typed', NEW t \in Tabs, OthersKeep(t), Effect(t)
    PROVE  JarKeepsUp'
<1>0. /\ Typed /\ Locked /\ JarKeepsUp /\ cookie \in Cookies /\ cookie.sid \in 0..MaxSessions
      /\ cookie.age \in 0..2 /\ grace \in [Sids -> BOOLEAN]
  BY CookieTypes DEF WInv, Typed
<1>1. NoCookie.age = 0 /\ \A s : New(s).sid = s /\ New(s).age = 0
  BY <1>0, Fields
<1>2. lost \subseteq lost'
  BY <1>0, EffectOnward DEF Onward
<1>3. CASE cookie'.age = 0
  BY <1>3 DEF JarKeepsUp
<1>4. ASSUME cookie' = cookie, grace' = grace,
             rf[t].pc = "ok" => rf[t].token.sid \in lost' \/ (rf'[t].pc = "ok" /\ rf'[t].token = rf[t].token)
      PROVE  JarKeepsUp'
  <2>1. CASE cookie.age # 1 \/ cookie.sid \in lost
    BY <1>0, <1>2, <1>4, <2>1 DEF JarKeepsUp
  <2>2. CASE cookie.age = 1 /\ cookie.sid \notin lost
    <3>1. PICK u \in Tabs : grace[cookie.sid] /\ rf[u].pc = "ok" /\ rf[u].token = New(cookie.sid)
      BY <1>0, <2>2 DEF JarKeepsUp
    <3>2. CASE u # t
      BY <1>4, <2>2, <3>1, <3>2 DEF JarKeepsUp, OthersKeep
    <3>3. CASE u = t /\ rf[t].token.sid \in lost'
      BY <1>1, <1>4, <2>2, <3>1, <3>3 DEF JarKeepsUp
    <3>4. CASE u = t /\ rf'[t].pc = "ok" /\ rf'[t].token = rf[t].token
      BY <1>4, <2>2, <3>1, <3>4 DEF JarKeepsUp
    <3> QED BY <1>4, <3>1, <3>2, <3>3, <3>4
  <2> QED BY <2>1, <2>2
<1>5. CASE Waits(t)
  BY <1>4, <1>5 DEF Waits
<1>6. CASE Sends(t)
  BY <1>4, <1>6 DEF Sends
<1>7. CASE Renews(t)
  <2>1. CASE UNCHANGED <<cookie, grace>>
    BY <1>4, <1>7, <2>1 DEF Renews
  <2>2. CASE /\ rf[t].token.age = 0
             /\ cookie' = Older(cookie, rf[t].token.sid) /\ grace' = [grace EXCEPT ![rf[t].token.sid] = TRUE]
    <3>1. CASE cookie.sid = rf[t].token.sid
      <4>1. cookie = rf[t].token
        BY <1>0, <1>7, <3>1 DEF Locked, Renews
      <4>2. cookie'.sid = rf[t].token.sid /\ cookie'.age = 1
        BY <1>0, <2>2, <3>1, <4>1 DEF Older, Cookies
      <4>3. rf[t].token.sid \in Sids
        BY <1>0, <1>7, TabNumbers, CookieTypes DEF Renews
      <4>4. grace'[cookie'.sid]
        BY <1>0, <2>2, <4>2, <4>3
      <4> QED BY <1>7, <4>2, <4>4 DEF JarKeepsUp, Renews
    <3>2. CASE cookie.sid # rf[t].token.sid
      <4>1. cookie' = cookie
        BY <2>2, <3>2 DEF Older
      <4>2. \A u \in Tabs : rf[u].pc # "ok"
        <5>1. Holds(t)
          BY <1>7 DEF Renews, Holds
        <5>2. \A u \in Tabs : u # t => ~Holds(u)
          BY <1>0, <5>1 DEF Locked
        <5> QED BY <1>7, <5>2 DEF Renews, Holds
      <4> QED BY <1>0, <1>2, <4>1, <4>2 DEF JarKeepsUp
    <3> QED BY <3>1, <3>2
  <2> QED BY <1>7, <2>1, <2>2 DEF Renews
<1>8. CASE Adopts(t)
  BY <1>0, <1>3, <1>8 DEF Adopts, Locked
<1>9. CASE Clears(t)
  BY <1>1, <1>3, <1>4, <1>9 DEF Clears
<1>10. CASE Login(t)
  BY <1>4, <1>10 DEF Login, history
<1>11. CASE LogsIn(t)
  BY <1>1, <1>3, <1>11 DEF LogsIn
<1>12. CASE SignsOut(t)
  BY <1>4, <1>12 DEF SignsOut
<1> QED BY <1>5, <1>6, <1>7, <1>8, <1>9, <1>10, <1>11, <1>12 DEF Effect

\* No step refers to a session before its creation, or drops one that is not
\* revoked.
LEMMA CreatedStep ==
    ASSUME WInv, Typed', NEW t \in Tabs, OthersKeep(t), Effect(t)
    PROVE  Created'
<1> DEFINE Known(s) == s # NoSid => server[s] # "unused"
           Known1(s) == s # NoSid => server'[s] # "unused"
<1>0. /\ Typed /\ Created /\ cookie \in Cookies /\ cookie.sid \in 0..MaxSessions
      /\ server \in [Sids -> {"unused", "active", "revoked"}]
  BY CookieTypes DEF WInv, Typed
<1>1. NoCookie.sid = NoSid /\ \A s : New(s).sid = s
  BY <1>0, Fields
<1>2. Onward
  BY <1>0, EffectOnward
<1>3. ASSUME NEW s \in 0..MaxSessions, Known(s) PROVE Known1(s)
  BY <1>2, <1>3, CookieTypes DEF Onward
<1>4. ASSUME NEW u \in Tabs
      PROVE  /\ tab[u].sid \in 0..MaxSessions /\ rf[u].token.sid \in 0..MaxSessions
             /\ fg[u].sid \in 0..MaxSessions /\ dropped[u] \subseteq Sids
             /\ Known(tab[u].sid) /\ Known(rf[u].token.sid)
             /\ fg[u].pc = "login" => fg[u].sid # NoSid /\ server[fg[u].sid] # "unused"
             /\ \A s \in dropped[u] : server[s] = "revoked"
  BY <1>0, TabNumbers DEF Created
<1>5. ASSUME NEW u \in Tabs
      PROVE  /\ Known1(tab[u].sid) /\ Known1(rf[u].token.sid)
             /\ fg[u].pc = "login" => fg[u].sid # NoSid /\ server'[fg[u].sid] # "unused"
             /\ \A s \in dropped[u] : server'[s] = "revoked"
  <2>1. Known1(tab[u].sid) /\ Known1(rf[u].token.sid)
    BY <1>3, <1>4
  <2>2. fg[u].pc = "login" => fg[u].sid # NoSid /\ server'[fg[u].sid] # "unused"
    BY <1>3, <1>4
  <2>3. \A s \in dropped[u] : server'[s] = "revoked"
    BY <1>2, <1>4 DEF Onward
  <2> QED BY <2>1, <2>2, <2>3
<1>6. Known1(cookie.sid)
  BY <1>0, <1>3 DEF Created
\* What must be shown: the jar and this tab.
<1>7. ASSUME Known1(cookie'.sid), Known1(tab'[t].sid), Known1(rf'[t].token.sid),
             fg'[t].pc = "login" => fg'[t].sid # NoSid /\ server'[fg'[t].sid] # "unused",
             \A s \in dropped'[t] : server'[s] = "revoked"
      PROVE  Created'
  <2>1. ASSUME NEW u \in Tabs
        PROVE  /\ tab'[u].sid # NoSid => server'[tab'[u].sid] # "unused"
               /\ rf'[u].token.sid # NoSid => server'[rf'[u].token.sid] # "unused"
               /\ fg'[u].pc = "login" => fg'[u].sid # NoSid /\ server'[fg'[u].sid] # "unused"
               /\ \A s \in dropped'[u] : server'[s] = "revoked"
    <3>1. CASE u = t
      BY <1>7, <3>1
    <3>2. CASE u # t
      <4>1. tab'[u] = tab[u] /\ rf'[u] = rf[u] /\ fg'[u] = fg[u] /\ dropped'[u] = dropped[u]
        BY <3>2 DEF OthersKeep
      <4> QED BY <1>5, <4>1
    <3> QED BY <3>1, <3>2
  <2> QED BY <1>7, <2>1 DEF Created
<1>8. Known1(NoSid) /\ Known1(NoCookie.sid)
  BY <1>1
<1>9. FgQuiet(t) => (fg'[t].pc = "login" => fg'[t].sid # NoSid /\ server'[fg'[t].sid] # "unused")
  BY <1>5 DEF FgQuiet
<1> HIDE DEF Known, Known1
<1>10. CASE Waits(t)
  BY <1>5, <1>6, <1>7, <1>8, <1>9, <1>10 DEF Waits
<1>11. CASE Sends(t)
  BY <1>5, <1>6, <1>7, <1>8, <1>11 DEF Sends
<1>12. CASE Renews(t)
  <2>1. Known1(rf'[t].token.sid)
    BY <1>1, <1>5, <1>12 DEF Renews
  <2>2. cookie'.sid = cookie.sid
    BY <1>0, <1>12 DEF Renews, Older, Cookies
  <2> QED BY <1>5, <1>6, <1>7, <1>12, <2>1, <2>2 DEF Renews
<1>13. CASE Adopts(t)
  BY <1>5, <1>7, <1>8, <1>9, <1>13 DEF Adopts
<1>14. CASE Clears(t)
  <2>1. Known1(cookie'.sid) /\ Known1(tab'[t].sid) /\ Known1(rf'[t].token.sid)
    BY <1>5, <1>6, <1>8, <1>14 DEF Clears
  <2>2. \A s \in Drops(t) : server'[s] = "revoked"
    BY <1>14 DEF Drops, Clears
  <2>3. \A s \in dropped'[t] : server'[s] = "revoked"
    BY <1>5, <1>14, <2>2 DEF Clears
  <2> QED BY <1>7, <1>9, <1>14, <2>1, <2>3 DEF Clears
<1>15. CASE Login(t)
  <2>1. PICK s \in Sids : /\ server' = [server EXCEPT ![s] = "active"]
                          /\ fg' = [fg EXCEPT ![t] = [NoForeground EXCEPT !.pc = "login", !.sid = s]]
    BY <1>15 DEF Login
  <2>2. [NoForeground EXCEPT !.pc = "login", !.sid = s].sid = s
    BY DEF NoForeground
  <2>3. fg'[t].sid = s
    BY <1>0, <2>1, <2>2 DEF Typed, PageTyped
  <2>4. s # NoSid
    BY WebBounds DEF Sids, NoSid
  <2>5. server'[s] = "active"
    BY <1>0, <2>1
  <2> QED BY <1>5, <1>6, <1>7, <1>15, <2>3, <2>4, <2>5 DEF Login, history
<1>16. CASE LogsIn(t)
  <2>1. Known1(fg[t].sid)
    BY <1>5, <1>16 DEF LogsIn, Known1
  <2> QED BY <1>1, <1>5, <1>7, <1>16, <2>1 DEF LogsIn
<1>17. CASE SignsOut(t)
  BY <1>5, <1>6, <1>7, <1>17 DEF SignsOut
<1> QED BY <1>10, <1>11, <1>12, <1>13, <1>14, <1>15, <1>16, <1>17 DEF Effect

\* Until its answer is there, a new session is in no jar, store or request.
LEMMA LoginStep ==
    ASSUME WInv, Typed', NEW t \in Tabs, OthersKeep(t), Effect(t)
    PROVE  LoginIsNew'
<1>0. /\ Typed /\ Created /\ LoginIsNew /\ cookie \in Cookies
  BY DEF WInv, Typed
<1>1. NoCookie.sid = NoSid /\ \A s : New(s).sid = s
  BY <1>0, Fields
\* All but a new login: the login was there before, and the tab has got no
\* session but its own, its token's or the jar's.
<1>2. ASSUME \A v \in Tabs : fg'[v].pc = "login" => fg'[v] = fg[v],
             cookie'.sid \in {NoSid, cookie.sid, rf[t].token.sid},
             tab'[t].sid \in {NoSid, tab[t].sid, rf[t].token.sid},
             rf'[t].token.sid \in {NoSid, rf[t].token.sid, cookie.sid},
             dropped'[t] \subseteq dropped[t] \cup {tab[t].sid}
      PROVE  LoginIsNew'
  <2>1. ASSUME NEW v \in Tabs, fg'[v].pc = "login"
        PROVE  /\ cookie'.sid # fg'[v].sid
               /\ \A u \in Tabs : /\ tab'[u].sid # fg'[v].sid /\ rf'[u].token.sid # fg'[v].sid
                                  /\ fg'[v].sid \notin dropped'[u]
                                  /\ fg'[u].pc = "login" /\ fg'[u].sid = fg'[v].sid => u = v
    <3>1. fg'[v] = fg[v] /\ fg[v].pc = "login" /\ fg[v].sid # NoSid
      BY <1>0, <1>2, <2>1 DEF Created
    <3>2. /\ cookie.sid # fg[v].sid
          /\ \A u \in Tabs : /\ tab[u].sid # fg[v].sid /\ rf[u].token.sid # fg[v].sid
                             /\ fg[v].sid \notin dropped[u]
                             /\ fg[u].pc = "login" /\ fg[u].sid = fg[v].sid => u = v
      BY <1>0, <3>1 DEF LoginIsNew
    <3>3. cookie'.sid # fg'[v].sid
      BY <1>2, <3>1, <3>2
    <3>4. ASSUME NEW u \in Tabs
          PROVE  /\ tab'[u].sid # fg'[v].sid /\ rf'[u].token.sid # fg'[v].sid
                 /\ fg'[v].sid \notin dropped'[u]
                 /\ fg'[u].pc = "login" /\ fg'[u].sid = fg'[v].sid => u = v
      <4>1. fg'[u].pc = "login" /\ fg'[u].sid = fg'[v].sid => u = v
        BY <1>2, <3>1, <3>2
      <4>2. CASE u = t
        BY <1>2, <3>1, <3>2, <4>1, <4>2
      <4>3. CASE u # t
        BY <3>1, <3>2, <4>1, <4>3 DEF OthersKeep
      <4> QED BY <4>2, <4>3
    <3> QED BY <3>3, <3>4
  <2> QED BY <2>1 DEF LoginIsNew
<1>3. ASSUME FgQuiet(t) PROVE \A v \in Tabs : fg'[v].pc = "login" => fg'[v] = fg[v]
  BY <1>3 DEF FgQuiet, OthersKeep
<1>4. CASE Waits(t)
  BY <1>1, <1>2, <1>3, <1>4 DEF Waits
<1>5. CASE Sends(t)
  BY <1>1, <1>2, <1>5 DEF Sends
<1>6. CASE Renews(t)
  <2>1. cookie'.sid = cookie.sid
    BY <1>0, <1>6 DEF Renews, Older, Cookies
  <2> QED BY <1>1, <1>2, <1>6, <2>1 DEF Renews
<1>7. CASE Adopts(t)
  BY <1>1, <1>2, <1>3, <1>7 DEF Adopts
<1>8. CASE Clears(t)
  <2>1. Drops(t) \subseteq {tab[t].sid}
    BY DEF Drops
  <2>2. dropped'[t] \subseteq dropped[t] \cup {tab[t].sid}
    BY <1>8, <2>1 DEF Clears
  <2>3. /\ cookie'.sid \in {NoSid, cookie.sid} /\ tab'[t].sid \in {NoSid, tab[t].sid}
        /\ rf'[t].token.sid \in {NoSid, rf[t].token.sid} /\ FgQuiet(t)
    BY <1>1, <1>8 DEF Clears
  <2> QED BY <1>2, <1>3, <2>2, <2>3
<1>9. CASE Login(t)
  <2>0. fg \in [Tabs -> Foreground] /\ server \in [Sids -> {"unused", "active", "revoked"}]
    BY <1>0 DEF Typed, PageTyped
  <2>1. PICK s \in Sids : /\ server[s] = "unused"
                          /\ fg' = [fg EXCEPT ![t] = [NoForeground EXCEPT !.pc = "login", !.sid = s]]
    BY <1>9 DEF Login
  <2>2. [NoForeground EXCEPT !.pc = "login", !.sid = s].sid = s
    BY DEF NoForeground
  <2>3. fg'[t].sid = s /\ \A u \in Tabs \ {t} : fg'[u] = fg[u]
    BY <2>0, <2>1, <2>2
  <2>4. s # NoSid
    BY WebBounds DEF Sids, NoSid
  <2>5. UNCHANGED <<cookie, tab, rf, dropped>>
    BY <1>9 DEF Login, history
  <2>6. cookie.sid # s
    BY <1>0, <2>1, <2>4 DEF Created
  <2>7. ASSUME NEW u \in Tabs
        PROVE  /\ tab[u].sid # s /\ rf[u].token.sid # s /\ s \notin dropped[u]
               /\ fg[u].pc = "login" => fg[u].sid # s
    BY <1>0, <2>1, <2>4 DEF Created
  <2>8. ASSUME NEW v \in Tabs, fg'[v].pc = "login"
        PROVE  /\ cookie'.sid # fg'[v].sid
               /\ \A u \in Tabs : /\ tab'[u].sid # fg'[v].sid /\ rf'[u].token.sid # fg'[v].sid
                                  /\ fg'[v].sid \notin dropped'[u]
                                  /\ fg'[u].pc = "login" /\ fg'[u].sid = fg'[v].sid => u = v
    <3>1. CASE v = t
      BY <2>3, <2>5, <2>6, <2>7, <3>1
    <3>2. CASE v # t
      <4>1. fg'[v] = fg[v] /\ fg[v].pc = "login"
        BY <2>3, <2>8, <3>2
      <4>2. /\ cookie.sid # fg[v].sid
            /\ \A u \in Tabs : /\ tab[u].sid # fg[v].sid /\ rf[u].token.sid # fg[v].sid
                               /\ fg[v].sid \notin dropped[u]
                               /\ fg[u].pc = "login" /\ fg[u].sid = fg[v].sid => u = v
        BY <1>0, <4>1 DEF LoginIsNew
      <4>3. \A u \in Tabs : fg'[u].pc = "login" /\ fg'[u].sid = fg'[v].sid => u = v
        BY <2>3, <2>7, <4>1, <4>2
      <4> QED BY <2>5, <4>1, <4>2, <4>3
    <3> QED BY <3>1, <3>2
  <2> QED BY <2>8 DEF LoginIsNew
<1>10. CASE LogsIn(t)
  <2>1. ASSUME NEW v \in Tabs, fg'[v].pc = "login"
        PROVE  /\ cookie'.sid # fg'[v].sid
               /\ \A u \in Tabs : /\ tab'[u].sid # fg'[v].sid /\ rf'[u].token.sid # fg'[v].sid
                                  /\ fg'[v].sid \notin dropped'[u]
                                  /\ fg'[u].pc = "login" /\ fg'[u].sid = fg'[v].sid => u = v
    <3>1. v # t
      BY <1>10, <2>1 DEF LogsIn
    <3>2. fg'[v] = fg[v] /\ fg[v].pc = "login"
      BY <2>1, <3>1 DEF OthersKeep
    <3>3. /\ cookie.sid # fg[v].sid
          /\ \A u \in Tabs : /\ tab[u].sid # fg[v].sid /\ rf[u].token.sid # fg[v].sid
                             /\ fg[v].sid \notin dropped[u]
                             /\ fg[u].pc = "login" /\ fg[u].sid = fg[v].sid => u = v
      BY <1>0, <3>2 DEF LoginIsNew
    <3>4. fg[t].sid # fg[v].sid
      BY <1>10, <3>1, <3>3 DEF LogsIn
    <3>5. cookie'.sid # fg'[v].sid
      BY <1>1, <1>10, <3>2, <3>4 DEF LogsIn
    <3>6. ASSUME NEW u \in Tabs
          PROVE  /\ tab'[u].sid # fg'[v].sid /\ rf'[u].token.sid # fg'[v].sid
                 /\ fg'[v].sid \notin dropped'[u]
                 /\ fg'[u].pc = "login" /\ fg'[u].sid = fg'[v].sid => u = v
      <4>1. CASE u = t
        BY <1>10, <3>2, <3>3, <3>4, <4>1 DEF LogsIn
      <4>2. CASE u # t
        BY <3>2, <3>3, <4>2 DEF OthersKeep
      <4> QED BY <4>1, <4>2
    <3> QED BY <3>5, <3>6
  <2> QED BY <2>1 DEF LoginIsNew
<1>11. CASE SignsOut(t)
  <2>1. \A v \in Tabs : fg'[v].pc = "login" => fg'[v] = fg[v]
    BY <1>11 DEF SignsOut, OthersKeep
  <2> QED BY <1>2, <1>11, <2>1 DEF SignsOut
<1> QED BY <1>4, <1>5, <1>6, <1>7, <1>8, <1>9, <1>10, <1>11 DEF Effect

\* A dropped session does not come back into the store of its tab.
LEMMA DroppedStep ==
    ASSUME WInv, Typed', NEW t \in Tabs, OthersKeep(t), Effect(t)
    PROVE  DroppedIsGone'
<1>0. /\ Typed /\ Created /\ LoginIsNew /\ DroppedIsGone /\ dropped[t] \subseteq Sids
      /\ tab[t].sid \notin dropped[t] /\ \A s \in dropped[t] : server[s] = "revoked"
  BY TabNumbers DEF WInv, Created, DroppedIsGone
<1>1. \A s : New(s).sid = s
  BY <1>0, Fields
<1>2. NoSid \notin Sids
  BY WebBounds DEF NoSid, Sids
<1>3. rf[t].pc = "ok" /\ ~rf[t].stale => rf[t].token.sid \notin dropped[t]
  BY <1>0 DEF DroppedIsGone
<1>4. ASSUME tab'[t].sid \notin dropped'[t],
             rf'[t].pc = "ok" /\ ~rf'[t].stale => rf'[t].token.sid \notin dropped'[t]
      PROVE  DroppedIsGone'
  BY <1>0, <1>4 DEF DroppedIsGone, OthersKeep
<1>5. CASE Waits(t)
  BY <1>0, <1>2, <1>3, <1>4, <1>5 DEF Waits
<1>6. CASE Sends(t)
  BY <1>0, <1>2, <1>4, <1>6 DEF Sends
<1>7. CASE Renews(t)
  BY <1>0, <1>1, <1>4, <1>7 DEF Renews
<1>8. CASE Adopts(t)
  BY <1>0, <1>3, <1>4, <1>8 DEF Adopts
<1>9. CASE Clears(t)
  <2>1. Drops(t) \subseteq Sids
    BY <1>0, StoreTypes
  <2>2. tab'[t].sid \notin dropped'[t]
    BY <1>0, <1>2, <1>9, <2>1 DEF Clears
  <2> QED BY <1>4, <1>9, <2>2 DEF Clears
<1>10. CASE Login(t)
  BY <1>0, <1>3, <1>4, <1>10 DEF Login, history
<1>11. CASE LogsIn(t)
  BY <1>0, <1>4, <1>11 DEF LogsIn, LoginIsNew
<1>12. CASE SignsOut(t)
  BY <1>0, <1>3, <1>4, <1>12 DEF SignsOut
<1> QED BY <1>5, <1>6, <1>7, <1>8, <1>9, <1>10, <1>11, <1>12 DEF Effect

\* A sign-out is reported for sessions that have ended; a session that leaves the
\* jar has ended, or its newest cookie is lost with it.
LEMMA SignOutStep ==
    ASSUME WInv, Typed', NEW t \in Tabs, OthersKeep(t), Effect(t)
    PROVE  SignOuts'
<1> DEFINE Ended1(s) == server'[s] = "revoked" \/ s \in lost'
<1>0. /\ Typed /\ Created /\ JarKeepsUp /\ SignOuts /\ cookie \in Cookies
      /\ cookie.sid \in 0..MaxSessions /\ cookie.age \in 0..2
      /\ server \in [Sids -> {"unused", "active", "revoked"}] /\ signedOut \subseteq Sids
  BY CookieTypes DEF WInv, Typed
<1>1. NoCookie.sid = NoSid /\ \A s : New(s).sid = s
  BY <1>0, Fields
<1>2. Onward
  BY <1>0, EffectOnward
<1>3. ASSUME NEW s \in Sids, Ended(s) PROVE Ended1(s)
  BY <1>2, <1>3 DEF Onward, Ended
<1>4. ASSUME NEW u \in Tabs
      PROVE  /\ tab[u].sid # NoSid => tab[u].sid \in Sids
             /\ fg[u].sid # NoSid => fg[u].sid \in Sids
  BY <1>0, TabNumbers, CookieTypes
<1>5. ASSUME NEW u \in Tabs, fg[u].pc \in {"ok", "kept"}, fg[u].sid # NoSid PROVE Ended1(fg[u].sid)
  BY <1>0, <1>3, <1>4, <1>5 DEF SignOuts
<1>6. \A s \in signedOut : Ended1(s)
  BY <1>0, <1>3 DEF SignOuts
<1>7. ASSUME cookie'.sid = cookie.sid \/ \A s \in Displaced(cookie') : Ended1(s)
      PROVE  \A u \in Tabs : tab[u].sid \notin {NoSid, cookie'.sid} => Ended1(tab[u].sid)
  <2>1. ASSUME NEW u \in Tabs, tab[u].sid \notin {NoSid, cookie'.sid} PROVE Ended1(tab[u].sid)
    <3>1. CASE tab[u].sid # cookie.sid
      BY <1>0, <1>3, <1>4, <2>1, <3>1 DEF SignOuts
    <3>2. CASE tab[u].sid = cookie.sid
      <4>1. \A s \in Displaced(cookie') : Ended1(s)
        BY <1>7, <2>1, <3>2
      <4>2. CASE server[cookie.sid] = "active"
        BY <2>1, <3>2, <4>1, <4>2 DEF Displaced
      <4>3. CASE server[cookie.sid] # "active"
        <5>1. server[cookie.sid] = "revoked"
          BY <1>0, <1>4, <2>1, <3>2, <4>3 DEF Created
        <5> QED BY <1>3, <1>4, <2>1, <3>2, <5>1 DEF Ended
      <4> QED BY <4>2, <4>3
    <3> QED BY <3>1, <3>2
  <2> QED BY <2>1
\* What must be shown: the jar, this tab and the sign-outs.
<1>8. ASSUME cookie'.sid = cookie.sid \/ \A s \in Displaced(cookie') : Ended1(s),
             tab'[t].sid \in {NoSid, cookie'.sid, tab[t].sid},
             fg'[t].pc \in {"ok", "kept"} /\ fg'[t].sid # NoSid => Ended1(fg'[t].sid),
             \A s \in signedOut' : Ended1(s)
      PROVE  SignOuts'
  <2>1. ASSUME NEW u \in Tabs
        PROVE  /\ tab'[u].sid \notin {NoSid, cookie'.sid} => Ended1(tab'[u].sid)
               /\ fg'[u].pc \in {"ok", "kept"} /\ fg'[u].sid # NoSid => Ended1(fg'[u].sid)
    <3>1. CASE u = t
      BY <1>7, <1>8, <3>1
    <3>2. CASE u # t
      <4>1. tab'[u] = tab[u] /\ fg'[u] = fg[u]
        BY <3>2 DEF OthersKeep
      <4> QED BY <1>5, <1>7, <1>8, <4>1
    <3> QED BY <3>1, <3>2
  <2> QED BY <1>8, <2>1 DEF SignOuts, Ended
<1>9. ASSUME FgQuiet(t) PROVE fg'[t].pc \in {"ok", "kept"} /\ fg'[t].sid # NoSid => Ended1(fg'[t].sid)
  BY <1>5, <1>9 DEF FgQuiet
<1> HIDE DEF Ended1
<1>10. CASE Waits(t)
  BY <1>6, <1>8, <1>9, <1>10 DEF Waits
<1>11. CASE Sends(t)
  BY <1>5, <1>6, <1>8, <1>11 DEF Sends
<1>12. CASE Renews(t)
  <2>1. cookie'.sid = cookie.sid
    BY <1>0, <1>12 DEF Renews, Older, Cookies
  <2> QED BY <1>5, <1>6, <1>8, <1>12, <2>1 DEF Renews
<1>13. CASE Adopts(t)
  <2>1. \A s \in Displaced(cookie') : Ended1(s)
    BY <1>13 DEF Adopts, Ended1
  <2> QED BY <1>6, <1>8, <1>9, <1>13, <2>1 DEF Adopts
<1>14. CASE Clears(t)
  <2>1. ASSUME cookie' # cookie, NEW s \in Displaced(cookie') PROVE Ended1(s)
    <3>1. CASE s \in lost'
      BY <3>1 DEF Ended1
    <3>2. CASE fg[t].pc \in {"ok", "kept"} /\ fg[t].sid = s
      <4>1. s # NoSid
        BY <2>1 DEF Displaced
      <4> QED BY <1>5, <3>2, <4>1
    <3> QED BY <1>14, <2>1, <3>1, <3>2 DEF Clears
  <2>2. \A s \in signedOut' : Ended1(s)
    BY <1>5, <1>6, <1>14 DEF Clears
  <2>3. tab'[t].sid \in {NoSid, cookie'.sid, tab[t].sid} /\ FgQuiet(t)
    BY <1>14 DEF Clears
  <2> QED BY <1>8, <1>9, <2>1, <2>2, <2>3
<1>15. CASE Login(t)
  <2>1. UNCHANGED <<cookie, tab, signedOut>>
    BY <1>15 DEF Login, history
  <2>2. PICK s \in Sids : fg' = [fg EXCEPT ![t] = [NoForeground EXCEPT !.pc = "login", !.sid = s]]
    BY <1>15 DEF Login
  <2>3. [NoForeground EXCEPT !.pc = "login", !.sid = s].pc = "login"
    BY DEF NoForeground
  <2>4. fg'[t].pc = "login"
    BY <1>0, <2>2, <2>3 DEF Typed, PageTyped
  <2> QED BY <1>6, <1>8, <2>1, <2>4
<1>16. CASE LogsIn(t)
  <2>1. \A s \in Displaced(cookie') : Ended1(s)
    BY <1>16 DEF LogsIn, Ended1
  <2> QED BY <1>1, <1>6, <1>8, <1>16, <2>1 DEF LogsIn
<1>17. CASE SignsOut(t)
  <2>1. ASSUME tab[t].sid # NoSid PROVE Ended1(tab[t].sid)
    <3>1. CASE server'[tab[t].sid] = "revoked"
      BY <3>1 DEF Ended1
    <3>2. CASE cookie.sid # tab[t].sid
      BY <1>0, <1>3, <1>4, <2>1, <3>2 DEF SignOuts
    <3>3. CASE cookie.sid = tab[t].sid /\ ~CookieKnown
      <4>1. cookie.age = 1 /\ ~grace[cookie.sid]
        BY <1>0, <3>3 DEF CookieKnown, JarKeepsUp
      <4>2. cookie.sid \in lost
        BY <1>0, <4>1 DEF JarKeepsUp
      <4> QED BY <1>3, <1>4, <2>1, <3>3, <4>2 DEF Ended
    <3> QED BY <1>17, <2>1, <3>1, <3>2, <3>3 DEF SignsOut
  <2> QED BY <1>6, <1>8, <1>17, <2>1 DEF SignsOut
<1> QED BY <1>10, <1>11, <1>12, <1>13, <1>14, <1>15, <1>16, <1>17 DEF Effect

\* A session is revoked from elsewhere.
LEMMA RevokeStep ==
    ASSUME WInv, NEW s \in Sids, ServerRevokes(s)
    PROVE  WInv'
<1>0. /\ Typed /\ Locked /\ JarKeepsUp /\ Created /\ LoginIsNew /\ DroppedIsGone /\ SignOuts
      /\ server \in [Sids -> {"unused", "active", "revoked"}] /\ faults \in 0..MaxFaults
  BY DEF WInv, Typed
<1>1. UNCHANGED <<logouts, grace, cookie, tab, rf, api, fg, inbox, dropped, signedOut, lost>>
  BY DEF ServerRevokes, history
<1>2. /\ server' \in [Sids -> {"unused", "active", "revoked"}]
      /\ \A r \in Sids : server'[r] \in {server[r], "revoked"}
  BY <1>0 DEF ServerRevokes
<1>3. faults' \in 0..MaxFaults
  BY <1>0, WebBounds DEF ServerRevokes
<1>4. Typed'
  BY <1>0, <1>1, <1>2, <1>3 DEF Typed, PageTyped, InboxTyped
<1>5. Locked' /\ JarKeepsUp' /\ LoginIsNew' /\ DroppedIsGone'
  BY <1>0, <1>1 DEF Locked, Holds, JarKeepsUp, LoginIsNew, DroppedIsGone
<1>6. ASSUME NEW u \in Tabs
      PROVE  /\ tab[u].sid # NoSid => tab[u].sid \in Sids
             /\ rf[u].token.sid # NoSid => rf[u].token.sid \in Sids
             /\ fg[u].sid # NoSid => fg[u].sid \in Sids
             /\ dropped[u] \subseteq Sids
  BY <1>0, TabNumbers, CookieTypes
<1>7. cookie.sid # NoSid => cookie.sid \in Sids
  BY <1>0, CookieTypes DEF Typed
<1>8. Created'
  <2>1. cookie'.sid # NoSid => server'[cookie'.sid] # "unused"
    BY <1>0, <1>1, <1>2, <1>7 DEF Created
  <2>2. ASSUME NEW u \in Tabs
        PROVE  /\ tab'[u].sid # NoSid => server'[tab'[u].sid] # "unused"
               /\ rf'[u].token.sid # NoSid => server'[rf'[u].token.sid] # "unused"
               /\ fg'[u].pc = "login" => fg'[u].sid # NoSid /\ server'[fg'[u].sid] # "unused"
               /\ \A r \in dropped'[u] : server'[r] = "revoked"
    BY <1>0, <1>1, <1>2, <1>6 DEF Created
  <2> QED BY <2>1, <2>2 DEF Created
<1>9. signedOut \subseteq Sids
  BY <1>0 DEF Typed
<1>10. SignOuts'
  <2>1. ASSUME NEW r \in Sids, Ended(r) PROVE server'[r] = "revoked" \/ r \in lost'
    BY <1>1, <1>2, <2>1 DEF Ended
  <2>2. ASSUME NEW u \in Tabs
        PROVE  /\ tab'[u].sid \notin {NoSid, cookie'.sid} =>
                      server'[tab'[u].sid] = "revoked" \/ tab'[u].sid \in lost'
               /\ fg'[u].pc \in {"ok", "kept"} /\ fg'[u].sid # NoSid =>
                      server'[fg'[u].sid] = "revoked" \/ fg'[u].sid \in lost'
    BY <1>0, <1>1, <1>6, <2>1 DEF SignOuts
  <2>3. \A r \in signedOut' : server'[r] = "revoked" \/ r \in lost'
    BY <1>0, <1>1, <1>9, <2>1 DEF SignOuts
  <2> QED BY <2>2, <2>3 DEF SignOuts, Ended
<1> QED BY <1>4, <1>5, <1>8, <1>10 DEF WInv

\* The replay window closes: the newest token is in no answer, so it was lost.
LEMMA GraceStep ==
    ASSUME WInv, NEW s \in Sids, GraceEnds(s)
    PROVE  WInv'
<1>0. /\ Typed /\ Locked /\ JarKeepsUp /\ Created /\ LoginIsNew /\ DroppedIsGone /\ SignOuts
      /\ grace \in [Sids -> BOOLEAN]
  BY DEF WInv, Typed
<1>1. UNCHANGED <<logouts, server, cookie, tab, rf, api, fg, inbox, faults, dropped, signedOut, lost>>
  BY DEF GraceEnds, history
<1>2. grace' \in [Sids -> BOOLEAN]
  BY <1>0 DEF GraceEnds
<1>3. Typed'
  BY <1>0, <1>1, <1>2 DEF Typed, PageTyped, InboxTyped
<1>4. Locked' /\ Created' /\ LoginIsNew' /\ DroppedIsGone'
  BY <1>0, <1>1 DEF Locked, Holds, Created, LoginIsNew, DroppedIsGone
<1>5. SignOuts'
  BY <1>0, <1>1 DEF SignOuts, Ended
<1>6. \A u \in Tabs : rf[u].token # New(s)
  BY DEF GraceEnds, New
<1>7. cookie.sid = s /\ cookie.age = 1
  BY DEF GraceEnds
<1>8. s \in lost
  BY <1>0, <1>6, <1>7 DEF JarKeepsUp
<1>9. JarKeepsUp'
  BY <1>1, <1>7, <1>8 DEF JarKeepsUp
<1> QED BY <1>3, <1>4, <1>5, <1>9 DEF WInv

\* The browser opens with an invariant that holds.
LEMMA WebInit == Init => WInv
<1> SUFFICES ASSUME Init PROVE WInv
  OBVIOUS
<1>0. /\ server = [s \in Sids |-> IF s = 1 THEN "active" ELSE "unused"]
      /\ cookie = New(1) /\ tab = [t \in Tabs |-> NewPage] /\ rf = [t \in Tabs |-> NewRefresh]
      /\ fg = [t \in Tabs |-> NoForeground] /\ dropped = [t \in Tabs |-> {}]
      /\ signedOut = {} /\ lost = {} /\ grace = [s \in Sids |-> FALSE]
      /\ api = [t \in Tabs |-> "none"] /\ inbox = [t \in Tabs |-> <<>>] /\ logouts = 0 /\ faults = 0
  BY DEF Init
<1>1. 1 \in Sids /\ 1 \in 0..MaxSessions /\ NoSid \in 0..MaxSessions /\ NoCookie \in Cookies /\ New(1) \in Cookies
  BY WebBounds, CookieTypes DEF Sids
<1>2. NewPage \in Tab /\ NewPage.sid = NoSid
  BY <1>1 DEF NewPage, Tab
<1>3. NoRefresh \in Refresh
  BY <1>1 DEF NoRefresh, Refresh
<1>4. NewRefresh \in Refresh /\ NewRefresh.pc = "lock" /\ NewRefresh.token = NoCookie
  BY <1>3 DEF NewRefresh, NoRefresh, Refresh
<1>5. NoForeground \in Foreground /\ NoForeground.pc = "none"
  BY <1>1 DEF NoForeground, Foreground
<1>6. NoCookie.sid = NoSid /\ NoCookie.age = 0 /\ New(1).sid = 1 /\ New(1).age = 0 /\ NoSid = 0
  BY DEF NoCookie, New, NoSid
<1>7. Typed
  <2>1. PageTyped
    BY <1>0, <1>2, <1>4, <1>5 DEF PageTyped
  <2>2. <<>> \in Seq(Event)
    OBVIOUS
  <2>3. InboxTyped
    BY <1>0, <2>2 DEF InboxTyped
  <2>4. logouts \in 0..MaxLogouts /\ faults \in 0..MaxFaults
    BY <1>0, WebBounds
  <2>5. server \in [Sids -> {"unused", "active", "revoked"}] /\ grace \in [Sids -> BOOLEAN]
    BY <1>0
  <2> QED BY <1>0, <1>1, <2>1, <2>3, <2>4, <2>5 DEF Typed
<1>8. Locked
  BY <1>0, <1>4, <1>6 DEF Locked, Holds
<1>9. JarKeepsUp
  BY <1>0, <1>6 DEF JarKeepsUp
<1>10. Created
  BY <1>0, <1>1, <1>2, <1>4, <1>5, <1>6 DEF Created
<1>11. LoginIsNew
  BY <1>0, <1>5 DEF LoginIsNew
<1>12. DroppedIsGone
  BY <1>0, <1>4 DEF DroppedIsGone
<1>13. SignOuts
  BY <1>0, <1>2, <1>5 DEF SignOuts
<1> QED BY <1>7, <1>8, <1>9, <1>10, <1>11, <1>12, <1>13 DEF WInv

\* Every step of the browser and of the server preserves the invariant.
LEMMA WebStep == WInv /\ [Next]_vars => WInv'
<1> SUFFICES ASSUME WInv, [Next]_vars PROVE WInv'
  OBVIOUS
<1>1. ASSUME NEW t \in Tabs, TabStep(t) PROVE WInv'
  <2>1. Typed /\ Locked
    BY DEF WInv
  <2>2. Typed' /\ OthersKeep(t) /\ Effect(t)
    BY <1>1, <2>1, TabTypes, TabEffect
  <2> QED BY <2>2, LockedStep, JarStep, CreatedStep, LoginStep, DroppedStep, SignOutStep DEF WInv
<1>2. ASSUME NEW s \in Sids, ServerRevokes(s) \/ GraceEnds(s) PROVE WInv'
  BY <1>2, RevokeStep, GraceStep
<1>3. CASE UNCHANGED vars
  BY <1>3 DEF vars, WInv, Typed, PageTyped, InboxTyped, Locked, Holds, JarKeepsUp, Created, LoginIsNew,
              DroppedIsGone, SignOuts, Ended
<1> QED BY <1>1, <1>2, <1>3 DEF Next

\* The invariant holds throughout.
LEMMA WebInvariant == Spec => []WInv
BY WebInit, WebStep, PTL DEF Spec

-----------------------------------------------------------------------------
(* The theorems.                                                             *)

\* The server's sessions, the jar, the stores, the requests in flight and the
\* queues of events have their types.
THEOREM WebTypes == Spec => []WebTypeOK
<1>1. WInv => WebTypeOK
  BY DEF WInv, Typed, PageTyped, InboxTyped, WebTypeOK
<1> QED BY <1>1, WebInvariant, PTL

\* However many tabs refresh, reload, sign in and out, and whatever is lost, none
\* takes back a session that it has dropped: authEpoch keeps the answer of a
\* refresh that was under way out of the store.
THEOREM SignedOut == Spec => []SignedOutStaysOut
<1>1. WInv => SignedOutStaysOut
  BY DEF WInv, DroppedIsGone, SignedOutStaysOut
<1> QED BY <1>1, WebInvariant, PTL

\* With navigator.locks any number of tabs keeps the jar at the newest token, or
\* one behind it while the answer is on its way or after it was lost.
THEOREM CookieUpToDate == Spec => []CookieKeepsUp
<1>1. WInv => CookieKeepsUp
  BY DEF WInv, JarKeepsUp, CookieKeepsUp
<1> QED BY <1>1, WebInvariant, PTL

\* A sign-out that was answered has revoked the session it named, unless the
\* browser had lost that session's newest cookie.
THEOREM SignOutIsRevocation == Spec => []SignOutRevokes
<1>1. WInv => SignOutRevokes
  BY DEF WInv, SignOuts, Ended, SignOutRevokes
<1> QED BY <1>1, WebInvariant, PTL
=============================================================================
