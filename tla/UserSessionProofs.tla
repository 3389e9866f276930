------------------------- MODULE UserSessionProofs -------------------------
(***************************************************************************)
(* What a login session guarantees for any number of requests, any bounds   *)
(* on the clock, the versions and the rotations, and any cache lifetime.    *)
(***************************************************************************)
EXTENDS UserSession, TLAPS

-----------------------------------------------------------------------------
(* The inductive invariants.                                                 *)

\* The versions: the session is never ahead of its user, a cached entry never
\* ahead of the session, and a security change that has moved the user's version
\* read the session before it did.
VersionsOf(p) ==
    /\ snap[p].ver <= row.ver
    /\ pc[p] \in {"bump", "advance"} => op[p] = "advance"
    /\ op[p] = "advance" =>
          /\ pc[p] \in {"bump", "capture", "advance", "fill", "check", "confirm"}
          /\ pc[p] \in {"capture", "advance"} => snap[p].ver < userVer /\ arg[p] \in Version
Versions ==
    /\ row.ver <= userVer
    /\ entry.status # "none" => entry.ver \in 1..row.ver /\ entry.uver \in Version
    /\ \A p \in Procs : VersionsOf(p)

\* A refresh presents a secret that still has a successor within the bound, and
\* it finishes only when the row holds that successor.
RotationsOf(p) ==
    /\ op[p] \in {"refresh", "rotate"} => arg[p] < MaxGen
    /\ op[p] = "rotate" =>
          /\ pc[p] \in {"capture", "read", "cas", "fill", "check", "confirm",
                        "fence", "update", "tomb"}
          /\ pc[p] \in {"fill", "check", "confirm"} => arg[p] < row.gen
    /\ pc[p] \in {"read", "cas"} => op[p] = "rotate"
    /\ pc[p] = "user" => op[p] = "refresh"
Rotations == handed <= row.gen /\ \A p \in Procs : RotationsOf(p)

\* The clock: a request's own time is in the past, by MaxStall at most for a
\* refresh; its cache window is at most TTL ahead; and what it is going to cache
\* or deny carries the session's expiry.
TimesOf(p) ==
    /\ at[p] <= clock /\ deadline[p] <= clock + TTL
    /\ op[p] \in {"refresh", "rotate"} => clock - at[p] <= MaxStall
    /\ pc[p] \in {"fill", "deny", "cas", "fence", "update", "tomb"} => snap[p].exp = Life
Times == \A p \in Procs : TimesOf(p)

\* A request whose secret was replaced after it began finds the grace window of
\* that rotation still open.
Before == {"capture", "load", "deny", "fill", "check", "confirm", "user"}
GraceOf(p) ==
    /\ arg[p] >= began[p] /\ row.gen = arg[p] + 1 =>
          /\ op[p] = "refresh" /\ pc[p] \in Before => at[p] + MaxStall <= row.until
          /\ op[p] = "rotate" => at[p] <= row.until
    /\ op[p] = "rotate" /\ pc[p] = "fence" => arg[p] < began[p]
Graces == \A p \in Procs : GraceOf(p)

\* A revocation under way carries the version of the row, and one of them at
\* most is about to write its tombstone.
Revoking(p) ==
    HoldsCandidate(p) \/ (op[p] = "revokeHash" /\ pc[p] \in {"fence", "update"}) \/ pc[p] = "tomb"
Candidates ==
    /\ \A p \in Procs : Revoking(p) => snap[p].ver = row.ver
    /\ \A p, q \in Procs : pc[p] = "tomb" => row.status = "revoked" /\ (pc[q] = "tomb" => p = q)

\* After the tombstone, a reader that may still cache the session finds a deny
\* that outlives its window.
Denied ==
    row.status = "revoked" /\ (\A p \in Procs : pc[p] # "tomb") =>
       /\ ~(Live /\ entry.status = "active")
       /\ \A p \in Procs : pc[p] = "fill" /\ clock < deadline[p] /\ clock < snap[p].exp =>
             /\ entry.status \in {"revoking", "revoked"}
             /\ Min2(deadline[p], snap[p].exp) <= entry.exp

-----------------------------------------------------------------------------
(* Types.                                                                    *)

LocalTyped ==
    /\ pc \in [Procs -> Pc] /\ op \in [Procs -> Op]
    /\ arg \in [Procs -> 0..(MaxGen + MaxVer)]
    /\ at \in [Procs -> Time] /\ deadline \in [Procs -> 0..(MaxTime + TTL)]
    /\ snap \in [Procs -> Snap] /\ began \in [Procs -> Secret]

\* The numbers in the row, in the cache entry and in what a request holds.
LEMMA Numbers ==
    ASSUME SessionTypeOK
    PROVE  /\ row.ver \in Version /\ row.uver \in Version /\ row.gen \in Secret /\ row.exp = Life
           /\ row.until \in 0..(MaxTime + Grace) /\ row.status \in {"active", "revoked"}
           /\ entry.ver \in 0..MaxVer /\ entry.uver \in 0..MaxVer /\ entry.exp \in 0..(MaxTime + TTL + 1)
           /\ entry.status \in {"none", "active", "revoking", "revoked"}
           /\ clock \in Time /\ userVer \in Version /\ handed \in Secret
           /\ NoSnap \in Snap /\ SnapOf(row) \in Snap /\ LocalTyped
           /\ SnapOf(row).ver = row.ver /\ SnapOf(row).uver = row.uver /\ SnapOf(row).exp = Life
<1>1. /\ row.ver \in Version /\ row.uver \in Version /\ row.gen \in Secret /\ row.exp = Life
      /\ row.until \in 0..(MaxTime + Grace) /\ row.status \in {"active", "revoked"}
  BY DEF SessionTypeOK, Row
<1>2. /\ entry.ver \in 0..MaxVer /\ entry.uver \in 0..MaxVer /\ entry.exp \in 0..(MaxTime + TTL + 1)
      /\ entry.status \in {"none", "active", "revoking", "revoked"}
  BY DEF SessionTypeOK, Entry
<1>3. 1 \in Version
  BY <1>1, SessionBounds DEF Version
<1>4. NoSnap \in Snap /\ SnapOf(row) \in Snap
  BY <1>1, <1>3 DEF NoSnap, Snap, SnapOf
<1>5. SnapOf(row).ver = row.ver /\ SnapOf(row).uver = row.uver /\ SnapOf(row).exp = Life
  BY <1>1 DEF SnapOf
<1> QED BY <1>1, <1>2, <1>4, <1>5 DEF SessionTypeOK, LocalTyped

\* What one request holds.
LEMMA LocalNumbers ==
    ASSUME SessionTypeOK, NEW p \in Procs
    PROVE  /\ pc[p] \in Pc /\ op[p] \in Op /\ arg[p] \in 0..(MaxGen + MaxVer) /\ at[p] \in Time
           /\ deadline[p] \in 0..(MaxTime + TTL) /\ snap[p] \in Snap /\ began[p] \in Secret
           /\ snap[p].ver \in Version /\ snap[p].uver \in Version /\ snap[p].exp \in {0, Life}
<1>1. snap[p] \in Snap
  BY DEF SessionTypeOK
<1>2. snap[p].ver \in Version /\ snap[p].uver \in Version /\ snap[p].exp \in {0, Life}
  BY <1>1 DEF Snap
<1> QED BY <1>1, <1>2 DEF SessionTypeOK

\* Finishing, starting and moving on keep what the requests hold typed, and
\* returning a secret keeps the history typed.
LEMMA LocalTypes ==
    ASSUME SessionTypeOK, Rotations, NEW p \in Procs
    PROVE  /\ Finish(p) => LocalTyped'
           /\ Proceed(p) => LocalTyped'
           /\ \A o \in Op, a \in 0..(MaxGen + MaxVer), label \in Pc :
                 Start(p, o, a, label) => /\ pc' \in [Procs -> Pc] /\ op' \in [Procs -> Op]
                                          /\ arg' \in [Procs -> 0..(MaxGen + MaxVer)]
           /\ \A label \in Pc : Goto(p, label) => pc' \in [Procs -> Pc]
           /\ Return(p) => handed' \in Secret
<1>0. LocalTyped /\ NoSnap \in Snap
  BY Numbers
<1>1. 0 \in Time /\ 0 \in Secret /\ 0 \in 0..(MaxGen + MaxVer) /\ 0 \in 0..(MaxTime + TTL)
  BY SessionBounds DEF Time, Secret
<1>2. ASSUME NEW label \in Pc, Goto(p, label) PROVE pc' \in [Procs -> Pc]
  BY <1>0, <1>2 DEF Goto, LocalTyped
<1>3. ASSUME Finish(p) PROVE LocalTyped'
  <2>1. pc' \in [Procs -> Pc]
    BY <1>2, <1>3 DEF Finish, Pc
  <2> QED BY <1>0, <1>1, <1>3, <2>1 DEF Finish, LocalTyped, Op
<1>4. ASSUME Proceed(p) PROVE LocalTyped'
  <2>1. CASE op[p] = "refresh"
    <3>1. pc' \in [Procs -> Pc]
      BY <1>2, <1>4, <2>1 DEF Proceed, Pc
    <3> QED BY <1>0, <1>1, <1>4, <2>1, <3>1 DEF Proceed, Keep, LocalTyped
  <2> QED BY <1>3, <1>4, <2>1 DEF Proceed
<1>5. ASSUME NEW o \in Op, NEW a \in 0..(MaxGen + MaxVer), NEW label \in Pc, Start(p, o, a, label)
      PROVE  /\ pc' \in [Procs -> Pc] /\ op' \in [Procs -> Op]
             /\ arg' \in [Procs -> 0..(MaxGen + MaxVer)]
  BY <1>0, <1>2, <1>5 DEF Start, LocalTyped
<1>6. ASSUME Return(p) PROVE handed' \in Secret
  <2>1. /\ handed \in 0..MaxGen /\ arg[p] \in 0..(MaxGen + MaxVer)
        /\ MaxGen \in Nat /\ MaxVer \in Nat
        /\ op[p] = "rotate" => arg[p] < MaxGen
    BY Numbers, LocalNumbers, SessionBounds DEF Secret, Rotations, RotationsOf
  <2> QED BY <1>6, <2>1 DEF Return, Secret
<1> QED BY <1>2, <1>3, <1>4, <1>5, <1>6

\* A deny is an entry of the cache.
LEMMA DenyType ==
    ASSUME SessionTypeOK, NEW s \in Snap, NEW status \in {"revoking", "revoked"}, Deny(status, s)
    PROVE  /\ entry' \in Entry /\ entry'.status = status
           /\ entry'.ver = s.ver /\ entry'.uver = s.uver
           /\ entry'.exp = clock + DenyTTL(s)
           /\ DenyTTL(s) \in Nat
<1>1. s.ver \in Version /\ s.uver \in Version /\ s.exp \in Nat
  BY SessionBounds DEF Snap
<1>2. clock \in 0..MaxTime /\ TTL \in Nat \ {0} /\ MaxTime \in Nat /\ MaxVer \in Nat
  BY SessionBounds DEF SessionTypeOK, Time
<1>3. DenyTTL(s) \in 1..TTL
  BY <1>1, <1>2 DEF DenyTTL, Min2
<1>4. clock + DenyTTL(s) \in 0..(MaxTime + TTL + 1)
  BY <1>2, <1>3
<1>5. s.ver \in 0..MaxVer /\ s.uver \in 0..MaxVer
  BY <1>1, <1>2 DEF Version
<1> QED BY <1>3, <1>4, <1>5 DEF Deny, Entry

\* The arrival of a request keeps everything typed.
LEMMA TypeArrival ==
    ASSUME SessionTypeOK, Versions, Rotations, NEW p \in Procs, Arrival(p)
    PROVE  SessionTypeOK'
<1>0. LocalTyped /\ SnapOf(row) \in Snap /\ clock \in Time /\ row.gen \in Secret
  BY Numbers
<1>1. /\ 0 \in 0..(MaxGen + MaxVer) /\ MaxGen \in Nat /\ MaxVer \in Nat
      /\ {"capture", "user", "find", "fence", "bump"} \subseteq Pc
      /\ {"validate", "refresh", "revoke", "revokeHash", "revokeAll", "advance"} \subseteq Op
  BY SessionBounds DEF Pc, Op
<1>2. SUFFICES LocalTyped' /\ userVer' \in Version /\ UNCHANGED <<row, entry, clock, handed>>
  BY DEF SessionTypeOK, LocalTyped, Arrival, ValidateLoginSession, RefreshLoginSession,
         RevokeUserSession, RevokeUserSessionByRefreshHash, AdvanceElsewhere,
         AdvanceCurrentSessionSecurity, BeginRevoke
<1>3. CASE ValidateLoginSession(p)
  BY <1>0, <1>1, <1>3, LocalTypes DEF ValidateLoginSession, LocalTyped, SessionTypeOK
<1>4. CASE RefreshLoginSession(p)
  <2>1. PICK a \in 0..Min2(row.gen, MaxGen - 1) :
           \/ Start(p, "refresh", a, "capture") /\ UNCHANGED snap
           \/ /\ Live /\ entry.status = "active" /\ Start(p, "refresh", a, "user")
              /\ snap' = [snap EXCEPT ![p].ver = entry.ver, ![p].uver = entry.uver]
    BY <1>4 DEF RefreshLoginSession
  <2>2. a \in 0..(MaxGen + MaxVer)
    BY <1>0, <1>1 DEF Min2, Secret
  <2>3. pc' \in [Procs -> Pc] /\ op' \in [Procs -> Op] /\ arg' \in [Procs -> 0..(MaxGen + MaxVer)]
    BY <1>1, <2>1, <2>2, LocalTypes
  <2>4. snap' \in [Procs -> Snap]
    <3>1. CASE UNCHANGED snap
      BY <1>0, <3>1 DEF LocalTyped
    <3>2. CASE /\ entry.status = "active"
               /\ snap' = [snap EXCEPT ![p].ver = entry.ver, ![p].uver = entry.uver]
      <4>1. entry.ver \in Version /\ entry.uver \in Version
        BY <3>2, Numbers, SessionBounds DEF Versions, Version
      <4>2. snap[p] \in Snap
        BY <1>0 DEF LocalTyped
      <4>3. [snap[p] EXCEPT !.ver = entry.ver, !.uver = entry.uver] \in Snap
        BY <4>1, <4>2 DEF Snap
      <4>4. snap' = [snap EXCEPT ![p] = [snap[p] EXCEPT !.ver = entry.ver, !.uver = entry.uver]]
        BY <1>0, <3>2, <4>2 DEF LocalTyped, Snap
      <4> QED BY <1>0, <4>3, <4>4 DEF LocalTyped
    <3> QED BY <2>1, <3>1, <3>2
  <2> QED BY <1>0, <1>4, <2>3, <2>4 DEF RefreshLoginSession, LocalTyped, SessionTypeOK
<1>5. CASE RevokeUserSession(p) \/ RevokeUserSessionByRefreshHash(p)
  <2>1. BeginRevoke(p, "revoke", 0) \/ BeginRevoke(p, "revokeHash", 0)
    BY <1>5 DEF RevokeUserSession, RevokeUserSessionByRefreshHash
  <2> QED BY <1>0, <1>1, <2>1, LocalTypes DEF BeginRevoke, LocalTyped, SessionTypeOK
<1>6. CASE AdvanceElsewhere(p)
  <2>1. userVer' \in Version
    BY <1>1, <1>6 DEF AdvanceElsewhere, SessionTypeOK, Version
  <2> QED BY <1>0, <1>1, <1>6, <2>1, LocalTypes DEF AdvanceElsewhere, LocalTyped
<1>7. CASE AdvanceCurrentSessionSecurity(p)
  BY <1>0, <1>1, <1>7, LocalTypes DEF AdvanceCurrentSessionSecurity, LocalTyped, SessionTypeOK
<1> QED BY <1>3, <1>4, <1>5, <1>6, <1>7 DEF Arrival

\* So does every step of a request: what it caches, the versions and the secrets
\* stay within their bounds.
LEMMA TypePass ==
    ASSUME SessionTypeOK, Versions, Rotations, Times, NEW p \in Procs, Step(p) \/ Abort(p)
    PROVE  SessionTypeOK'
<1>0. /\ LocalTyped /\ SnapOf(row) \in Snap /\ clock \in Time /\ row \in Row /\ entry \in Entry
      /\ userVer \in Version /\ handed \in Secret /\ snap[p] \in Snap
  BY Numbers DEF SessionTypeOK, LocalTyped
<1>1. /\ TTL \in Nat \ {0} /\ Grace \in Nat /\ Life \in Nat /\ MaxTime \in Nat /\ MaxVer \in Nat
      /\ MaxGen \in Nat
  BY SessionBounds
<1>2. ASSUME LocalTyped', row' \in Row, entry' \in Entry, userVer' \in Version, handed' \in Secret,
             clock' = clock
      PROVE  SessionTypeOK'
  BY <1>0, <1>2 DEF SessionTypeOK, LocalTyped
<1>3. ASSUME NEW label \in Pc, Goto(p, label), Keep, at' \in [Procs -> Time],
             deadline' \in [Procs -> 0..(MaxTime + TTL)], snap' \in [Procs -> Snap]
      PROVE  LocalTyped'
  BY <1>0, <1>3, LocalTypes DEF LocalTyped, Keep
<1>4. /\ at \in [Procs -> Time] /\ deadline \in [Procs -> 0..(MaxTime + TTL)]
      /\ snap \in [Procs -> Snap] /\ [snap EXCEPT ![p] = SnapOf(row)] \in [Procs -> Snap]
      /\ [at EXCEPT ![p] = clock] \in [Procs -> Time]
      /\ [deadline EXCEPT ![p] = 0] \in [Procs -> 0..(MaxTime + TTL)]
      /\ [deadline EXCEPT ![p] = clock + TTL] \in [Procs -> 0..(MaxTime + TTL)]
  BY <1>0, <1>1 DEF LocalTyped, Time
<1>5. CASE Capture(p)
  <2>1. AfterCapture(p) \in Pc
    BY DEF AfterCapture, Pc
  <2> QED BY <1>0, <1>2, <1>3, <1>4, <1>5, <2>1 DEF Capture
<1>6. CASE Load(p)
  BY <1>0, <1>2, <1>3, <1>4, <1>6 DEF Load, Pc
<1>7. CASE DenyLoaded(p)
  <2>1. entry' \in Entry
    BY <1>0, <1>7, DenyType DEF DenyLoaded, CacheUnchanged
  <2> QED BY <1>0, <1>2, <1>7, <2>1, LocalTypes DEF DenyLoaded
<1>8. CASE FillAccepted(p)
  <2>1. entry' \in Entry
    <3>1. snap[p].ver \in 0..MaxVer /\ snap[p].uver \in 0..MaxVer /\ snap[p].exp \in Nat
      BY <1>1, LocalNumbers DEF Version
    <3>2. deadline[p] \in 0..(MaxTime + TTL)
      BY LocalNumbers
    <3>3. Min2(deadline[p], snap[p].exp) \in 0..(MaxTime + TTL + 1)
      BY <1>1, <3>1, <3>2 DEF Min2
    <3> QED BY <1>8, <3>1, <3>3 DEF FillAccepted, Entry
  <2> QED BY <1>0, <1>2, <1>3, <1>4, <1>8, <2>1 DEF FillAccepted, Pc
<1>9. CASE FillRefused(p) \/ Abort(p)
  BY <1>0, <1>2, <1>9, LocalTypes DEF FillRefused, Abort
<1>10. CASE FillStale(p)
  <2>1. NoEntry \in Entry
    BY <1>1 DEF NoEntry, Entry
  <2>2. entry' \in Entry
    BY <1>0, <1>10, <2>1 DEF FillStale, CacheUnchanged
  <2> QED BY <1>0, <1>2, <1>3, <1>4, <1>10, <2>2 DEF FillStale, Pc
<1>11. CASE FillFails(p)
  BY <1>0, <1>2, <1>11, LocalTypes DEF FillFails
<1>12. CASE Check(p)
  BY <1>0, <1>2, <1>3, <1>4, <1>12, LocalTypes DEF Check, Pc
<1>13. CASE Confirm(p)
  BY <1>0, <1>2, <1>13, LocalTypes DEF Confirm
<1>14. CASE CheckUser(p)
  <2>1. pc' \in [Procs -> Pc]
    BY <1>14, LocalTypes DEF CheckUser, Pc
  <2>2. op' \in [Procs -> Op]
    BY <1>0, <1>14 DEF CheckUser, LocalTyped, Op
  <2> QED BY <1>0, <1>2, <1>4, <1>14, <2>1, <2>2 DEF CheckUser, LocalTyped
<1>15. CASE RotateRead(p)
  <2>1. CASE Finish(p)
    BY <1>0, <1>2, <1>15, <2>1, LocalTypes DEF RotateRead
  <2>2. CASE ~Finish(p)
    <3>1. /\ \E label \in Pc : Goto(p, label)
          /\ Keep /\ UNCHANGED <<at, handed>> /\ snap' = [snap EXCEPT ![p] = SnapOf(row)]
          /\ deadline' \in {deadline, [deadline EXCEPT ![p] = 0]}
      BY <1>15, <2>2 DEF RotateRead, Pc
    <3> QED BY <1>0, <1>2, <1>3, <1>4, <1>15, <3>1 DEF RotateRead
  <2> QED BY <2>1, <2>2
<1>16. CASE RotateCas(p)
  <2>1. arg[p] + 1 \in Secret /\ at[p] + Grace \in 0..(MaxTime + Grace)
    <3>1. arg[p] \in 0..(MaxGen + MaxVer) /\ at[p] \in 0..MaxTime /\ arg[p] < MaxGen
      BY <1>16, LocalNumbers DEF RotateCas, Rotations, RotationsOf, Time
    <3> QED BY <1>1, <3>1 DEF Secret
  <2>2. row' \in Row
    BY <1>0, <1>16, <2>1 DEF RotateCas, Row
  <2> QED BY <1>0, <1>2, <1>3, <1>4, <1>16, <2>2 DEF RotateCas, Pc
<1>17. CASE Find(p)
  BY <1>0, <1>2, <1>3, <1>4, <1>17, LocalTypes DEF Find, Pc
<1>18. CASE WriteDenyFence(p)
  <2>1. entry' \in Entry
    BY <1>0, <1>18, DenyType DEF WriteDenyFence, CacheUnchanged
  <2> QED BY <1>0, <1>2, <1>3, <1>4, <1>18, <2>1, LocalTypes DEF WriteDenyFence, Pc
<1>19. CASE RevokeRow(p)
  <2>1. row' \in Row
    BY <1>0, <1>19 DEF RevokeRow, Row
  <2> QED BY <1>0, <1>2, <1>3, <1>4, <1>19, <2>1, LocalTypes DEF RevokeRow, Pc
<1>20. CASE WriteTombstone(p)
  <2>1. entry' \in Entry
    BY <1>0, <1>20, DenyType DEF WriteTombstone, CacheUnchanged
  <2> QED BY <1>0, <1>2, <1>20, <2>1, LocalTypes DEF WriteTombstone
<1>21. CASE BumpUserAuthVersion(p)
  <2>1. userVer' \in Version /\ userVer + 1 \in 0..(MaxGen + MaxVer)
    BY <1>0, <1>1, <1>21 DEF BumpUserAuthVersion, Version
  <2>2. pc' \in [Procs -> Pc]
    BY <1>21, LocalTypes DEF BumpUserAuthVersion, Pc
  <2> QED BY <1>0, <1>2, <1>21, <2>1, <2>2 DEF BumpUserAuthVersion, LocalTyped
<1>22. CASE AdvanceUserSessionAuthVersion(p)
  <2>1. CASE Finish(p) /\ UNCHANGED row
    BY <1>0, <1>2, <1>22, <2>1, LocalTypes DEF AdvanceUserSessionAuthVersion
  <2>2. CASE ~(Finish(p) /\ UNCHANGED row)
    <3>1. /\ row.ver = snap[p].ver /\ row' = [row EXCEPT !.ver = @ + 1, !.uver = arg[p]]
          /\ snap' = [snap EXCEPT ![p] = SnapOf(row')]
          /\ Goto(p, "fill") /\ Keep /\ UNCHANGED <<at, deadline>>
      BY <1>22, <2>2 DEF AdvanceUserSessionAuthVersion
    <3>2. row.ver + 1 \in Version /\ arg[p] \in Version
      <4>1. snap[p].ver < userVer /\ arg[p] \in Version
        BY <1>22 DEF AdvanceUserSessionAuthVersion, Versions, VersionsOf
      <4> QED BY <1>0, <1>1, <3>1, <4>1, Numbers DEF Version
    <3>3. row' \in Row
      BY <1>0, <3>1, <3>2 DEF Row
    <3>4. SnapOf(row') \in Snap
      BY <3>3 DEF Row, Snap, SnapOf
    <3> QED BY <1>0, <1>2, <1>3, <1>4, <1>22, <3>1, <3>3, <3>4
            DEF AdvanceUserSessionAuthVersion, Pc
  <2> QED BY <2>1, <2>2
<1> QED BY <1>5, <1>6, <1>7, <1>8, <1>9, <1>10, <1>11, <1>12, <1>13, <1>14, <1>15, <1>16,
           <1>17, <1>18, <1>19, <1>20, <1>21, <1>22 DEF Step

-----------------------------------------------------------------------------
(* What a step leaves alone.                                                 *)

OthersKeep(p) ==
    \A q \in Procs : q # p =>
       /\ pc'[q] = pc[q] /\ op'[q] = op[q] /\ arg'[q] = arg[q] /\ at'[q] = at[q]
       /\ deadline'[q] = deadline[q] /\ snap'[q] = snap[q] /\ began'[q] = began[q]

Finished(p) ==
    /\ pc'[p] = "idle" /\ op'[p] = "none" /\ arg'[p] = 0 /\ at'[p] = 0
    /\ deadline'[p] = 0 /\ snap'[p] = NoSnap /\ began'[p] = 0

\* Finishing, moving on and starting, as what they do to the request itself.
LEMMA LocalEffects ==
    ASSUME SessionTypeOK, NEW p \in Procs
    PROVE  /\ Finish(p) => OthersKeep(p) /\ Finished(p)
           /\ Proceed(p) =>
                 /\ OthersKeep(p)
                 /\ \/ Finished(p)
                    \/ /\ op[p] = "refresh" /\ pc'[p] = "user" /\ deadline'[p] = 0
                       /\ op'[p] = op[p] /\ arg'[p] = arg[p] /\ began'[p] = began[p]
                       /\ at'[p] = at[p] /\ snap'[p] = snap[p]
           /\ \A label : Goto(p, label) =>
                 pc'[p] = label /\ \A q \in Procs : q # p => pc'[q] = pc[q]
           /\ \A o, a, label : Start(p, o, a, label) =>
                 /\ pc'[p] = label /\ op'[p] = o /\ arg'[p] = a
                 /\ \A q \in Procs : q # p => pc'[q] = pc[q] /\ op'[q] = op[q] /\ arg'[q] = arg[q]
BY DEF SessionTypeOK, Finish, Proceed, Keep, Goto, Start, OthersKeep, Finished

\* A request changes only what it holds itself, and not the clock.
LEMMA Frame ==
    ASSUME SessionTypeOK, NEW p \in Procs, Arrival(p) \/ Step(p) \/ Abort(p)
    PROVE  clock' = clock /\ OthersKeep(p)
<1>0. /\ pc \in [Procs -> Pc] /\ op \in [Procs -> Op]
      /\ arg \in [Procs -> 0..(MaxGen + MaxVer)]
      /\ at \in [Procs -> Time] /\ deadline \in [Procs -> 0..(MaxTime + TTL)]
      /\ snap \in [Procs -> Snap] /\ began \in [Procs -> Secret]
  BY DEF SessionTypeOK
<1>1. CASE Arrival(p)
  BY <1>0, <1>1, LocalEffects DEF Arrival, ValidateLoginSession, RefreshLoginSession,
     RevokeUserSession, RevokeUserSessionByRefreshHash, BeginRevoke, AdvanceElsewhere,
     AdvanceCurrentSessionSecurity, OthersKeep
<1>2. CASE Capture(p) \/ Load(p) \/ DenyLoaded(p) \/ CheckUser(p)
  BY <1>0, <1>2, LocalEffects DEF Capture, Load, DenyLoaded, CheckUser, Keep, OthersKeep
<1>3. CASE FillAccepted(p) \/ FillRefused(p) \/ FillStale(p) \/ FillFails(p) \/ Check(p) \/ Confirm(p)
  BY <1>0, <1>3, LocalEffects
     DEF FillAccepted, FillRefused, FillStale, FillFails, Check, Confirm, Keep, OthersKeep
<1>4. CASE RotateRead(p) \/ RotateCas(p)
  BY <1>0, <1>4, LocalEffects DEF RotateRead, RotateCas, Keep, OthersKeep
<1>5. CASE Find(p) \/ WriteDenyFence(p) \/ RevokeRow(p) \/ WriteTombstone(p)
  BY <1>0, <1>5, LocalEffects DEF Find, WriteDenyFence, RevokeRow, WriteTombstone, Keep, OthersKeep
<1>6. CASE BumpUserAuthVersion(p) \/ AdvanceUserSessionAuthVersion(p) \/ Abort(p)
  BY <1>0, <1>6, LocalEffects DEF BumpUserAuthVersion, AdvanceUserSessionAuthVersion, Abort,
     Keep, OthersKeep
<1> QED BY <1>1, <1>2, <1>3, <1>4, <1>5, <1>6 DEF Step

\* The row only moves forward: its version and its secret grow, its expiry stays
\* and a revoked row is never active again.
RowGrows ==
    /\ row'.ver >= row.ver /\ row'.gen >= row.gen /\ userVer' >= userVer
    /\ row'.exp = row.exp /\ (row.status = "revoked" => row'.status = "revoked")

\* Every step of a request leaves the row at least as far as it was.
LEMMA Grows ==
    ASSUME SessionTypeOK, NEW p \in Procs, Arrival(p) \/ Step(p) \/ Abort(p)
    PROVE  RowGrows
<1>0. /\ row \in Row /\ row.ver \in Int /\ row.gen \in Int /\ userVer \in Int
  BY Numbers DEF SessionTypeOK, Version, Secret
<1>1. CASE UNCHANGED <<row, userVer>>
  BY <1>0, <1>1 DEF RowGrows
<1>2. CASE Arrival(p)
  BY <1>0, <1>2 DEF Arrival, ValidateLoginSession, RefreshLoginSession,
     RevokeUserSession, RevokeUserSessionByRefreshHash, BeginRevoke, AdvanceElsewhere,
     AdvanceCurrentSessionSecurity, RowGrows
<1>3. CASE RotateCas(p)
  <2>1. CASE UNCHANGED row
    BY <1>0, <1>3, <2>1 DEF RotateCas, RowGrows
  <2>2. CASE row.gen = arg[p] /\ row' = [row EXCEPT !.gen = arg[p] + 1, !.until = at[p] + Grace]
    <3>1. /\ row'.gen = row.gen + 1 /\ row'.ver = row.ver /\ row'.exp = row.exp
          /\ row'.status = row.status
      BY <1>0, <2>2 DEF Row
    <3> QED BY <1>0, <1>3, <3>1 DEF RotateCas, RowGrows
  <2> QED BY <1>3, <2>1, <2>2 DEF RotateCas, Unrotated
<1>4. CASE RevokeRow(p)
  BY <1>0, <1>4 DEF RevokeRow, Row, RowGrows
<1>5. CASE BumpUserAuthVersion(p)
  BY <1>0, <1>5 DEF BumpUserAuthVersion, RowGrows
<1>6. CASE AdvanceUserSessionAuthVersion(p)
  <2>1. CASE UNCHANGED row
    BY <1>0, <1>6, <2>1 DEF AdvanceUserSessionAuthVersion, RowGrows
  <2>2. CASE row' = [row EXCEPT !.ver = @ + 1, !.uver = arg[p]]
    BY <1>0, <1>6, <2>2 DEF AdvanceUserSessionAuthVersion, Row, RowGrows
  <2> QED BY <1>6, <2>1, <2>2 DEF AdvanceUserSessionAuthVersion
<1> QED BY <1>1, <1>2, <1>3, <1>4, <1>5, <1>6 DEF Step, Abort, Capture, Load, DenyLoaded,
     CheckUser, FillAccepted, FillRefused, FillStale, FillFails, Check, Confirm, RotateRead,
     Find, WriteDenyFence, WriteTombstone

-----------------------------------------------------------------------------
(* Versions, rotations and times.                                            *)

OwnOK(p) == VersionsOf(p) /\ RotationsOf(p) /\ TimesOf(p)

\* What a request holds stays right while others work.
LEMMA OwnFrame ==
    ASSUME SessionTypeOK, SessionTypeOK', NEW p \in Procs, NEW q \in Procs, q # p, OthersKeep(p),
           RowGrows, clock' = clock, OwnOK(q)
    PROVE  OwnOK(q)'
<1>1. /\ row.ver \in Int /\ row'.ver \in Int /\ row.gen \in Int /\ row'.gen \in Int
      /\ userVer \in Int /\ userVer' \in Int
  BY Numbers, Numbers DEF Version, Secret, SessionTypeOK, Row
<1>2. snap[q].ver \in Int /\ arg[q] \in Int
  BY LocalNumbers DEF Version
<1>3. VersionsOf(q)'
  BY <1>1, <1>2 DEF OwnOK, OthersKeep, RowGrows, VersionsOf
<1>4. RotationsOf(q)'
  BY <1>1, <1>2 DEF OwnOK, OthersKeep, RowGrows, RotationsOf
<1>5. TimesOf(q)'
  BY DEF OwnOK, OthersKeep, TimesOf
<1> QED BY <1>3, <1>4, <1>5 DEF OwnOK

\* A request that has its answer holds nothing.
LEMMA OwnFinished ==
    ASSUME SessionTypeOK, SessionTypeOK', NEW p \in Procs, Finished(p), clock' = clock
    PROVE  OwnOK(p)'
<1>1. row'.ver \in Int /\ 1 <= row'.ver /\ clock \in Nat /\ TTL \in Nat
  BY SessionBounds DEF Version, SessionTypeOK, Row, Time
<1>2. NoSnap.ver = 1
  BY DEF NoSnap
<1> QED BY <1>1, <1>2 DEF Finished, OwnOK, VersionsOf, RotationsOf, TimesOf

\* An arriving request.
LEMMA OwnArrival ==
    ASSUME SessionTypeOK, SessionTypeOK', Versions, NEW p \in Procs, OwnOK(p), Arrival(p)
    PROVE  OwnOK(p)'
<1>0. /\ clock \in Nat /\ TTL \in Nat /\ MaxStall \in Nat /\ MaxGen \in Nat
      /\ row.ver \in Int /\ row.gen \in Nat /\ at[p] \in Int /\ deadline[p] \in Int
      /\ snap \in [Procs -> Snap] /\ at \in [Procs -> Time] /\ snap[p] \in Snap
      /\ SnapOf(row).ver = row.ver /\ SnapOf(row).exp = Life
  BY SessionBounds, Numbers, LocalNumbers DEF Version, Secret, Time, SessionTypeOK
<1>1. /\ at[p] <= clock /\ deadline[p] <= clock + TTL /\ snap[p].ver <= row.ver
  BY DEF OwnOK, TimesOf, VersionsOf
<1>2. CASE ValidateLoginSession(p)
  BY <1>0, <1>1, <1>2, LocalEffects
     DEF ValidateLoginSession, OwnOK, VersionsOf, RotationsOf, TimesOf
<1>3. CASE RefreshLoginSession(p)
  <2>1. PICK a \in 0..Min2(row.gen, MaxGen - 1) :
           \/ Start(p, "refresh", a, "capture") /\ UNCHANGED snap
           \/ /\ Live /\ entry.status = "active" /\ Start(p, "refresh", a, "user")
              /\ snap' = [snap EXCEPT ![p].ver = entry.ver, ![p].uver = entry.uver]
    BY <1>3 DEF RefreshLoginSession
  <2>2. a \in Nat /\ a < MaxGen
    BY <1>0 DEF Min2
  <2>3. /\ op'[p] = "refresh" /\ arg'[p] = a /\ pc'[p] \in {"capture", "user"}
        /\ at'[p] = clock /\ UNCHANGED <<row, clock, deadline>>
    BY <1>0, <1>3, <2>1, LocalEffects DEF RefreshLoginSession
  <2>4. snap'[p].ver <= row.ver
    <3>1. CASE UNCHANGED snap
      BY <1>1, <3>1
    <3>2. CASE /\ entry.status = "active"
               /\ snap' = [snap EXCEPT ![p].ver = entry.ver, ![p].uver = entry.uver]
      BY <1>0, <3>2 DEF Versions, Snap
    <3> QED BY <2>1, <3>1, <3>2
  <2> QED BY <1>0, <1>1, <2>2, <2>3, <2>4 DEF OwnOK, VersionsOf, RotationsOf, TimesOf
<1>4. CASE RevokeUserSession(p) \/ RevokeUserSessionByRefreshHash(p)
  <2>1. BeginRevoke(p, "revoke", 0) \/ BeginRevoke(p, "revokeHash", 0)
    BY <1>4 DEF RevokeUserSession, RevokeUserSessionByRefreshHash
  <2>2. /\ op'[p] \in {"revoke", "revokeHash"} /\ pc'[p] = "fence" /\ at'[p] = clock
        /\ snap'[p] = SnapOf(row) /\ UNCHANGED <<row, clock, deadline>>
    BY <1>0, <2>1, LocalEffects DEF BeginRevoke
  <2> QED BY <1>0, <1>1, <2>2 DEF OwnOK, VersionsOf, RotationsOf, TimesOf
<1>5. CASE AdvanceElsewhere(p)
  BY <1>0, <1>1, <1>5, LocalEffects DEF AdvanceElsewhere, OwnOK, VersionsOf, RotationsOf, TimesOf
<1>6. CASE AdvanceCurrentSessionSecurity(p)
  <2>1. /\ op'[p] = "advance" /\ pc'[p] = "bump" /\ snap'[p] = SnapOf(row)
        /\ UNCHANGED <<row, clock, deadline, at>>
    BY <1>0, <1>6, LocalEffects DEF AdvanceCurrentSessionSecurity
  <2> QED BY <1>0, <1>1, <2>1 DEF OwnOK, VersionsOf, RotationsOf, TimesOf
<1> QED BY <1>2, <1>3, <1>4, <1>5, <1>6 DEF Arrival

\* A step of the request itself.
LEMMA OwnPass ==
    ASSUME SessionTypeOK, SessionTypeOK', Versions, NEW p \in Procs, OwnOK(p), Step(p) \/ Abort(p)
    PROVE  OwnOK(p)'
<1>0. /\ clock \in Nat /\ TTL \in Nat /\ MaxStall \in Nat /\ MaxGen \in Nat
      /\ row \in Row /\ row.ver \in Int /\ row.gen \in Nat /\ at[p] \in Int /\ deadline[p] \in Int
      /\ arg[p] \in Nat /\ snap[p].ver \in Int /\ userVer \in Int /\ row.ver <= userVer
      /\ snap \in [Procs -> Snap] /\ at \in [Procs -> Time] /\ snap[p] \in Snap
      /\ deadline \in [Procs -> 0..(MaxTime + TTL)]
      /\ op \in [Procs -> Op] /\ arg \in [Procs -> 0..(MaxGen + MaxVer)]
      /\ SnapOf(row).ver = row.ver /\ SnapOf(row).exp = Life
  BY SessionBounds, Numbers, LocalNumbers DEF Version, Secret, Time, SessionTypeOK, Versions
<1>1. ASSUME Finish(p), UNCHANGED clock PROVE OwnOK(p)'
  BY <1>1, OwnFinished, LocalEffects
<1>2. ASSUME Proceed(p), UNCHANGED <<row, userVer, clock>>, pc[p] \in {"fill", "check", "confirm"}
      PROVE OwnOK(p)'
  <2>1. CASE Finished(p)
    BY <1>2, <2>1, OwnFinished
  <2>2. CASE /\ op[p] = "refresh" /\ pc'[p] = "user" /\ deadline'[p] = 0
             /\ op'[p] = op[p] /\ arg'[p] = arg[p] /\ at'[p] = at[p] /\ snap'[p] = snap[p]
    BY <1>0, <1>2, <2>2 DEF OwnOK, VersionsOf, RotationsOf, TimesOf
  <2> QED BY <1>2, <2>1, <2>2, LocalEffects
<1> USE DEF OwnOK, VersionsOf, RotationsOf, TimesOf
<1>3. CASE Capture(p)
  <2>1. /\ deadline'[p] = clock + TTL /\ at'[p] \in {at[p], clock} /\ pc'[p] = AfterCapture(p)
        /\ op[p] \in {"refresh", "rotate"} => at'[p] = at[p]
        /\ UNCHANGED <<row, userVer, clock, op, arg, snap>>
    BY <1>0, <1>3, LocalEffects DEF Capture, Keep
  <2>2. /\ op[p] = "rotate" => pc'[p] = "read"
        /\ op[p] = "advance" => pc'[p] = "advance"
        /\ op[p] \notin {"rotate", "advance"} => pc'[p] = "load"
    BY <2>1 DEF AfterCapture
  <2> QED BY <1>0, <1>3, <2>1, <2>2 DEF Capture
<1>4. CASE Load(p)
  <2>1. /\ snap'[p] = SnapOf(row) /\ pc'[p] \in {"fill", "deny"} /\ pc[p] = "load"
        /\ UNCHANGED <<row, userVer, clock, op, arg, at, deadline>>
    BY <1>0, <1>4, LocalEffects DEF Load, Keep
  <2> QED BY <1>0, <2>1
<1>5. CASE DenyLoaded(p) \/ FillRefused(p) \/ WriteTombstone(p) \/ Abort(p)
  BY <1>1, <1>5 DEF DenyLoaded, FillRefused, WriteTombstone, Abort
<1>6. CASE FillAccepted(p) \/ FillStale(p)
  <2>1. /\ pc[p] = "fill" /\ pc'[p] \in {"check", "confirm"}
        /\ UNCHANGED <<row, userVer, clock, op, arg, at, deadline, snap>>
    BY <1>6, LocalEffects DEF FillAccepted, FillStale, Keep
  <2> QED BY <1>0, <2>1
<1>7. CASE FillFails(p) \/ Confirm(p)
  BY <1>1, <1>2, <1>7 DEF FillFails, Confirm
<1>8. CASE Check(p)
  <2>1. CASE Goto(p, "confirm") /\ Keep /\ UNCHANGED <<at, deadline, snap>>
    <3>1. /\ pc[p] = "check" /\ pc'[p] = "confirm"
          /\ UNCHANGED <<row, userVer, clock, op, arg, at, deadline, snap>>
      BY <1>8, <2>1, LocalEffects DEF Check, Keep
    <3> QED BY <1>0, <3>1
  <2> QED BY <1>1, <1>2, <1>8, <2>1 DEF Check
<1>9. CASE CheckUser(p)
  <2>1. /\ op[p] = "refresh" /\ at'[p] = clock
        /\ \/ pc'[p] = "find" /\ op'[p] = "refresh"
           \/ pc'[p] = "capture" /\ op'[p] = "rotate"
        /\ UNCHANGED <<row, userVer, clock, arg, deadline, snap>>
    BY <1>0, <1>9, LocalEffects DEF CheckUser
  <2> QED BY <1>0, <2>1
<1>10. CASE RotateRead(p)
  <2>1. CASE Finish(p)
    BY <1>1, <1>10, <2>1 DEF RotateRead
  <2>2. CASE ~Finish(p)
    <3>1. /\ pc[p] = "read" /\ pc'[p] \in {"cas", "fence"} /\ snap'[p] = SnapOf(row)
          /\ deadline'[p] \in {0, deadline[p]}
          /\ UNCHANGED <<row, userVer, clock, op, arg, at>>
      BY <1>0, <1>10, <2>2, LocalEffects DEF RotateRead, Keep
    <3> QED BY <1>0, <3>1
  <2> QED BY <2>1, <2>2
<1>11. CASE RotateCas(p)
  <2>0. /\ pc[p] = "cas" /\ UNCHANGED <<userVer, clock, op, arg, at, deadline, snap>>
    BY <1>11 DEF RotateCas, Keep
  <2>1. CASE UNCHANGED row /\ Goto(p, "capture")
    BY <1>0, <2>0, <2>1, LocalEffects
  <2>2. CASE /\ row' = [row EXCEPT !.gen = arg[p] + 1, !.until = at[p] + Grace]
             /\ Goto(p, "fill")
    <3>1. row'.gen = arg[p] + 1 /\ row'.ver = row.ver
      BY <1>0, <2>2 DEF Row
    <3>2. pc'[p] = "fill"
      BY <2>2, LocalEffects
    <3> QED BY <1>0, <2>0, <3>1, <3>2
  <2> QED BY <1>11, <2>1, <2>2 DEF RotateCas
<1>12. CASE Find(p)
  <2>1. CASE ~Finish(p)
    <3>1. /\ pc[p] = "find" /\ pc'[p] = "fence" /\ snap'[p] = SnapOf(row) /\ at'[p] = clock
          /\ UNCHANGED <<row, userVer, clock, op, arg, deadline>>
      BY <1>0, <1>12, <2>1, LocalEffects DEF Find, Keep
    <3> QED BY <1>0, <3>1
  <2> QED BY <1>1, <1>12, <2>1 DEF Find
<1>13. CASE WriteDenyFence(p)
  <2>1. CASE ~Finish(p)
    <3>1. /\ pc[p] = "fence" /\ pc'[p] = "update"
          /\ UNCHANGED <<row, userVer, clock, op, arg, at, deadline, snap>>
      BY <1>13, <2>1, LocalEffects DEF WriteDenyFence, Keep
    <3> QED BY <1>0, <3>1
  <2> QED BY <1>1, <1>13, <2>1 DEF WriteDenyFence
<1>14. CASE RevokeRow(p)
  <2>1. CASE ~Finish(p)
    <3>1. /\ pc[p] = "update" /\ pc'[p] = "tomb" /\ row' = [row EXCEPT !.status = "revoked"]
          /\ snap'[p] \in {snap[p], SnapOf(row)}
          /\ UNCHANGED <<userVer, clock, op, arg, at, deadline>>
      BY <1>0, <1>14, <2>1, LocalEffects DEF RevokeRow, Keep
    <3>2. row'.ver = row.ver /\ row'.gen = row.gen
      BY <1>0, <3>1 DEF Row
    <3> QED BY <1>0, <3>1, <3>2
  <2> QED BY <1>1, <1>14, <2>1 DEF RevokeRow
<1>15. CASE BumpUserAuthVersion(p)
  <2>1. /\ pc[p] = "bump" /\ pc'[p] = "capture" /\ arg'[p] = userVer' /\ userVer' = userVer + 1
        /\ UNCHANGED <<row, clock, op, at, deadline, snap>>
    BY <1>0, <1>15, LocalEffects DEF BumpUserAuthVersion
  <2>2. userVer' \in Version
    BY DEF SessionTypeOK
  <2> QED BY <1>0, <2>1, <2>2
<1>16. CASE AdvanceUserSessionAuthVersion(p)
  <2>1. CASE Finish(p)
    BY <1>1, <1>16, <2>1 DEF AdvanceUserSessionAuthVersion
  <2>2. CASE ~Finish(p)
    <3>1. /\ pc[p] = "advance" /\ pc'[p] = "fill" /\ snap'[p] = SnapOf(row')
          /\ UNCHANGED <<userVer, clock, op, arg, at, deadline>>
      BY <1>0, <1>16, <2>2, LocalEffects DEF AdvanceUserSessionAuthVersion, Keep
    <3>2. SnapOf(row').ver = row'.ver /\ SnapOf(row').exp = Life /\ row'.ver \in Int
      BY DEF SessionTypeOK, Row, SnapOf, Version
    <3> QED BY <1>0, <3>1, <3>2
  <2> QED BY <2>1, <2>2
<1> QED BY <1>3, <1>4, <1>5, <1>6, <1>7, <1>8, <1>9, <1>10, <1>11, <1>12, <1>13, <1>14,
           <1>15, <1>16 DEF Step

\* What the requests cache never runs ahead of the row, and the row never ahead
\* of the user.
LEMMA VersionsStep ==
    ASSUME SessionTypeOK, SessionTypeOK', Versions, Times, NEW p \in Procs,
           Arrival(p) \/ Step(p) \/ Abort(p)
    PROVE  /\ row'.ver <= userVer'
           /\ entry'.status # "none" => entry'.ver \in 1..row'.ver /\ entry'.uver \in Version
<1>0. /\ row \in Row /\ row.ver \in Nat /\ row'.ver \in Nat /\ userVer \in Nat /\ userVer' \in Nat
      /\ RowGrows /\ snap[p] \in Snap /\ snap[p].ver \in Version /\ snap[p].uver \in Version
      /\ snap[p].ver <= row.ver /\ MaxVer \in Nat
  BY SessionBounds, Numbers, LocalNumbers, Grows DEF Version, SessionTypeOK, Row, Versions, VersionsOf
<1>1. row'.ver <= userVer'
  <2>1. CASE row'.ver = row.ver
    BY <1>0, <2>1 DEF RowGrows, Versions
  <2>2. CASE AdvanceUserSessionAuthVersion(p) /\ row'.ver # row.ver
    <3>1. row.ver = snap[p].ver /\ row' = [row EXCEPT !.ver = @ + 1, !.uver = arg[p]] /\ pc[p] = "advance"
      BY <2>2 DEF AdvanceUserSessionAuthVersion
    <3>2. row'.ver = row.ver + 1
      BY <1>0, <3>1 DEF Row
    <3>3. snap[p].ver < userVer
      BY <3>1 DEF Versions, VersionsOf
    <3> QED BY <1>0, <3>1, <3>2, <3>3 DEF RowGrows
  <2>3. CASE RotateCas(p) \/ RevokeRow(p)
    BY <1>0, <2>1, <2>3 DEF RotateCas, RevokeRow, Row
  <2>4. CASE UNCHANGED row
    BY <2>1, <2>4
  <2> QED BY <2>1, <2>2, <2>3, <2>4 DEF Step, Abort, Arrival, ValidateLoginSession,
       RefreshLoginSession, RevokeUserSession, RevokeUserSessionByRefreshHash, BeginRevoke,
       AdvanceElsewhere, AdvanceCurrentSessionSecurity, Capture, Load, DenyLoaded, CheckUser,
       FillAccepted, FillRefused, FillStale, FillFails, Check, Confirm, RotateRead, Find,
       WriteDenyFence, WriteTombstone, BumpUserAuthVersion
<1>2. CASE UNCHANGED entry \/ entry' = NoEntry
  <2>1. CASE entry' = NoEntry
    BY <1>1, <2>1 DEF NoEntry
  <2>2. CASE UNCHANGED entry
    BY <1>0, <1>1, <2>2 DEF Versions, RowGrows
  <2> QED BY <1>2, <2>1, <2>2
<1>3. CASE FillAccepted(p)
  <2>1. entry'.ver = snap[p].ver /\ entry'.uver = snap[p].uver /\ UNCHANGED row
    BY <1>3 DEF FillAccepted
  <2> QED BY <1>0, <1>1, <2>1 DEF Version
<1>4. ASSUME NEW st \in {"revoking", "revoked"}, Deny(st, snap[p]), UNCHANGED row
      PROVE  entry'.ver \in 1..row'.ver /\ entry'.uver \in Version
  <2>1. entry'.ver = snap[p].ver /\ entry'.uver = snap[p].uver
    BY <1>0, <1>4, DenyType
  <2> QED BY <1>0, <1>4, <2>1 DEF Version
<1>5. CASE DenyLoaded(p) \/ WriteDenyFence(p) \/ WriteTombstone(p)
  BY <1>1, <1>2, <1>4, <1>5 DEF DenyLoaded, WriteDenyFence, WriteTombstone, CacheUnchanged
<1> QED BY <1>1, <1>2, <1>3, <1>5 DEF Step, Abort, Arrival, ValidateLoginSession,
       RefreshLoginSession, RevokeUserSession, RevokeUserSessionByRefreshHash, BeginRevoke,
       AdvanceElsewhere, AdvanceCurrentSessionSecurity, Capture, Load, CheckUser,
       FillRefused, FillStale, FillFails, Check, Confirm, RotateRead, Find, RotateCas, RevokeRow,
       BumpUserAuthVersion, AdvanceUserSessionAuthVersion, CacheUnchanged

\* A secret is returned only when the row holds it.
LEMMA HandedStep ==
    ASSUME SessionTypeOK, SessionTypeOK', Rotations, NEW p \in Procs,
           Arrival(p) \/ Step(p) \/ Abort(p)
    PROVE  handed' <= row'.gen
<1>0. /\ row.gen \in Nat /\ row'.gen \in Nat /\ handed \in Nat /\ arg[p] \in Nat
      /\ row'.gen >= row.gen /\ handed <= row.gen
  BY Numbers, LocalNumbers, Grows DEF Secret, SessionTypeOK, Row, Rotations, RowGrows
<1>1. CASE UNCHANGED handed
  BY <1>0, <1>1
<1>2. ASSUME Return(p), op[p] = "rotate" => arg[p] < row.gen PROVE handed' <= row'.gen
  BY <1>0, <1>2 DEF Return
<1>3. CASE FillFails(p) \/ Check(p) \/ Confirm(p)
  BY <1>1, <1>2, <1>3 DEF FillFails, Check, Confirm, Rotations, RotationsOf
<1>4. CASE RotateRead(p)
  <2>1. CASE Return(p) /\ MatchesPrevious(arg[p], row)
    BY <1>0, <1>2, <2>1 DEF MatchesPrevious
  <2> QED BY <1>1, <1>4, <2>1 DEF RotateRead
<1> QED BY <1>1, <1>3, <1>4 DEF Step, Abort, Arrival, ValidateLoginSession,
       RefreshLoginSession, RevokeUserSession, RevokeUserSessionByRefreshHash, BeginRevoke,
       AdvanceElsewhere, AdvanceCurrentSessionSecurity, Capture, Load, DenyLoaded, CheckUser,
       FillAccepted, FillRefused, FillStale, Find, RotateCas, RevokeRow,
       WriteDenyFence, WriteTombstone, BumpUserAuthVersion, AdvanceUserSessionAuthVersion

TInv == SessionTypeOK /\ Versions /\ Rotations /\ Times

\* A login that has just inserted its row.
LEMMA TInvInit == Init => TInv
<1> SUFFICES ASSUME Init PROVE TInv
  OBVIOUS
<1>0. /\ TTL \in Nat \ {0} /\ Grace \in Nat /\ Life \in Nat /\ MaxTime \in Nat /\ MaxVer \in Nat
      /\ MaxGen \in Nat /\ MaxStall \in Nat
  BY SessionBounds
<1>1. userVer \in Version /\ 1 \in Version /\ 1 <= userVer
  BY <1>0 DEF Init, Min2, Version
<1>2. /\ 0 \in Time /\ 0 \in Secret /\ 0 \in 0..(MaxGen + MaxVer)
      /\ {0, TTL} \subseteq 0..(MaxTime + TTL) /\ 0 \in 0..(MaxTime + Grace)
  BY <1>0 DEF Time, Secret
<1>3. NewRow \in Row /\ SnapOf(NewRow) \in Snap /\ NoSnap \in Snap
  BY <1>1, <1>2 DEF NewRow, Row, SnapOf, Snap, NoSnap
<1>4. NoEntry \in Entry
  BY <1>0 DEF NoEntry, Entry
<1>5. PICK p \in Procs :
         /\ pc = [q \in Procs |-> IF q = p THEN "fill" ELSE "idle"]
         /\ op = [q \in Procs |-> IF q = p THEN "login" ELSE "none"]
         /\ deadline = [q \in Procs |-> IF q = p THEN TTL ELSE 0]
         /\ snap = [q \in Procs |-> IF q = p THEN SnapOf(NewRow) ELSE NoSnap]
  BY DEF Init
<1>6. SessionTypeOK
  <2>1. LocalTyped
    BY <1>2, <1>3, <1>5 DEF Init, LocalTyped, Pc, Op
  <2> QED BY <1>1, <1>2, <1>3, <1>4, <2>1 DEF Init, SessionTypeOK, LocalTyped
<1>7. /\ row.ver = 1 /\ row.gen = 0 /\ clock = 0 /\ entry.status = "none" /\ handed = 0
      /\ \A q \in Procs : /\ snap[q].ver = 1 /\ pc[q] \in {"fill", "idle"} /\ op[q] \in {"login", "none"}
                          /\ pc[q] = "fill" => snap[q].exp = Life
                          /\ at[q] = 0 /\ deadline[q] \in {0, TTL}
  BY <1>5 DEF Init, NewRow, NoEntry, SnapOf, NoSnap
<1>8. \A q \in Procs : VersionsOf(q) /\ RotationsOf(q) /\ TimesOf(q)
  <2> TAKE q \in Procs
  <2>1. VersionsOf(q)
    BY <1>7 DEF VersionsOf
  <2>2. RotationsOf(q)
    BY <1>7 DEF RotationsOf
  <2>3. TimesOf(q)
    <3>1. deadline[q] <= clock + TTL /\ at[q] <= clock
      BY <1>0, <1>7
    <3> QED BY <1>7, <3>1 DEF TimesOf
  <2> QED BY <2>1, <2>2, <2>3
<1> QED BY <1>1, <1>6, <1>7, <1>8 DEF TInv, Versions, Rotations, Times

\* Types, versions, rotations and times together are kept by every step.
LEMMA TInvStep == TInv /\ [Next]_vars => TInv'
<1> SUFFICES ASSUME TInv, [Next]_vars PROVE TInv'
  OBVIOUS
<1>0. SessionTypeOK /\ Versions /\ Rotations /\ Times
  BY DEF TInv
<1>1. ASSUME NEW p \in Procs, Arrival(p) \/ Step(p) \/ Abort(p) PROVE TInv'
  <2>1. SessionTypeOK'
    BY <1>0, <1>1, TypeArrival, TypePass
  <2>2. clock' = clock /\ OthersKeep(p) /\ RowGrows
    BY <1>0, <1>1, Frame, Grows
  <2>3. \A q \in Procs : OwnOK(q)
    BY <1>0 DEF Versions, Rotations, Times, OwnOK
  <2>4. OwnOK(p)'
    BY <1>0, <1>1, <2>1, <2>3, OwnArrival, OwnPass
  <2>5. \A q \in Procs : OwnOK(q)'
    BY <1>0, <2>1, <2>2, <2>3, <2>4, OwnFrame
  <2>6. \A q \in Procs : VersionsOf(q)' /\ RotationsOf(q)' /\ TimesOf(q)'
    BY <2>5 DEF OwnOK
  <2>7. /\ row'.ver <= userVer' /\ handed' <= row'.gen
        /\ entry'.status # "none" => entry'.ver \in 1..row'.ver /\ entry'.uver \in Version
    BY <1>0, <1>1, <2>1, VersionsStep, HandedStep
  <2> QED BY <2>1, <2>6, <2>7 DEF TInv, Versions, Rotations, Times
<1>2. CASE Tick
  <2>0. /\ clock \in Nat /\ clock' = clock + 1 /\ clock' \in Time /\ TTL \in Nat
        /\ \A p \in Procs : at[p] \in Int /\ deadline[p] \in Int
        /\ UNCHANGED <<row, userVer, entry, local, handed>>
    BY <1>0, <1>2, LocalNumbers, SessionBounds DEF Tick, SessionTypeOK, Time
  <2>1. SessionTypeOK'
    BY <1>0, <2>0 DEF SessionTypeOK, local
  <2>2. Versions'
    BY <1>0, <2>0 DEF Versions, VersionsOf, local
  <2>3. Rotations'
    BY <1>0, <2>0 DEF Rotations, RotationsOf, local
  <2>4. Times'
    BY <1>0, <1>2, <2>0 DEF Times, TimesOf, Tick, local
  <2> QED BY <2>1, <2>2, <2>3, <2>4 DEF TInv
<1>3. CASE UNCHANGED vars
  BY <1>3 DEF vars, local, TInv, SessionTypeOK, Versions, VersionsOf, Rotations, RotationsOf,
              Times, TimesOf
<1> QED BY <1>1, <1>2, <1>3 DEF Next

\* The row, the cache entry and what every request holds have their types: in
\* particular no security change and no rotation passes the bound on versions
\* and secrets, although neither checks it.
THEOREM SessionTypes == Spec => []SessionTypeOK
<1>1. TInv => SessionTypeOK
  BY DEF TInv
<1> QED BY <1>1, TInvInit, TInvStep, PTL DEF Spec

\* The row never falls behind a secret that a refresh has returned.
THEOREM RotationKept == Spec => []RotationNeverRollsBack
<1>1. TInv => RotationNeverRollsBack
  BY DEF TInv, Rotations, RotationNeverRollsBack
<1> QED BY <1>1, TInvInit, TInvStep, PTL DEF Spec

-----------------------------------------------------------------------------
(* The grace window of a rotation.                                           *)

\* A request that has its answer, or that is no refresh, has nothing to lose.
LEMMA GraceNone ==
    ASSUME NEW p \in Procs, op'[p] \notin {"refresh", "rotate"}
    PROVE  GraceOf(p)'
BY DEF GraceOf

\* Moving on inside a refresh without reading the clock again.
LEMMA GraceKept ==
    ASSUME NEW p \in Procs, GraceOf(p), UNCHANGED <<row, op, arg, began>>,
           op[p] \in {"refresh", "rotate"} => at'[p] = at[p],
           pc[p] \in Before \/ pc'[p] \notin Before \/ op[p] = "rotate",
           pc[p] = "fence" \/ pc'[p] # "fence" \/ op[p] # "rotate"
    PROVE  GraceOf(p)'
BY DEF GraceOf

\* The request's own steps.  The clock is read again once, at CheckUser, at most
\* MaxStall after the request began; a secret that was replaced meanwhile and is
\* out of its window is one the request did not begin with.
LEMMA GraceOwn ==
    ASSUME SessionTypeOK, Versions, Rotations, Times, NEW p \in Procs, GraceOf(p),
           Arrival(p) \/ Step(p) \/ Abort(p)
    PROVE  GraceOf(p)'
<1>0. /\ op \in [Procs -> Op] /\ at \in [Procs -> Time] /\ arg \in [Procs -> 0..(MaxGen + MaxVer)]
      /\ began \in [Procs -> Secret] /\ snap \in [Procs -> Snap] /\ row \in Row
  BY DEF SessionTypeOK
<1>1. /\ clock \in Nat /\ MaxStall \in Nat /\ Grace \in Nat /\ MaxGen \in Nat /\ at[p] \in Nat
      /\ arg[p] \in Nat /\ began[p] \in Nat /\ row.gen \in Nat /\ row.until \in Nat
  BY SessionBounds, Numbers, LocalNumbers DEF Time, Secret
<1>2. CASE Finish(p)
  BY <1>2, GraceNone, LocalEffects DEF Finished
<1>3. CASE Arrival(p) /\ ~RefreshLoginSession(p)
  <2>1. op'[p] \notin {"refresh", "rotate"}
    BY <1>3, LocalEffects DEF Arrival, ValidateLoginSession, RevokeUserSession,
       RevokeUserSessionByRefreshHash, BeginRevoke, AdvanceElsewhere, AdvanceCurrentSessionSecurity
  <2> QED BY <2>1, GraceNone
<1>4. CASE RefreshLoginSession(p)
  <2>1. PICK a \in 0..Min2(row.gen, MaxGen - 1) :
           Start(p, "refresh", a, "capture") \/ Start(p, "refresh", a, "user")
    BY <1>4 DEF RefreshLoginSession
  <2>2. a \in Nat /\ a <= row.gen
    BY <1>1 DEF Min2
  <2>3. /\ op'[p] = "refresh" /\ arg'[p] = a /\ began'[p] = row.gen /\ UNCHANGED row
    BY <1>0, <1>4, <2>1, LocalEffects DEF RefreshLoginSession
  <2>4. ~(arg'[p] >= began'[p] /\ row'.gen = arg'[p] + 1)
    BY <1>1, <2>2, <2>3
  <2> QED BY <2>3, <2>4 DEF GraceOf
<1>5. CASE Capture(p)
  <2>1. /\ pc[p] = "capture" /\ UNCHANGED <<row, op, arg, began>> /\ pc'[p] # "fence"
        /\ op[p] \in {"refresh", "rotate"} => at'[p] = at[p]
    BY <1>0, <1>5, LocalEffects DEF Capture, Keep, AfterCapture
  <2> QED BY <2>1, GraceKept DEF Before
<1>6. CASE Load(p)
  <2>1. /\ pc[p] = "load" /\ UNCHANGED <<row, op, arg, began, at>> /\ pc'[p] # "fence"
    BY <1>6, LocalEffects DEF Load, Keep
  <2> QED BY <2>1, GraceKept DEF Before
<1>7. CASE FillAccepted(p) \/ FillStale(p)
  <2>1. /\ pc[p] = "fill" /\ UNCHANGED <<row, op, arg, began, at>> /\ pc'[p] # "fence"
    BY <1>7, LocalEffects DEF FillAccepted, FillStale, Keep
  <2> QED BY <2>1, GraceKept DEF Before
<1>8. ASSUME Proceed(p), UNCHANGED row, pc[p] \in {"fill", "check", "confirm"} PROVE GraceOf(p)'
  <2>1. CASE op[p] = "refresh"
    <3>1. pc'[p] = "user" /\ UNCHANGED <<op, arg, began, at>>
      BY <1>8, <2>1, LocalEffects DEF Proceed, Keep
    <3> QED BY <1>8, <3>1, GraceKept DEF Before
  <2> QED BY <1>2, <1>8, <2>1 DEF Proceed
<1>9. CASE FillFails(p) \/ Confirm(p)
  BY <1>2, <1>8, <1>9 DEF FillFails, Confirm
<1>10. CASE Check(p)
  <2>1. CASE Goto(p, "confirm") /\ Keep /\ UNCHANGED <<at, row>>
    <3>1. /\ pc[p] = "check" /\ UNCHANGED <<row, op, arg, began, at>> /\ pc'[p] # "fence"
      BY <1>10, <2>1, LocalEffects DEF Check, Keep
    <3> QED BY <3>1, GraceKept DEF Before
  <2> QED BY <1>2, <1>8, <1>10, <2>1 DEF Check
<1>11. CASE CheckUser(p)
  <2>1. /\ op[p] = "refresh" /\ pc[p] = "user" /\ clock - at[p] <= MaxStall
    BY <1>11 DEF CheckUser, Rotations, RotationsOf, Times, TimesOf
  <2>2. /\ at'[p] = clock /\ pc'[p] \in {"find", "capture"} /\ (pc'[p] = "capture" => op'[p] = "rotate")
        /\ (pc'[p] = "find" => op'[p] = "refresh") /\ UNCHANGED <<row, arg, began>>
    BY <1>0, <1>11, <2>1, LocalEffects DEF CheckUser
  <2> QED BY <1>1, <2>1, <2>2 DEF GraceOf, Before
<1>12. CASE RotateRead(p)
  <2>0. pc[p] = "read" /\ UNCHANGED row /\ op[p] = "rotate"
    BY <1>12 DEF RotateRead, Rotations, RotationsOf
  <2>1. CASE Goto(p, "cas") /\ Keep /\ UNCHANGED at
    <3>1. pc'[p] = "cas" /\ UNCHANGED <<op, arg, began, at>>
      BY <2>1, LocalEffects DEF Keep
    <3> QED BY <2>0, <3>1, GraceKept DEF Before
  <2>2. CASE /\ MatchesPrevious(arg[p], row) /\ ~WithinGrace(at[p], row)
             /\ Goto(p, "fence") /\ Keep /\ UNCHANGED at
    <3>1. /\ pc'[p] = "fence" /\ UNCHANGED <<op, arg, began, at>>
          /\ row.gen = arg[p] + 1 /\ ~(at[p] <= row.until)
      BY <1>1, <2>2, LocalEffects DEF Keep, MatchesPrevious, WithinGrace
    <3>2. arg[p] < began[p]
      BY <1>1, <2>0, <3>1 DEF GraceOf
    <3> QED BY <1>1, <2>0, <3>1, <3>2 DEF GraceOf, Before
  <2> QED BY <1>2, <1>12, <2>1, <2>2 DEF RotateRead
<1>13. CASE RotateCas(p)
  <2>0. pc[p] = "cas" /\ op[p] = "rotate" /\ UNCHANGED <<op, arg, began, at>>
    BY <1>13 DEF RotateCas, Rotations, RotationsOf, Keep
  <2>1. CASE UNCHANGED row /\ Goto(p, "capture")
    <3>1. pc'[p] = "capture"
      BY <2>1, LocalEffects
    <3> QED BY <2>0, <2>1, <3>1, GraceKept
  <2>2. CASE /\ row' = [row EXCEPT !.gen = arg[p] + 1, !.until = at[p] + Grace]
             /\ Goto(p, "fill")
    <3>1. row'.until = at[p] + Grace
      BY <1>0, <2>2 DEF Row
    <3>2. pc'[p] = "fill"
      BY <2>2, LocalEffects
    <3> QED BY <1>1, <2>0, <3>1, <3>2 DEF GraceOf
  <2> QED BY <1>13, <2>1, <2>2 DEF RotateCas
<1>14. CASE Find(p) /\ ~Finish(p)
  <2>1. pc[p] = "find" /\ pc'[p] = "fence" /\ UNCHANGED <<row, op, arg, began>>
    BY <1>14, LocalEffects DEF Find, Keep
  <2>2. op[p] # "rotate"
    BY <2>1 DEF Rotations, RotationsOf
  <2> QED BY <2>1, <2>2 DEF GraceOf, Before
<1>15. CASE WriteDenyFence(p) /\ ~Finish(p)
  <2>1. /\ pc[p] = "fence" /\ pc'[p] = "update" /\ UNCHANGED <<row, op, arg, began, at>>
    BY <1>15, LocalEffects DEF WriteDenyFence, Keep
  <2> QED BY <2>1, GraceKept DEF Before
<1>16. CASE RevokeRow(p) /\ ~Finish(p)
  <2>1. /\ pc'[p] = "tomb" /\ UNCHANGED <<op, arg, began, at>>
        /\ row' = [row EXCEPT !.status = "revoked"]
    BY <1>16, LocalEffects DEF RevokeRow, Keep
  <2>2. row'.gen = row.gen /\ row'.until = row.until
    BY <1>0, <2>1 DEF Row
  <2> QED BY <2>1, <2>2 DEF GraceOf, Before
<1>17. CASE BumpUserAuthVersion(p)
  <2>1. op'[p] = "advance"
    BY <1>17 DEF BumpUserAuthVersion, Versions, VersionsOf
  <2> QED BY <2>1, GraceNone
<1>18. CASE AdvanceUserSessionAuthVersion(p) /\ ~Finish(p)
  <2>1. op'[p] = "advance"
    BY <1>18 DEF AdvanceUserSessionAuthVersion, Keep, Versions, VersionsOf
  <2> QED BY <2>1, GraceNone
<1> QED BY <1>2, <1>3, <1>4, <1>5, <1>6, <1>7, <1>9, <1>10, <1>11, <1>12, <1>13, <1>14, <1>15,
           <1>16, <1>17, <1>18
        DEF Step, Abort, DenyLoaded, FillRefused, WriteTombstone

\* Another request rotates: it read the clock at most MaxStall ago, so the window
\* it opens covers every request that has begun.
LEMMA GraceOthers ==
    ASSUME 2 * MaxStall <= Grace,
           SessionTypeOK, Rotations, Times, NEW p \in Procs, NEW q \in Procs, q # p,
           GraceOf(q), Arrival(p) \/ Step(p) \/ Abort(p)
    PROVE  GraceOf(q)'
<1>0. OthersKeep(p) /\ row \in Row
  BY Frame DEF SessionTypeOK
<1>1. CASE row'.gen = row.gen /\ row'.until = row.until
  BY <1>0, <1>1 DEF OthersKeep, GraceOf
<1>2. CASE RotateCas(p) /\ ~UNCHANGED row
  <2>1. row' = [row EXCEPT !.gen = arg[p] + 1, !.until = at[p] + Grace]
    BY <1>2 DEF RotateCas
  <2>2. row'.until = at[p] + Grace
    BY <1>0, <2>1 DEF Row
  <2>3. /\ clock - at[p] <= MaxStall /\ at[q] <= clock
    BY <1>2 DEF RotateCas, Rotations, RotationsOf, Times, TimesOf
  <2>4. /\ clock \in Nat /\ MaxStall \in Nat /\ Grace \in Nat /\ at[p] \in Nat /\ at[q] \in Nat
    BY SessionBounds, Numbers, LocalNumbers DEF Time
  <2>5. at[q] + MaxStall <= row'.until /\ at[q] <= row'.until
    BY <2>2, <2>3, <2>4
  <2> QED BY <1>0, <2>5 DEF OthersKeep, GraceOf
<1>3. CASE RevokeRow(p)
  BY <1>0, <1>1, <1>3 DEF RevokeRow, Row
<1>4. CASE AdvanceUserSessionAuthVersion(p)
  <2>1. CASE row' = [row EXCEPT !.ver = @ + 1, !.uver = arg[p]]
    BY <1>0, <1>1, <2>1 DEF Row
  <2> QED BY <1>1, <1>4, <2>1 DEF AdvanceUserSessionAuthVersion
<1> QED BY <1>1, <1>2, <1>3, <1>4 DEF Step, Abort, Arrival, ValidateLoginSession,
       RefreshLoginSession, RevokeUserSession, RevokeUserSessionByRefreshHash, BeginRevoke,
       AdvanceElsewhere, AdvanceCurrentSessionSecurity, Capture, Load, DenyLoaded, CheckUser,
       FillAccepted, FillRefused, FillStale, FillFails, Check, Confirm, RotateRead, Find,
       WriteDenyFence, WriteTombstone, BumpUserAuthVersion

\* If the grace window covers twice the time a refresh may stall, only a replay is
\* taken for theft: a refresh that condemns the session presented a secret that
\* had been replaced before the refresh began.
THEOREM ReuseOnlyByReplay ==
    ASSUME 2 * MaxStall <= Grace
    PROVE  Spec => []ReuseIsReplay
<1>1. Init => Graces
  <2> SUFFICES ASSUME Init, NEW p \in Procs PROVE GraceOf(p)
    BY DEF Graces
  <2>1. op[p] \in {"login", "none"}
    BY DEF Init
  <2> QED BY <2>1 DEF GraceOf
<1>2. TInv /\ Graces /\ [Next]_vars => Graces'
  <2> SUFFICES ASSUME TInv, Graces, [Next]_vars, NEW q \in Procs PROVE GraceOf(q)'
    BY DEF Graces
  <2>1. ASSUME NEW p \in Procs, Arrival(p) \/ Step(p) \/ Abort(p) PROVE GraceOf(q)'
    BY <2>1, GraceOwn, GraceOthers DEF TInv, Graces
  <2>2. CASE Tick \/ UNCHANGED vars
    BY <2>2 DEF Tick, vars, local, Graces, GraceOf
  <2> QED BY <2>1, <2>2 DEF Next
<1>3. Graces => ReuseIsReplay
  BY DEF Graces, GraceOf, ReuseIsReplay
<1> QED BY <1>1, <1>2, <1>3, TInvInit, TInvStep, PTL DEF Spec

-----------------------------------------------------------------------------
(* Revocation.                                                               *)

\* A revocation that is under way keeps the version of its candidate: an advance
\* waits for it, and a revoked row is not advanced.
LEMMA CandidatesStep ==
    ASSUME ~VersionRaces, TInv, Candidates, NEW p \in Procs, Arrival(p) \/ Step(p) \/ Abort(p)
    PROVE  Candidates'
<1>0. /\ SessionTypeOK /\ row \in Row /\ OthersKeep(p) /\ RowGrows
      /\ SnapOf(row).ver = row.ver /\ snap \in [Procs -> Snap]
  BY Frame, Grows, Numbers DEF TInv, SessionTypeOK
<1>1. ASSUME row'.ver = row.ver, pc'[p] # "tomb", Revoking(p)' => snap'[p].ver = row.ver
      PROVE  Candidates'
  <2>1. \A q \in Procs : q # p => (Revoking(q)' <=> Revoking(q)) /\ snap'[q] = snap[q] /\ pc'[q] = pc[q]
    BY <1>0 DEF OthersKeep, Revoking, HoldsCandidate
  <2> QED BY <1>0, <1>1, <2>1 DEF Candidates, RowGrows
<1>2. ASSUME row'.ver = row.ver, pc'[p] \notin {"fence", "update", "tomb"} PROVE Candidates'
  BY <1>1, <1>2 DEF Revoking, HoldsCandidate
<1>3. ASSUME row'.ver = row.ver, pc'[p] = "fence", snap'[p] = SnapOf(row) PROVE Candidates'
  BY <1>0, <1>1, <1>3
<1>4. CASE Finish(p)
  <2>1. CASE row'.ver = row.ver
    BY <1>0, <1>2, <1>4, <2>1, LocalEffects DEF Finished
  <2>2. CASE row'.ver # row.ver
    <3>1. AdvanceUserSessionAuthVersion(p) \/ RotateCas(p) \/ RevokeRow(p)
      BY <2>2 DEF Step, Abort, Arrival, ValidateLoginSession,
       RefreshLoginSession, RevokeUserSession, RevokeUserSessionByRefreshHash, BeginRevoke,
       AdvanceElsewhere, AdvanceCurrentSessionSecurity, Capture, Load, DenyLoaded, CheckUser,
       FillAccepted, FillRefused, FillStale, FillFails, Check, Confirm, RotateRead, Find,
       WriteDenyFence, WriteTombstone, BumpUserAuthVersion
    <3>2. pc'[p] = "idle"
      BY <1>0, <1>4, LocalEffects DEF Finished
    <3>3. CASE AdvanceUserSessionAuthVersion(p)
      BY <1>0, <2>2, <3>2, <3>3, LocalEffects DEF AdvanceUserSessionAuthVersion
    <3>4. CASE RotateCas(p) \/ RevokeRow(p)
      BY <1>0, <2>2, <3>4 DEF RotateCas, RevokeRow, Row
    <3> QED BY <3>1, <3>3, <3>4
  <2> QED BY <2>1, <2>2
<1>5. CASE Arrival(p)
  <2>1. UNCHANGED row /\ (pc'[p] \in {"capture", "user", "find", "bump"}
                          \/ (pc'[p] = "fence" /\ snap'[p] = SnapOf(row)))
    BY <1>0, <1>5, LocalEffects DEF Arrival, ValidateLoginSession, RefreshLoginSession,
       RevokeUserSession, RevokeUserSessionByRefreshHash, BeginRevoke, AdvanceElsewhere,
       AdvanceCurrentSessionSecurity
  <2> QED BY <1>2, <1>3, <2>1
<1>6. CASE ~Finish(p) /\ (Capture(p) \/ Load(p) \/ FillAccepted(p) \/ FillStale(p) \/ FillFails(p)
              \/ Check(p) \/ Confirm(p) \/ CheckUser(p) \/ BumpUserAuthVersion(p))
  <2>1. UNCHANGED row
    BY <1>6 DEF Capture, Load, FillAccepted, FillStale, FillFails, Check, Confirm, CheckUser,
                BumpUserAuthVersion
  <2>2. pc'[p] \notin {"fence", "update", "tomb"}
    BY <1>0, <1>6, LocalEffects DEF Capture, Load, FillAccepted, FillStale, FillFails, Check, Confirm,
       CheckUser, BumpUserAuthVersion, AfterCapture, Proceed
  <2> QED BY <1>2, <2>1, <2>2
<1>7. CASE ~Finish(p) /\ (RotateRead(p) \/ Find(p))
  <2>1. UNCHANGED row /\ snap'[p] = SnapOf(row) /\ pc'[p] \in {"cas", "fence"}
    BY <1>0, <1>7, LocalEffects DEF RotateRead, Find
  <2> QED BY <1>2, <1>3, <2>1
<1>8. CASE RotateCas(p)
  <2>1. row'.ver = row.ver
    BY <1>0, <1>8 DEF RotateCas, Row
  <2>2. pc'[p] \in {"fill", "capture"}
    BY <1>0, <1>8, LocalEffects DEF RotateCas
  <2> QED BY <1>2, <2>1, <2>2
<1>9. CASE ~Finish(p) /\ WriteDenyFence(p)
  <2>1. pc[p] = "fence" /\ pc'[p] = "update" /\ UNCHANGED <<row, op, snap>>
    BY <1>0, <1>9, LocalEffects DEF WriteDenyFence, Keep
  <2>2. Revoking(p)' => Revoking(p)
    BY <2>1 DEF Revoking, HoldsCandidate
  <2> QED BY <1>1, <2>1, <2>2 DEF Candidates
<1>10. CASE ~Finish(p) /\ RevokeRow(p)
  <2>1. /\ pc[p] = "update" /\ pc'[p] = "tomb" /\ row.status = "active"
        /\ row' = [row EXCEPT !.status = "revoked"]
        /\ snap'[p] = IF op[p] = "revokeAll" THEN SnapOf(row) ELSE snap[p]
    BY <1>0, <1>10, LocalEffects DEF RevokeRow
  <2>2. row'.ver = row.ver /\ row'.status = "revoked"
    BY <1>0, <2>1 DEF Row
  <2>3. snap'[p].ver = row.ver
    BY <1>0, <2>1 DEF Candidates, Revoking, HoldsCandidate
  <2>4. \A q \in Procs : q # p => /\ pc'[q] = pc[q] /\ pc[q] # "tomb" /\ snap'[q] = snap[q]
                                  /\ (Revoking(q)' <=> Revoking(q))
    BY <1>0, <2>1 DEF OthersKeep, Candidates, Revoking, HoldsCandidate
  <2> QED BY <2>1, <2>2, <2>3, <2>4 DEF Candidates
<1>11. CASE ~Finish(p) /\ AdvanceUserSessionAuthVersion(p)
  <2>1. /\ pc[p] = "advance" /\ pc'[p] = "fill" /\ row.status = "active" /\ RowFree(p)
        /\ \A q \in Procs : ~HoldsCandidate(q)
    BY <1>0, <1>11, LocalEffects DEF AdvanceUserSessionAuthVersion, RowActive
  <2>2. \A q \in Procs : ~Revoking(q)
    BY <2>1 DEF Revoking, RowFree, Candidates
  <2>3. \A q \in Procs : ~Revoking(q)'
    BY <1>0, <2>1, <2>2 DEF OthersKeep, Revoking, HoldsCandidate
  <2> QED BY <2>3 DEF Candidates, Revoking
<1> QED BY <1>4, <1>5, <1>6, <1>7, <1>8, <1>9, <1>10, <1>11
        DEF Step, Abort, DenyLoaded, FillRefused, WriteTombstone

\* A deny that is written now outlives every open cache window: they are at most
\* TTL long, and no longer than the session.
LEMMA DenyOutlives ==
    ASSUME TInv, NEW p \in Procs, NEW q \in Procs, NEW status \in {"revoking", "revoked"},
           Deny(status, snap[p]), snap[p].exp = Life, snap[q].exp = Life,
           clock < deadline[q], clock < snap[q].exp
    PROVE  entry'.status = status /\ Min2(deadline[q], snap[q].exp) <= entry'.exp
<1>1. /\ clock \in Nat /\ TTL \in Nat \ {0} /\ Life \in Nat /\ deadline[q] \in Nat
      /\ deadline[q] <= clock + TTL /\ snap[p] \in Snap /\ SessionTypeOK
  BY SessionBounds, LocalNumbers DEF TInv, SessionTypeOK, Time, Times, TimesOf
<1>2. entry'.status = status /\ entry'.exp = clock + DenyTTL(snap[p])
  BY <1>1, DenyType
<1>3. DenyTTL(snap[p]) = Min2(Life - clock, TTL)
  BY DEF DenyTTL
<1> QED BY <1>1, <1>2, <1>3 DEF Min2

\* Once the tombstone is written, what may still be cached is refused or denied.
LEMMA DeniedStep ==
    ASSUME ~TombstoneMayFail, TInv, TInv', Candidates, Candidates', Denied, NEW p \in Procs,
           Arrival(p) \/ Step(p) \/ Abort(p)
    PROVE  Denied'
<1>0. /\ SessionTypeOK /\ row \in Row /\ OthersKeep(p) /\ RowGrows /\ clock' = clock /\ clock \in Nat
      /\ \A q \in Procs : /\ pc[q] \in {"fill", "deny", "fence", "tomb"} => snap[q].exp = Life
                          /\ deadline[q] \in Nat /\ snap[q].exp \in Nat /\ snap[q].ver \in Nat
      /\ entry.ver \in Nat /\ entry.exp \in Nat /\ entry'.exp \in Int /\ row.ver \in Nat
      /\ row.status \in {"active", "revoked"}
  BY Frame, Grows, Numbers, LocalNumbers, SessionBounds
     DEF TInv, SessionTypeOK, Time, Version, Times, TimesOf, Entry
<1> DEFINE Over == row.status = "revoked" /\ \A q \in Procs : pc[q] # "tomb"
<1> SUFFICES ASSUME row'.status = "revoked", \A q \in Procs : pc'[q] # "tomb"
             PROVE  /\ ~(Live' /\ entry'.status = "active")
                    /\ \A q \in Procs : pc'[q] = "fill" /\ clock < deadline'[q] /\ clock < snap'[q].exp =>
                          /\ entry'.status \in {"revoking", "revoked"}
                          /\ Min2(deadline'[q], snap'[q].exp) <= entry'.exp
  BY <1>0 DEF Denied
<1>1. row.status = "revoked"
  <2>1. CASE RevokeRow(p)
    <3>1. CASE UNCHANGED row
      BY <3>1
    <3>2. CASE Goto(p, "tomb")
      BY <1>0, <3>2, LocalEffects
    <3> QED BY <2>1, <3>1, <3>2 DEF RevokeRow
  <2>2. CASE RotateCas(p)
    BY <1>0, <2>2 DEF RotateCas, Row
  <2>3. CASE AdvanceUserSessionAuthVersion(p)
    <3>1. CASE row' = [row EXCEPT !.ver = @ + 1, !.uver = arg[p]]
      BY <1>0, <3>1 DEF Row
    <3> QED BY <2>3, <3>1 DEF AdvanceUserSessionAuthVersion
  <2> QED BY <2>1, <2>2, <2>3 DEF Step, Abort, Arrival, ValidateLoginSession,
       RefreshLoginSession, RevokeUserSession, RevokeUserSessionByRefreshHash, BeginRevoke,
       AdvanceElsewhere, AdvanceCurrentSessionSecurity, Capture, Load, DenyLoaded, CheckUser,
       FillAccepted, FillRefused, FillStale, FillFails, Check, Confirm, RotateRead, Find,
       WriteDenyFence, WriteTombstone, BumpUserAuthVersion
<1>2. ASSUME NEW q \in Procs, pc'[q] = "fill"
      PROVE  pc[q] = "fill" /\ q # p /\ deadline'[q] = deadline[q] /\ snap'[q] = snap[q] /\ snap[q].exp = Life
  <2>1. pc'[p] # "fill"
    <3>1. CASE Arrival(p)
      BY <1>0, <3>1, LocalEffects DEF Arrival, ValidateLoginSession, RefreshLoginSession,
         RevokeUserSession, RevokeUserSessionByRefreshHash, BeginRevoke, AdvanceElsewhere,
         AdvanceCurrentSessionSecurity
    <3>2. CASE Finish(p)
      BY <1>0, <3>2, LocalEffects DEF Finished
    <3>3. CASE Load(p) \/ RotateCas(p)
      BY <1>0, <1>1, <3>3, LocalEffects DEF Load, RotateCas, Unrotated, RowActive
    <3>4. CASE AdvanceUserSessionAuthVersion(p)
      BY <1>1, <3>2, <3>4 DEF AdvanceUserSessionAuthVersion, RowActive
    <3>5. CASE Proceed(p)
      BY <1>0, <3>5, LocalEffects DEF Finished
    <3>6. CASE Capture(p)
      BY <1>0, <3>6, LocalEffects DEF Capture, AfterCapture
    <3>7. ASSUME NEW label, label # "fill", Goto(p, label) PROVE pc'[p] # "fill"
      BY <1>0, <3>7, LocalEffects
    <3> QED BY <3>1, <3>2, <3>3, <3>4, <3>5, <3>6, <3>7
            DEF Step, Abort, DenyLoaded, CheckUser, FillAccepted, FillRefused, FillStale, FillFails,
                Check, Confirm, RotateRead, Find, WriteDenyFence, RevokeRow, WriteTombstone,
                BumpUserAuthVersion
  <2> QED BY <1>0, <1>2, <2>1 DEF OthersKeep
<1>3. ASSUME NEW status \in {"revoking", "revoked"}, Deny(status, snap[p]), snap[p].exp = Life
      PROVE  Denied'
  <2>1. entry'.status = status
    BY <1>3 DEF Deny
  <2> QED BY <1>0, <1>2, <1>3, <2>1, DenyOutlives DEF Denied
<1>4. CASE WriteTombstone(p)
  <2>1. entry.status # "none" => entry.ver <= row.ver
    BY <1>0 DEF TInv, Versions
  <2>2. snap[p].ver = row.ver /\ snap[p].exp = Life
    BY <1>0, <1>4 DEF WriteTombstone, Candidates, Revoking
  <2>3. ScriptAccepts("revoked", snap[p].ver)
    BY <2>1, <2>2 DEF ScriptAccepts, Live
  <2>4. Deny("revoked", snap[p])
    BY <1>4, <2>3 DEF WriteTombstone
  <2> QED BY <1>0, <1>3, <2>2, <2>4 DEF Denied
<1>5. CASE ~WriteTombstone(p)
  <2>1. pc[p] # "tomb"
    BY <1>0, <1>5 DEF Abort, Step, Arrival, ValidateLoginSession,
       RefreshLoginSession, RevokeUserSession, RevokeUserSessionByRefreshHash, BeginRevoke,
       AdvanceElsewhere, AdvanceCurrentSessionSecurity, Capture, Load, DenyLoaded, CheckUser,
       FillAccepted, FillRefused, FillStale, FillFails, Check, Confirm, RotateRead, Find,
       WriteDenyFence, RotateCas, RevokeRow, BumpUserAuthVersion, AdvanceUserSessionAuthVersion
  <2>2. Over
    BY <1>0, <1>1, <2>1 DEF OthersKeep
  <2>3. /\ ~(Live /\ entry.status = "active")
        /\ \A q \in Procs : pc[q] = "fill" /\ clock < deadline[q] /\ clock < snap[q].exp =>
              /\ entry.status \in {"revoking", "revoked"}
              /\ Min2(deadline[q], snap[q].exp) <= entry.exp
    BY <2>2 DEF Denied
  <2>4. ASSUME NEW q \in Procs, pc[q] = "fill", clock < deadline[q], clock < snap[q].exp
        PROVE  Live /\ entry.status \in {"revoking", "revoked"}
    <3>1. clock < Min2(deadline[q], snap[q].exp) /\ Min2(deadline[q], snap[q].exp) \in Nat
      BY <1>0, <2>4 DEF Min2
    <3>2. Min2(deadline[q], snap[q].exp) <= entry.exp /\ entry.status \in {"revoking", "revoked"}
      BY <2>3, <2>4
    <3> QED BY <1>0, <3>1, <3>2 DEF Live
  <2>5. CASE UNCHANGED entry
    BY <1>0, <1>2, <2>3, <2>5 DEF Live
  <2>6. CASE FillStale(p) /\ entry' = NoEntry /\ ScriptAccepts("active", snap[p].ver)
    <3>1. \A q \in Procs : ~(pc[q] = "fill" /\ clock < deadline[q] /\ clock < snap[q].exp)
      BY <2>4, <2>6 DEF ScriptAccepts
    <3> QED BY <1>2, <2>6, <3>1 DEF NoEntry
  <2>7. CASE FillAccepted(p)
    <3>1. Live /\ entry.status \in {"revoking", "revoked"}
      BY <2>4, <2>7 DEF FillAccepted, WindowOpen
    <3> QED BY <2>7, <3>1 DEF FillAccepted, ScriptAccepts
  <2>8. CASE DenyLoaded(p) \/ WriteDenyFence(p)
    <3>1. snap[p].exp = Life
      BY <1>0, <2>8 DEF DenyLoaded, WriteDenyFence
    <3>2. UNCHANGED entry \/ Deny("revoked", snap[p]) \/ Deny("revoking", snap[p])
      BY <2>8 DEF DenyLoaded, WriteDenyFence, CacheUnchanged
    <3> QED BY <1>0, <1>3, <2>5, <3>1, <3>2 DEF Denied
  <2> QED BY <1>5, <2>5, <2>6, <2>7, <2>8 DEF Step, Abort, Arrival, ValidateLoginSession,
       RefreshLoginSession, RevokeUserSession, RevokeUserSessionByRefreshHash, BeginRevoke,
       AdvanceElsewhere, AdvanceCurrentSessionSecurity, Capture, Load, CheckUser,
       FillRefused, FillStale, FillFails, Check, Confirm, RotateRead, Find, RotateCas, RevokeRow,
       BumpUserAuthVersion, AdvanceUserSessionAuthVersion, CacheUnchanged
<1> QED BY <1>4, <1>5

\* If an advance of the session does not cut into a revocation of it, and the
\* tombstone of a revocation is not lost, then no cached entry presents a revoked
\* session as active once its tombstone is written, however late a reader that
\* loaded the row before writes it back.
THEOREM RevokedIsNotServed ==
    ASSUME ~VersionRaces, ~TombstoneMayFail
    PROVE  Spec => []RevokedNotServed
<1>1. Init => Candidates /\ Denied
  <2> SUFFICES ASSUME Init PROVE Candidates /\ Denied
    OBVIOUS
  <2>1. row.status = "active" /\ \A p \in Procs : pc[p] \in {"fill", "idle"}
    BY DEF Init, NewRow
  <2> QED BY <2>1 DEF Candidates, Denied, Revoking, HoldsCandidate
<1>2. TInv /\ TInv' /\ Candidates /\ Denied /\ [Next]_vars => Candidates' /\ Denied'
  <2> SUFFICES ASSUME TInv, TInv', Candidates, Denied, [Next]_vars PROVE Candidates' /\ Denied'
    OBVIOUS
  <2>1. ASSUME NEW p \in Procs, Arrival(p) \/ Step(p) \/ Abort(p) PROVE Candidates' /\ Denied'
    BY <2>1, CandidatesStep, DeniedStep
  <2>2. CASE Tick
    <3>1. /\ clock' = clock + 1 /\ clock \in Nat /\ entry.exp \in Int
          /\ UNCHANGED <<row, entry, pc, op, deadline, snap>>
          /\ \A p \in Procs : deadline[p] \in Int /\ snap[p].exp \in Int
      BY <2>2, Numbers, LocalNumbers, SessionBounds DEF Tick, local, TInv, SessionTypeOK, Time
    <3>2. Candidates'
      BY <3>1 DEF Candidates, Revoking, HoldsCandidate
    <3>3. Denied'
      BY <3>1 DEF Denied, Live
    <3> QED BY <3>2, <3>3
  <2>3. CASE UNCHANGED vars
    BY <2>3 DEF vars, local, Candidates, Denied, Revoking, HoldsCandidate, Live
  <2> QED BY <2>1, <2>2, <2>3 DEF Next
<1>3. Denied => RevokedNotServed
  BY DEF Denied, RevokedNotServed
<1> QED BY <1>1, <1>2, <1>3, TInvInit, TInvStep, PTL DEF Spec
=============================================================================
