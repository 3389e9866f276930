---------------------------- MODULE UserSession ----------------------------
(***************************************************************************)
(* One browser session of model/user_session.go: its row, its entry in      *)
(* Redis and the requests that validate, refresh, advance and revoke it.    *)
(* Every SQL statement (or transaction) and every Redis script is one step. *)
(*                                                                          *)
(* A refresh secret is the number of rotations that produced it: the next   *)
(* secret is derived from the presented one, so the chain has one branch.   *)
(* The user's own auth version is read from the database; its cache is not  *)
(* part of this module.                                                     *)
(***************************************************************************)
EXTENDS Integers

CONSTANTS Procs,        \* requests being served, on any node
          Ops,          \* which requests arrive
          TTL,          \* userCacheTTLSeconds
          Grace,        \* RefreshReplayWindow
          Life,         \* LoginSessionTTL
          MaxTime,      \* bound on the clock
          MaxVer,       \* bound on the versions
          MaxGen,       \* bound on the rotations
          MaxStall,     \* longest time a refresh spends before, and after, reading the clock
          RedisMayFail, \* whether a Redis call may return an error
          VersionRaces, \* whether the session may be advanced while a revocation
                        \* of it is between its candidate and its tombstone
          TombstoneMayFail  \* whether the final tombstone may be lost

ASSUME SessionBounds ==
    /\ TTL \in Nat \ {0} /\ Grace \in Nat /\ Life \in Nat \ {0}
    /\ MaxTime \in Nat /\ MaxVer \in Nat /\ MaxGen \in Nat /\ MaxStall \in Nat
ASSUME SessionSwitches ==
    RedisMayFail \in BOOLEAN /\ VersionRaces \in BOOLEAN /\ TombstoneMayFail \in BOOLEAN

VARIABLES row,      \* the user_sessions row
          userVer,  \* users.auth_version
          entry,    \* the Redis hash auth:session:<sid>
          clock,
          pc,       \* where each request is
          op,       \* what it does
          arg,      \* the secret it presents, or the auth version it moves to
          at,       \* the clock value it compares with
          deadline, \* the end of its cache window
          snap,     \* the session it read
          \* History: the newest secret when the request began, and the newest
          \* secret any refresh has returned.
          began,
          handed

local == <<pc, op, arg, at, deadline, snap, began>>
vars == <<row, userVer, entry, clock, local, handed>>

Version == 1..MaxVer
Secret  == 0..MaxGen
Time    == 0..MaxTime
NewRow  == [status |-> "active", ver |-> 1, uver |-> 1, gen |-> 0, until |-> 0,
            exp |-> Life]
Row     == [status : {"active", "revoked"}, ver : Version, uver : Version,
            gen : Secret, until : 0..(MaxTime + Grace), exp : {Life}]
SnapOf(r) == [ver |-> r.ver, uver |-> r.uver, exp |-> r.exp]
Min2(a, b) == IF a < b THEN a ELSE b
NoSnap  == [ver |-> 1, uver |-> 1, exp |-> 0]
Snap    == [ver : Version, uver : Version, exp : {0, Life}]
NoEntry == [status |-> "none", ver |-> 0, uver |-> 0, exp |-> 0]
Entry   == [status : {"none", "active", "revoking", "revoked"}, ver : 0..MaxVer,
            uver : 0..MaxVer, exp : 0..(MaxTime + TTL + 1)]
Pc      == {"idle", "capture", "load", "deny", "fill", "check", "confirm",
            "user", "read", "cas", "find", "fence", "update", "tomb",
            "bump", "advance"}
Op      == {"none", "login", "validate", "refresh", "rotate", "revoke", "revokeAll",
            "revokeHash", "advance"}

SessionTypeOK ==
    /\ row \in Row /\ userVer \in Version /\ entry \in Entry /\ clock \in Time
    /\ pc \in [Procs -> Pc] /\ op \in [Procs -> Op]
    /\ arg \in [Procs -> 0..(MaxGen + MaxVer)]
    /\ at \in [Procs -> Time] /\ deadline \in [Procs -> 0..(MaxTime + TTL)]
    /\ snap \in [Procs -> Snap]
    /\ began \in [Procs -> Secret] /\ handed \in Secret

\* createLoginSession has inserted the row and is about to cache it.  The user's
\* auth version may have moved since it was read for the row.
Init ==
    /\ row = NewRow
    /\ userVer \in 1..Min2(2, MaxVer)
    /\ entry = NoEntry
    /\ clock = 0
    /\ \E p \in Procs :
         /\ pc = [q \in Procs |-> IF q = p THEN "fill" ELSE "idle"]
         /\ op = [q \in Procs |-> IF q = p THEN "login" ELSE "none"]
         /\ deadline = [q \in Procs |-> IF q = p THEN TTL ELSE 0]
         /\ snap = [q \in Procs |-> IF q = p THEN SnapOf(NewRow) ELSE NoSnap]
    /\ arg = [p \in Procs |-> 0]
    /\ at = [p \in Procs |-> 0]
    /\ began = [p \in Procs |-> 0]
    /\ handed = 0

-----------------------------------------------------------------------------
(* The row and the cache entry.                                             *)

RowActive(now) == row.status = "active" /\ row.exp > now

\* RevokeUserSessionByRefreshHash holds the row's lock while it publishes its
\* fence; a statement that writes the row waits for it.
RowFree(p) ==
    \A q \in Procs \ {p} : ~(op[q] = "revokeHash" /\ pc[q] \in {"fence", "update"})

\* The newest and, inside the grace window, the one before it.
MatchesCurrent(s, r) == s = r.gen
MatchesPrevious(s, r) == s + 1 = r.gen

WithinGraceStrict(now, r) == now < r.until

WithinGrace(now, r) == now <= r.until

Live == entry.status # "none" /\ clock < entry.exp

ScriptAcceptsAnyStatus(status, ver) == Live => entry.ver <= ver

\* The guard of the Lua script: an active snapshot never replaces a deny, and
\* nothing replaces a newer version.
ScriptAccepts(status, ver) ==
    Live => /\ ~(status = "active" /\ entry.status \in {"revoking", "revoked"})
            /\ entry.ver <= ver

\* A deny lives from its publication, never longer than the session.
DenyTTL(s) == IF s.exp > clock THEN Min2(s.exp - clock, TTL) ELSE 1
Deny(status, s) ==
    entry' = [status |-> status, ver |-> s.ver, uver |-> s.uver, exp |-> clock + DenyTTL(s)]
CacheUnchanged == UNCHANGED entry

Goto(p, label) == pc' = [pc EXCEPT ![p] = label]

\* The request has its answer; nothing it read is used again.
Finish(p) ==
    /\ Goto(p, "idle")
    /\ op' = [op EXCEPT ![p] = "none"]
    /\ arg' = [arg EXCEPT ![p] = 0]
    /\ at' = [at EXCEPT ![p] = 0]
    /\ deadline' = [deadline EXCEPT ![p] = 0]
    /\ snap' = [snap EXCEPT ![p] = NoSnap]
    /\ began' = [began EXCEPT ![p] = 0]

Keep == UNCHANGED <<op, arg, began>>

-----------------------------------------------------------------------------
(* Requests arrive.  A request touches nothing before its first read, so    *)
(* the two are one step.                                                    *)

Start(p, o, a, label) ==
    /\ Goto(p, label)
    /\ op' = [op EXCEPT ![p] = o]
    /\ arg' = [arg EXCEPT ![p] = a]

\* The session was accepted: a validation is done, a refresh goes on to the
\* user.
Proceed(p) ==
    IF op[p] = "refresh"
    THEN /\ Goto(p, "user") /\ Keep
         /\ deadline' = [deadline EXCEPT ![p] = 0]
         /\ UNCHANGED <<at, snap>>
    ELSE Finish(p)

\* A rotation hands its successor secret to the client.
Return(p) ==
    handed' = IF op[p] = "rotate" /\ arg[p] + 1 > handed THEN arg[p] + 1 ELSE handed

\* GetUserSessionCached of a validation.  A hit needs no further step.
ValidateLoginSession(p) ==
    /\ pc[p] = "idle" /\ "validate" \in Ops /\ (~Live \/ RedisMayFail)
    /\ Start(p, "validate", 0, "capture")
    /\ UNCHANGED <<row, userVer, entry, clock, at, deadline, snap, began, handed>>

\* GetUserSessionCached of a refresh.  Any secret the session has had may be
\* presented.
RefreshLoginSession(p) ==
    /\ pc[p] = "idle" /\ "refresh" \in Ops
    /\ \E s \in 0..Min2(row.gen, MaxGen - 1) :
         \/ /\ ~Live \/ RedisMayFail
            /\ Start(p, "refresh", s, "capture")
            /\ UNCHANGED snap
         \/ /\ Live /\ entry.status = "active"
            /\ Start(p, "refresh", s, "user")
            /\ snap' = [snap EXCEPT ![p].ver = entry.ver, ![p].uver = entry.uver]
    /\ at' = [at EXCEPT ![p] = clock]
    /\ began' = [began EXCEPT ![p] = row.gen]
    /\ UNCHANGED <<row, userVer, entry, clock, deadline, handed>>

-----------------------------------------------------------------------------
(* GetUserSessionCached after a miss, and what follows it in a refresh.     *)

\* userSessionCacheDeadline, before the statement whose result will be cached.
AfterCapture(p) ==
    CASE op[p] = "rotate" -> "read"
      [] op[p] = "advance" -> "advance"
      [] OTHER -> "load"

CaptureRoundedUp(p) ==
    /\ pc[p] = "capture"
    /\ deadline' = [deadline EXCEPT ![p] = clock + TTL + 1]
    /\ at' = IF op[p] = "advance" THEN [at EXCEPT ![p] = clock] ELSE at
    /\ Goto(p, AfterCapture(p))
    /\ Keep /\ UNCHANGED <<row, userVer, entry, clock, snap, handed>>

Capture(p) ==
    /\ pc[p] = "capture"
    /\ deadline' = [deadline EXCEPT ![p] = clock + TTL]
    /\ at' = IF op[p] = "advance" THEN [at EXCEPT ![p] = clock] ELSE at
    /\ Goto(p, AfterCapture(p))
    /\ Keep /\ UNCHANGED <<row, userVer, entry, clock, snap, handed>>

Load(p) ==
    /\ pc[p] = "load"
    /\ snap' = [snap EXCEPT ![p] = SnapOf(row)]
    /\ Goto(p, IF RowActive(clock) THEN "fill" ELSE "deny")
    /\ Keep /\ UNCHANGED <<row, userVer, entry, clock, at, deadline, handed>>

\* An inactive row is answered with a tombstone whose own failure is ignored.
DenyLoaded(p) ==
    /\ pc[p] = "deny"
    /\ \/ ScriptAccepts("revoked", snap[p].ver) /\ Deny("revoked", snap[p])
       \/ (~ScriptAccepts("revoked", snap[p].ver) \/ RedisMayFail) /\ CacheUnchanged
    /\ Finish(p)
    /\ UNCHANGED <<row, userVer, clock, handed>>

WindowOpen(p) == clock < deadline[p]

\* writeUserSessionCache of an active snapshot, inside its window.
FillAccepted(p) ==
    /\ pc[p] = "fill" /\ WindowOpen(p)
    /\ snap[p].exp > clock /\ ScriptAccepts("active", snap[p].ver)
    /\ entry' = [status |-> "active", ver |-> snap[p].ver, uver |-> snap[p].uver,
                 exp |-> Min2(deadline[p], snap[p].exp)]
    /\ Goto(p, "check")
    /\ Keep /\ UNCHANGED <<row, userVer, clock, at, deadline, snap, handed>>

FillRefused(p) ==
    /\ pc[p] = "fill" /\ WindowOpen(p)
    /\ snap[p].exp <= clock \/ ~ScriptAccepts("active", snap[p].ver)
    /\ Finish(p)
    /\ UNCHANGED <<row, userVer, entry, clock, handed>>

\* The window closed before the script ran, or while it was on its way: then
\* its PEXPIREAT lies in the past and removes the entry.
FillStale(p) ==
    /\ pc[p] = "fill" /\ ~WindowOpen(p)
    /\ \/ CacheUnchanged
       \/ ScriptAccepts("active", snap[p].ver) /\ entry' = NoEntry
    /\ Goto(p, "confirm")
    /\ Keep /\ UNCHANGED <<row, userVer, clock, at, deadline, snap, handed>>

\* Redis failed: logged, except that an advance returns the error.
FillFails(p) ==
    /\ pc[p] = "fill" /\ RedisMayFail
    /\ IF op[p] = "advance" THEN Finish(p) ELSE Proceed(p)
    /\ Return(p)
    /\ UNCHANGED <<row, userVer, entry, clock>>

\* The clock is read once more after the script.
Check(p) ==
    /\ pc[p] = "check"
    /\ IF WindowOpen(p)
       THEN IF snap[p].exp > clock
            THEN Proceed(p) /\ Return(p)
            ELSE Finish(p) /\ UNCHANGED handed
       ELSE Goto(p, "confirm") /\ Keep /\ UNCHANGED <<at, deadline, snap, handed>>
    /\ UNCHANGED <<row, userVer, entry, clock>>

\* confirmUserSessionActiveSnapshot
Confirm(p) ==
    /\ pc[p] = "confirm"
    /\ IF RowActive(clock) /\ row.ver = snap[p].ver /\ row.uver = snap[p].uver
       THEN Proceed(p) /\ Return(p)
       ELSE Finish(p) /\ UNCHANGED handed
    /\ UNCHANGED <<row, userVer, entry, clock>>

\* A session behind its user's auth version is revoked by the refresh.
CheckUser(p) ==
    /\ pc[p] = "user"
    /\ at' = [at EXCEPT ![p] = clock]
    /\ IF snap[p].uver # userVer
       THEN Goto(p, "find") /\ UNCHANGED op
       ELSE Goto(p, "capture") /\ op' = [op EXCEPT ![p] = "rotate"]
    /\ UNCHANGED <<row, userVer, entry, clock, arg, deadline, snap, began, handed>>

-----------------------------------------------------------------------------
(* RotateUserSessionRefresh                                                 *)

RotateRead(p) ==
    /\ pc[p] = "read"
    /\ LET s == arg[p]
           Race == MatchesPrevious(s, row) /\ WithinGrace(at[p], row)
       IN \/ /\ RowActive(at[p]) /\ MatchesCurrent(s, row)
             /\ snap' = [snap EXCEPT ![p] = SnapOf(row)]
             /\ Goto(p, "cas") /\ Keep /\ UNCHANGED <<at, deadline, handed>>
          \/ \* a race: the successor of s is the current secret and is returned
             /\ RowActive(at[p]) /\ Race
             /\ Return(p) /\ Finish(p)
          \/ /\ RowActive(at[p]) /\ MatchesPrevious(s, row) /\ ~Race
             /\ snap' = [snap EXCEPT ![p] = SnapOf(row)]
             /\ deadline' = [deadline EXCEPT ![p] = 0]
             /\ Goto(p, "fence") /\ Keep /\ UNCHANGED <<at, handed>>
          \/ /\ ~RowActive(at[p]) \/ ~(MatchesCurrent(s, row) \/ MatchesPrevious(s, row))
             /\ Finish(p) /\ UNCHANGED handed
    /\ UNCHANGED <<row, userVer, entry, clock>>

RotatedOrNot(p) == RowActive(at[p])

\* The WHERE clause of the rotation.
Unrotated(p) == RowActive(at[p]) /\ row.gen = arg[p]

RotateCas(p) ==
    /\ pc[p] = "cas" /\ RowFree(p)
    /\ IF Unrotated(p)
       THEN /\ row' = [row EXCEPT !.gen = arg[p] + 1, !.until = at[p] + Grace]
            /\ Goto(p, "fill")
       ELSE Goto(p, "capture") /\ UNCHANGED row
    /\ Keep /\ UNCHANGED <<userVer, entry, clock, at, deadline, snap, handed>>

-----------------------------------------------------------------------------
(* Revocation: candidate, deny fence, row, tombstone.                       *)

\* The candidate is read, for the bulk revocation and a refresh that found the
\* user ahead of its session.
Find(p) ==
    /\ pc[p] = "find"
    /\ IF RowActive(clock)
       THEN /\ snap' = [snap EXCEPT ![p] = SnapOf(row)]
            /\ at' = [at EXCEPT ![p] = clock]
            /\ Goto(p, "fence") /\ Keep /\ UNCHANGED deadline
       ELSE Finish(p)
    /\ UNCHANGED <<row, userVer, entry, clock, handed>>

\* The same read, as the first step of a request.
BeginRevoke(p, o, s) ==
    /\ pc[p] = "idle" /\ o \in Ops /\ RowActive(clock)
    /\ Start(p, o, s, "fence")
    /\ snap' = [snap EXCEPT ![p] = SnapOf(row)]
    /\ at' = [at EXCEPT ![p] = clock]
    /\ UNCHANGED <<row, userVer, entry, clock, deadline, began, handed>>

RevokeUserSession(p) == BeginRevoke(p, "revoke", 0)

\* Possession of the current secret, or of the previous one inside the window.
RevokeUserSessionByRefreshHash(p) ==
    /\ RowFree(p)
    /\ \E s \in 0..row.gen :
         /\ MatchesCurrent(s, row) \/ (MatchesPrevious(s, row) /\ WithinGrace(clock, row))
         /\ BeginRevoke(p, "revokeHash", 0)

\* A refused fence is an error: the row is left alone.
WriteDenyFence(p) ==
    /\ pc[p] = "fence"
    /\ IF ScriptAccepts("revoking", snap[p].ver)
       THEN /\ Deny("revoking", snap[p])
            /\ Goto(p, "update") /\ Keep /\ UNCHANGED <<at, deadline, snap>>
       ELSE CacheUnchanged /\ Finish(p)
    /\ UNCHANGED <<row, userVer, clock, handed>>

\* The bulk revocation takes its tombstones from the rows it locked and then
\* looks for more; the others use the candidate.
RevokeRow(p) ==
    /\ pc[p] = "update" /\ RowFree(p)
    /\ IF row.status = "active" /\ (row.exp > at[p] \/ op[p] = "revokeAll")
       THEN /\ row' = [row EXCEPT !.status = "revoked"]
            /\ snap' = IF op[p] = "revokeAll" THEN [snap EXCEPT ![p] = SnapOf(row)] ELSE snap
            /\ Goto(p, "tomb") /\ Keep /\ UNCHANGED <<at, deadline>>
       ELSE Finish(p) /\ UNCHANGED row
    /\ UNCHANGED <<userVer, entry, clock, handed>>

WriteTombstone(p) ==
    /\ pc[p] = "tomb"
    /\ \/ ScriptAccepts("revoked", snap[p].ver) /\ Deny("revoked", snap[p])
       \/ (~ScriptAccepts("revoked", snap[p].ver) \/ TombstoneMayFail) /\ CacheUnchanged
    /\ Finish(p)
    /\ UNCHANGED <<row, userVer, clock, handed>>

-----------------------------------------------------------------------------
(* Security changes.                                                        *)

\* The request carries the identity of an access token of this session.
AdvanceCurrentSessionSecurity(p) ==
    /\ pc[p] = "idle" /\ "advance" \in Ops /\ RowActive(clock)
    /\ Start(p, "advance", 0, "bump")
    /\ snap' = [snap EXCEPT ![p] = SnapOf(row)]
    /\ UNCHANGED <<row, userVer, entry, clock, at, deadline, began, handed>>

\* The same by another session of the user: the auth version moves, then
\* RevokeOtherUserSessions takes this session.
AdvanceElsewhere(p) ==
    /\ pc[p] = "idle" /\ "revokeAll" \in Ops /\ userVer < MaxVer
    /\ Start(p, "revokeAll", 0, "find")
    /\ userVer' = userVer + 1
    /\ UNCHANGED <<row, entry, clock, at, deadline, snap, began, handed>>

BumpUserAuthVersion(p) ==
    /\ pc[p] = "bump" /\ userVer < MaxVer
    /\ userVer' = userVer + 1
    /\ arg' = [arg EXCEPT ![p] = userVer + 1]
    /\ Goto(p, "capture")
    /\ UNCHANGED <<row, entry, clock, op, at, deadline, snap, began, handed>>

\* A revocation whose tombstone will carry the version of its candidate.
HoldsCandidate(p) ==
    pc[p] \in {"fence", "update", "tomb"} /\ op[p] \notin {"revokeAll", "revokeHash"}

AdvanceUserSessionAuthVersion(p) ==
    /\ pc[p] = "advance" /\ RowFree(p)
    /\ VersionRaces \/ \A q \in Procs : ~HoldsCandidate(q)
    /\ IF RowActive(at[p]) /\ row.ver = snap[p].ver /\ row.uver = snap[p].uver
       THEN /\ row' = [row EXCEPT !.ver = @ + 1, !.uver = arg[p]]
            /\ snap' = [snap EXCEPT ![p] = SnapOf(row')]
            /\ Goto(p, "fill") /\ Keep /\ UNCHANGED <<at, deadline>>
       ELSE Finish(p) /\ UNCHANGED row
    /\ UNCHANGED <<userVer, entry, clock, handed>>

\* A statement fails, the client goes away or the process dies: the request
\* ends where it is.
Abort(p) ==
    /\ pc[p] \notin {"idle"} \cup (IF TombstoneMayFail THEN {} ELSE {"tomb"})
    /\ Finish(p)
    /\ UNCHANGED <<row, userVer, entry, clock, handed>>

Tick ==
    /\ clock < MaxTime
    /\ \A p \in Procs : op[p] \in {"refresh", "rotate"} => clock + 1 - at[p] <= MaxStall
    /\ clock' = clock + 1
    /\ UNCHANGED <<row, userVer, entry, local, handed>>

Arrival(p) ==
    \/ ValidateLoginSession(p) \/ RefreshLoginSession(p)
    \/ RevokeUserSession(p) \/ RevokeUserSessionByRefreshHash(p)
    \/ AdvanceElsewhere(p) \/ AdvanceCurrentSessionSecurity(p)

Step(p) ==
    \/ Capture(p) \/ Load(p) \/ DenyLoaded(p)
    \/ FillAccepted(p) \/ FillRefused(p) \/ FillStale(p) \/ FillFails(p)
    \/ Check(p) \/ Confirm(p) \/ CheckUser(p)
    \/ RotateRead(p) \/ RotateCas(p)
    \/ Find(p) \/ WriteDenyFence(p) \/ RevokeRow(p) \/ WriteTombstone(p)
    \/ BumpUserAuthVersion(p) \/ AdvanceUserSessionAuthVersion(p)

Next == Tick \/ \E p \in Procs : Arrival(p) \/ Step(p) \/ Abort(p)

Spec == Init /\ [][Next]_vars

-----------------------------------------------------------------------------
(* Properties                                                               *)

\* Once a revocation is through (its row committed, its tombstone written), no
\* cached entry presents the session as active: a reader that loaded the row
\* before the revocation cannot put it back, however late it writes.
RevokedNotServed ==
    row.status = "revoked" /\ (\A p \in Procs : pc[p] # "tomb")
        => ~(Live /\ entry.status = "active")

\* The row never falls behind a secret that a refresh has returned: of two
\* refreshes with the same secret one rotates and the other joins it.
RotationNeverRollsBack == handed <= row.gen

\* Only a replay is treated as theft: when a refresh condemns the session, its
\* secret had already been replaced before the refresh began.  Requests that
\* raced for the same rotation are never taken for a reuse.
ReuseIsReplay ==
    \A p \in Procs : op[p] = "rotate" /\ pc[p] = "fence" => arg[p] < began[p]
=============================================================================
