----------------------------- MODULE SystemTask -----------------------------
(***************************************************************************)
(* The system-task lease of model/system_task.go and service/system_task.go *)
(* for one task type: rows of that type share no lock, no active key and    *)
(* no query with the rows of another.  Every SQL statement is one step.     *)
(*                                                                          *)
(* Time is relative.  lock.left is locked_until - now (a lease is live      *)
(* while left >= 0), age[r] is how many ticks ago runner r read the clock   *)
(* for the pass it is in, since[t] is now - updated_at, capped at           *)
(* Interval.  MaxPause bounds age: a runner never stalls longer than that   *)
(* inside one pass.                                                         *)
(***************************************************************************)
EXTENDS Integers, FiniteSets

CONSTANTS Runners,     \* runner ids; a restarted process draws a fresh one
          NoRunner,    \* the empty locked_by column
          MaxTasks,    \* bound on the rows created
          TTL,         \* systemTaskLockTTL
          Interval,    \* Interval() of the scheduled handler
          MaxPause,    \* longest stall of a runner inside a pass
          DBMayFail    \* whether a statement may return an error

ASSUME RunnersAssumption == NoRunner \notin Runners
ASSUME BoundsAssumption ==
    MaxTasks \in Nat /\ TTL \in Nat /\ Interval \in Nat /\ MaxPause \in Nat
ASSUME DBAssumption == DBMayFail \in BOOLEAN

VARIABLES status, \* the columns of system_tasks by row id: status ("none": not
          key,    \* yet inserted), active_key ("null" or the type), locked_by
          by,     \* and the time since updated_at
          since,
          lock,   \* the system_task_locks row of the type
          pc,     \* where each runner's pass is
          cand,   \* the pending row the runner is claiming
          seen,   \* the lock row the runner read
          age,    \* ticks since the runner read the clock
          hb      \* handler goroutines: runner -> row -> phase

row == <<status, key, by, since>>
vars == <<row, lock, pc, cand, seen, age, hb>>
local == <<cand, seen, age>>

Tasks    == 1..MaxTasks
NoTask   == 0
Active   == {"pending", "running"}
Terminal == {"succeeded", "failed"}
NoLock   == [task |-> NoTask, by |-> NoRunner, left |-> 0]
Status   == {"none"} \cup Active \cup Terminal
Clip     == -(MaxPause + 1)
LockRow  == [task : Tasks \cup {NoTask}, by : Runners \cup {NoRunner}, left : Clip..TTL]
SeenLock == [task : Tasks \cup {NoTask}, by : Runners \cup {NoRunner}]
Unseen   == [task |-> NoTask, by |-> NoRunner]
LockKey  == [task |-> lock.task, by |-> lock.by]
Phase    == {"none", "live", "cancelled", "release"}

ClaimPc  == {"insert", "look", "takeover", "markold", "run"}
TimedPc  == ClaimPc \cup {"mark", "delete"}
Pc       == TimedPc \cup {"pass", "sched", "create", "find", "release", "dead"}

TypeOK ==
    /\ status \in [Tasks -> Status]
    /\ key \in [Tasks -> {"null", "type"}]
    /\ by \in [Tasks -> Runners \cup {NoRunner}]
    /\ since \in [Tasks -> 0..Interval]
    /\ lock \in LockRow
    /\ pc \in [Runners -> Pc]
    /\ cand \in [Runners -> Tasks \cup {NoTask}]
    /\ seen \in [Runners -> SeenLock]
    /\ age \in [Runners -> 0..MaxPause]
    /\ hb \in [Runners -> [Tasks -> Phase]]

Init ==
    /\ status = [t \in Tasks |-> "none"]
    /\ key = [t \in Tasks |-> "null"]
    /\ by = [t \in Tasks |-> NoRunner]
    /\ since = [t \in Tasks |-> 0]
    /\ lock = NoLock
    /\ pc = [r \in Runners |-> "pass"]
    /\ cand = [r \in Runners |-> NoTask]
    /\ seen = [r \in Runners |-> Unseen]
    /\ age = [r \in Runners |-> 0]
    /\ hb = [r \in Runners |-> [t \in Tasks |-> "none"]]

-----------------------------------------------------------------------------
(* The statements.  A WHERE clause is a guard; "at" is the age of the clock *)
(* value the statement compares with.                                       *)

Created(t) == status[t] # "none"
KeyFree == \A t \in Tasks : key[t] = "null"
NextRow(t) == ~Created(t) /\ \A u \in Tasks : u < t => Created(u)

Goto(r, label) == pc' = [pc EXCEPT ![r] = label]

\* The runner leaves the claim pass: nothing it read is used again.
EndPass(r) ==
    /\ Goto(r, "pass")
    /\ cand' = [cand EXCEPT ![r] = NoTask]
    /\ seen' = [seen EXCEPT ![r] = Unseen]
    /\ age' = [age EXCEPT ![r] = 0]

InsertRow(t) ==
    /\ status' = [status EXCEPT ![t] = "pending"]
    /\ key' = [key EXCEPT ![t] = "type"]
    /\ by' = [by EXCEPT ![t] = NoRunner]
    /\ since' = [since EXCEPT ![t] = 0]

\* The unique index on active_key refuses a second active row.
CreateSystemTask(t) ==
    /\ NextRow(t)
    /\ KeyFree
    /\ InsertRow(t)

Expired(at) == lock # NoLock /\ lock.left < -at
HoldsLease(r, t) == lock.task = t /\ lock.by = r /\ lock.left >= 0

FencedByRowOnly(r, t) == status[t] = "running" /\ by[t] = r

\* The fence shared by UpdateSystemTaskState and FinishSystemTask.
Fenced(r, t) == status[t] = "running" /\ by[t] = r /\ HoldsLease(r, t)

\* A terminal status is written together with a null active_key.
EndRow(t, s) ==
    /\ status' = [status EXCEPT ![t] = s]
    /\ key' = [key EXCEPT ![t] = "null"]
    /\ since' = [since EXCEPT ![t] = 0]
    /\ UNCHANGED by

MarkAnyStatus(t) == IF t \in Tasks THEN EndRow(t, "failed") ELSE UNCHANGED row

MarkKeepingKey(t) ==
    /\ status' = IF t \in Tasks /\ status[t] = "running"
                 THEN [status EXCEPT ![t] = "failed"] ELSE status
    /\ UNCHANGED <<key, by, since>>

MarkPendingRow(t) ==
    IF t \in Tasks /\ status[t] = "pending" THEN EndRow(t, "failed") ELSE UNCHANGED row

MarkSystemTaskLeaseExpired(t) ==
    IF t \in Tasks /\ status[t] = "running" THEN EndRow(t, "failed") ELSE UNCHANGED row

ReleaseSystemTaskLock(t, r) ==
    lock' = IF lock.task = t /\ lock.by = r THEN NoLock ELSE lock

-----------------------------------------------------------------------------
(* Rows are created on demand and by the scheduler.                         *)

\* EnqueueSystemTask, StartLogCleanupTask: an active row makes them a no-op.
EnqueueSystemTask ==
    /\ \E t \in Tasks : CreateSystemTask(t)
    /\ UNCHANGED <<lock, pc, local, hb>>

\* The handler's interval has elapsed since the newest row was updated.
ScheduleDue ==
    \A t \in Tasks : Created(t) /\ (\A u \in Tasks : u > t => ~Created(u)) =>
        status[t] \in Terminal /\ since[t] >= Interval

\* runSystemTaskScheduler up to its query; it may be throttled or disabled.
SchedulerRead(r) ==
    /\ pc[r] = "sched"
    /\ \/ Goto(r, "find")
       \/ ScheduleDue /\ Goto(r, "create")
    /\ UNCHANGED <<row, lock, local, hb>>

\* The row is inserted from the decision taken at the query.
SchedulerCreate(r) ==
    /\ pc[r] = "create"
    /\ \/ \E t \in Tasks : CreateSystemTask(t)
       \/ (DBMayFail \/ ~KeyFree \/ \A t \in Tasks : Created(t)) /\ UNCHANGED row
    /\ Goto(r, "find")
    /\ UNCHANGED <<lock, local, hb>>

-----------------------------------------------------------------------------
(* ExpireStaleSystemTaskLocks: read the expired lock, fail its row, delete   *)
(* the lock if it still is the one read.                                    *)

ExpireRead(r) ==
    /\ pc[r] = "pass"
    /\ \/ /\ Expired(0)
          /\ seen' = [seen EXCEPT ![r] = LockKey]
          /\ Goto(r, "mark")
       \/ Goto(r, "sched") /\ UNCHANGED seen   \* throttled, or nothing expired
    /\ UNCHANGED <<row, lock, cand, age, hb>>

LeaveExpire(r) ==
    /\ Goto(r, "sched")
    /\ seen' = [seen EXCEPT ![r] = Unseen]
    /\ age' = [age EXCEPT ![r] = 0]

ExpireMark(r) ==
    /\ pc[r] = "mark"
    /\ \/ /\ MarkSystemTaskLeaseExpired(seen[r].task)
          /\ Goto(r, "delete") /\ UNCHANGED <<seen, age>>
       \/ DBMayFail /\ LeaveExpire(r) /\ UNCHANGED row
    /\ UNCHANGED <<lock, cand, hb>>

ExpireDelete(r) ==
    /\ pc[r] = "delete"
    /\ \/ lock' = IF /\ lock.task = seen[r].task /\ lock.by = seen[r].by
                     /\ Expired(age[r])
                  THEN NoLock ELSE lock
       \/ DBMayFail /\ UNCHANGED lock
    /\ LeaveExpire(r)
    /\ UNCHANGED <<row, cand, hb>>

-----------------------------------------------------------------------------
(* runSystemTaskClaimPass and ClaimSystemTask.                              *)

\* FindEarliestPendingSystemTasks and the re-read of the pending row.
ClaimRead(r) ==
    /\ pc[r] = "find"
    /\ \/ /\ \E t \in Tasks :
                /\ status[t] = "pending"
                /\ \A u \in Tasks : u < t => status[u] # "pending"
                /\ cand' = [cand EXCEPT ![r] = t]
          /\ Goto(r, "insert")
          /\ UNCHANGED <<seen, age>>
       \/ /\ DBMayFail \/ \A t \in Tasks : status[t] # "pending"
          /\ EndPass(r)
    /\ UNCHANGED <<row, lock, hb>>

NewLockTooLong(r) == [task |-> cand[r], by |-> r, left |-> 2 * TTL - age[r]]

NewLockWithoutTTL(r) == [task |-> cand[r], by |-> r, left |-> -age[r]]

NewLock(r) == [task |-> cand[r], by |-> r, left |-> TTL - age[r]]

\* acquireSystemTaskLock: INSERT, and whatever error it returns, look at the row.
AcquireInsert(r) ==
    /\ pc[r] = "insert"
    /\ \/ lock = NoLock /\ lock' = NewLock(r) /\ Goto(r, "run")
       \/ (DBMayFail \/ lock # NoLock) /\ Goto(r, "look") /\ UNCHANGED lock
    /\ UNCHANGED <<row, local, hb>>

\* The runner gives up unless the row it finds is expired.
AcquireLook(r) ==
    /\ pc[r] = "look"
    /\ \/ /\ Expired(age[r])
          /\ seen' = [seen EXCEPT ![r] = LockKey]
          /\ Goto(r, "takeover")
          /\ UNCHANGED <<cand, age>>
       \/ (DBMayFail \/ ~Expired(age[r])) /\ EndPass(r)
    /\ UNCHANGED <<row, lock, hb>>

\* The conditional UPDATE that takes an expired lock over.
AcquireTakeover(r) ==
    /\ pc[r] = "takeover"
    /\ \/ /\ Expired(age[r])
          /\ lock' = NewLock(r)
          /\ Goto(r, IF seen[r].task # cand[r] THEN "markold" ELSE "run")
          /\ UNCHANGED local
       \/ /\ DBMayFail \/ ~Expired(age[r])
          /\ EndPass(r)
          /\ UNCHANGED lock
    /\ UNCHANGED <<row, hb>>

\* The row of the lease taken over is failed before the claim goes on.
ClaimMarkOld(r) ==
    /\ pc[r] = "markold"
    /\ \/ MarkSystemTaskLeaseExpired(seen[r].task) /\ Goto(r, "run")
       \/ DBMayFail /\ Goto(r, "release") /\ UNCHANGED row
    /\ UNCHANGED <<lock, local, hb>>

RunRow(r) ==
    /\ status' = [status EXCEPT ![cand[r]] = "running"]
    /\ by' = [by EXCEPT ![cand[r]] = r]
    /\ since' = [since EXCEPT ![cand[r]] = IF age[r] < Interval THEN age[r] ELSE Interval]
    /\ UNCHANGED key

ClaimRunUnconditionally(r) ==
    /\ pc[r] = "run"
    /\ RunRow(r)
    /\ hb' = [hb EXCEPT ![r][cand[r]] = "live"]
    /\ EndPass(r)
    /\ UNCHANGED lock

\* pending -> running, then dispatch; the reload may fail after the update.
ClaimRun(r) ==
    /\ pc[r] = "run"
    /\ \/ /\ status[cand[r]] = "pending"
          /\ RunRow(r)
          /\ \/ hb' = [hb EXCEPT ![r][cand[r]] = "live"]
             \/ DBMayFail /\ UNCHANGED hb
          /\ EndPass(r)
       \/ /\ DBMayFail \/ status[cand[r]] # "pending"
          /\ Goto(r, "release")
          /\ UNCHANGED <<row, local, hb>>
    /\ UNCHANGED lock

\* The claim failed after the lock was taken: give it back (errors ignored).
ClaimRelease(r) ==
    /\ pc[r] = "release"
    /\ ReleaseSystemTaskLock(cand[r], r) \/ (DBMayFail /\ UNCHANGED lock)
    /\ EndPass(r)
    /\ UNCHANGED <<row, hb>>

-----------------------------------------------------------------------------
(* The handler goroutine of a claimed row and its heartbeat.                *)

SetHb(r, t, phase) == hb' = [hb EXCEPT ![r][t] = phase]

\* RenewSystemTaskLock on the ticker; any error cancels the handler.
Heartbeat(r, t) ==
    /\ hb[r][t] \in {"live", "release"}
    /\ \/ HoldsLease(r, t) /\ lock' = [lock EXCEPT !.left = TTL] /\ UNCHANGED hb
       \/ /\ hb[r][t] = "live" /\ (DBMayFail \/ ~HoldsLease(r, t))
          /\ SetHb(r, t, "cancelled")
          /\ UNCHANGED lock
    /\ UNCHANGED <<row, pc, local>>

\* UpdateSystemTaskState; the log-cleanup handler returns when it fails.
UpdateSystemTaskState(r, t) ==
    /\ hb[r][t] \in {"live", "cancelled"}
    /\ \/ /\ Fenced(r, t)
          /\ since' = [since EXCEPT ![t] = 0]
          /\ UNCHANGED <<status, key, by, hb>>
       \/ /\ DBMayFail \/ ~Fenced(r, t)
          /\ SetHb(r, t, "none")
          /\ UNCHANGED row
    /\ UNCHANGED <<lock, pc, local>>

\* FinishSystemTask up to its release; a lost lease changes nothing.
FinishSystemTask(r, t) ==
    /\ hb[r][t] \in {"live", "cancelled"}
    /\ \/ /\ Fenced(r, t)
          /\ \E s \in Terminal : EndRow(t, s)
          /\ SetHb(r, t, "release")
       \/ /\ DBMayFail \/ ~Fenced(r, t)
          /\ SetHb(r, t, "none")
          /\ UNCHANGED row
    /\ UNCHANGED <<lock, pc, local>>

FinishRelease(r, t) ==
    /\ hb[r][t] = "release"
    /\ ReleaseSystemTaskLock(t, r) \/ (DBMayFail /\ UNCHANGED lock)
    /\ SetHb(r, t, "none")
    /\ UNCHANGED <<row, pc, local>>

\* The handler returns without a result: it honours its cancelled context, or
\* it panicked, which also stops the heartbeat's ticker.
HandlerReturn(r, t) ==
    /\ hb[r][t] \in {"live", "cancelled"}
    /\ SetHb(r, t, "none")
    /\ UNCHANGED <<row, lock, pc, local>>

-----------------------------------------------------------------------------
\* The process dies with its pass and its handlers; another one remains.
Crash(r) ==
    /\ pc[r] # "dead"
    /\ \E s \in Runners \ {r} : pc[s] # "dead"
    /\ Goto(r, "dead")
    /\ cand' = [cand EXCEPT ![r] = NoTask]
    /\ seen' = [seen EXCEPT ![r] = Unseen]
    /\ age' = [age EXCEPT ![r] = 0]
    /\ hb' = [hb EXCEPT ![r] = [t \in Tasks |-> "none"]]
    /\ UNCHANGED <<row, lock>>

\* One time unit passes.
Tick ==
    /\ \A r \in Runners : pc[r] \in TimedPc => age[r] < MaxPause
    /\ lock' = IF lock = NoLock \/ lock.left = Clip THEN lock
               ELSE [lock EXCEPT !.left = @ - 1]
    /\ age' = [r \in Runners |-> IF pc[r] \in TimedPc THEN age[r] + 1 ELSE age[r]]
    /\ since' = [t \in Tasks |-> IF Created(t) /\ since[t] < Interval
                                 THEN since[t] + 1 ELSE since[t]]
    /\ UNCHANGED <<status, key, by, pc, cand, seen, hb>>

PassStep(r) ==
    \/ ExpireRead(r) \/ ExpireMark(r) \/ ExpireDelete(r)
    \/ SchedulerRead(r) \/ SchedulerCreate(r)
    \/ ClaimRead(r) \/ AcquireInsert(r) \/ AcquireLook(r) \/ AcquireTakeover(r)
    \/ ClaimMarkOld(r) \/ ClaimRun(r) \/ ClaimRelease(r)

HandlerEnd(r, t) == FinishSystemTask(r, t) \/ FinishRelease(r, t) \/ HandlerReturn(r, t)

Next ==
    \/ EnqueueSystemTask
    \/ Tick
    \/ \E r \in Runners :
          \/ PassStep(r)
          \/ Crash(r)
          \/ \E t \in Tasks :
                Heartbeat(r, t) \/ UpdateSystemTaskState(r, t) \/ HandlerEnd(r, t)

Spec == Init /\ [][Next]_vars

\* Time passes, a live runner keeps running its passes (stale-lock cleanup
\* included, whenever its throttle allows), and a handler eventually ends.
Fairness ==
    /\ WF_vars(Tick)
    /\ \A r \in Runners :
          /\ WF_vars(PassStep(r))
          /\ SF_vars(ExpireRead(r) /\ pc'[r] = "mark")
          /\ \A t \in Tasks : WF_vars(HandlerEnd(r, t))

FairSpec == Spec /\ Fairness

-----------------------------------------------------------------------------
\* CreateSystemTask, MarkSystemTaskLeaseExpired, FinishSystemTask: the type has
\* at most one active row, and exactly the active row holds the active key, so
\* a terminal row never blocks the creation of the next one.
ActiveKeyExclusive ==
    /\ \A t \in Tasks : key[t] = "type" <=> status[t] \in Active
    /\ \A t, u \in Tasks : status[t] \in Active /\ status[u] \in Active => t = u

\* ClaimSystemTask: whatever leases expire or are taken over meanwhile, a row is
\* executed by the one runner its locked_by column names, never by two.
OneExecutor ==
    \A r \in Runners, t \in Tasks : hb[r][t] # "none" =>
        by[t] = r /\ status[t] \in {"running"} \cup Terminal

\* A row moves pending -> running -> terminal; a terminal row keeps its outcome
\* and its executor, even when a handler that lost its lease finishes late.
RowsOnlyAdvance ==
    [][\A t \in Tasks :
          /\ status[t] \in Terminal =>
                status'[t] = status[t] /\ by'[t] = by[t]
          /\ status[t] = "running" => status'[t] \notin {"none", "pending"}
          /\ status[t] = "pending" => status'[t] \in Active]_vars

\* A row is marked succeeded only by the runner that executes it and holds a
\* live lease on it.
SuccessNeedsLease ==
    [][\A t \in Tasks : status[t] # "succeeded" /\ status'[t] = "succeeded" =>
          HoldsLease(by[t], t) /\ hb[by[t]][t] \in {"live", "cancelled"}]_vars

\* A running row always has the lock row that lets ExpireStaleSystemTaskLocks
\* find it, so a crashed runner's task is never forgotten.  True as long as no
\* runner stalls longer than the lease inside a claim (MaxPause <= TTL).
RunningHasLock ==
    \A t \in Tasks : status[t] = "running" => lock.task = t /\ lock.by = by[t]

\* service/system_task.go:18-19: the runners "mark expired leases failed": a row
\* that is running without a live lease does not stay running for ever.
ExpiredLeasesAreFailed ==
    \A t \in Tasks :
        (status[t] = "running" /\ ~HoldsLease(by[t], t)) ~> status[t] # "running"

\* Every row that is created reaches a terminal status.
EveryTaskTerminates ==
    \A t \in Tasks : status[t] = "pending" ~> status[t] \in Terminal

-----------------------------------------------------------------------------
(* What the proofs carry from step to step besides the properties.          *)

\* A row nobody claimed has no executor, and a handler that reached its release
\* has left a terminal row behind.
ExecutorInv ==
    /\ \A t \in Tasks : status[t] \in {"none", "pending"} => by[t] = NoRunner
    /\ \A r \in Runners, t \in Tasks : hb[r][t] = "release" => status[t] \in Terminal

\* A runner inside a claim works on a row it has not executed before.
ClaimInv ==
    \A r \in Runners : pc[r] \in ClaimPc \cup {"release"} =>
        cand[r] \in Tasks /\ Created(cand[r]) /\ by[cand[r]] # r

\* From taking the lock until its claim ends, the runner's lease is live.
ClaimHoldsLease ==
    \A r \in Runners : pc[r] \in {"markold", "run"} =>
        lock.task = cand[r] /\ lock.by = r /\ lock.left >= TTL - age[r]

\* Whoever is about to overwrite or delete an expired lock of a row that has
\* meanwhile been started compares with a clock value the lease outlives.
StartedLeaseOutlives ==
    \A r \in Runners, t \in Tasks :
        /\ status[t] = "running"
        /\ pc[r] \in ClaimPc \/ (pc[r] = "delete" /\ seen[r].task = t)
        => lock.left >= -age[r]

LeaseInv == RunningHasLock /\ ClaimHoldsLease /\ StartedLeaseOutlives
=============================================================================
