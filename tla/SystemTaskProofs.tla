-------------------------- MODULE SystemTaskProofs --------------------------
(***************************************************************************)
(* What the system-task lease guarantees for any number of runners and     *)
(* rows and any lease, interval and stall lengths.                         *)
(***************************************************************************)
EXTENDS SystemTask, TLAPS

-----------------------------------------------------------------------------
(* Types of what the statements write.                                      *)

\* The lock rows the runners write, and what they remember of one, are typed.
LEMMA LockTypes ==
    ASSUME TypeOK
    PROVE  /\ NoLock \in LockRow /\ Unseen \in SeenLock /\ LockKey \in SeenLock
           /\ \A r \in Runners : NewLock(r) \in LockRow
<1>1. lock \in LockRow /\ cand \in [Runners -> Tasks \cup {NoTask}] /\ age \in [Runners -> 0..MaxPause]
  BY DEF TypeOK
<1> QED
  BY <1>1, BoundsAssumption DEF NoLock, LockRow, SeenLock, Unseen, LockKey, NewLock, Clip, NoTask

RowsTyped == /\ status \in [Tasks -> Status]
             /\ key \in [Tasks -> {"null", "type"}]
             /\ by \in [Tasks -> Runners \cup {NoRunner}]
             /\ since \in [Tasks -> 0..Interval]

\* Inserting a row, failing one and starting one keep the table typed.
LEMMA RowTypes ==
    ASSUME TypeOK
    PROVE  /\ \A t \in Tasks : CreateSystemTask(t) => RowsTyped'
           /\ \A t \in Tasks, s \in Terminal : EndRow(t, s) => RowsTyped'
           /\ \A t : MarkSystemTaskLeaseExpired(t) => RowsTyped'
           /\ \A r \in Runners : RunRow(r) => RowsTyped'
<1>0. RowsTyped /\ age \in [Runners -> 0..MaxPause]
  BY DEF TypeOK, RowsTyped
<1> USE BoundsAssumption DEF RowsTyped, Status, Active, Terminal
<1>1. ASSUME NEW t \in Tasks, CreateSystemTask(t) PROVE RowsTyped'
  BY <1>0, <1>1 DEF CreateSystemTask, InsertRow
<1>2. ASSUME NEW t \in Tasks, NEW s \in Terminal, EndRow(t, s) PROVE RowsTyped'
  BY <1>0, <1>2 DEF EndRow
<1>3. ASSUME NEW t, MarkSystemTaskLeaseExpired(t) PROVE RowsTyped'
  BY <1>0, <1>2, <1>3 DEF MarkSystemTaskLeaseExpired, row
<1>4. ASSUME NEW r \in Runners, RunRow(r) PROVE RowsTyped'
  <2>1. (IF age[r] < Interval THEN age[r] ELSE Interval) \in 0..Interval
    BY <1>0
  <2> QED BY <1>0, <1>4, <2>1 DEF RunRow
<1> QED BY <1>1, <1>2, <1>3, <1>4

\* Leaving a pass, or its cleanup, resets what the runner remembers.
LEMMA PassTypes ==
    ASSUME TypeOK, NEW r \in Runners
    PROVE  /\ \A label \in Pc : Goto(r, label) => pc' \in [Runners -> Pc]
           /\ EndPass(r) => /\ pc' \in [Runners -> Pc] /\ cand' \in [Runners -> Tasks \cup {NoTask}]
                            /\ seen' \in [Runners -> SeenLock] /\ age' \in [Runners -> 0..MaxPause]
           /\ LeaveExpire(r) => /\ pc' \in [Runners -> Pc] /\ seen' \in [Runners -> SeenLock]
                                /\ age' \in [Runners -> 0..MaxPause]
           /\ \A t \in Tasks, phase \in Phase :
                 SetHb(r, t, phase) => hb' \in [Runners -> [Tasks -> Phase]]
<1>1. ASSUME NEW label \in Pc, Goto(r, label) PROVE pc' \in [Runners -> Pc]
  BY <1>1 DEF Goto, TypeOK
<1>2. "pass" \in Pc /\ "sched" \in Pc
  BY DEF Pc
<1>3. ASSUME NEW t \in Tasks, NEW phase \in Phase, SetHb(r, t, phase)
      PROVE hb' \in [Runners -> [Tasks -> Phase]]
  BY <1>3 DEF SetHb, TypeOK
<1>4. 0 \in 0..MaxPause
  BY BoundsAssumption
<1>5. EndPass(r) => /\ pc' \in [Runners -> Pc] /\ cand' \in [Runners -> Tasks \cup {NoTask}]
                    /\ seen' \in [Runners -> SeenLock] /\ age' \in [Runners -> 0..MaxPause]
  BY <1>1, <1>2, <1>4, LockTypes DEF EndPass, TypeOK
<1>6. LeaveExpire(r) => /\ pc' \in [Runners -> Pc] /\ seen' \in [Runners -> SeenLock]
                        /\ age' \in [Runners -> 0..MaxPause]
  BY <1>1, <1>2, <1>4, LockTypes DEF LeaveExpire, TypeOK
<1> QED BY <1>1, <1>3, <1>5, <1>6

\* Every action keeps the rows, the lock row and the runners' local state typed.
LEMMA TypeStep == TypeOK /\ [Next]_vars => TypeOK'
<1> SUFFICES ASSUME TypeOK, [Next]_vars PROVE TypeOK'
    OBVIOUS
<1>0. /\ Pc = {"insert", "look", "takeover", "markold", "run", "mark", "delete", "pass",
               "sched", "create", "find", "release", "dead"}
      /\ Phase = {"none", "live", "cancelled", "release"}
      /\ 0 \in 0..MaxPause
  BY BoundsAssumption DEF Pc, TimedPc, ClaimPc, Phase
<1>1. CASE EnqueueSystemTask
  BY <1>1, RowTypes DEF EnqueueSystemTask, local, RowsTyped, TypeOK
<1>2. CASE Tick
  <2>0. lock \in LockRow /\ since \in [Tasks -> 0..Interval] /\ age \in [Runners -> 0..MaxPause]
    BY DEF TypeOK
  <2>1. lock' \in LockRow
    BY <1>2, <2>0, BoundsAssumption DEF Tick, LockRow, Clip
  <2>2. since' \in [Tasks -> 0..Interval]
    BY <1>2, <2>0, BoundsAssumption DEF Tick
  <2>3. age' \in [Runners -> 0..MaxPause]
    BY <1>2, <2>0, BoundsAssumption DEF Tick
  <2> QED
    BY <1>2, <2>1, <2>2, <2>3 DEF Tick, TypeOK
<1>3. ASSUME NEW r \in Runners, PassStep(r) PROVE TypeOK'
  <2> USE <1>0, LockTypes, RowTypes, PassTypes DEF local, RowsTyped, TypeOK
  <2>1. CASE ExpireRead(r)
    <3>1. pc' \in [Runners -> Pc]
      BY <2>1 DEF ExpireRead
    <3>2. seen' \in [Runners -> SeenLock]
      BY <2>1 DEF ExpireRead
    <3>3. UNCHANGED <<status, key, by, since, lock, cand, age, hb>>
      BY <2>1 DEF ExpireRead, row
    <3> QED BY <3>1, <3>2, <3>3
  <2>2. CASE ExpireMark(r)
    BY <2>2 DEF ExpireMark, row
  <2>3. CASE ExpireDelete(r)
    BY <2>3 DEF ExpireDelete, row
  <2>4. CASE SchedulerRead(r)
    BY <2>4 DEF SchedulerRead, row
  <2>5. CASE SchedulerCreate(r)
    BY <2>5 DEF SchedulerCreate, row
  <2>6. CASE ClaimRead(r)
    <3>1. CASE EndPass(r)
      BY <2>6, <3>1 DEF ClaimRead, row
    <3>2. CASE ~EndPass(r)
      <4>1. PICK t \in Tasks : cand' = [cand EXCEPT ![r] = t]
        BY <2>6, <3>2 DEF ClaimRead
      <4>2. cand' \in [Runners -> Tasks \cup {NoTask}]
        BY <4>1
      <4>3. pc' \in [Runners -> Pc]
        BY <2>6, <3>2 DEF ClaimRead
      <4>4. UNCHANGED <<status, key, by, since, lock, seen, age, hb>>
        BY <2>6, <3>2 DEF ClaimRead, row
      <4> QED BY <4>2, <4>3, <4>4
    <3> QED BY <3>1, <3>2
  <2>7. CASE AcquireInsert(r)
    BY <2>7 DEF AcquireInsert, row
  <2>12. CASE AcquireLook(r)
    <3>1. CASE EndPass(r)
      BY <2>12, <3>1 DEF AcquireLook, row
    <3>2. CASE ~EndPass(r)
      <4>1. seen' = [seen EXCEPT ![r] = LockKey] /\ Goto(r, "takeover")
        BY <2>12, <3>2 DEF AcquireLook
      <4>2. seen' \in [Runners -> SeenLock]
        BY <4>1
      <4>3. pc' \in [Runners -> Pc]
        BY <4>1
      <4>4. UNCHANGED <<status, key, by, since, lock, cand, age, hb>>
        BY <2>12, <3>2 DEF AcquireLook, row
      <4> QED BY <4>2, <4>3, <4>4
    <3> QED BY <3>1, <3>2
  <2>8. CASE AcquireTakeover(r)
    BY <2>8 DEF AcquireTakeover, row
  <2>9. CASE ClaimMarkOld(r)
    BY <2>9 DEF ClaimMarkOld, row
  <2>10. CASE ClaimRun(r)
    <3>0. hb \in [Runners -> [Tasks -> Phase]] /\ "live" \in Phase
      OBVIOUS
    <3>1. hb' \in [Runners -> [Tasks -> Phase]]
      <4> HIDE LockTypes, RowTypes, PassTypes DEF TypeOK, RowsTyped
      <4> QED BY <2>10, <3>0 DEF ClaimRun
    <3> QED BY <2>10, <3>1 DEF ClaimRun, row
  <2>11. CASE ClaimRelease(r)
    BY <2>11 DEF ClaimRelease, ReleaseSystemTaskLock, row
  <2> QED
    BY <1>3, <2>1, <2>2, <2>3, <2>4, <2>5, <2>6, <2>7, <2>8, <2>9, <2>10, <2>11, <2>12 DEF PassStep
<1>4. ASSUME NEW r \in Runners, Crash(r) PROVE TypeOK'
  <2>1. hb' \in [Runners -> [Tasks -> Phase]]
    BY <1>0, <1>4 DEF Crash, TypeOK
  <2>2. pc' \in [Runners -> Pc]
    BY <1>0, <1>4, PassTypes DEF Crash
  <2> QED BY <1>0, <1>4, <2>1, <2>2, LockTypes DEF Crash, TypeOK, row
<1>5. ASSUME NEW r \in Runners, NEW t \in Tasks,
             Heartbeat(r, t) \/ UpdateSystemTaskState(r, t) \/ HandlerEnd(r, t)
      PROVE TypeOK'
  <2> USE <1>0, PassTypes DEF local, row
  <2>1. CASE Heartbeat(r, t)
    <3>1. lock' \in LockRow
      <4>1. lock \in LockRow BY DEF TypeOK
      <4> QED BY <2>1, <4>1, BoundsAssumption DEF Heartbeat, LockRow, Clip
    <3> QED BY <2>1, <3>1 DEF Heartbeat, TypeOK
  <2>2. CASE UpdateSystemTaskState(r, t)
    <3>1. [since EXCEPT ![t] = 0] \in [Tasks -> 0..Interval]
      BY BoundsAssumption DEF TypeOK
    <3> QED BY <2>2, <3>1 DEF UpdateSystemTaskState, TypeOK
  <2>3. CASE FinishSystemTask(r, t)
    BY <2>3, RowTypes DEF FinishSystemTask, RowsTyped, TypeOK
  <2>4. CASE FinishRelease(r, t)
    BY <2>4, LockTypes DEF FinishRelease, ReleaseSystemTaskLock, TypeOK
  <2>5. CASE HandlerReturn(r, t)
    BY <2>5 DEF HandlerReturn, TypeOK
  <2> QED
    BY <1>5, <2>1, <2>2, <2>3, <2>4, <2>5 DEF HandlerEnd
<1>6. CASE UNCHANGED vars
  BY <1>6 DEF vars, row, TypeOK
<1> QED
  BY <1>1, <1>2, <1>3, <1>4, <1>5, <1>6 DEF Next

\* Type correctness of the specification.
THEOREM TypeCorrect == Spec => []TypeOK
<1>1. Init => TypeOK
  BY BoundsAssumption DEF Init, TypeOK, Tasks, NoTask, NoLock, Active, Terminal, Status,
     Clip, LockRow, SeenLock, Unseen, Phase, Pc
<1> QED
  BY <1>1, TypeStep, PTL DEF Spec

-----------------------------------------------------------------------------
(* One active row, one executor per row.                                    *)

SafeInv == ActiveKeyExclusive /\ ExecutorInv /\ OneExecutor /\ ClaimInv

\* The part of an action that writes the table preserves what SafeInv says of
\* the rows; handlers and claims of other rows are not disturbed.
LEMMA CreateSafe ==
    ASSUME TypeOK, SafeInv, NEW t \in Tasks, CreateSystemTask(t), UNCHANGED <<hb, cand>>,
           \A r \in Runners : pc'[r] \in ClaimPc \cup {"release"} => pc'[r] = pc[r]
    PROVE  SafeInv'
<1> USE DEF SafeInv, TypeOK, CreateSystemTask, InsertRow, NextRow, KeyFree, Created
<1>1. ActiveKeyExclusive'
  BY DEF ActiveKeyExclusive, Active
<1>2. ExecutorInv'
  BY DEF ExecutorInv, Terminal
<1>3. OneExecutor'
  BY DEF OneExecutor, Terminal
<1>4. ClaimInv'
  BY RunnersAssumption DEF ClaimInv
<1> QED BY <1>1, <1>2, <1>3, <1>4

\* Ending a running row frees its key and changes neither executors nor claims.
LEMMA EndSafe ==
    ASSUME TypeOK, SafeInv, NEW t \in Tasks, NEW s \in Terminal, status[t] = "running",
           EndRow(t, s), UNCHANGED cand,
           \A r \in Runners : pc'[r] \in ClaimPc \cup {"release"} =>
               pc[r] \in ClaimPc \cup {"release"},
           \A r \in Runners, u \in Tasks : hb'[r][u] # hb[r][u] =>
               hb'[r][u] = "none" \/ (u = t /\ hb[r][u] # "none")
    PROVE  SafeInv'
<1> USE DEF SafeInv, TypeOK, EndRow, Created
<1>1. ActiveKeyExclusive'
  BY DEF ActiveKeyExclusive, Active, Terminal
<1>2. ExecutorInv'
  BY DEF ExecutorInv, Terminal
<1>3. OneExecutor'
  BY DEF OneExecutor, Terminal
<1>4. ClaimInv'
  BY DEF ClaimInv, Terminal
<1> QED BY <1>1, <1>2, <1>3, <1>4

\* A step that writes no row, ends handlers and claims or moves them along
\* within a claim, preserves SafeInv.
LEMMA QuietSafe ==
    ASSUME TypeOK, SafeInv, UNCHANGED <<status, key, by>>,
           \A r \in Runners : pc'[r] \in ClaimPc \cup {"release"} =>
               pc[r] \in ClaimPc \cup {"release"} /\ cand'[r] = cand[r],
           \A r \in Runners, u \in Tasks : hb'[r][u] \in {"none", "cancelled", hb[r][u]},
           \A r \in Runners, u \in Tasks : hb'[r][u] = "cancelled" => hb[r][u] # "none"
    PROVE  SafeInv'
<1> USE DEF SafeInv, TypeOK
<1>1. ActiveKeyExclusive'
  BY DEF ActiveKeyExclusive
<1>2. ExecutorInv'
  BY DEF ExecutorInv
<1>3. OneExecutor'
  BY DEF OneExecutor
<1>4. ClaimInv'
  BY DEF ClaimInv, Created
<1> QED BY <1>1, <1>2, <1>3, <1>4

\* MarkSystemTaskLeaseExpired either ends a running row or writes nothing.
LEMMA MarkSafe ==
    ASSUME TypeOK, SafeInv, NEW t, MarkSystemTaskLeaseExpired(t), UNCHANGED <<cand, hb>>,
           \A r \in Runners : pc'[r] \in ClaimPc \cup {"release"} =>
               pc[r] \in ClaimPc \cup {"release"}
    PROVE  SafeInv'
<1>1. CASE t \in Tasks /\ status[t] = "running"
  <2>1. EndRow(t, "failed")
    BY <1>1 DEF MarkSystemTaskLeaseExpired
  <2> QED BY <1>1, <2>1, EndSafe DEF Terminal
<1>2. CASE ~(t \in Tasks /\ status[t] = "running")
  <2>1. UNCHANGED <<status, key, by>>
    BY <1>2 DEF MarkSystemTaskLeaseExpired, row
  <2> QED BY <2>1, QuietSafe DEF TypeOK, Phase
<1> QED BY <1>1, <1>2

\* Every action preserves SafeInv.
LEMMA SafeStep == TypeOK /\ SafeInv /\ [Next]_vars => SafeInv'
<1> SUFFICES ASSUME TypeOK, SafeInv, [Next]_vars PROVE SafeInv'
    OBVIOUS
<1> USE DEF local
<1>0. ClaimPc \cup {"release"} = {"insert", "look", "takeover", "markold", "run", "release"}
  BY DEF ClaimPc
<1>1. CASE EnqueueSystemTask
  BY <1>1, CreateSafe DEF EnqueueSystemTask
<1>2. CASE Tick
  BY <1>2, QuietSafe DEF Tick
<1>3. ASSUME NEW r \in Runners, PassStep(r) PROVE SafeInv'
  <2>0. pc \in [Runners -> Pc] /\ cand \in [Runners -> Tasks \cup {NoTask}]
    BY DEF TypeOK
  <2>1. CASE ExpireRead(r)
    BY <1>0, <2>0, <2>1, QuietSafe DEF ExpireRead, Goto, row
  <2>2. CASE ExpireMark(r)
    <3>1. \A q \in Runners : pc'[q] \in ClaimPc \cup {"release"} =>
               pc[q] \in ClaimPc \cup {"release"}
      BY <1>0, <2>0, <2>2 DEF ExpireMark, LeaveExpire, Goto
    <3>2. CASE MarkSystemTaskLeaseExpired(seen[r].task)
      BY <2>2, <3>1, <3>2, MarkSafe DEF ExpireMark
    <3>3. CASE UNCHANGED row
      BY <2>2, <3>1, <3>3, QuietSafe DEF ExpireMark, row
    <3> QED BY <2>2, <3>2, <3>3 DEF ExpireMark
  <2>3. CASE ExpireDelete(r)
    BY <1>0, <2>0, <2>3, QuietSafe DEF ExpireDelete, LeaveExpire, Goto, row
  <2>4. CASE SchedulerRead(r)
    BY <1>0, <2>0, <2>4, QuietSafe DEF SchedulerRead, Goto, row
  <2>5. CASE SchedulerCreate(r)
    <3>1. \A q \in Runners : pc'[q] \in ClaimPc \cup {"release"} => pc'[q] = pc[q]
      BY <1>0, <2>0, <2>5 DEF SchedulerCreate, Goto
    <3>2. CASE UNCHANGED row
      BY <2>5, <3>1, <3>2, QuietSafe DEF SchedulerCreate, row
    <3>3. CASE \E t \in Tasks : CreateSystemTask(t)
      BY <2>5, <3>1, <3>3, CreateSafe DEF SchedulerCreate
    <3> QED BY <2>5, <3>2, <3>3 DEF SchedulerCreate
  <2>6. CASE ClaimRead(r)
    <3>1. CASE EndPass(r)
      BY <1>0, <2>0, <2>6, <3>1, QuietSafe DEF ClaimRead, EndPass, Goto, row
    <3>2. ASSUME NEW t \in Tasks, status[t] = "pending", cand' = [cand EXCEPT ![r] = t],
                 Goto(r, "insert")
          PROVE  SafeInv'
      <4>1. by[t] = NoRunner
        BY <3>2 DEF SafeInv, ExecutorInv
      <4>2. ClaimInv'
        BY <1>0, <2>0, <2>6, <3>2, <4>1, RunnersAssumption
           DEF SafeInv, ClaimInv, ClaimRead, Goto, Created, row
      <4> QED BY <2>6, <4>2
              DEF ClaimRead, row, SafeInv, ActiveKeyExclusive, ExecutorInv, OneExecutor
    <3> QED BY <2>6, <3>1, <3>2 DEF ClaimRead
  <2>7. CASE AcquireInsert(r)
    BY <1>0, <2>0, <2>7, QuietSafe DEF AcquireInsert, Goto, row
  <2>12. CASE AcquireLook(r)
    BY <1>0, <2>0, <2>12, QuietSafe DEF AcquireLook, EndPass, Goto, row
  <2>8. CASE AcquireTakeover(r)
    BY <1>0, <2>0, <2>8, QuietSafe DEF AcquireTakeover, EndPass, Goto, row
  <2>9. CASE ClaimMarkOld(r)
    <3>1. \A q \in Runners : pc'[q] \in ClaimPc \cup {"release"} =>
               pc[q] \in ClaimPc \cup {"release"}
      BY <1>0, <2>0, <2>9 DEF ClaimMarkOld, Goto
    <3>2. CASE MarkSystemTaskLeaseExpired(seen[r].task)
      BY <2>9, <3>1, <3>2, MarkSafe DEF ClaimMarkOld
    <3>3. CASE UNCHANGED row
      BY <2>9, <3>1, <3>3, QuietSafe DEF ClaimMarkOld, row
    <3> QED BY <2>9, <3>2, <3>3 DEF ClaimMarkOld
  <2>10. CASE ClaimRun(r)
    <3>1. CASE Goto(r, "release") /\ UNCHANGED <<row, local, hb>>
      BY <1>0, <2>0, <2>10, <3>1, QuietSafe DEF ClaimRun, Goto, row
    <3>2. CASE RunRow(r) /\ status[cand[r]] = "pending"
      <4> DEFINE t == cand[r]
      <4>1. t \in Tasks
        BY <1>0, <2>10 DEF ClaimRun, SafeInv, ClaimInv
      <4>2. /\ status' = [status EXCEPT ![t] = "running"] /\ by' = [by EXCEPT ![t] = r]
            /\ UNCHANGED key
        BY <3>2 DEF RunRow
      <4>3. \A q \in Runners, u \in Tasks : hb'[q][u] = hb[q][u] \/ (q = r /\ u = t /\ hb'[q][u] = "live")
        BY <2>10, <4>1 DEF ClaimRun, TypeOK
      <4>4. \A q \in Runners : hb[q][t] = "none"
        BY <3>2, <4>1 DEF SafeInv, OneExecutor, Terminal
      <4>5. ActiveKeyExclusive'
        BY <3>2, <4>1, <4>2 DEF SafeInv, ActiveKeyExclusive, TypeOK, Active
      <4>6. ExecutorInv'
        BY <4>1, <4>2, <4>3, <4>4 DEF SafeInv, ExecutorInv, TypeOK, Terminal
      <4>7. OneExecutor'
        BY <4>1, <4>2, <4>3, <4>4 DEF SafeInv, OneExecutor, TypeOK
      <4>8. pc'[r] = "pass" /\ \A q \in Runners \ {r} : pc'[q] = pc[q] /\ cand'[q] = cand[q]
        BY <2>0, <2>10, <3>2, <4>1, <4>2 DEF ClaimRun, EndPass, Goto, row, TypeOK
      <4>9. ClaimInv'
        BY <1>0, <2>0, <4>1, <4>2, <4>8 DEF SafeInv, ClaimInv, TypeOK, Created
      <4> QED BY <4>5, <4>6, <4>7, <4>9 DEF SafeInv
    <3> QED BY <2>10, <3>1, <3>2 DEF ClaimRun
  <2>11. CASE ClaimRelease(r)
    BY <1>0, <2>0, <2>11, QuietSafe DEF ClaimRelease, EndPass, Goto, row
  <2> QED
    BY <1>3, <2>1, <2>2, <2>3, <2>4, <2>5, <2>6, <2>7, <2>8, <2>9, <2>10, <2>11, <2>12 DEF PassStep
<1>4. ASSUME NEW r \in Runners, Crash(r) PROVE SafeInv'
  BY <1>0, <1>4, QuietSafe DEF Crash, Goto, TypeOK, row
<1>5. ASSUME NEW r \in Runners, NEW t \in Tasks,
             Heartbeat(r, t) \/ UpdateSystemTaskState(r, t) \/ HandlerEnd(r, t)
      PROVE SafeInv'
  <2>0. hb \in [Runners -> [Tasks -> Phase]]
    BY DEF TypeOK
  <2>1. CASE Heartbeat(r, t)
    BY <2>0, <2>1, QuietSafe DEF Heartbeat, SetHb, row
  <2>2. CASE UpdateSystemTaskState(r, t)
    BY <2>0, <2>2, QuietSafe DEF UpdateSystemTaskState, SetHb, row
  <2>3. CASE FinishSystemTask(r, t)
    <3>1. CASE SetHb(r, t, "none") /\ UNCHANGED <<row, pc, cand>>
      BY <2>0, <3>1, QuietSafe DEF SetHb, row
    <3>2. ASSUME NEW s \in Terminal, EndRow(t, s), Fenced(r, t) PROVE SafeInv'
      BY <2>0, <2>3, <3>2, EndSafe DEF FinishSystemTask, SetHb, Fenced
    <3> QED BY <2>3, <3>1, <3>2 DEF FinishSystemTask
  <2>4. CASE FinishRelease(r, t)
    BY <2>0, <2>4, QuietSafe DEF FinishRelease, SetHb, row
  <2>5. CASE HandlerReturn(r, t)
    BY <2>0, <2>5, QuietSafe DEF HandlerReturn, SetHb, row
  <2> QED
    BY <1>5, <2>1, <2>2, <2>3, <2>4, <2>5 DEF HandlerEnd
<1>6. CASE UNCHANGED vars
  BY <1>6, QuietSafe DEF vars, row
<1> QED
  BY <1>1, <1>2, <1>3, <1>4, <1>5, <1>6 DEF Next

\* SafeInv holds in every reachable state.
LEMMA SafeInvariant == Spec => []SafeInv
<1>1. Init => SafeInv
  BY DEF Init, SafeInv, ActiveKeyExclusive, ExecutorInv, OneExecutor, ClaimInv, ClaimPc, Active
<1> QED
  BY <1>1, SafeStep, TypeCorrect, PTL DEF Spec

\* At most one active row per type, and the active key is exactly its.
THEOREM ActiveKey == Spec => []ActiveKeyExclusive
<1>1. SafeInv => ActiveKeyExclusive
  BY DEF SafeInv
<1> QED BY <1>1, SafeInvariant, PTL

\* A row is executed by the runner named in locked_by and by no other.
THEOREM SingleExecutor == Spec => []OneExecutor
<1>1. SafeInv => OneExecutor
  BY DEF SafeInv
<1> QED BY <1>1, SafeInvariant, PTL

-----------------------------------------------------------------------------
(* Rows only advance.                                                       *)

RowAdvances(t) ==
    /\ status[t] \in Terminal => status'[t] = status[t] /\ by'[t] = by[t]
    /\ status[t] = "running" => status'[t] \notin {"none", "pending"}
    /\ status[t] = "pending" => status'[t] \in Active

\* No step moves a row backwards or rewrites a terminal one.
LEMMA AdvanceStep == TypeOK /\ SafeInv /\ [Next]_vars => \A t \in Tasks : RowAdvances(t)
<1> SUFFICES ASSUME TypeOK, SafeInv, [Next]_vars, NEW u \in Tasks PROVE RowAdvances(u)
    OBVIOUS
<1> USE DEF RowAdvances, Active, Terminal
<1>0. status \in [Tasks -> Status] /\ by \in [Tasks -> Runners \cup {NoRunner}]
  BY DEF TypeOK
<1>1. ASSUME UNCHANGED <<status, by>> PROVE RowAdvances(u)
  BY <1>0, <1>1
<1>2. ASSUME NEW t \in Tasks, CreateSystemTask(t) PROVE RowAdvances(u)
  BY <1>0, <1>2 DEF CreateSystemTask, NextRow, Created, InsertRow
<1>3. ASSUME NEW t \in Tasks, NEW s \in Terminal, status[t] = "running", EndRow(t, s)
      PROVE  RowAdvances(u)
  BY <1>0, <1>3 DEF EndRow
<1>4. ASSUME NEW t, MarkSystemTaskLeaseExpired(t) PROVE RowAdvances(u)
  BY <1>0, <1>1, <1>3, <1>4 DEF MarkSystemTaskLeaseExpired, row
<1>5. ASSUME NEW r \in Runners, pc[r] = "run", status[cand[r]] = "pending", RunRow(r)
      PROVE  RowAdvances(u)
  <2>1. cand[r] \in Tasks
    BY <1>5 DEF SafeInv, ClaimInv, ClaimPc
  <2> QED BY <1>0, <1>5, <2>1 DEF RunRow
<1>6. CASE EnqueueSystemTask
  BY <1>2, <1>6 DEF EnqueueSystemTask
<1>7. CASE Tick
  BY <1>1, <1>7 DEF Tick
<1>8. ASSUME NEW r \in Runners, PassStep(r) PROVE RowAdvances(u)
  <2>1. CASE ExpireMark(r)
    BY <1>1, <1>4, <2>1 DEF ExpireMark, row
  <2>2. CASE ClaimMarkOld(r)
    BY <1>1, <1>4, <2>2 DEF ClaimMarkOld, row
  <2>3. CASE SchedulerCreate(r)
    BY <1>1, <1>2, <2>3 DEF SchedulerCreate, row
  <2>4. CASE ClaimRun(r)
    BY <1>1, <1>5, <2>4 DEF ClaimRun, row
  <2> QED BY <1>1, <1>8, <2>1, <2>2, <2>3, <2>4 DEF PassStep, ExpireRead, ExpireDelete,
             SchedulerRead, ClaimRead, AcquireInsert, AcquireLook, AcquireTakeover, ClaimRelease, row
<1>9. ASSUME NEW r \in Runners, Crash(r) PROVE RowAdvances(u)
  BY <1>1, <1>9 DEF Crash, row
<1>10. ASSUME NEW r \in Runners, NEW t \in Tasks,
              Heartbeat(r, t) \/ UpdateSystemTaskState(r, t) \/ HandlerEnd(r, t)
       PROVE  RowAdvances(u)
  <2>1. CASE FinishSystemTask(r, t)
    BY <1>1, <1>3, <2>1 DEF FinishSystemTask, Fenced, row
  <2> QED BY <1>1, <1>10, <2>1 DEF HandlerEnd, Heartbeat, UpdateSystemTaskState, FinishRelease,
             HandlerReturn, row
<1>11. CASE UNCHANGED vars
  BY <1>1, <1>11 DEF vars, row
<1> QED
  BY <1>6, <1>7, <1>8, <1>9, <1>10, <1>11 DEF Next

\* Terminal rows keep their outcome and executor; no row moves backwards.
THEOREM RowsAdvance == Spec => RowsOnlyAdvance
<1>1. TypeOK /\ SafeInv /\ [Next]_vars => [\A t \in Tasks : RowAdvances(t)]_vars
  BY AdvanceStep
<1>2. [\A t \in Tasks : RowAdvances(t)]_vars =>
      [\A t \in Tasks :
          /\ status[t] \in Terminal =>
                status'[t] = status[t] /\ by'[t] = by[t]
          /\ status[t] = "running" => status'[t] \notin {"none", "pending"}
          /\ status[t] = "pending" => status'[t] \in Active]_vars
  BY DEF RowAdvances
<1> QED
  BY <1>1, <1>2, TypeCorrect, SafeInvariant, PTL DEF Spec, RowsOnlyAdvance

-----------------------------------------------------------------------------
(* Success needs the lease.                                                 *)

SucceedsWithLease(t) ==
    status[t] # "succeeded" /\ status'[t] = "succeeded" =>
        HoldsLease(by[t], t) /\ hb[by[t]][t] \in {"live", "cancelled"}

\* Every other statement that writes a status writes another one.
LEMMA SuccessStep == TypeOK /\ [Next]_vars => \A t \in Tasks : SucceedsWithLease(t)
<1> SUFFICES ASSUME TypeOK, [Next]_vars, NEW u \in Tasks PROVE SucceedsWithLease(u)
    OBVIOUS
<1>0. status \in [Tasks -> Status]
  BY DEF TypeOK
<1>1. ASSUME UNCHANGED status PROVE SucceedsWithLease(u)
  BY <1>1 DEF SucceedsWithLease
<1>2. ASSUME NEW t, NEW s, s # "succeeded", status' = [status EXCEPT ![t] = s]
      PROVE  SucceedsWithLease(u)
  BY <1>0, <1>2 DEF SucceedsWithLease
<1>3. ASSUME NEW t, MarkSystemTaskLeaseExpired(t) PROVE SucceedsWithLease(u)
  BY <1>1, <1>2, <1>3 DEF MarkSystemTaskLeaseExpired, EndRow, row
<1>4. ASSUME NEW t \in Tasks, CreateSystemTask(t) PROVE SucceedsWithLease(u)
  BY <1>2, <1>4 DEF CreateSystemTask, InsertRow
<1>5. CASE EnqueueSystemTask
  BY <1>4, <1>5 DEF EnqueueSystemTask
<1>6. CASE Tick
  BY <1>1, <1>6 DEF Tick
<1>7. ASSUME NEW r \in Runners, PassStep(r) PROVE SucceedsWithLease(u)
  <2>1. CASE ExpireMark(r)
    BY <1>1, <1>3, <2>1 DEF ExpireMark, row
  <2>2. CASE ClaimMarkOld(r)
    BY <1>1, <1>3, <2>2 DEF ClaimMarkOld, row
  <2>3. CASE SchedulerCreate(r)
    BY <1>1, <1>4, <2>3 DEF SchedulerCreate, row
  <2>4. CASE ClaimRun(r)
    BY <1>1, <1>2, <2>4 DEF ClaimRun, RunRow, row
  <2> QED BY <1>1, <1>7, <2>1, <2>2, <2>3, <2>4 DEF PassStep, ExpireRead, ExpireDelete,
             SchedulerRead, ClaimRead, AcquireInsert, AcquireLook, AcquireTakeover, ClaimRelease, row
<1>8. ASSUME NEW r \in Runners, Crash(r) PROVE SucceedsWithLease(u)
  BY <1>1, <1>8 DEF Crash, row
<1>9. ASSUME NEW r \in Runners, NEW t \in Tasks,
             Heartbeat(r, t) \/ UpdateSystemTaskState(r, t) \/ HandlerEnd(r, t)
      PROVE  SucceedsWithLease(u)
  <2>1. CASE FinishSystemTask(r, t)
    <3>1. CASE Fenced(r, t) /\ \E s \in Terminal : EndRow(t, s)
      <4>1. hb[r][t] \in {"live", "cancelled"} /\ by[t] = r /\ HoldsLease(r, t)
        BY <2>1, <3>1 DEF FinishSystemTask, Fenced
      <4>2. u # t => status'[u] = status[u]
        BY <1>0, <3>1 DEF EndRow
      <4> QED BY <4>1, <4>2 DEF SucceedsWithLease
    <3> QED BY <1>1, <2>1, <3>1 DEF FinishSystemTask, row
  <2> QED BY <1>1, <1>9, <2>1 DEF HandlerEnd, Heartbeat, UpdateSystemTaskState, FinishRelease,
             HandlerReturn, row
<1>10. CASE UNCHANGED vars
  BY <1>1, <1>10 DEF vars, row
<1> QED
  BY <1>5, <1>6, <1>7, <1>8, <1>9, <1>10 DEF Next

\* FinishSystemTask alone reports success, for the runner that executes the row
\* and while its lease lasts: a handler that returns after its lease was taken over
\* changes nothing, whatever stalls, crashes or fails.
THEOREM SuccessWithLease == Spec => SuccessNeedsLease
<1>1. TypeOK /\ [Next]_vars => [\A t \in Tasks : SucceedsWithLease(t)]_vars
  BY SuccessStep
<1>2. [\A t \in Tasks : SucceedsWithLease(t)]_vars =>
      [\A t \in Tasks : status[t] # "succeeded" /\ status'[t] = "succeeded" =>
          HoldsLease(by[t], t) /\ hb[by[t]][t] \in {"live", "cancelled"}]_vars
  BY DEF SucceedsWithLease
<1> QED
  BY <1>1, <1>2, TypeCorrect, PTL DEF Spec, SuccessNeedsLease

-----------------------------------------------------------------------------
(* A running row keeps its lock row, if no claim stalls longer than the      *)
(* lease.                                                                   *)

\* The numbers the comparisons are about.
LEMMA LeaseNumbers ==
    ASSUME TypeOK
    PROVE  /\ lock.left \in Int /\ lock.task \in Tasks \cup {NoTask} /\ TTL \in Nat /\ MaxPause \in Nat
           /\ \A r \in Runners : age[r] \in Nat /\ age[r] <= MaxPause
           /\ NoTask \notin Tasks /\ NoLock.task = NoTask
<1>1. lock \in LockRow /\ age \in [Runners -> 0..MaxPause]
  BY DEF TypeOK
<1>2. NoTask \notin Tasks
  BY BoundsAssumption DEF Tasks, NoTask
<1> QED BY <1>1, <1>2, BoundsAssumption DEF LockRow, Clip, NoLock

\* A step that leaves the lock alone and starts no row preserves LeaseInv: a
\* claim may only go on from "markold" to "run" or end, a cleanup that reaches
\* its delete has just made sure that its row is not running.
LEMMA LeaseQuiet ==
    ASSUME TypeOK, LeaseInv, UNCHANGED lock,
           \A t \in Tasks : status'[t] = "running" => status[t] = "running" /\ by'[t] = by[t],
           \A r \in Runners : pc'[r] \in {"markold", "run"} =>
               pc[r] \in {"markold", "run"} /\ cand'[r] = cand[r],
           \A r \in Runners : pc'[r] \in ClaimPc \cup {"delete"} => age'[r] = age[r],
           \A r \in Runners : pc'[r] \in ClaimPc =>
               pc[r] \in ClaimPc \/ \A t \in Tasks : status'[t] # "running",
           \A r \in Runners : pc'[r] = "delete" =>
               \/ pc[r] = "delete" /\ seen'[r] = seen[r]
               \/ seen'[r].task \notin Tasks \/ status'[seen'[r].task] # "running"
    PROVE  LeaseInv'
<1>0. "markold" \in ClaimPc /\ "run" \in ClaimPc
  BY DEF ClaimPc
<1>1. RunningHasLock'
  BY DEF LeaseInv, RunningHasLock
<1>2. ClaimHoldsLease'
  BY <1>0 DEF LeaseInv, ClaimHoldsLease
<1>3. StartedLeaseOutlives'
  BY DEF LeaseInv, StartedLeaseOutlives
<1> QED BY <1>1, <1>2, <1>3 DEF LeaseInv

\* Under LeaseInv the lock row that anybody finds expired is neither that of a
\* running row nor that of a claim in progress, when it is overwritten...
LEMMA ExpiredIsFree ==
    ASSUME TypeOK, SafeInv, LeaseInv, MaxPause <= TTL, NEW r \in Runners, Expired(age[r])
    PROVE  /\ pc[r] \in ClaimPc => \A t \in Tasks : status[t] # "running"
           /\ pc[r] = "delete" => status[seen[r].task] # "running" \/ seen[r].task \notin Tasks
           /\ \A q \in Runners : pc[q] \notin {"markold", "run"}
<1>1. lock.left < -age[r]
  BY DEF Expired
<1>2. ASSUME NEW q \in Runners, pc[q] \in {"markold", "run"} PROVE FALSE
  <2>1. lock.left >= TTL - age[q]
    BY <1>2 DEF LeaseInv, ClaimHoldsLease
  <2> QED BY <1>1, <2>1, LeaseNumbers
<1> QED BY <1>1, <1>2, LeaseNumbers DEF LeaseInv, StartedLeaseOutlives

\* ... or deleted: releasing a lock by task and runner never hits them either.
LEMMA LoseLock ==
    ASSUME TypeOK, LeaseInv, UNCHANGED <<row, cand, hb>>,
           \A t \in Tasks : status[t] = "running" => lock.task # t \/ UNCHANGED lock,
           \A q \in Runners : pc[q] \in {"markold", "run"} => UNCHANGED lock,
           \A q \in Runners : pc'[q] \in ClaimPc \cup {"delete"} =>
               pc'[q] = pc[q] /\ age'[q] = age[q] /\ seen'[q] = seen[q]
    PROVE  LeaseInv'
<1>0. "markold" \in ClaimPc /\ "run" \in ClaimPc
  BY DEF ClaimPc
<1>1. ASSUME NEW t \in Tasks, status[t] = "running" PROVE UNCHANGED lock
  BY <1>1 DEF LeaseInv, RunningHasLock
<1>2. RunningHasLock'
  BY <1>1 DEF LeaseInv, RunningHasLock, row
<1>3. ClaimHoldsLease'
  BY <1>0 DEF LeaseInv, ClaimHoldsLease
<1>4. StartedLeaseOutlives'
  BY <1>1 DEF LeaseInv, StartedLeaseOutlives, row
<1> QED BY <1>2, <1>3, <1>4 DEF LeaseInv

\* Taking the lock while no row runs and no other claim holds it.
LEMMA TakeLock ==
    ASSUME TypeOK, UNCHANGED <<row, cand, age>>, NEW r \in Runners, lock' = NewLock(r),
           \A t \in Tasks : status[t] # "running",
           \A q \in Runners : pc[q] \notin {"markold", "run"},
           \A q \in Runners \ {r} : pc'[q] = pc[q]
    PROVE  LeaseInv'
<1>1. RunningHasLock' /\ StartedLeaseOutlives'
  BY DEF RunningHasLock, StartedLeaseOutlives, row
<1>2. lock'.task = cand[r] /\ lock'.by = r /\ lock'.left = TTL - age[r]
  BY DEF NewLock
<1>3. ClaimHoldsLease'
  BY <1>2, LeaseNumbers DEF ClaimHoldsLease
<1> QED BY <1>1, <1>3 DEF LeaseInv

\* Every action preserves LeaseInv.
LEMMA LeaseStep ==
    MaxPause <= TTL /\ TypeOK /\ SafeInv /\ LeaseInv /\ [Next]_vars => LeaseInv'
<1> SUFFICES ASSUME MaxPause <= TTL, TypeOK, SafeInv, LeaseInv, [Next]_vars PROVE LeaseInv'
    OBVIOUS
<1> USE DEF local
<1>0. /\ ClaimPc = {"insert", "look", "takeover", "markold", "run"}
      /\ pc \in [Runners -> Pc] /\ cand \in [Runners -> Tasks \cup {NoTask}]
      /\ age \in [Runners -> 0..MaxPause] /\ status \in [Tasks -> Status]
      /\ by \in [Tasks -> Runners \cup {NoRunner}] /\ seen \in [Runners -> SeenLock]
  BY DEF ClaimPc, TypeOK
<1>1. ASSUME NEW t \in Tasks, CreateSystemTask(t), UNCHANGED <<lock, cand, seen, age>>,
             \A q \in Runners : pc'[q] \in ClaimPc \cup {"delete"} => pc'[q] = pc[q]
      PROVE  LeaseInv'
  <2>1. \A u \in Tasks : status'[u] = "running" => status[u] = "running" /\ by'[u] = by[u]
    BY <1>0, <1>1 DEF CreateSystemTask, InsertRow
  <2> QED BY <1>0, <1>1, <2>1, LeaseQuiet
<1>2. CASE EnqueueSystemTask
  BY <1>1, <1>2 DEF EnqueueSystemTask
<1>3. CASE Tick
  <2>1. lock \in LockRow
    BY DEF TypeOK
  <2>2. UNCHANGED <<status, by, pc, cand, seen>>
    BY <1>3 DEF Tick
  <2>3. lock'.task = lock.task /\ lock'.by = lock.by
    BY <1>3, <2>1 DEF Tick, LockRow
  <2>4. lock.left # Clip => lock'.left >= lock.left - 1
    BY <1>3, <2>1, LeaseNumbers DEF Tick, LockRow
  <2>5. \A r \in Runners : pc[r] \in ClaimPc \cup {"delete"} =>
            age[r] < MaxPause /\ age'[r] = age[r] + 1
    BY <1>3 DEF Tick, TimedPc
  <2>6. \A r \in Runners : lock.left >= -age[r] => lock.left # Clip
    BY LeaseNumbers DEF Clip
  <2>7. RunningHasLock'
    BY <2>2, <2>3 DEF LeaseInv, RunningHasLock
  <2>8. ASSUME NEW r \in Runners, pc'[r] \in {"markold", "run"}
        PROVE  lock'.left >= TTL - age'[r]
    <3>1. lock.left >= TTL - age[r] /\ age'[r] = age[r] + 1
      BY <1>0, <2>2, <2>5, <2>8 DEF LeaseInv, ClaimHoldsLease
    <3>2. lock.left # Clip
      BY <2>6, <3>1, LeaseNumbers
    <3>3. lock'.left \in Int
      BY <1>3, <2>1, LeaseNumbers DEF Tick, LockRow
    <3> QED BY <2>4, <3>1, <3>2, <3>3, LeaseNumbers
  <2>9. ClaimHoldsLease'
    BY <2>2, <2>3, <2>8 DEF LeaseInv, ClaimHoldsLease
  <2>10. StartedLeaseOutlives'
    <3> SUFFICES ASSUME NEW r \in Runners, NEW t \in Tasks, status'[t] = "running",
                        pc'[r] \in ClaimPc \/ (pc'[r] = "delete" /\ seen'[r].task = t)
                 PROVE  lock'.left >= -age'[r]
      BY DEF StartedLeaseOutlives
    <3>1. lock.left >= -age[r] /\ age'[r] = age[r] + 1
      BY <2>2, <2>5 DEF LeaseInv, StartedLeaseOutlives
    <3>2. lock'.left \in Int
      BY <1>3, <2>1, LeaseNumbers DEF Tick, LockRow
    <3> QED BY <2>4, <2>6, <3>1, <3>2, LeaseNumbers
  <2> QED BY <2>7, <2>9, <2>10 DEF LeaseInv
<1>4. ASSUME NEW r \in Runners, PassStep(r) PROVE LeaseInv'
  <2>1. CASE ExpireRead(r)
    BY <1>0, <2>1, LeaseQuiet DEF ExpireRead, Goto, row
  <2>2. CASE ExpireMark(r)
    <3>1. CASE LeaveExpire(r) /\ UNCHANGED <<row, lock, cand>>
      BY <1>0, <3>1, LeaseQuiet DEF LeaveExpire, Goto, row
    <3>2. CASE MarkSystemTaskLeaseExpired(seen[r].task) /\ Goto(r, "delete")
               /\ UNCHANGED <<lock, cand, seen, age>>
      <4>1. \A u \in Tasks : status'[u] = "running" =>
                status[u] = "running" /\ by'[u] = by[u] /\ u # seen[r].task
        BY <1>0, <3>2 DEF MarkSystemTaskLeaseExpired, EndRow, row
      <4> QED BY <1>0, <3>2, <4>1, LeaseQuiet DEF Goto
    <3> QED BY <2>2, <3>1, <3>2 DEF ExpireMark
  <2>3. CASE ExpireDelete(r)
    <3>1. \A q \in Runners : pc'[q] \in ClaimPc \cup {"delete"} =>
               pc'[q] = pc[q] /\ age'[q] = age[q] /\ seen'[q] = seen[q]
      BY <1>0, <2>3 DEF ExpireDelete, LeaveExpire, Goto
    <3>2. UNCHANGED lock \/ (Expired(age[r]) /\ lock.task = seen[r].task)
      BY <2>3 DEF ExpireDelete
    <3> QED BY <2>3, <3>1, <3>2, LoseLock, ExpiredIsFree DEF ExpireDelete
  <2>4. CASE SchedulerRead(r)
    BY <1>0, <2>4, LeaseQuiet DEF SchedulerRead, Goto, row
  <2>5. CASE SchedulerCreate(r)
    <3>1. \A q \in Runners : pc'[q] \in ClaimPc \cup {"delete"} => pc'[q] = pc[q]
      BY <1>0, <2>5 DEF SchedulerCreate, Goto
    <3>2. CASE UNCHANGED row
      BY <1>0, <2>5, <3>1, <3>2, LeaseQuiet DEF SchedulerCreate, row
    <3> QED BY <1>1, <2>5, <3>1, <3>2 DEF SchedulerCreate
  <2>6. CASE ClaimRead(r)
    <3>1. CASE EndPass(r)
      BY <1>0, <2>6, <3>1, LeaseQuiet DEF ClaimRead, EndPass, Goto, row
    <3>2. ASSUME NEW t \in Tasks, status[t] = "pending", cand' = [cand EXCEPT ![r] = t],
                 Goto(r, "insert"), UNCHANGED <<seen, age>>
          PROVE  LeaseInv'
      <4>1. \A u \in Tasks : status[u] # "running"
        BY <3>2 DEF SafeInv, ActiveKeyExclusive, Active
      <4> QED BY <1>0, <2>6, <3>2, <4>1, LeaseQuiet DEF ClaimRead, Goto, row
    <3> QED BY <2>6, <3>1, <3>2 DEF ClaimRead
  <2>7. CASE AcquireInsert(r)
    <3>1. CASE lock = NoLock /\ lock' = NewLock(r) /\ Goto(r, "run") /\ UNCHANGED <<row, local>>
      <4>1. \A t \in Tasks : status[t] # "running"
        BY <3>1, LeaseNumbers DEF LeaseInv, RunningHasLock
      <4>2. \A q \in Runners : pc[q] \notin {"markold", "run"}
        BY <1>0, <3>1, LeaseNumbers DEF LeaseInv, ClaimHoldsLease, SafeInv, ClaimInv
      <4> QED BY <1>0, <3>1, <4>1, <4>2, TakeLock DEF Goto
    <3>2. CASE Goto(r, "look") /\ UNCHANGED <<row, lock, local>>
      <4>1. pc[r] = "insert"
        BY <2>7 DEF AcquireInsert
      <4>2. pc'[r] = "look" /\ \A q \in Runners \ {r} : pc'[q] = pc[q]
        BY <1>0, <3>2 DEF Goto
      <4> QED BY <1>0, <3>2, <4>1, <4>2, LeaseQuiet DEF row
    <3> QED BY <2>7, <3>1, <3>2 DEF AcquireInsert
  <2>12. CASE AcquireLook(r)
    <3>2. CASE Goto(r, "takeover") /\ seen' = [seen EXCEPT ![r] = LockKey]
               /\ UNCHANGED <<row, lock, cand, age>>
      <4>1. pc[r] = "look"
        BY <2>12 DEF AcquireLook
      <4>2. pc'[r] = "takeover" /\ \A q \in Runners \ {r} : pc'[q] = pc[q] /\ seen'[q] = seen[q]
        BY <1>0, <3>2 DEF Goto
      <4> QED BY <1>0, <3>2, <4>1, <4>2, LeaseQuiet DEF row
    <3>3. CASE EndPass(r) /\ UNCHANGED <<row, lock>>
      BY <1>0, <3>3, LeaseQuiet DEF EndPass, Goto, row
    <3> QED BY <2>12, <3>2, <3>3 DEF AcquireLook
  <2>8. CASE AcquireTakeover(r)
    <3>1. CASE EndPass(r) /\ UNCHANGED <<row, lock>>
      BY <1>0, <3>1, LeaseQuiet DEF EndPass, Goto, row
    <3>2. CASE Expired(age[r]) /\ lock' = NewLock(r) /\ UNCHANGED <<row, local>>
      <4>1. \A q \in Runners \ {r} : pc'[q] = pc[q]
        BY <1>0, <2>8 DEF AcquireTakeover, EndPass, Goto
      <4>2. pc[r] \in ClaimPc
        BY <1>0, <2>8 DEF AcquireTakeover
      <4> QED BY <3>2, <4>1, <4>2, TakeLock, ExpiredIsFree
    <3> QED BY <2>8, <3>1, <3>2 DEF AcquireTakeover
  <2>9. CASE ClaimMarkOld(r)
    <3>1. \A u \in Tasks : status'[u] = "running" => status[u] = "running" /\ by'[u] = by[u]
      BY <1>0, <2>9 DEF ClaimMarkOld, MarkSystemTaskLeaseExpired, EndRow, row
    <3>2. \A q \in Runners : q # r => pc'[q] = pc[q]
      BY <1>0, <2>9 DEF ClaimMarkOld, Goto
    <3>3. pc'[r] \in {"run", "release"} /\ pc[r] = "markold"
      BY <1>0, <2>9 DEF ClaimMarkOld, Goto
    <3> QED BY <1>0, <2>9, <3>1, <3>2, <3>3, LeaseQuiet DEF ClaimMarkOld
  <2>10. CASE ClaimRun(r)
    <3>1. CASE Goto(r, "release") /\ UNCHANGED <<row, lock, local>>
      BY <1>0, <3>1, LeaseQuiet DEF Goto, row
    <3>2. CASE RunRow(r) /\ status[cand[r]] = "pending" /\ EndPass(r) /\ UNCHANGED lock
      <4> DEFINE t == cand[r]
      <4>1. t \in Tasks
        BY <1>0, <2>10 DEF ClaimRun, SafeInv, ClaimInv
      <4>2. lock.task = t /\ lock.by = r /\ lock.left >= TTL - age[r]
        BY <2>10 DEF ClaimRun, LeaseInv, ClaimHoldsLease
      <4>3. \A u \in Tasks : status'[u] = "running" => u = t
        BY <1>0, <3>2, <4>1 DEF RunRow, SafeInv, ActiveKeyExclusive, Active
      <4>4. by'[t] = r
        BY <1>0, <3>2, <4>1 DEF RunRow
      <4>5. pc'[r] = "pass" /\ \A q \in Runners \ {r} : pc'[q] = pc[q] /\ cand'[q] = cand[q] /\ age'[q] = age[q]
        BY <1>0, <3>2 DEF EndPass, Goto
      <4>6. RunningHasLock'
        BY <3>2, <4>2, <4>3, <4>4 DEF RunningHasLock
      <4>7. ClaimHoldsLease'
        BY <3>2, <4>5 DEF LeaseInv, ClaimHoldsLease
      <4>8. lock.left >= 0
        BY <4>2, LeaseNumbers
      <4>9. \A q \in Runners \ {r} : lock.left >= -age'[q]
        BY <4>5, <4>8, LeaseNumbers
      <4>10. StartedLeaseOutlives'
        BY <1>0, <3>2, <4>5, <4>9 DEF StartedLeaseOutlives
      <4> QED BY <4>6, <4>7, <4>10 DEF LeaseInv
    <3> QED BY <2>10, <3>1, <3>2 DEF ClaimRun
  <2>11. CASE ClaimRelease(r)
    <3>1. \A q \in Runners \ {r} : pc'[q] = pc[q] /\ age'[q] = age[q] /\ seen'[q] = seen[q] /\ cand'[q] = cand[q]
      BY <1>0, <2>11 DEF ClaimRelease, EndPass, Goto
    <3>2. pc[r] = "release" /\ pc'[r] = "pass" /\ UNCHANGED <<row, hb>>
      BY <1>0, <2>11 DEF ClaimRelease, EndPass, Goto
    <3>3. UNCHANGED lock \/ (lock.task = cand[r] /\ lock.by = r)
      BY <2>11 DEF ClaimRelease, ReleaseSystemTaskLock
    <3>4. by[cand[r]] # r /\ cand[r] \in Tasks
      BY <3>2 DEF SafeInv, ClaimInv
    <3>5. \A t \in Tasks : status[t] = "running" => UNCHANGED lock
      BY <3>3, <3>4 DEF LeaseInv, RunningHasLock
    <3>6. \A q \in Runners : pc[q] \in {"markold", "run"} => UNCHANGED lock
      BY <3>2, <3>3 DEF LeaseInv, ClaimHoldsLease
    <3>7. RunningHasLock' /\ StartedLeaseOutlives' /\ ClaimHoldsLease'
      BY <1>0, <3>1, <3>2, <3>5, <3>6 DEF LeaseInv, RunningHasLock, StartedLeaseOutlives, ClaimHoldsLease, row
    <3> QED BY <3>7 DEF LeaseInv
  <2> QED
    BY <1>4, <2>1, <2>2, <2>3, <2>4, <2>5, <2>6, <2>7, <2>8, <2>9, <2>10, <2>11, <2>12 DEF PassStep
<1>5. ASSUME NEW r \in Runners, Crash(r) PROVE LeaseInv'
  <2>1. pc'[r] = "dead" /\ \A q \in Runners \ {r} :
            pc'[q] = pc[q] /\ age'[q] = age[q] /\ seen'[q] = seen[q] /\ cand'[q] = cand[q]
    BY <1>0, <1>5 DEF Crash, Goto
  <2> QED BY <1>0, <1>5, <2>1, LeaseQuiet DEF Crash, row
<1>6. ASSUME NEW r \in Runners, NEW t \in Tasks,
             Heartbeat(r, t) \/ UpdateSystemTaskState(r, t) \/ HandlerEnd(r, t)
      PROVE LeaseInv'
  <2>1. CASE Heartbeat(r, t)
    <3>1. lock \in LockRow /\ UNCHANGED <<row, pc, cand, seen, age>>
      BY <2>1 DEF Heartbeat, TypeOK
    <3>2. UNCHANGED lock \/ (lock'.task = lock.task /\ lock'.by = lock.by /\ lock'.left = TTL)
      <4>1. CASE lock' = [lock EXCEPT !.left = TTL]
        BY <3>1, <4>1 DEF LockRow
      <4> QED BY <2>1, <4>1 DEF Heartbeat
    <3>3. \A q \in Runners : TTL >= TTL - age[q] /\ TTL >= -age[q]
      BY LeaseNumbers
    <3> QED BY <3>1, <3>2, <3>3
            DEF LeaseInv, RunningHasLock, ClaimHoldsLease, StartedLeaseOutlives, row
  <2>2. CASE UpdateSystemTaskState(r, t)
    BY <1>0, <2>2, LeaseQuiet DEF UpdateSystemTaskState, row
  <2>3. CASE FinishSystemTask(r, t)
    <3>1. \A u \in Tasks : status'[u] = "running" => status[u] = "running" /\ by'[u] = by[u]
      BY <1>0, <2>3 DEF FinishSystemTask, EndRow, Terminal, row
    <3> QED BY <1>0, <2>3, <3>1, LeaseQuiet DEF FinishSystemTask
  <2>4. CASE FinishRelease(r, t)
    <3>1. UNCHANGED lock \/ (lock.task = t /\ lock.by = r)
      BY <2>4 DEF FinishRelease, ReleaseSystemTaskLock
    <3>2. status[t] \in Terminal /\ by[t] = r
      BY <2>4 DEF FinishRelease, SafeInv, ExecutorInv, OneExecutor
    <3>3. \A u \in Tasks : status[u] = "running" => UNCHANGED lock
      BY <3>1, <3>2 DEF LeaseInv, RunningHasLock, Terminal
    <3>4. \A q \in Runners : pc[q] \in {"markold", "run"} => UNCHANGED lock
      BY <1>0, <3>1, <3>2 DEF LeaseInv, ClaimHoldsLease, SafeInv, ClaimInv
    <3>5. UNCHANGED <<row, pc, cand, seen, age>>
      BY <2>4 DEF FinishRelease
    <3> QED BY <3>3, <3>4, <3>5
            DEF LeaseInv, RunningHasLock, StartedLeaseOutlives, ClaimHoldsLease, row
  <2>5. CASE HandlerReturn(r, t)
    BY <1>0, <2>5, LeaseQuiet DEF HandlerReturn, row
  <2> QED
    BY <1>6, <2>1, <2>2, <2>3, <2>4, <2>5 DEF HandlerEnd
<1>7. CASE UNCHANGED vars
  BY <1>0, <1>7, LeaseQuiet DEF vars, row
<1> QED
  BY <1>2, <1>3, <1>4, <1>5, <1>6, <1>7 DEF Next

\* If no runner stalls longer than the lease inside a claim, a running row always
\* has the lock row that lets the stale-lock cleanup fail it after a crash.
THEOREM RunningKeepsLock == ASSUME MaxPause <= TTL PROVE Spec => []RunningHasLock
<1>1. Init => LeaseInv
  BY DEF Init, LeaseInv, RunningHasLock, ClaimHoldsLease, StartedLeaseOutlives, ClaimPc
<1>2. TypeOK /\ SafeInv /\ LeaseInv /\ [Next]_vars => LeaseInv'
  BY LeaseStep
<1>3. LeaseInv => RunningHasLock
  BY DEF LeaseInv
<1> QED
  BY <1>1, <1>2, <1>3, TypeCorrect, SafeInvariant, PTL DEF Spec
=============================================================================
