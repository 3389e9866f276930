------------------------- MODULE TaskBillingProofs -------------------------
(***************************************************************************)
(* What an asynchronous task's billing guarantees for any number of         *)
(* overlapping polling passes, any prices and any number of faults.         *)
(***************************************************************************)
EXTENDS TaskBilling, TLAPS

-----------------------------------------------------------------------------
(* The inductive invariant.                                                  *)

\* A pass that has listed the task holds an open row at the price it was
\* submitted for, whatever happened to the row since.
SnapsAreOpen ==
    \A p \in Pollers :
       /\ snap[p].status # "none" =>
             /\ snap[p].status \in Open /\ snap[p].reason = "none"
             /\ snap[p].quota = price /\ sub # "start"
       /\ pc[p] \in {"sweep", "poll"} \cup Billing => snap[p].status # "none"
       /\ pc[p] \notin Billing => target[p] = 0

\* An open row carries the price, and there is no row before the insert.
RowIsPriced ==
    /\ task.status \in Open => task.quota = price /\ task.reason = "none"
    /\ sub \in {"start", "insert"} => task = NoTask
    /\ sub = "settle" => task.status # "none"
    /\ ~InsertMayLie /\ sub = "refund" => task = NoTask
    /\ task.status = "none" => task.quota = 0

\* One pass bills, the one whose write ended the task; it has not yet written
\* the quota back, and it is not the sweep of a legacy task.
OneBiller ==
    \A p \in Pollers : pc[p] \in Billing =>
       /\ task.status \in Terminal /\ task.quota = price
       /\ ~(legacy /\ task.reason = "timeout")
       /\ \A q \in Pollers : pc[q] \in Billing => q = p

\* What the billing session holds above the price of the row.
Excess == CASE sub \in {"insert", "refund"} -> pre
            [] sub = "settle" -> pre - price
            [] OTHER -> 0

ExcessOK == /\ sub = "start" => pre = 0
            /\ sub \in {"insert", "settle"} => price <= pre

\* Whatever was lost, an adjustment that has still to be made is covered.
Covered ==
    /\ funding >= Excess /\ token >= Excess
    /\ task.status \in Open => funding >= Excess + price /\ token >= Excess + price
    /\ \A p \in Pollers :
          /\ pc[p] = "fund" => funding >= Excess + price
          /\ pc[p] \in {"fund", "token"} => token >= Excess + price

\* As long as nothing was lost, every unit charged is accounted for.
Accounted ==
    ~lost /\ ~(legacy /\ task.reason = "timeout") =>
       /\ (\A p \in Pollers : pc[p] \notin {"token", "clear"}) => funding = Excess + task.quota
       /\ (\A p \in Pollers : pc[p] # "clear") => token = Excess + task.quota
       /\ \A p \in Pollers :
             /\ pc[p] \in {"token", "clear"} => funding = Excess + target[p]
             /\ pc[p] = "clear" => token = Excess + target[p]

\* A failure that is not billed by usage is being refunded in full, or has been.
Refunded ==
    task.status = "failure" /\ kind # "usage" =>
       /\ \A p \in Pollers : pc[p] \in Billing => target[p] = 0
       /\ (/\ ~lost /\ task.reason \notin {"orphan", "immediate"}
           /\ \A p \in Pollers : pc[p] \notin Billing) => task.quota = 0

Shape == SnapsAreOpen /\ RowIsPriced /\ OneBiller
Balance == ExcessOK /\ Covered /\ Accounted /\ Refunded

-----------------------------------------------------------------------------
(* Types.                                                                    *)

Labels == {"idle", "sweep", "list", "poll"} \cup Billing
PassTyped == /\ pc \in [Pollers -> Labels] /\ snap \in [Pollers -> Row]
             /\ target \in [Pollers -> Quotas \cup {0}]

\* The rows that a submission, a sweep and a poll write are rows of the table.
LEMMA RowTypes ==
    ASSUME TaskTypeOK
    PROVE  /\ NoTask \in Row /\ (InsertRow => task' \in Row)
           /\ \A s \in Row : TimedOutRow(s) \in Row
<1>0. MaxPollFailures \in Nat /\ price \in Quotas \cup {0}
  BY TaskBounds DEF TaskTypeOK
<1> USE <1>0 DEF Row, NoTask, Open, Terminal, Reasons
<1>1. NoTask \in Row
  OBVIOUS
<1>2. InsertRow => task' \in Row
  <2>0. NewTask \in Row
    BY <1>1 DEF NewTask
  <2>1. Immediate \in Row
    BY <2>0 DEF Immediate
  <2>2. /\ [Immediate EXCEPT !.status = "success"] \in Row
        /\ [Immediate EXCEPT !.status = "failure", !.reason = "immediate"] \in Row
    BY <2>1
  <2> QED BY <2>0, <2>2 DEF InsertRow
<1>3. ASSUME NEW s \in Row PROVE TimedOutRow(s) \in Row
  BY DEF TimedOutRow
<1> QED BY <1>1, <1>2, <1>3

\* A pass that ends, or moves on, keeps the passes typed; so does one that wins
\* or loses the terminal transition.
LEMMA PassTypes ==
    ASSUME TaskTypeOK, NEW p \in Pollers
    PROVE  /\ PassTyped
           /\ \A label \in Labels : Goto(p, label) => pc' \in [Pollers -> Labels]
           /\ \A label \in Labels : Done(p, label) => PassTyped'
           /\ \A row \in Row : UpdateWithStatus(p, row) => task' \in Row
           /\ \A row \in Row : Finish(p, row) => PassTyped' /\ task' \in Row
<1>1. PassTyped
  BY DEF TaskTypeOK, PassTyped, Labels
<1>2. ASSUME NEW label \in Labels, Goto(p, label) PROVE pc' \in [Pollers -> Labels]
  BY <1>1, <1>2 DEF Goto, PassTyped
<1>3. ASSUME NEW label \in Labels, Done(p, label) PROVE PassTyped'
  BY <1>1, <1>2, <1>3, RowTypes DEF Done, PassTyped
<1>4. ASSUME NEW row \in Row, UpdateWithStatus(p, row) PROVE task' \in Row
  BY <1>4 DEF UpdateWithStatus, TaskTypeOK
<1>5. ASSUME NEW row \in Row, Finish(p, row) PROVE PassTyped' /\ task' \in Row
  <2>1. task' \in Row
    BY <1>4, <1>5 DEF Finish
  <2>2. CASE Won(p)
    <3>1. row.quota \in Quotas \cup {0}
      BY DEF Row
    <3>2. kind \in {"tiered", "per_call", "usage"}
      BY DEF TaskTypeOK
    <3>3. FinalQuotas(row.status, row.quota) \subseteq Quotas \cup {0}
      BY <3>1, <3>2 DEF FinalQuotas
    <3> QED BY <1>1, <1>2, <1>5, <2>1, <2>2, <3>3 DEF Finish, PassTyped, Labels, Billing
  <2>3. CASE ~Won(p)
    BY <1>3, <1>5, <2>1, <2>3 DEF Finish, Labels
  <2> QED BY <2>2, <2>3
<1> QED BY <1>1, <1>2, <1>3, <1>4, <1>5

\* The task's row, the money taken and the passes stay typed through every
\* submission, sweep, poll, billing step and fault.
LEMMA TypeStep == TaskTypeOK /\ [Next]_vars => TaskTypeOK'
<1> SUFFICES ASSUME TaskTypeOK, [Next]_vars PROVE TaskTypeOK'
  OBVIOUS
<1>0. /\ MaxPollFailures \in Nat \ {0} /\ MaxFaults \in Nat /\ faults \in 0..MaxFaults
      /\ funding \in Int /\ token \in Int /\ Quotas \subseteq Int
      /\ pre \in Quotas \cup {0} /\ price \in Quotas \cup {0} /\ task \in Row
  BY TaskBounds, TaskQuotas DEF TaskTypeOK
<1> USE <1>0, RowTypes
<1>1. CASE Submission
  BY <1>1 DEF Submission, Reserve, Insert, InsertFails, RefundSubmission, SettleSubmission,
              TaskTypeOK, money, pass, fixed
<1>2. CASE Timeout
  BY <1>2 DEF Timeout, TaskTypeOK, money, pass, fixed
<1>3. CASE SubmitterDies
  BY <1>3 DEF SubmitterDies, TaskTypeOK, money, pass, fixed
<1>4. ASSUME NEW p \in Pollers, Step(p) PROVE TaskTypeOK'
  <2>0. snap[p] \in Row /\ target[p] \in Int /\ snap[p].quota \in Int
    <3>1. snap[p] \in Row /\ target[p] \in Quotas \cup {0}
      BY PassTypes DEF PassTyped
    <3>2. snap[p].quota \in Quotas \cup {0}
      BY <3>1 DEF Row
    <3>3. \A q \in Quotas \cup {0} : q \in Int
      OBVIOUS
    <3> HIDE RowTypes
    <3> QED BY <3>1, <3>2, <3>3
  <2>1. CASE SweepList(p) \/ List(p)
    <3>1. PassTyped'
      BY <2>1, PassTypes DEF SweepList, List, PassTyped, Labels
    <3> QED BY <2>1, <3>1 DEF SweepList, List, TaskTypeOK, PassTyped, Labels, money, fixed
  <2>2. CASE SweepTimedOut(p)
    <3>1. PassTyped' /\ task' \in Row
      BY <2>0, <2>2, PassTypes DEF SweepTimedOut, PassTyped, Labels, Billing
    <3> QED BY <2>2, <3>1 DEF SweepTimedOut, TaskTypeOK, PassTyped, Labels, money, fixed
  <2>3. CASE MarkFailed(p) \/ PollOpen(p) \/ RecordPollFailure(p)
    <3>1. PassTyped'
      BY <2>3, PassTypes DEF MarkFailed, PollOpen, RecordPollFailure, Labels
    <3>2. CASE MarkFailed(p)
      <4>1. [task EXCEPT !.status = "failure", !.full = TRUE, !.reason = "orphan"] \in Row
        BY DEF Row, Terminal, Reasons
      <4>2. task' \in Row
        BY <3>2, <4>1 DEF MarkFailed
      <4> QED BY <3>1, <3>2, <4>2 DEF MarkFailed, TaskTypeOK, PassTyped, Labels, money, fixed
    <3>3. CASE PollOpen(p)
      <4>1. \A s \in Open, f \in BOOLEAN :
               [snap[p] EXCEPT !.status = s, !.full = f, !.failures = 0] \in Row
        <5> TAKE s \in Open, f \in BOOLEAN
        <5>1. 0 \in 0..MaxPollFailures
          OBVIOUS
        <5> QED BY <2>0, <5>1 DEF Row
      <4>2. task' \in Row
        BY <3>3, <4>1, PassTypes DEF PollOpen
      <4> QED BY <3>1, <3>3, <4>2 DEF PollOpen, TaskTypeOK, PassTyped, Labels, money, fixed
    <3>4. CASE RecordPollFailure(p)
      <4>1. [snap[p] EXCEPT !.failures = @ + 1] \in Row
        BY <2>0, <3>4 DEF Row, RecordPollFailure
      <4>2. task' \in Row
        BY <3>4, <4>1, PassTypes DEF RecordPollFailure
      <4> QED BY <3>1, <3>4, <4>2 DEF RecordPollFailure, TaskTypeOK, PassTyped, Labels, money, fixed
    <3> QED BY <2>3, <3>2, <3>3, <3>4
  <2>4. CASE PollTerminal(p)
    <3>1. /\ [snap[p] EXCEPT !.status = "success", !.full = TRUE] \in Row
          /\ [snap[p] EXCEPT !.status = "failure", !.full = TRUE, !.reason = "upstream"] \in Row
      BY <2>0 DEF Row, Terminal, Reasons
    <3>2. PassTyped' /\ task' \in Row
      BY <2>4, <3>1, PassTypes DEF PollTerminal
    <3> QED BY <2>4, <3>2 DEF PollTerminal, TaskTypeOK, PassTyped, Labels, money, fixed
  <2>5. CASE FailTaskFromPoll(p)
    <3>1. \A n \in {snap[p].failures, MaxPollFailures} :
             [snap[p] EXCEPT !.status = "failure", !.full = TRUE, !.failures = n, !.reason = "poll"] \in Row
      <4> TAKE n \in {snap[p].failures, MaxPollFailures}
      <4>1. n \in 0..MaxPollFailures
        BY <2>0 DEF Row
      <4> QED BY <2>0, <4>1 DEF Row, Terminal, Reasons
    <3>2. PassTyped' /\ task' \in Row
      BY <2>5, <3>1, PassTypes DEF FailTaskFromPoll
    <3> QED BY <2>5, <3>2 DEF FailTaskFromPoll, TaskTypeOK, PassTyped, Labels, money, fixed
  <2>6. CASE AdjustFunding(p) \/ AdjustToken(p)
    <3>1. PassTyped'
      BY <2>6, PassTypes DEF AdjustFunding, AdjustToken, PassTyped, Labels, Billing
    <3>2. funding' \in Int /\ token' \in Int
      BY <2>0, <2>6 DEF AdjustFunding, AdjustToken, Delta
    <3> QED BY <2>6, <3>1, <3>2 DEF AdjustFunding, AdjustToken, TaskTypeOK, PassTyped, Labels, money, fixed
  <2>7. CASE UpdateQuota(p)
    <3>1. PassTyped'
      BY <2>7, PassTypes DEF UpdateQuota, Labels
    <3>2. task' \in Row
      BY <2>7, PassTypes DEF UpdateQuota, PassTyped, Row
    <3> QED BY <2>7, <3>1, <3>2 DEF UpdateQuota, TaskTypeOK, PassTyped, Labels, money, fixed
  <2> QED BY <1>4, <2>1, <2>2, <2>3, <2>4, <2>5, <2>6, <2>7 DEF Step
<1>5. ASSUME NEW p \in Pollers, AdjustTokenFails(p) \/ Fault(p) PROVE TaskTypeOK'
  <2>1. PassTyped'
    BY <1>5, PassTypes DEF AdjustTokenFails, Fault, PassTyped, Labels, Billing
  <2>2. faults' \in 0..MaxFaults /\ lost' \in BOOLEAN
    <3>1. lost \in BOOLEAN
      BY DEF TaskTypeOK
    <3>2. faults' \in 0..MaxFaults
      BY <1>5 DEF AdjustTokenFails, Fault
    <3>3. lost' \in BOOLEAN
      BY <1>5, <3>1, Zenon DEF AdjustTokenFails, Fault
    <3> QED BY <3>2, <3>3
  <2>3. UNCHANGED <<task, funding, token, pre, price, sub, kind, legacy, late>>
    BY <1>5 DEF AdjustTokenFails, Fault, money, fixed
  <2> QED BY <2>1, <2>2, <2>3 DEF TaskTypeOK, PassTyped, Labels
<1>6. CASE UNCHANGED vars
  BY <1>6 DEF vars, TaskTypeOK, money, pass, fixed
<1> QED BY <1>1, <1>2, <1>3, <1>4, <1>5, <1>6 DEF Next, Faults

\* Before the submission everything has its type.
LEMMA TypeInit == Init => TaskTypeOK
<1>1. MaxPollFailures \in Nat /\ MaxFaults \in Nat
  BY TaskBounds
<1>2. NoTask \in Row
  BY <1>1 DEF NoTask, Row, Open, Terminal, Reasons
<1> SUFFICES ASSUME Init PROVE TaskTypeOK
  OBVIOUS
<1>3. /\ pc \in [Pollers -> {"idle", "sweep", "list", "poll"} \cup Billing]
      /\ snap \in [Pollers -> Row] /\ target \in [Pollers -> Quotas \cup {0}]
  BY <1>2 DEF Init
<1>4. faults \in 0..MaxFaults
  BY <1>1 DEF Init
<1>5. legacy \in BOOLEAN /\ late \in BOOLEAN /\ lost \in BOOLEAN
  BY Zenon DEF Init
<1> QED BY <1>2, <1>3, <1>4, <1>5 DEF Init, TaskTypeOK

\* The row, the money and the passes of a task have their types in every
\* behaviour of the polling code.
THEOREM TaskTypes == Spec => []TaskTypeOK
BY TypeInit, TypeStep, PTL DEF Spec

-----------------------------------------------------------------------------
(* Who may still write the row, and who bills.                               *)

\* Before the submission there is no row and nobody has listed one.
LEMMA ShapeInit == Init => Shape
BY DEF Init, Shape, SnapsAreOpen, RowIsPriced, OneBiller, NoTask, Open, Terminal, Billing

\* A submission step leaves the passes alone, and only its insert writes the row.
LEMMA ShapeSubmission ==
    ASSUME TaskTypeOK, Shape, Submission \/ SubmitterDies PROVE Shape'
<1> USE DEF Shape, pass, fixed, money
<1>1. CASE Reserve
  BY <1>1 DEF Reserve, SnapsAreOpen, RowIsPriced, OneBiller, NoTask, Open, Terminal
<1>2. ASSUME sub = "insert", InsertRow, UNCHANGED <<price, pass, legacy>>,
             sub' = "settle" \/ (sub' = "refund" /\ InsertMayLie)
      PROVE  Shape'
  <2>1. task = NoTask
    BY <1>2 DEF RowIsPriced
  <2>2. /\ task'.quota = price
        /\ task'.status \in Open \cup Terminal
        /\ task'.status \in Open => task'.reason = "none"
    BY <1>2 DEF InsertRow, NewTask, Immediate, NoTask, Open, Terminal
  <2>3. \A p \in Pollers : pc[p] \notin Billing
    BY <2>1 DEF OneBiller, NoTask, Terminal
  <2> QED BY <1>2, <2>2, <2>3 DEF SnapsAreOpen, RowIsPriced, OneBiller, Open, Terminal
<1>3. CASE Insert
  BY <1>2, <1>3 DEF Insert
<1>4. CASE InsertFails /\ UNCHANGED task
  BY <1>4 DEF InsertFails, SnapsAreOpen, RowIsPriced, OneBiller
<1>5. CASE InsertFails /\ InsertMayLie /\ InsertRow
  BY <1>2, <1>5 DEF InsertFails
<1>6. CASE RefundSubmission \/ SettleSubmission \/ SubmitterDies
  BY <1>6 DEF RefundSubmission, SettleSubmission, SubmitterDies, SnapsAreOpen, RowIsPriced, OneBiller
<1> QED BY <1>1, <1>3, <1>4, <1>5, <1>6 DEF Submission, InsertFails

\* A pass that ends without writing the row.
LEMMA ShapeDone ==
    ASSUME TaskTypeOK, Shape, NEW p \in Pollers, NEW label \in {"idle", "list"},
           Done(p, label), UNCHANGED <<task, price, sub, legacy>>
    PROVE  Shape'
BY DEF Shape, SnapsAreOpen, RowIsPriced, OneBiller, Done, Goto, TaskTypeOK, NoTask, Billing

\* A pass that lists the row takes an open snapshot of it.
LEMMA ShapeList ==
    ASSUME TaskTypeOK, Shape, NEW p \in Pollers, NEW label \in {"sweep", "poll"},
           pc[p] \notin Billing, Listed, Goto(p, label), snap' = [snap EXCEPT ![p] = task],
           UNCHANGED <<target, task, price, sub, legacy>>
    PROVE  Shape'
BY DEF Shape, SnapsAreOpen, RowIsPriced, OneBiller, Goto, TaskTypeOK, Listed, Open, NoTask, Billing

\* A pass that keeps the task open writes back the quota and the reason it listed.
LEMMA ShapeReopen ==
    ASSUME TaskTypeOK, Shape, NEW p \in Pollers, pc[p] = "poll",
           NEW row \in Row, row.status \in Open, row.quota = snap[p].quota, row.reason = snap[p].reason,
           UpdateWithStatus(p, row), Done(p, "idle"), UNCHANGED <<price, sub, legacy>>
    PROVE  Shape'
<1>1. snap[p].status \in Open /\ row.quota = price /\ row.reason = "none" /\ sub # "start"
  BY DEF Shape, SnapsAreOpen
<1>2. CASE Won(p)
  <2>1. task' = row /\ task.status \in Open
    BY <1>1, <1>2 DEF UpdateWithStatus, Won
  <2>2. \A q \in Pollers : pc[q] \notin Billing
    BY <2>1 DEF Shape, OneBiller, Open, Terminal
  <2>3. sub \notin {"insert", "start"} /\ (~InsertMayLie => sub # "refund")
    BY <2>1 DEF Shape, RowIsPriced, NoTask, Open
  <2> QED BY <1>1, <2>1, <2>2, <2>3
          DEF Shape, SnapsAreOpen, RowIsPriced, OneBiller, Done, Goto, TaskTypeOK, NoTask, Billing, Open
<1>3. CASE ~Won(p)
  BY <1>3, ShapeDone DEF UpdateWithStatus, Won
<1> QED BY <1>2, <1>3

\* A write that ends the task is won by one pass, which then bills it, or does
\* not; every other pass holds an open snapshot and loses from here on.
LEMMA ShapeEnd ==
    ASSUME TaskTypeOK, Shape, NEW p \in Pollers, pc[p] \in {"sweep", "poll"}, Won(p),
           task' \in Row, task'.status \in Terminal, UNCHANGED <<price, sub, legacy>>,
           \/ \E label \in {"idle", "list"} : Done(p, label)
           \/ /\ pc' = [pc EXCEPT ![p] = "fund"] /\ snap' = snap
              /\ target' \in [Pollers -> Quotas \cup {0}]
              /\ \A q \in Pollers : q # p => target'[q] = target[q]
              /\ task'.quota = price /\ ~(legacy /\ task'.reason = "timeout")
    PROVE  Shape'
<1>1. snap[p].status \in Open /\ task.status \in Open /\ sub # "start"
  BY DEF Shape, SnapsAreOpen, Won
<1>2. \A q \in Pollers : pc[q] \notin Billing
  BY <1>1 DEF Shape, OneBiller, Open, Terminal
<1>3. sub \notin {"insert", "start"} /\ (~InsertMayLie => sub # "refund")
  BY <1>1 DEF Shape, RowIsPriced, NoTask, Open
<1>4. RowIsPriced'
  BY <1>3 DEF RowIsPriced, Open, Terminal
<1>5. SnapsAreOpen' /\ OneBiller'
  BY <1>1, <1>2 DEF Shape, SnapsAreOpen, OneBiller, Done, Goto, TaskTypeOK, NoTask, Billing
<1> QED BY <1>4, <1>5 DEF Shape

\* The billing of a finished task keeps its one biller until the quota is written.
LEMMA ShapeBill ==
    ASSUME TaskTypeOK, Shape, NEW p \in Pollers, pc[p] \in Billing,
           UNCHANGED <<price, sub, legacy>>,
           \/ /\ \E label \in Billing : Goto(p, label)
              /\ UNCHANGED <<task, snap, target>>
           \/ /\ Done(p, "idle")
              /\ task' \in {task, [task EXCEPT !.quota = target[p]]}
    PROVE  Shape'
<1>1. task.status \in Terminal /\ \A q \in Pollers : pc[q] \in Billing => q = p
  BY DEF Shape, OneBiller
<1>2. /\ task'.status = task.status /\ task'.reason = task.reason
      /\ sub \notin {"start", "insert"} /\ (~InsertMayLie => sub # "refund")
  <2>1. task \in Row
    BY DEF TaskTypeOK
  <2>2. task'.status = task.status /\ task'.reason = task.reason
    BY <2>1 DEF Row
  <2> QED BY <1>1, <2>2 DEF Shape, RowIsPriced, NoTask, Terminal
<1>3. CASE Done(p, "idle")
  BY <1>1, <1>2, <1>3 DEF Shape, SnapsAreOpen, RowIsPriced, OneBiller, Done, Goto, TaskTypeOK,
                          NoTask, Billing, Open, Terminal
<1>4. CASE UNCHANGED <<task, snap, target>> /\ \E label \in Billing : Goto(p, label)
  BY <1>1, <1>2, <1>4 DEF Shape, SnapsAreOpen, RowIsPriced, OneBiller, Goto, TaskTypeOK, Billing
<1> QED BY <1>3, <1>4

\* A finished pass writes the outcome of a task only if it wins.
LEMMA ShapeFinish ==
    ASSUME TaskTypeOK, Shape, NEW p \in Pollers, pc[p] = "poll",
           NEW row \in Row, row.status \in Terminal, row.quota = snap[p].quota, row.reason # "timeout",
           Finish(p, row), UNCHANGED <<price, sub, legacy, kind>>
    PROVE  Shape'
<1>1. row.quota = price
  BY DEF Shape, SnapsAreOpen
<1>2. PassTyped' /\ task' \in Row
  BY PassTypes
<1>3. CASE Won(p)
  <2>1. task' = row /\ snap' = snap /\ pc' = [pc EXCEPT ![p] = "fund"]
    BY <1>3 DEF Finish, UpdateWithStatus, Won, Goto
  <2>2. \A q \in Pollers : q # p => target'[q] = target[q]
    BY <1>3 DEF Finish, TaskTypeOK
  <2> QED BY <1>1, <1>2, <1>3, <2>1, <2>2, ShapeEnd DEF PassTyped
<1>4. CASE ~Won(p)
  BY <1>4, ShapeDone DEF Finish, UpdateWithStatus, Won
<1> QED BY <1>3, <1>4

\* Every step of a pass keeps the shape.
LEMMA ShapePass ==
    ASSUME TaskTypeOK, TaskTypeOK', Shape, NEW p \in Pollers,
           Step(p) \/ AdjustTokenFails(p) \/ Fault(p)
    PROVE  Shape'
<1>0. snap[p] \in Row /\ task \in Row /\ task' \in Row /\ target \in [Pollers -> Quotas \cup {0}]
  BY DEF TaskTypeOK
<1> USE DEF fixed
<1>1. CASE SweepList(p)
  BY <1>1, ShapeDone, ShapeList DEF SweepList, Billing
<1>2. CASE List(p)
  BY <1>2, ShapeDone, ShapeList DEF List, Billing
<1>3. CASE SweepTimedOut(p)
  <2>1. CASE Won(p)
    <3>1. /\ task' = TimedOutRow(snap[p])
          /\ IF legacy THEN Done(p, "list")
                       ELSE pc' = [pc EXCEPT ![p] = "fund"] /\ UNCHANGED <<snap, target>>
      BY <1>3, <2>1 DEF SweepTimedOut, UpdateWithStatus, Won, Goto
    <3>2. /\ task'.status \in Terminal
          /\ ~legacy => task'.quota = snap[p].quota
      BY <1>0, <3>1 DEF TimedOutRow, Row, Terminal
    <3>3. snap[p].quota = price
      BY <1>3 DEF Shape, SnapsAreOpen, SweepTimedOut
    <3> QED BY <1>0, <1>3, <2>1, <3>1, <3>2, <3>3, ShapeEnd DEF SweepTimedOut
  <2>2. CASE ~Won(p)
    BY <1>3, <2>2, ShapeDone DEF SweepTimedOut, UpdateWithStatus, Won
  <2> QED BY <2>1, <2>2
<1>4. CASE MarkFailed(p)
  <2>1. CASE Won(p)
    <3>1. task' = [task EXCEPT !.status = "failure", !.full = TRUE, !.reason = "orphan"]
      BY <1>4, <2>1 DEF MarkFailed
    <3>2. task'.status \in Terminal
      BY <1>0, <3>1 DEF Row, Terminal
    <3> QED BY <1>0, <1>4, <2>1, <3>2, ShapeEnd DEF MarkFailed
  <2>2. CASE ~Won(p)
    BY <1>4, <2>2, ShapeDone DEF MarkFailed
  <2> QED BY <2>1, <2>2
<1>5. CASE PollOpen(p)
  <2>1. PICK s \in Open, f \in BOOLEAN :
           UpdateWithStatus(p, [snap[p] EXCEPT !.status = s, !.full = f, !.failures = 0])
    BY <1>5 DEF PollOpen
  <2> DEFINE row == [snap[p] EXCEPT !.status = s, !.full = f, !.failures = 0]
  <2>2. /\ row \in Row /\ row.status \in Open
        /\ row.quota = snap[p].quota /\ row.reason = snap[p].reason
    <3>1. 0 \in 0..MaxPollFailures
      BY TaskBounds
    <3> QED BY <1>0, <3>1 DEF Row
  <2> HIDE DEF row
  <2> QED BY <1>5, <2>1, <2>2, ShapeReopen DEF PollOpen, row
<1>6. CASE RecordPollFailure(p)
  <2> DEFINE row == [snap[p] EXCEPT !.failures = @ + 1]
  <2>1. snap[p].status \in Open
    BY <1>6 DEF RecordPollFailure, Shape, SnapsAreOpen
  <2>2. /\ row \in Row /\ row.status = snap[p].status
        /\ row.quota = snap[p].quota /\ row.reason = snap[p].reason
    BY <1>0, <1>6, TaskBounds DEF Row, RecordPollFailure
  <2>3. UpdateWithStatus(p, row) /\ Done(p, "idle")
    BY <1>6 DEF RecordPollFailure
  <2> HIDE DEF row
  <2> QED BY <1>6, <2>1, <2>2, <2>3, ShapeReopen DEF RecordPollFailure
<1>7. CASE PollTerminal(p)
  <2> DEFINE ok == [snap[p] EXCEPT !.status = "success", !.full = TRUE]
             ko == [snap[p] EXCEPT !.status = "failure", !.full = TRUE, !.reason = "upstream"]
  <2>1. snap[p].reason = "none"
    BY <1>7 DEF PollTerminal, Shape, SnapsAreOpen
  <2>2. /\ ok \in Row /\ ok.status \in Terminal /\ ok.quota = snap[p].quota /\ ok.reason # "timeout"
        /\ ko \in Row /\ ko.status \in Terminal /\ ko.quota = snap[p].quota /\ ko.reason # "timeout"
    BY <1>0, <2>1 DEF Row, Terminal, Reasons
  <2>3. Finish(p, ok) \/ Finish(p, ko)
    BY <1>7 DEF PollTerminal
  <2> HIDE DEF ok, ko
  <2> QED BY <1>7, <2>2, <2>3, ShapeFinish DEF PollTerminal
<1>8. CASE FailTaskFromPoll(p)
  <2>1. PICK n \in {snap[p].failures, MaxPollFailures} :
           Finish(p, [snap[p] EXCEPT !.status = "failure", !.full = TRUE,
                                     !.failures = n, !.reason = "poll"])
    BY <1>8 DEF FailTaskFromPoll
  <2> DEFINE row == [snap[p] EXCEPT !.status = "failure", !.full = TRUE,
                                    !.failures = n, !.reason = "poll"]
  <2>2. /\ row \in Row /\ row.status \in Terminal
        /\ row.quota = snap[p].quota /\ row.reason # "timeout"
    <3>1. n \in 0..MaxPollFailures
      BY <1>0, TaskBounds DEF Row
    <3> QED BY <1>0, <3>1 DEF Row, Terminal, Reasons
  <2> HIDE DEF row
  <2> QED BY <1>8, <2>1, <2>2, ShapeFinish DEF FailTaskFromPoll, row
<1>9. CASE AdjustFunding(p) \/ AdjustToken(p) \/ AdjustTokenFails(p)
  BY <1>9, ShapeBill DEF AdjustFunding, AdjustToken, AdjustTokenFails, Billing
<1>10. CASE UpdateQuota(p)
  BY <1>10, ShapeBill DEF UpdateQuota, Billing
<1>11. CASE Fault(p)
  BY <1>11, ShapeDone DEF Fault
<1> QED BY <1>1, <1>2, <1>3, <1>4, <1>5, <1>6, <1>7, <1>8, <1>9, <1>10, <1>11 DEF Step

\* Every step keeps the snapshots open, the row priced and at most one biller.
LEMMA ShapeStep == TaskTypeOK /\ Shape /\ [Next]_vars => Shape'
<1> SUFFICES ASSUME TaskTypeOK, Shape, [Next]_vars PROVE Shape'
  OBVIOUS
<1>0. TaskTypeOK'
  BY TypeStep
<1>1. CASE Timeout \/ UNCHANGED vars
  BY <1>1 DEF Timeout, vars, pass, fixed, Shape, SnapsAreOpen, RowIsPriced, OneBiller
<1> QED BY <1>0, <1>1, ShapeSubmission, ShapePass DEF Next, Faults

\* No pass with an older snapshot reopens a finished task or turns its outcome.
THEOREM TaskOutcomeIsFinal == Spec => OutcomeIsFinal
<1>1. ASSUME TaskTypeOK, Shape, [Next]_vars, task.status \in Terminal
      PROVE  task'.status = task.status
  <2>0. task \in Row
    BY <1>1 DEF TaskTypeOK
  <2>1. CASE Submission
    BY <1>1, <2>1 DEF Submission, Reserve, Insert, InsertFails, RefundSubmission, SettleSubmission,
                      Shape, RowIsPriced, NoTask, Terminal
  <2>2. ASSUME NEW p \in Pollers, Step(p) PROVE task'.status = task.status
    <3>1. pc[p] \in {"sweep", "poll"} => ~Won(p)
      BY <1>1, <2>2 DEF Shape, SnapsAreOpen, Won, Open, Terminal
    <3> QED BY <2>0, <2>2, <3>1 DEF Step, SweepList, SweepTimedOut, List, MarkFailed, PollOpen,
               RecordPollFailure, PollTerminal, FailTaskFromPoll, Finish, UpdateWithStatus, Won,
               AdjustFunding, AdjustToken, UpdateQuota, Row
  <2>3. CASE Timeout \/ Faults \/ UNCHANGED vars
    BY <2>3 DEF Timeout, Faults, SubmitterDies, AdjustTokenFails, Fault, vars
  <2> QED BY <1>1, <2>1, <2>2, <2>3 DEF Next
<1>2. Spec => []Shape
  BY TaskTypes, ShapeInit, ShapeStep, PTL DEF Spec
<1> QED BY <1>1, <1>2, TaskTypes, PTL DEF Spec, OutcomeIsFinal

-----------------------------------------------------------------------------
(* What was charged, what is still to be charged or returned.                *)

\* What the session holds is a number, and never less than the row's price.
LEMMA ExcessType ==
    ASSUME TaskTypeOK, ExcessOK
    PROVE  /\ Excess \in Nat /\ price \in Nat /\ pre \in Nat /\ task.quota \in Nat
           /\ funding \in Int /\ token \in Int /\ \A p \in Pollers : target[p] \in Nat
<1>1. \A q \in Quotas \cup {0} : q \in Nat
  BY TaskQuotas
<1>2. task.quota \in Quotas \cup {0}
  BY DEF TaskTypeOK, Row
<1>3. price \in Nat /\ pre \in Nat
  BY <1>1 DEF TaskTypeOK
<1>4. Excess \in Nat
  BY <1>3 DEF Excess, ExcessOK
<1>5. ASSUME NEW p \in Pollers PROVE target[p] \in Nat
  BY <1>1 DEF TaskTypeOK
<1> QED BY <1>1, <1>2, <1>3, <1>4, <1>5 DEF TaskTypeOK

\* Before the submission nothing is charged.
LEMMA BalanceInit == Init => Balance
BY DEF Init, Balance, ExcessOK, Covered, Accounted, Refunded, Excess, NoTask, Open

\* The submission: the reservation, the row, the settlement down to the price, or
\* the refund of a submission that wrote no row.
LEMMA BalanceSubmission ==
    ASSUME ~InsertMayLie, TaskTypeOK, Shape, Balance, Submission \/ SubmitterDies
    PROVE  Balance'
<1>0. /\ Excess \in Nat /\ price \in Nat /\ pre \in Nat /\ task.quota \in Nat
      /\ funding \in Int /\ token \in Int
  BY ExcessType DEF Balance
<1> USE DEF Balance, pass, fixed, money
<1>1. CASE Reserve
  <2>1. PICK q \in Quotas, r \in Quotas : /\ q <= r /\ price' = q /\ pre' = r
                                          /\ funding' = r /\ token' = r
    BY <1>1 DEF Reserve
  <2>2. q \in Nat /\ r \in Nat
    BY TaskQuotas
  <2>3. task = NoTask /\ \A p \in Pollers : pc[p] \notin Billing
    BY <1>1 DEF Reserve, Shape, RowIsPriced, OneBiller, NoTask, Terminal
  <2> QED BY <1>1, <2>1, <2>2, <2>3
          DEF Reserve, ExcessOK, Covered, Accounted, Refunded, Excess, NoTask, Open, Billing
<1>2. CASE Insert
  <2>1. task = NoTask /\ \A p \in Pollers : pc[p] \notin Billing
    BY <1>2 DEF Insert, Shape, RowIsPriced, OneBiller, NoTask, Terminal
  <2>2. /\ task'.quota = price
        /\ task'.status = "failure" => task'.reason = "immediate"
        /\ task'.reason # "timeout"
    BY <1>2 DEF Insert, InsertRow, NewTask, Immediate, NoTask
  <2>3. Excess = pre /\ Excess' = pre - price /\ price <= pre /\ task.quota = 0 /\ task.reason = "none"
    BY <1>2, <2>1 DEF Insert, Excess, ExcessOK, NoTask
  <2> QED BY <1>0, <1>2, <2>1, <2>2, <2>3 DEF Insert, ExcessOK, Covered, Accounted, Refunded, Billing
<1>3. CASE InsertFails
  <2>1. UNCHANGED task /\ sub = "insert" /\ sub' = "refund"
    BY <1>3 DEF InsertFails
  <2> QED BY <1>3, <2>1 DEF InsertFails, ExcessOK, Covered, Accounted, Refunded, Excess
<1>4. CASE RefundSubmission
  <2>1. task = NoTask /\ \A p \in Pollers : pc[p] \notin Billing
    BY <1>4 DEF RefundSubmission, Shape, RowIsPriced, OneBiller, NoTask, Terminal
  <2> QED BY <1>0, <1>4, <2>1
          DEF RefundSubmission, ExcessOK, Covered, Accounted, Refunded, Excess, NoTask, Open, Billing
<1>5. CASE SettleSubmission
  <2>1. /\ Excess = pre - price /\ Excess' = 0 /\ funding' = funding - Excess /\ token' = token - Excess
        /\ UNCHANGED <<task, price, kind, legacy, pc, target, lost>> /\ ExcessOK'
    BY <1>5 DEF SettleSubmission, Excess, ExcessOK
  <2>2. Covered'
    BY <1>0, <2>1 DEF Covered
  <2>3. Accounted'
    <3>1. \A p \in Pollers : target[p] \in Nat
      BY ExcessType
    <3>5. UNCHANGED <<task, legacy, pc, target, lost>>
      BY <2>1
    <3> SUFFICES ASSUME ~lost, ~(legacy /\ task.reason = "timeout")
                 PROVE  Accounted!2'
      BY <3>5 DEF Accounted
    <3>6. Accounted!2
      BY DEF Accounted
    <3>7. ASSUME \A p \in Pollers : pc[p] \notin {"token", "clear"}
          PROVE  funding' = Excess' + task.quota
      <4>1. funding = Excess + task.quota
        BY <3>6, <3>7
      <4> QED BY <1>0, <2>1, <4>1
    <3>8. (\A p \in Pollers : pc[p] # "clear") => token' = Excess' + task.quota
      BY <1>0, <2>1, <3>6
    <3>9. ASSUME NEW p \in Pollers
          PROVE  /\ pc[p] \in {"token", "clear"} => funding' = Excess' + target[p]
                 /\ pc[p] = "clear" => token' = Excess' + target[p]
      BY <1>0, <2>1, <3>1, <3>6
    <3> QED BY <3>5, <3>7, <3>8, <3>9
  <2>4. Refunded'
    BY <2>1 DEF Refunded
  <2> QED BY <2>1, <2>2, <2>3, <2>4
<1>6. CASE SubmitterDies
  <2>1. /\ Excess' = 0 /\ lost' = TRUE
        /\ UNCHANGED <<task, price, kind, legacy, pc, target, funding, token>> /\ ExcessOK'
    BY <1>6 DEF SubmitterDies, Excess, ExcessOK
  <2> QED BY <1>0, <2>1 DEF Covered, Accounted, Refunded
<1> QED BY <1>1, <1>2, <1>3, <1>4, <1>5, <1>6 DEF Submission

\* A pass that ends without writing the row leaves the balance as it is; if it
\* was billing, what it had still to do is lost.
LEMMA BalanceDone ==
    ASSUME TaskTypeOK, Balance, NEW p \in Pollers, NEW label \in {"idle", "list"}, Done(p, label),
           pc[p] \in Billing => lost',
           lost => lost',
           UNCHANGED <<task, funding, token, pre, price, sub, kind, legacy>>
    PROVE  Balance'
<1>1. Excess' = Excess /\ ExcessOK'
  BY DEF Balance, Excess, ExcessOK
<1>2. \A q \in Pollers : pc'[q] \in Billing => q # p /\ pc'[q] = pc[q] /\ target'[q] = target[q]
  BY DEF Done, Goto, TaskTypeOK, Billing
<1>3. ~lost' => ~lost /\ \A q \in Pollers : (pc'[q] \in Billing <=> pc[q] \in Billing)
  BY DEF Done, Goto, TaskTypeOK, Billing
<1>4. Covered'
  BY <1>1, <1>2 DEF Balance, Covered, Billing
<1>5. Accounted'
  BY <1>1, <1>2, <1>3 DEF Balance, Accounted, Billing
<1>6. Refunded'
  BY <1>1, <1>2, <1>3 DEF Balance, Refunded, Billing
<1> QED BY <1>1, <1>4, <1>5, <1>6 DEF Balance

\* A pass that lists the row, or that writes an open row back.
LEMMA BalanceOpen ==
    ASSUME TaskTypeOK, Shape, Balance, NEW p \in Pollers,
           task.status \in Open, task'.status \in Open, task'.quota = price, task'.reason = "none",
           pc'[p] \notin Billing, \A q \in Pollers : q # p => pc'[q] = pc[q],
           UNCHANGED <<funding, token, pre, price, sub, kind, legacy, lost>>
    PROVE  Balance'
<1>1. Excess' = Excess /\ ExcessOK'
  BY DEF Balance, Excess, ExcessOK
<1>2. task.quota = price /\ task.reason = "none"
  BY DEF Shape, RowIsPriced
<1>3. \A q \in Pollers : pc[q] \notin Billing /\ pc'[q] \notin Billing
  BY DEF Shape, OneBiller, Open, Terminal
<1> QED BY <1>1, <1>2, <1>3 DEF Balance, Covered, Accounted, Refunded, Open, Billing

\* The write that ends the task.  The pass that made it bills a quota, and the
\* whole price if it ends in a failure that is not billed by usage; or it bills
\* nothing, because the channel is gone or the task is a legacy one.
LEMMA BalanceEnd ==
    ASSUME TaskTypeOK, Shape, Balance, NEW p \in Pollers,
           task.status \in Open, task'.status \in Terminal,
           \A q \in Pollers : q # p => pc'[q] = pc[q],
           \/ /\ pc'[p] = "fund" /\ task'.quota = price /\ ~(legacy /\ task'.reason = "timeout")
              /\ task'.status = "failure" /\ kind # "usage" => target'[p] = 0
           \/ /\ pc'[p] \notin Billing
              /\ \/ task'.quota = price /\ task'.reason = "orphan"
                 \/ task'.quota = 0 /\ task'.reason = "timeout" /\ legacy,
           UNCHANGED <<funding, token, pre, price, sub, kind, legacy, lost>>
    PROVE  Balance'
<1>1. Excess' = Excess /\ ExcessOK'
  BY DEF Balance, Excess, ExcessOK
<1>2. task.quota = price /\ task.reason = "none"
  BY DEF Shape, RowIsPriced
<1>3. \A q \in Pollers : pc[q] \notin Billing /\ (q # p => pc'[q] \notin Billing)
  BY DEF Shape, OneBiller, Open, Terminal
<1>4. task'.status \notin Open
  BY DEF Open, Terminal
<1>5. Covered'
  BY <1>1, <1>2, <1>3, <1>4 DEF Balance, Covered, Billing
<1>6. Accounted'
  BY <1>1, <1>2, <1>3 DEF Balance, Accounted, Billing
<1>7. Refunded'
  BY <1>1, <1>2, <1>3 DEF Balance, Refunded, Billing
<1> QED BY <1>1, <1>5, <1>6, <1>7 DEF Balance

\* The pass that won bills what FinalQuotas allows.
LEMMA BalanceFinish ==
    ASSUME TaskTypeOK, Shape, Balance, NEW p \in Pollers, pc[p] = "poll",
           NEW row \in Row, row.status \in Terminal, row.quota = snap[p].quota, row.reason # "timeout",
           Finish(p, row), UNCHANGED <<funding, token, pre, price, sub, kind, legacy, lost>>
    PROVE  Balance'
<1>1. row.quota = price /\ snap[p].status \in Open
  BY DEF Shape, SnapsAreOpen
<1>2. CASE Won(p)
  <2>1. PICK q \in FinalQuotas(row.status, row.quota) :
           Goto(p, "fund") /\ target' = [target EXCEPT ![p] = q]
    BY <1>2 DEF Finish
  <2>2. kind \in {"tiered", "per_call", "usage"}
    BY DEF TaskTypeOK
  <2>3. row.status = "failure" /\ kind # "usage" => q = 0
    BY <2>1, <2>2 DEF FinalQuotas
  <2>4. task' = row /\ task.status \in Open
    BY <1>1, <1>2 DEF Finish, UpdateWithStatus, Won
  <2>5. /\ pc'[p] = "fund" /\ target'[p] = q
        /\ \A r \in Pollers : r # p => pc'[r] = pc[r]
    BY <2>1 DEF Goto, TaskTypeOK
  <2> QED BY <1>1, <2>3, <2>4, <2>5, BalanceEnd
<1>3. CASE ~Won(p)
  <2>1. pc[p] \notin Billing
    BY DEF Billing
  <2> QED BY <1>3, <2>1, BalanceDone DEF Finish, UpdateWithStatus, Won
<1> QED BY <1>2, <1>3

\* The billing itself: the funding, then the token, then the quota of the row.
LEMMA BalanceBill ==
    ASSUME TaskTypeOK, Shape, Balance, NEW p \in Pollers,
           AdjustFunding(p) \/ AdjustToken(p) \/ AdjustTokenFails(p) \/ UpdateQuota(p)
    PROVE  Balance'
<1>0. /\ Excess \in Nat /\ price \in Nat /\ task.quota \in Nat /\ target[p] \in Nat
      /\ funding \in Int /\ token \in Int
  BY ExcessType DEF Balance
<1>1. UNCHANGED <<pre, price, sub, kind, legacy>> /\ pc[p] \in Billing
  BY DEF AdjustFunding, AdjustToken, AdjustTokenFails, UpdateQuota, fixed, Billing
<1>2. Excess' = Excess /\ ExcessOK'
  BY <1>1 DEF Balance, Excess, ExcessOK
<1>3. /\ task.status \in Terminal /\ task.status \notin Open /\ task.quota = price
      /\ ~(legacy /\ task.reason = "timeout") /\ snap[p].quota = price
      /\ \A q \in Pollers : q # p => pc[q] \notin Billing
  BY <1>1 DEF Shape, OneBiller, SnapsAreOpen, Terminal, Open, Billing
<1>4. task \in Row /\ pc \in [Pollers -> Labels]
  BY DEF TaskTypeOK, Labels
<1>5. CASE AdjustFunding(p) /\ Delta(p) = 0
  <2>1. Done(p, "idle") /\ UNCHANGED <<funding, token, task, lost>> /\ target[p] = price
    BY <1>0, <1>3, <1>5 DEF AdjustFunding, Delta
  <2>2. pc[p] = "fund" /\ \A q \in Pollers : pc'[q] \notin Billing
    BY <1>3, <1>4, <1>5, <2>1 DEF AdjustFunding, Done, Goto, Billing
  <2>4. Covered'
    BY <1>0, <1>1, <1>2, <1>3, <2>1, <2>2 DEF Balance, Covered, Billing
  <2>5. Accounted'
    BY <1>0, <1>1, <1>2, <1>3, <2>1, <2>2 DEF Balance, Accounted, Billing
  <2>6. Refunded'
    BY <1>0, <1>1, <1>2, <1>3, <2>1, <2>2 DEF Balance, Refunded, Billing
  <2> QED BY <1>2, <2>4, <2>5, <2>6 DEF Balance
<1>6. CASE AdjustFunding(p) /\ Delta(p) # 0
  <2>1. /\ funding' = funding + (target[p] - price) /\ pc[p] = "fund"
        /\ UNCHANGED <<token, task, lost, target>>
        /\ pc' = [pc EXCEPT ![p] = "token"]
    BY <1>3, <1>6 DEF AdjustFunding, Delta, Goto
  <2>2. pc'[p] = "token" /\ \A q \in Pollers : q # p => pc'[q] = pc[q]
    BY <1>4, <2>1
  <2>4. Covered'
    BY <1>0, <1>1, <1>2, <1>3, <2>1, <2>2 DEF Balance, Covered, Billing
  <2>5. Accounted'
    <3> SUFFICES ASSUME ~lost' /\ ~(legacy /\ task.reason = "timeout")'
                 PROVE  /\ funding' = Excess + target[p] /\ token' = Excess + task.quota
      BY <1>2, <1>3, <2>1, <2>2 DEF Accounted, Billing
    <3>1. funding = Excess + task.quota /\ token = Excess + task.quota
      BY <1>1, <1>3, <2>1 DEF Balance, Accounted, Billing
    <3> QED BY <1>0, <1>3, <2>1, <3>1
  <2>6. Refunded'
    BY <1>0, <1>1, <1>2, <1>3, <2>1, <2>2 DEF Balance, Refunded, Billing
  <2> QED BY <1>2, <2>4, <2>5, <2>6 DEF Balance
<1>7. CASE AdjustToken(p)
  <2>1. /\ token' = token + (target[p] - price) /\ pc[p] = "token"
        /\ UNCHANGED <<funding, task, lost, target>>
        /\ pc' = [pc EXCEPT ![p] = "clear"]
    BY <1>3, <1>7 DEF AdjustToken, Delta, Goto
  <2>2. pc'[p] = "clear" /\ \A q \in Pollers : q # p => pc'[q] = pc[q]
    BY <1>4, <2>1
  <2>4. Covered'
    BY <1>0, <1>1, <1>2, <1>3, <2>1, <2>2 DEF Balance, Covered, Billing
  <2>5. Accounted'
    BY <1>0, <1>1, <1>2, <1>3, <2>1, <2>2 DEF Balance, Accounted, Billing
  <2>6. Refunded'
    BY <1>0, <1>1, <1>2, <1>3, <2>1, <2>2 DEF Balance, Refunded, Billing
  <2> QED BY <1>2, <2>4, <2>5, <2>6 DEF Balance
<1>8. CASE AdjustTokenFails(p)
  <2>1. /\ pc[p] = "token" /\ lost' = TRUE
        /\ UNCHANGED <<funding, token, task, target>>
        /\ pc' = [pc EXCEPT ![p] = "clear"]
    BY <1>8 DEF AdjustTokenFails, Goto, money
  <2>2. pc'[p] = "clear" /\ \A q \in Pollers : q # p => pc'[q] = pc[q]
    BY <1>4, <2>1
  <2>4. Covered'
    BY <1>0, <1>1, <1>2, <1>3, <2>1, <2>2 DEF Balance, Covered, Billing
  <2>5. Accounted'
    BY <1>0, <1>1, <1>2, <1>3, <2>1, <2>2 DEF Balance, Accounted, Billing
  <2>6. Refunded'
    BY <1>0, <1>1, <1>2, <1>3, <2>1, <2>2 DEF Balance, Refunded, Billing
  <2> QED BY <1>2, <2>4, <2>5, <2>6 DEF Balance
<1>9. CASE UpdateQuota(p)
  <2>1. /\ pc[p] = "clear" /\ task' = [task EXCEPT !.quota = target[p]]
        /\ UNCHANGED <<funding, token, lost>> /\ Done(p, "idle")
    BY <1>9 DEF UpdateQuota, money
  <2>2. task'.quota = target[p] /\ task'.status = task.status /\ task'.reason = task.reason
    BY <1>4, <2>1 DEF Row
  <2>3. \A q \in Pollers : pc'[q] \notin Billing
    BY <1>3, <1>4, <2>1 DEF Done, Goto, Billing
  <2>4. Covered'
    BY <1>0, <1>1, <1>2, <1>3, <2>1, <2>2, <2>3 DEF Balance, Covered, Billing
  <2>5. Accounted'
    BY <1>0, <1>1, <1>2, <1>3, <2>1, <2>2, <2>3 DEF Balance, Accounted, Billing
  <2>6. Refunded'
    BY <1>0, <1>1, <1>2, <1>3, <2>1, <2>2, <2>3 DEF Balance, Refunded, Billing
  <2> QED BY <1>2, <2>4, <2>5, <2>6 DEF Balance
<1> QED BY <1>5, <1>6, <1>7, <1>8, <1>9

\* Every step of a pass keeps the balance.
LEMMA BalancePass ==
    ASSUME TaskTypeOK, TaskTypeOK', Shape, Balance, NEW p \in Pollers,
           Step(p) \/ AdjustTokenFails(p) \/ Fault(p)
    PROVE  Balance'
<1>0. /\ snap[p] \in Row /\ task \in Row /\ pc \in [Pollers -> Labels]
      /\ lost \in BOOLEAN /\ MaxPollFailures \in Nat
  BY TaskBounds DEF TaskTypeOK, Labels
<1> USE DEF fixed, money
<1>1. ASSUME NEW label \in {"idle", "list"}, Done(p, label), pc[p] \notin Billing,
             UNCHANGED <<task, funding, token, pre, price, sub, kind, legacy, lost>>
      PROVE  Balance'
  BY <1>1, BalanceDone
<1>2. CASE SweepList(p) \/ List(p)
  <2>1. CASE \E label \in {"idle", "list"} : Done(p, label)
    BY <1>1, <1>2, <2>1 DEF SweepList, List, Billing
  <2>2. CASE Listed /\ \E label \in {"sweep", "poll"} : Goto(p, label)
    <3>1. /\ task.status \in Open /\ task.quota = price /\ task.reason = "none"
          /\ UNCHANGED <<task, funding, token, pre, price, sub, kind, legacy, lost>>
      BY <1>2, <2>2 DEF SweepList, List, Listed, Shape, RowIsPriced
    <3>2. pc'[p] \notin Billing /\ \A q \in Pollers : q # p => pc'[q] = pc[q]
      BY <1>0, <2>2 DEF Goto, Billing
    <3> QED BY <3>1, <3>2, BalanceOpen
  <2> QED BY <1>2, <2>1, <2>2 DEF SweepList, List
<1>3. ASSUME pc[p] \in {"sweep", "poll"}, ~Won(p), UNCHANGED task, NEW label \in {"idle", "list"},
             Done(p, label), UNCHANGED <<funding, token, pre, price, sub, kind, legacy, lost>>
      PROVE  Balance'
  BY <1>1, <1>3 DEF Billing
<1>4. ASSUME pc[p] \in {"sweep", "poll"}, Won(p)
      PROVE  /\ task.status \in Open /\ task.quota = price /\ snap[p].quota = price
             /\ snap[p].reason = "none"
  BY <1>4 DEF Shape, SnapsAreOpen, RowIsPriced, Won
<1>5. CASE SweepTimedOut(p)
  <2>1. CASE Won(p)
    <3>1. /\ task' = TimedOutRow(snap[p])
          /\ IF legacy THEN Done(p, "list")
                       ELSE pc' = [pc EXCEPT ![p] = "fund"] /\ UNCHANGED <<snap, target>>
      BY <1>5, <2>1 DEF SweepTimedOut, UpdateWithStatus, Won, Goto
    <3>2. /\ task'.status \in Terminal /\ task'.reason = "timeout"
          /\ task'.quota = IF legacy THEN 0 ELSE snap[p].quota
      BY <1>0, <3>1 DEF TimedOutRow, Row, Terminal
    <3>3. target[p] = 0
      BY <1>5 DEF SweepTimedOut, Shape, SnapsAreOpen, Billing
    <3>4. /\ \A q \in Pollers : q # p => pc'[q] = pc[q]
          /\ legacy => pc'[p] \notin Billing
          /\ ~legacy => pc'[p] = "fund" /\ target'[p] = 0
      BY <1>0, <3>1, <3>3 DEF Done, Goto, Billing
    <3>5. /\ task.status \in Open /\ snap[p].quota = price
          /\ UNCHANGED <<funding, token, pre, price, sub, kind, legacy, lost>>
      BY <1>4, <1>5, <2>1 DEF SweepTimedOut
    <3> QED BY <3>2, <3>4, <3>5, BalanceEnd
  <2>2. CASE ~Won(p)
    BY <1>3, <1>5, <2>2 DEF SweepTimedOut, UpdateWithStatus, Won
  <2> QED BY <2>1, <2>2
<1>6. CASE MarkFailed(p)
  <2>1. CASE Won(p)
    <3>1. task' = [task EXCEPT !.status = "failure", !.full = TRUE, !.reason = "orphan"]
      BY <1>6, <2>1 DEF MarkFailed
    <3>2. task'.status \in Terminal /\ task'.reason = "orphan" /\ task'.quota = task.quota
      BY <1>0, <3>1 DEF Row, Terminal
    <3>3. /\ task.status \in Open /\ task.quota = price
          /\ UNCHANGED <<funding, token, pre, price, sub, kind, legacy, lost>>
      BY <1>4, <1>6, <2>1 DEF MarkFailed
    <3>4. pc'[p] \notin Billing /\ \A q \in Pollers : q # p => pc'[q] = pc[q]
      BY <1>0, <1>6 DEF MarkFailed, Done, Goto, Billing
    <3> QED BY <3>2, <3>3, <3>4, BalanceEnd
  <2>2. CASE ~Won(p)
    BY <1>3, <1>6, <2>2 DEF MarkFailed
  <2> QED BY <2>1, <2>2
<1>7. CASE PollOpen(p) \/ RecordPollFailure(p)
  <2>0. /\ pc[p] = "poll" /\ Done(p, "idle")
        /\ UNCHANGED <<funding, token, pre, price, sub, kind, legacy, lost>>
    BY <1>7 DEF PollOpen, RecordPollFailure
  <2>1. CASE Won(p)
    <3>1. task'.status \in Open /\ task'.quota = snap[p].quota /\ task'.reason = snap[p].reason
      <4>1. CASE PollOpen(p)
        BY <1>0, <2>1, <4>1 DEF PollOpen, UpdateWithStatus, Won, Row
      <4>2. CASE RecordPollFailure(p)
        <5>1. snap[p].status \in Open
          BY <1>4, <2>0, <2>1 DEF Won
        <5> QED BY <1>0, <2>1, <4>2, <5>1 DEF RecordPollFailure, UpdateWithStatus, Won, Row
      <4> QED BY <1>7, <4>1, <4>2
    <3>2. pc'[p] \notin Billing /\ \A q \in Pollers : q # p => pc'[q] = pc[q]
      BY <1>0, <2>0 DEF Done, Goto, Billing
    <3> QED BY <1>4, <2>0, <2>1, <3>1, <3>2, BalanceOpen
  <2>2. CASE ~Won(p)
    BY <1>3, <1>7, <2>0, <2>2 DEF PollOpen, RecordPollFailure, UpdateWithStatus, Won
  <2> QED BY <2>1, <2>2
<1>8. CASE PollTerminal(p)
  <2> DEFINE ok == [snap[p] EXCEPT !.status = "success", !.full = TRUE]
             ko == [snap[p] EXCEPT !.status = "failure", !.full = TRUE, !.reason = "upstream"]
  <2>1. snap[p].reason = "none"
    BY <1>8 DEF PollTerminal, Shape, SnapsAreOpen
  <2>2. /\ ok \in Row /\ ok.status \in Terminal /\ ok.quota = snap[p].quota /\ ok.reason # "timeout"
        /\ ko \in Row /\ ko.status \in Terminal /\ ko.quota = snap[p].quota /\ ko.reason # "timeout"
    BY <1>0, <2>1 DEF Row, Terminal, Reasons
  <2>3. Finish(p, ok) \/ Finish(p, ko)
    BY <1>8 DEF PollTerminal
  <2> HIDE DEF ok, ko
  <2> QED BY <1>8, <2>2, <2>3, BalanceFinish DEF PollTerminal
<1>9. CASE FailTaskFromPoll(p)
  <2>1. PICK n \in {snap[p].failures, MaxPollFailures} :
           Finish(p, [snap[p] EXCEPT !.status = "failure", !.full = TRUE,
                                     !.failures = n, !.reason = "poll"])
    BY <1>9 DEF FailTaskFromPoll
  <2> DEFINE row == [snap[p] EXCEPT !.status = "failure", !.full = TRUE,
                                    !.failures = n, !.reason = "poll"]
  <2>2. /\ row \in Row /\ row.status \in Terminal
        /\ row.quota = snap[p].quota /\ row.reason # "timeout"
    <3>1. n \in 0..MaxPollFailures
      BY <1>0 DEF Row
    <3> QED BY <1>0, <3>1 DEF Row, Terminal, Reasons
  <2> HIDE DEF row
  <2> QED BY <1>9, <2>1, <2>2, BalanceFinish DEF FailTaskFromPoll, row
<1>10. CASE Fault(p)
  <2>1. (pc[p] \in Billing => lost') /\ (lost => lost')
    BY <1>0, <1>10, Zenon DEF Fault
  <2> QED BY <1>10, <2>1, BalanceDone DEF Fault
<1> QED BY <1>2, <1>5, <1>6, <1>7, <1>8, <1>9, <1>10, BalanceBill DEF Step

\* Every step keeps the balance, if an insert that fails writes nothing.
LEMMA BalanceStep ==
    ASSUME ~InsertMayLie
    PROVE  TaskTypeOK /\ Shape /\ Balance /\ [Next]_vars => Balance'
<1> SUFFICES ASSUME TaskTypeOK, Shape, Balance, [Next]_vars PROVE Balance'
  OBVIOUS
<1>0. TaskTypeOK'
  BY TypeStep
<1>1. CASE Timeout \/ UNCHANGED vars
  <2>1. UNCHANGED <<task, funding, token, pre, price, sub, kind, legacy, pc, target, lost>>
    BY <1>1 DEF Timeout, vars, pass, fixed, money
  <2> QED BY <2>1 DEF Balance, ExcessOK, Covered, Accounted, Refunded, Excess
<1> QED BY <1>0, <1>1, BalanceSubmission, BalancePass DEF Next, Faults

\* The inductive invariant holds in every state.
LEMMA TaskInvariant ==
    ASSUME ~InsertMayLie
    PROVE  Spec => [](TaskTypeOK /\ Shape /\ Balance)
BY TypeInit, TypeStep, ShapeInit, ShapeStep, BalanceInit, BalanceStep, PTL DEF Spec

\* If an insert that fails writes nothing, a task never returns more than it
\* took, whatever fails and however the polling passes overlap.
THEOREM TaskNeverOverRefunded ==
    ASSUME ~InsertMayLie
    PROVE  Spec => []NeverOverRefunded
<1>1. TaskTypeOK /\ Shape /\ Balance => NeverOverRefunded
  <2> SUFFICES ASSUME TaskTypeOK, Balance PROVE NeverOverRefunded
    OBVIOUS
  <2>1. Excess \in Nat /\ funding \in Int /\ token \in Int
    BY ExcessType DEF Balance
  <2> QED BY <2>1 DEF Balance, Covered, NeverOverRefunded
<1> QED BY <1>1, TaskInvariant, PTL

\* If an insert that fails writes nothing and no billing step was interrupted,
\* what the task took from the wallet and from the token is, once nothing is
\* being billed, the quota its row records.
THEOREM TaskChargeMatchesRow ==
    ASSUME ~InsertMayLie
    PROVE  Spec => []ChargeMatchesRow
<1>1. TaskTypeOK /\ Shape /\ Balance => ChargeMatchesRow
  <2> SUFFICES ASSUME TaskTypeOK, Balance, Quiet, ~lost, ~(legacy /\ task.reason = "timeout")
               PROVE  funding = task.quota /\ token = task.quota
    BY DEF ChargeMatchesRow
  <2>1. Excess = 0 /\ task.quota \in Nat
    BY ExcessType DEF Quiet, Excess, Balance
  <2> QED BY <2>1 DEF Balance, Accounted, Quiet, Billing
<1> QED BY <1>1, TaskInvariant, PTL

\* Under the same conditions a failure that polling observed, or that the sweep
\* declared, ends with the full refund, unless the task is billed by usage.
THEOREM TaskFailureRefunded ==
    ASSUME ~InsertMayLie
    PROVE  Spec => []ObservedFailureRefunded
<1>1. TaskTypeOK /\ Shape /\ Balance => ObservedFailureRefunded
  <2> SUFFICES ASSUME TaskTypeOK, Balance, Quiet, ~lost, ~legacy, task.status = "failure",
                      task.reason \notin {"orphan", "immediate"}, kind # "usage"
               PROVE  funding = 0
    BY DEF ObservedFailureRefunded
  <2>1. Excess = 0 /\ task.quota = 0
    BY DEF Quiet, Excess, Balance, Refunded
  <2> QED BY <2>1 DEF Balance, Accounted, Quiet, Billing
<1> QED BY <1>1, TaskInvariant, PTL
=============================================================================
