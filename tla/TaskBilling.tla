---------------------------- MODULE TaskBilling ----------------------------
(***************************************************************************)
(* One asynchronous task, from its submission (controller/relay.go) through *)
(* the polling passes (service/task_polling.go) to its final billing        *)
(* (service/task_billing.go).  Passes overlap when a runner loses its       *)
(* lease, so several work on snapshots of the same row.                     *)
(*                                                                          *)
(* funding and token are what the task has taken, net, from the user's      *)
(* wallet or subscription and from the API token.  A compare-and-swap       *)
(* writes the whole row, as Select("*") does.                               *)
(***************************************************************************)
EXTENDS Integers

CONSTANTS Pollers,       \* polling passes that may overlap
          Quotas,        \* possible prices of the task
          MaxPollFailures, \* TaskPollMaxFailures
          MaxFaults,     \* bound on failed statements and crashes
          InsertMayLie,  \* whether an insert may commit and still return an error
          EarlyComplete  \* whether upstream may report 100% of an open task

ASSUME TaskQuotas == Quotas \subseteq Nat \ {0}
ASSUME TaskBounds == MaxPollFailures \in Nat \ {0} /\ MaxFaults \in Nat
ASSUME TaskSwitches == InsertMayLie \in BOOLEAN /\ EarlyComplete \in BOOLEAN

VARIABLES task,    \* the tasks row
          funding, token,
          pre,     \* what the billing session holds
          price,   \* result.Quota of the accepted submission
          sub,     \* where the submission is
          kind,    \* how the task is billed on completion
          legacy,  \* submitted before TaskRefundLegacyCutoff
          late,    \* older than TaskTimeoutMinutes
          pc,      \* where each polling pass is
          snap,    \* the row the pass listed
          target,  \* the quota the pass settles to
          faults,
          lost     \* history: a fault hit an unfinished billing adjustment

pass == <<pc, snap, target>>
money == <<funding, token>>
fixed == <<kind, legacy>>
vars == <<task, money, pre, price, sub, fixed, late, pass, faults, lost>>

Open     == {"submitted", "in_progress"}
Terminal == {"success", "failure"}
Reasons  == {"none", "immediate", "upstream", "poll", "timeout", "orphan"}
MaxQuota == CHOOSE q \in Quotas : \A r \in Quotas : r <= q
NoTask   == [status |-> "none", full |-> FALSE, quota |-> 0, failures |-> 0, reason |-> "none"]
Row      == [status : {"none"} \cup Open \cup Terminal, full : BOOLEAN,
             quota : Quotas \cup {0}, failures : 0..MaxPollFailures, reason : Reasons]
Billing  == {"fund", "token", "clear"}

TaskTypeOK ==
    /\ task \in Row
    /\ funding \in Int /\ token \in Int
    /\ pre \in Quotas \cup {0} /\ price \in Quotas \cup {0}
    /\ sub \in {"start", "insert", "settle", "refund", "done"}
    /\ kind \in {"tiered", "per_call", "usage"}
    /\ legacy \in BOOLEAN /\ late \in BOOLEAN /\ lost \in BOOLEAN
    /\ pc \in [Pollers -> {"idle", "sweep", "list", "poll"} \cup Billing]
    /\ snap \in [Pollers -> Row]
    /\ target \in [Pollers -> Quotas \cup {0}]
    /\ faults \in 0..MaxFaults

Init ==
    /\ task = NoTask
    /\ funding = 0 /\ token = 0 /\ pre = 0 /\ price = 0
    /\ sub = "start"
    /\ kind \in {"tiered", "per_call", "usage"}
    /\ legacy \in BOOLEAN
    /\ late = FALSE
    /\ pc = [p \in Pollers |-> "idle"]
    /\ snap = [p \in Pollers |-> NoTask]
    /\ target = [p \in Pollers |-> 0]
    /\ faults = 0 /\ lost = FALSE

-----------------------------------------------------------------------------
(* Submission: executeTaskSubmissionWith.                                   *)

\* The upstream accepted the task and Reserve has covered its price.
Reserve ==
    /\ sub = "start"
    /\ \E q, r \in Quotas :
         /\ q <= r
         /\ price' = q /\ pre' = r /\ funding' = r /\ token' = r
    /\ sub' = "insert"
    /\ UNCHANGED <<task, fixed, late, pass, faults, lost>>

\* The row the submission writes; the upstream may already have an outcome.
NewTask == [NoTask EXCEPT !.status = "submitted", !.quota = price]
Immediate == [NewTask EXCEPT !.full = TRUE]
InsertRow ==
    task' \in {NewTask, [Immediate EXCEPT !.status = "success"],
               [Immediate EXCEPT !.status = "failure", !.reason = "immediate"]}

Insert ==
    /\ sub = "insert"
    /\ InsertRow
    /\ sub' = "settle"
    /\ UNCHANGED <<money, pre, price, fixed, late, pass, faults, lost>>

InsertFails ==
    /\ sub = "insert" /\ faults < MaxFaults
    /\ UNCHANGED task \/ (InsertMayLie /\ InsertRow)
    /\ sub' = "refund" /\ faults' = faults + 1
    /\ UNCHANGED <<money, pre, price, fixed, late, pass, lost>>

\* The deferred refund of a submission that is not durable.
RefundSubmission ==
    /\ sub = "refund"
    /\ funding' = funding - pre /\ token' = token - pre /\ pre' = 0
    /\ sub' = "done"
    /\ UNCHANGED <<task, price, fixed, late, pass, faults, lost>>

\* SettleBilling gives back what was reserved above the price.
SettleSubmission ==
    /\ sub = "settle"
    /\ funding' = funding - (pre - price) /\ token' = token - (pre - price)
    /\ pre' = price
    /\ sub' = "done"
    /\ UNCHANGED <<task, price, fixed, late, pass, faults, lost>>

-----------------------------------------------------------------------------
(* A polling pass: the sweep of timed-out tasks, then the listed tasks.     *)

Goto(p, label) == pc' = [pc EXCEPT ![p] = label]

ListedUnstarted == task.status = "submitted" /\ ~task.full

\* What both queries ask for.
Listed == task.status \in Open /\ ~task.full

UpdateAnyStatus(p, row) == task' = row

\* UpdateWithStatus: the whole row, if its status is still the listed one.
UpdateWithStatus(p, row) ==
    task' = IF task.status = snap[p].status THEN row ELSE task
Won(p) == task.status = snap[p].status

\* The pass has nothing more to do with this task.
Done(p, label) ==
    /\ Goto(p, label)
    /\ snap' = [snap EXCEPT ![p] = NoTask]
    /\ target' = [target EXCEPT ![p] = 0]

SweepList(p) ==
    /\ pc[p] = "idle"
    /\ IF Listed /\ late
       THEN Goto(p, "sweep") /\ snap' = [snap EXCEPT ![p] = task] /\ UNCHANGED target
       ELSE Done(p, "list")
    /\ UNCHANGED <<task, money, pre, price, sub, fixed, late, faults, lost>>

\* A legacy task is failed without a refund, its quota cleared with it.
TimedOutRow(s) ==
    [s EXCEPT !.status = "failure", !.full = TRUE, !.reason = "timeout",
              !.quota = IF legacy THEN 0 ELSE @]

SweepWithoutRefund(p) ==
    /\ pc[p] = "sweep"
    /\ UpdateWithStatus(p, TimedOutRow(snap[p]))
    /\ Done(p, "list")
    /\ UNCHANGED <<money, pre, price, sub, fixed, late, faults, lost>>

SweepTimedOut(p) ==
    /\ pc[p] = "sweep"
    /\ UpdateWithStatus(p, TimedOutRow(snap[p]))
    /\ IF Won(p) /\ ~legacy
       THEN Goto(p, "fund") /\ UNCHANGED <<snap, target>>
       ELSE Done(p, "list")
    /\ UNCHANGED <<money, pre, price, sub, fixed, late, faults, lost>>

List(p) ==
    /\ pc[p] = "list"
    /\ IF Listed
       THEN Goto(p, "poll") /\ snap' = [snap EXCEPT ![p] = task] /\ UNCHANGED target
       ELSE Done(p, "idle")
    /\ UNCHANGED <<task, money, pre, price, sub, fixed, late, faults, lost>>

\* No upstream id, or the channel is gone: markTasksFailedUsingCAS bills nothing.
MarkFailed(p) ==
    /\ pc[p] = "poll"
    /\ task' = IF Won(p)
               THEN [task EXCEPT !.status = "failure", !.full = TRUE, !.reason = "orphan"]
               ELSE task
    /\ Done(p, "idle")
    /\ UNCHANGED <<money, pre, price, sub, fixed, late, faults, lost>>

\* Upstream reports an open status, and with it a progress of its own.
PollOpen(p) ==
    /\ pc[p] = "poll"
    /\ \E s \in Open, f \in BOOLEAN :
         /\ f => EarlyComplete
         /\ UpdateWithStatus(p, [snap[p] EXCEPT !.status = s, !.full = f, !.failures = 0])
    /\ Done(p, "idle")
    /\ UNCHANGED <<money, pre, price, sub, fixed, late, faults, lost>>

RecordWithoutLimit(p) ==
    /\ pc[p] = "poll"
    /\ UpdateWithStatus(p, [snap[p] EXCEPT !.failures = @ + 1])
    /\ Done(p, "idle")
    /\ UNCHANGED <<money, pre, price, sub, fixed, late, faults, lost>>

\* recordPollFailure below the limit: transport, credentials, unknown answers.
RecordPollFailure(p) ==
    /\ pc[p] = "poll" /\ snap[p].failures + 1 < MaxPollFailures
    /\ UpdateWithStatus(p, [snap[p] EXCEPT !.failures = @ + 1])
    /\ Done(p, "idle")
    /\ UNCHANGED <<money, pre, price, sub, fixed, late, faults, lost>>

\* settleTaskBillingOnComplete and the refund of a failure it did not settle:
\* the quotas the task may end with.  A price expression that fails keeps the
\* reservation.
FinalQuotas(status, quota) ==
    LET unsettled == IF status = "failure" THEN {0} ELSE {quota} IN
    CASE kind = "tiered"   -> IF status = "failure" THEN {0} ELSE Quotas \cup {0, quota}
      [] kind = "per_call" -> unsettled
      [] kind = "usage"    -> unsettled \cup Quotas

FinishOnLoss(p, row) ==
    /\ UpdateWithStatus(p, row)
    /\ \E q \in FinalQuotas(row.status, row.quota) :
         Goto(p, "fund") /\ target' = [target EXCEPT ![p] = q] /\ UNCHANGED snap

\* The pass that wins the terminal transition bills the task.
Finish(p, row) ==
    /\ UpdateWithStatus(p, row)
    /\ IF Won(p)
       THEN \E q \in FinalQuotas(row.status, row.quota) :
              Goto(p, "fund") /\ target' = [target EXCEPT ![p] = q] /\ UNCHANGED snap
       ELSE Done(p, "idle")

PollTerminal(p) ==
    /\ pc[p] = "poll"
    /\ \/ Finish(p, [snap[p] EXCEPT !.status = "success", !.full = TRUE])
       \/ Finish(p, [snap[p] EXCEPT !.status = "failure", !.full = TRUE, !.reason = "upstream"])
    /\ UNCHANGED <<money, pre, price, sub, fixed, late, faults, lost>>

\* failTaskFromPoll: upstream does not know the task, or too many failures.
FailTaskFromPoll(p) ==
    /\ pc[p] = "poll"
    /\ \E n \in {snap[p].failures, MaxPollFailures} :
         Finish(p, [snap[p] EXCEPT !.status = "failure", !.full = TRUE,
                                   !.failures = n, !.reason = "poll"])
    /\ UNCHANGED <<money, pre, price, sub, fixed, late, faults, lost>>

-----------------------------------------------------------------------------
(* RefundTaskQuota and RecalculateTaskQuota: funding, token, then the row's  *)
(* quota.  snap[p].quota is the quota the pass believes was charged.         *)

Delta(p) == target[p] - snap[p].quota

AdjustFunding(p) ==
    /\ pc[p] = "fund"
    /\ IF Delta(p) = 0
       THEN Done(p, "idle") /\ UNCHANGED funding
       ELSE funding' = funding + Delta(p) /\ Goto(p, "token") /\ UNCHANGED <<snap, target>>
    /\ UNCHANGED <<task, token, pre, price, sub, fixed, late, faults, lost>>

AdjustToken(p) ==
    /\ pc[p] = "token"
    /\ token' = token + Delta(p)
    /\ Goto(p, "clear")
    /\ UNCHANGED <<task, funding, pre, price, sub, fixed, late, snap, target, faults, lost>>

\* The token could not be adjusted: logged, the billing goes on.
AdjustTokenFails(p) ==
    /\ pc[p] = "token" /\ faults < MaxFaults
    /\ Goto(p, "clear")
    /\ faults' = faults + 1 /\ lost' = TRUE
    /\ UNCHANGED <<task, money, pre, price, sub, fixed, late, snap, target>>

ForgetQuota(p) ==
    /\ pc[p] = "clear"
    /\ Done(p, "idle")
    /\ UNCHANGED <<task, money, pre, price, sub, fixed, late, faults, lost>>

UpdateQuota(p) ==
    /\ pc[p] = "clear"
    /\ task' = [task EXCEPT !.quota = target[p]]
    /\ Done(p, "idle")
    /\ UNCHANGED <<money, pre, price, sub, fixed, late, faults, lost>>

\* A statement fails or the process dies: the pass ends where it is.  Nothing
\* resumes a billing adjustment that was under way.
Fault(p) ==
    /\ pc[p] # "idle" /\ faults < MaxFaults
    /\ Done(p, "idle")
    /\ faults' = faults + 1
    /\ lost' = (lost \/ pc[p] \in Billing)
    /\ UNCHANGED <<task, money, pre, price, sub, fixed, late>>

\* The submitting process dies before its settlement or its refund.
SubmitterDies ==
    /\ sub \in {"insert", "settle", "refund"} /\ faults < MaxFaults
    /\ sub' = "done" /\ faults' = faults + 1 /\ lost' = TRUE
    /\ UNCHANGED <<task, money, pre, price, fixed, late, pass>>

Timeout ==
    /\ ~late /\ task.status # "none"
    /\ late' = TRUE
    /\ UNCHANGED <<task, money, pre, price, sub, fixed, pass, faults, lost>>

\* tryRealtimeFetch: a user's fetch of a Gemini or Vertex task asks upstream and
\* writes the answer over the row it read, as one step of the model.
RealtimeFetch ==
    /\ task.status # "none"
    /\ \E s \in Open \cup Terminal, f \in BOOLEAN :
         /\ s \in Terminal => f
         /\ task' = [task EXCEPT !.status = s, !.full = f]
    /\ UNCHANGED <<money, pre, price, sub, fixed, late, pass, faults, lost>>

Submission == Reserve \/ Insert \/ InsertFails \/ RefundSubmission \/ SettleSubmission
Step(p) ==
    \/ SweepList(p) \/ SweepTimedOut(p) \/ List(p)
    \/ MarkFailed(p) \/ PollOpen(p) \/ RecordPollFailure(p)
    \/ PollTerminal(p) \/ FailTaskFromPoll(p)
    \/ AdjustFunding(p) \/ AdjustToken(p) \/ UpdateQuota(p)
Faults == SubmitterDies \/ \E p \in Pollers : AdjustTokenFails(p) \/ Fault(p)

Next == Submission \/ Timeout \/ Faults \/ \E p \in Pollers : Step(p)

\* The passes are run by the system-task scheduler as long as a task is open;
\* time passes; and overlapping passes do not forever slip a status change
\* between the two statements of each other's sweep.
Fairness ==
    /\ WF_vars(Timeout)
    /\ \A p \in Pollers : WF_vars(Step(p)) /\ SF_vars(Won(p) /\ SweepTimedOut(p))

Spec == Init /\ [][Next]_vars /\ Fairness
FetchSpec == Init /\ [][Next \/ RealtimeFetch]_vars

-----------------------------------------------------------------------------
(* Properties                                                               *)

Quiet == sub = "done" /\ \A p \in Pollers : pc[p] \notin Billing

\* When every billing step has run its course, what the task took from the
\* wallet and from the token is the quota its row records: nothing is charged
\* that the row does not show, and nothing is returned twice.
ChargeMatchesRow ==
    Quiet /\ ~lost /\ ~(legacy /\ task.reason = "timeout")
        => funding = task.quota /\ token = task.quota

\* Whatever fails and whoever overlaps, a task never returns more than it took.
NeverOverRefunded == funding >= 0 /\ token >= 0

\* A task that fails after its submission ends with the full refund, whether
\* polling observed the failure or the sweep declared it; a task billed by usage
\* keeps what it used.
ObservedFailureRefunded ==
    (/\ Quiet /\ ~lost /\ ~legacy
     /\ task.status = "failure" /\ task.reason \notin {"orphan", "immediate"}
     /\ kind # "usage")
        => funding = 0

\* A finished task stays as it finished: no pass with an older snapshot reopens
\* it or turns its outcome.
OutcomeIsFinal ==
    [][task.status \in Terminal => task'.status = task.status]_vars

\* Every task ends, even if upstream never answers: the sweep ends it.
TaskEnds == task.status \in Open ~> task.status \in Terminal
=============================================================================
