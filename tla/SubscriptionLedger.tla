------------------------- MODULE SubscriptionLedger -------------------------
(***************************************************************************)
(* The subscription quota ledger of model/subscription.go for one user:     *)
(* pre-consume with an idempotency record per request, later adjustments,   *)
(* the refund of a pre-consume with the retries of service/                 *)
(* funding_source.go, quota resets and the administrator's operations.      *)
(*                                                                          *)
(* Every DB.Transaction is one step, except the refund: its outer           *)
(* transaction stays open on one pooled connection while                    *)
(* PostConsumeUserSubscriptionDelta runs a transaction of its own on        *)
(* another.  The client of the ledger is the most general one: any request  *)
(* may pre-consume, anybody may adjust, a refund may start at any time.     *)
(***************************************************************************)
EXTENDS Integers, FiniteSets

CONSTANTS NSubs,         \* the user's subscriptions, numbered by end_time
          Requests,      \* request ids
          PlanTotal,     \* total_amount of each subscription's plan; 0: unlimited
          Amounts,       \* amounts a request pre-consumes
          Deltas,        \* sizes of later adjustments
          MaxTotal,      \* stands for math.MaxInt64 in the increase check
          MaxUsed,       \* bound on the usage of an unlimited subscription
          MaxAttempts,   \* maxAttempts of refundWithRetry
          MaxResets,     \* bound on the number of resets
          MaxConns,      \* SQL_MAX_OPEN_CONNS
          SQLite,        \* one writer at a time, taken by BEGIN IMMEDIATE
          DBMayFail,     \* a transaction may return an error
          CommitMayFail  \* the outer refund transaction may fail after the inner one

Subs == 1..NSubs

ASSUME LedgerNumbers ==
    /\ NSubs \in Nat /\ PlanTotal \in [Subs -> Nat]
    /\ Amounts \subseteq Nat \ {0} /\ Deltas \subseteq Nat \ {0}
    /\ {MaxTotal, MaxUsed, MaxAttempts, MaxResets, MaxConns} \subseteq Nat
    /\ MaxAttempts > 0
ASSUME LedgerSwitches == {SQLite, DBMayFail, CommitMayFail} \subseteq BOOLEAN

VARIABLES used,    \* amount_used
          total,   \* amount_total; 0: unlimited
          life,    \* active; over: end_time has passed; ended: marked cancelled
                   \* or expired; deleted
          due,     \* whether next_reset_time has passed (listed: and the reset
                   \* task has read the row)
          resets,  \* number of resets that fell due or were forced
          rec,     \* subscription_pre_consume_records: status per request
          recSub,  \* user_subscription_id of the record (0: none)
          recAmt,  \* pre_consumed of the record
          rf,      \* where the refund of the request is
          tries,   \* failed attempts of refundWithRetry
          credit   \* history: quota given back for the request by its refund

subVars == <<used, total, life, due, resets>>
recVars == <<rec, recSub, recAmt>>
rfVars  == <<rf, tries, credit>>
ledgerVars == <<subVars, recVars, rfVars>>

RefundPhases == {"idle", "begin", "open", "credited", "done", "gaveup"}

LedgerTypeOK ==
    /\ used \in [Subs -> Nat] /\ total \in [Subs -> Nat]
    /\ life \in [Subs -> {"active", "over", "ended", "deleted"}]
    /\ due \in [Subs -> {"no", "yes", "listed"}] /\ resets \in 0..MaxResets
    /\ rec \in [Requests -> {"none", "consumed", "refunded"}]
    /\ recSub \in [Requests -> Subs \cup {0}] /\ recAmt \in [Requests -> Nat]
    /\ rf \in [Requests -> RefundPhases] /\ tries \in [Requests -> 0..MaxAttempts]
    /\ credit \in [Requests -> Nat]

LedgerInit ==
    /\ used = [s \in Subs |-> 0]
    /\ total = PlanTotal
    /\ life = [s \in Subs |-> "active"]
    /\ due = [s \in Subs |-> "no"]
    /\ resets = 0
    /\ rec = [r \in Requests |-> "none"]
    /\ recSub = [r \in Requests |-> 0]
    /\ recAmt = [r \in Requests |-> 0]
    /\ rf = [r \in Requests |-> "idle"]
    /\ tries = [r \in Requests |-> 0]
    /\ credit = [r \in Requests |-> 0]

-----------------------------------------------------------------------------
(* The connection pool and the writer lock.                                 *)

\* The refunds whose outer transaction is open.
OuterOpen == {r \in Requests : rf[r] \in {"open", "credited"}}

\* A transaction needs a pooled connection and, on SQLite, the writer lock.
CanBegin == Cardinality(OuterOpen) < MaxConns /\ (SQLite => OuterOpen = {})

-----------------------------------------------------------------------------
(* Pre-consume and adjust.                                                  *)

\* A subscription as maybeResetUserSubscriptionWithPlanTx leaves it.
UsedNow(s)  == IF due[s] = "no" THEN used[s] ELSE 0
TotalNow(s) == IF due[s] = "no" THEN total[s] ELSE PlanTotal[s]

Fits(s, a) ==
    /\ life[s] = "active"
    /\ TotalNow(s) > 0 => TotalNow(s) - UsedNow(s) >= a
    /\ TotalNow(s) = 0 => UsedNow(s) + a <= MaxUsed

\* The first active subscription with enough left is charged; it and those
\* looked at before it are reset when due.
PreConsumeUserSubscription(r, a) ==
    \E s \in Subs :
        /\ CanBegin
        /\ rec[r] = "none"
        /\ Fits(s, a)
        /\ \A u \in Subs : u < s => ~Fits(u, a)
        /\ LET looked(u) == u <= s /\ life[u] = "active"
           IN  /\ used' = [u \in Subs |-> IF u = s THEN UsedNow(u) + a
                                          ELSE IF looked(u) THEN UsedNow(u) ELSE used[u]]
               /\ total' = [u \in Subs |-> IF looked(u) THEN TotalNow(u) ELSE total[u]]
               /\ due' = [u \in Subs |-> IF looked(u) THEN "no" ELSE due[u]]
        /\ rec' = [rec EXCEPT ![r] = "consumed"]
        /\ recSub' = [recSub EXCEPT ![r] = s]
        /\ recAmt' = [recAmt EXCEPT ![r] = a]
        /\ UNCHANGED <<life, resets, rfVars>>

NewUsedUnfloored(s, d) == used[s] + d

\* amount_used after an adjustment by d; it never goes below zero.
NewUsed(s, d) == IF used[s] + d < 0 THEN 0 ELSE used[s] + d

\* PostConsumeUserSubscriptionDelta refuses to exceed the total.
Adjustable(s, d) ==
    /\ s \in Subs /\ life[s] # "deleted"
    /\ NewUsed(s, d) <= IF total[s] > 0 THEN total[s] ELSE MaxUsed

PostConsumeUserSubscriptionDelta(s, d) ==
    /\ Adjustable(s, d)
    /\ used' = [used EXCEPT ![s] = NewUsed(s, d)]

\* An adjustment by Settle, Reserve or the task billing.
Adjust(s, d) ==
    /\ CanBegin
    /\ PostConsumeUserSubscriptionDelta(s, d)
    /\ UNCHANGED <<total, life, due, resets, recVars, rfVars>>

-----------------------------------------------------------------------------
(* RefundSubscriptionPreConsume under refundWithRetry.                      *)

\* SubscriptionFunding.Refund; the caller may repeat it for the same request.
SubscriptionRefund(r) ==
    /\ rf[r] \in {"idle", "done", "gaveup"} /\ rec[r] # "none"
    /\ rf' = [rf EXCEPT ![r] = "begin"]
    /\ tries' = [tries EXCEPT ![r] = 0]
    /\ UNCHANGED <<subVars, recVars, credit>>

RetryForever(r) ==
    /\ rf' = [rf EXCEPT ![r] = "begin"]
    /\ UNCHANGED <<subVars, recVars, tries, credit>>

\* An attempt failed: its outer transaction is rolled back.
AttemptFailed(r) ==
    /\ tries' = [tries EXCEPT ![r] = @ + 1]
    /\ rf' = [rf EXCEPT ![r] = IF tries[r] + 1 < MaxAttempts THEN "begin" ELSE "gaveup"]
    /\ UNCHANGED <<subVars, recVars, credit>>

\* The outer transaction locks the record; a refunded one ends the refund.
RefundOpen(r) ==
    /\ rf[r] = "begin"
    /\ CanBegin
    /\ \/ /\ rf' = [rf EXCEPT ![r] = IF rec[r] = "refunded" THEN "done" ELSE "open"]
          /\ UNCHANGED <<subVars, recVars, tries, credit>>
       \/ DBMayFail /\ AttemptFailed(r)

\* The inner transaction commits on its own connection.  On SQLite it waits
\* for the writer lock its own outer transaction holds, until it times out.
RefundCredit(r) ==
    /\ rf[r] = "open"
    /\ Cardinality(OuterOpen) < MaxConns
    /\ \/ /\ ~SQLite
          /\ PostConsumeUserSubscriptionDelta(recSub[r], -recAmt[r])
          /\ credit' = [credit EXCEPT ![r] = @ + recAmt[r]]
          /\ rf' = [rf EXCEPT ![r] = "credited"]
          /\ UNCHANGED <<total, life, due, resets, recVars, tries>>
       \/ /\ SQLite \/ DBMayFail \/ ~Adjustable(recSub[r], -recAmt[r])
          /\ AttemptFailed(r)

SaveWithoutStatus(r) ==
    /\ rf[r] = "credited"
    /\ \/ rf' = [rf EXCEPT ![r] = "done"] /\ UNCHANGED <<subVars, recVars, tries, credit>>
       \/ CommitMayFail /\ AttemptFailed(r)

\* The record is marked refunded and the outer transaction commits.
RefundSave(r) ==
    /\ rf[r] = "credited"
    /\ \/ /\ rec' = [rec EXCEPT ![r] = "refunded"]
          /\ rf' = [rf EXCEPT ![r] = "done"]
          /\ UNCHANGED <<subVars, recSub, recAmt, tries, credit>>
       \/ CommitMayFail /\ AttemptFailed(r)

RefundStep(r) == RefundOpen(r) \/ RefundCredit(r) \/ RefundSave(r)

-----------------------------------------------------------------------------
(* Resets, expiry and the administrator.                                    *)

ResetTo(s) ==
    /\ used' = [used EXCEPT ![s] = 0]
    /\ total' = [total EXCEPT ![s] = PlanTotal[s]]

\* next_reset_time passes.
ResetFallsDue(s) ==
    /\ due[s] = "no" /\ resets < MaxResets
    /\ due' = [due EXCEPT ![s] = "yes"]
    /\ resets' = resets + 1
    /\ UNCHANGED <<used, total, life, recVars, rfVars>>

\* ResetDueSubscriptions reads the due rows first ...
ResetList(s) ==
    /\ life[s] \in {"active", "over"} /\ due[s] = "yes"
    /\ due' = [due EXCEPT ![s] = "listed"]
    /\ UNCHANGED <<used, total, life, resets, recVars, rfVars>>

\* ... and resets each in a transaction that looks at next_reset_time again, but
\* not at the status.
ResetDueSubscriptions(s) ==
    /\ CanBegin /\ life[s] # "deleted" /\ due[s] = "listed"
    /\ ResetTo(s)
    /\ due' = [due EXCEPT ![s] = "no"]
    /\ UNCHANGED <<life, resets, recVars, rfVars>>

\* The administrator resets the plan's subscriptions, moving the next reset
\* time or not.
AdminReset(s) ==
    /\ CanBegin /\ life[s] = "active" /\ resets < MaxResets
    /\ ResetTo(s)
    /\ due' \in {due, [due EXCEPT ![s] = "no"]}
    /\ resets' = resets + 1
    /\ UNCHANGED <<life, recVars, rfVars>>

EndTimePasses(s) ==
    /\ life[s] = "active"
    /\ life' = [life EXCEPT ![s] = "over"]
    /\ UNCHANGED <<used, total, due, resets, recVars, rfVars>>

EndAs(s, state) ==
    /\ CanBegin
    /\ life' = [life EXCEPT ![s] = state]
    /\ UNCHANGED <<used, total, due, resets, recVars, rfVars>>

ExpireDueSubscriptions(s) == life[s] = "over" /\ EndAs(s, "ended")

AdminInvalidateUserSubscription(s) == life[s] \in {"active", "over"} /\ EndAs(s, "ended")

AdminDeleteUserSubscription(s) == life[s] # "deleted" /\ EndAs(s, "deleted")

AdminIncreaseUserSubscriptionQuota(s, d) ==
    /\ CanBegin /\ life[s] = "active"
    /\ total[s] <= MaxTotal - d
    /\ total' = [total EXCEPT ![s] = @ + d]
    /\ UNCHANGED <<used, life, due, resets, recVars, rfVars>>

DecreaseBelowUsed(s, d) ==
    /\ CanBegin /\ life[s] = "active"
    /\ total[s] > 0 /\ d < total[s]
    /\ total' = [total EXCEPT ![s] = @ - d]
    /\ UNCHANGED <<used, life, due, resets, recVars, rfVars>>

AdminDecreaseUserSubscriptionQuota(s, d) ==
    /\ CanBegin /\ life[s] = "active"
    /\ total[s] > 0 /\ d < total[s] /\ total[s] - d >= used[s]
    /\ total' = [total EXCEPT ![s] = @ - d]
    /\ UNCHANGED <<used, life, due, resets, recVars, rfVars>>

Maintenance ==
    \E s \in Subs :
        \/ ResetFallsDue(s) \/ ResetList(s) \/ ResetDueSubscriptions(s) \/ AdminReset(s)
        \/ EndTimePasses(s) \/ ExpireDueSubscriptions(s)
        \/ AdminInvalidateUserSubscription(s) \/ AdminDeleteUserSubscription(s)
        \/ \E d \in Deltas :
              \/ AdminIncreaseUserSubscriptionQuota(s, d)
              \/ AdminDecreaseUserSubscriptionQuota(s, d)

Client ==
    \/ \E r \in Requests :
          \/ \E a \in Amounts : PreConsumeUserSubscription(r, a)
          \/ SubscriptionRefund(r)
          \/ RefundStep(r)
    \/ \E s \in Subs, d \in Deltas : Adjust(s, d) \/ Adjust(s, -d)

LedgerNext == Client \/ Maintenance

LedgerSpec == LedgerInit /\ [][LedgerNext]_ledgerVars

\* The refund goroutine keeps running.
FairLedgerSpec == LedgerSpec /\ \A r \in Requests : WF_ledgerVars(RefundStep(r))

-----------------------------------------------------------------------------
\* Whatever pre-consumes, adjustments, refunds, resets and administrators do at
\* the same time, a limited subscription is never used beyond its total.
UsedWithinTotal == \A s \in Subs : total[s] > 0 => used[s] <= total[s]

\* model/subscription.go:1684: the refund "is idempotent": whatever attempts
\* fail and are retried, and however often the refund is called, a request gets
\* back no more than it pre-consumed.
RefundIsIdempotent == \A r \in Requests : credit[r] <= recAmt[r]

\* refundWithRetry ends: no refund waits for a connection, a lock or itself for
\* ever.
RefundEnds == \A r \in Requests : rf[r] = "begin" ~> rf[r] \in {"done", "gaveup"}

\* model/subscription.go:1684: the refund "refunds pre-consumed subscription
\* quota": started on a subscription that is not deleted, it gives the amount back.
RefundRestores ==
    \A r \in Requests : rf[r] = "begin" ~>
        credit[r] = recAmt[r] \/ life[recSub[r]] = "deleted"
=============================================================================
