---------------------- MODULE SubscriptionLedgerProofs ----------------------
(***************************************************************************)
(* What the subscription ledger guarantees for any number of requests and  *)
(* subscriptions, any amounts and any retry count.                         *)
(***************************************************************************)
EXTENDS SubscriptionLedger, TLAPS

-----------------------------------------------------------------------------
(* The steps of the ledger, whoever calls it.                               *)

\* A step of the ledger for any amount: the ones of its most general client and
\* the ones of a billing session are among them.
LedgerStep ==
    \/ \E r \in Requests :
          \/ \E a \in Nat : PreConsumeUserSubscription(r, a)
          \/ SubscriptionRefund(r)
          \/ RefundStep(r)
    \/ \E s \in Subs, d \in Int : Adjust(s, d)
    \/ Maintenance

\* The client of the ledger takes such steps.
LEMMA ClientSteps == LedgerNext => LedgerStep
<1> SUFFICES ASSUME LedgerNext PROVE LedgerStep
  OBVIOUS
<1>1. ASSUME NEW r \in Requests, NEW a \in Amounts, PreConsumeUserSubscription(r, a) PROVE LedgerStep
  BY <1>1, LedgerNumbers DEF LedgerStep
<1>2. ASSUME NEW s \in Subs, NEW d \in Deltas, Adjust(s, d) \/ Adjust(s, -d) PROVE LedgerStep
  <2>1. d \in Int /\ -d \in Int
    BY LedgerNumbers
  <2> QED BY <1>2, <2>1 DEF LedgerStep
<1> QED BY <1>1, <1>2 DEF LedgerNext, Client, LedgerStep

-----------------------------------------------------------------------------
(* The columns have their types.                                             *)

\* An attempt of refundWithRetry is made only while there is one left.
TriesLeft ==
    \A r \in Requests : rf[r] \in {"begin", "open", "credited"} => tries[r] < MaxAttempts

SubsTypes ==
    /\ used \in [Subs -> Nat] /\ total \in [Subs -> Nat]
    /\ life \in [Subs -> {"active", "over", "ended", "deleted"}]
    /\ due \in [Subs -> {"no", "yes", "listed"}] /\ resets \in 0..MaxResets

RecordTypes ==
    /\ rec \in [Requests -> {"none", "consumed", "refunded"}]
    /\ recSub \in [Requests -> Subs \cup {0}] /\ recAmt \in [Requests -> Nat]

RefundTypes ==
    /\ rf \in [Requests -> RefundPhases] /\ tries \in [Requests -> 0..MaxAttempts]
    /\ credit \in [Requests -> Nat] /\ TriesLeft

\* The administrator's operations, resets and expiry keep the types.
LEMMA MaintenanceTypes ==
    ASSUME SubsTypes, Maintenance
    PROVE  SubsTypes' /\ UNCHANGED <<recVars, rfVars>>
<1> USE LedgerNumbers DEF SubsTypes
<1>1. PICK s \in Subs :
         \/ ResetFallsDue(s) \/ ResetList(s) \/ ResetDueSubscriptions(s) \/ AdminReset(s)
         \/ EndTimePasses(s) \/ ExpireDueSubscriptions(s)
         \/ AdminInvalidateUserSubscription(s) \/ AdminDeleteUserSubscription(s)
         \/ \E d \in Deltas :
               \/ AdminIncreaseUserSubscriptionQuota(s, d)
               \/ AdminDecreaseUserSubscriptionQuota(s, d)
  BY DEF Maintenance
<1>2. CASE ResetFallsDue(s)
  BY <1>2 DEF ResetFallsDue
<1>3. CASE ResetList(s)
  BY <1>3 DEF ResetList
<1>4. CASE ResetDueSubscriptions(s)
  BY <1>4 DEF ResetDueSubscriptions, ResetTo
<1>5. CASE AdminReset(s)
  <2>1. used' \in [Subs -> Nat] /\ total' \in [Subs -> Nat]
    BY <1>5 DEF AdminReset, ResetTo
  <2>2. due' \in [Subs -> {"no", "yes", "listed"}]
    BY <1>5 DEF AdminReset
  <2>3. resets' \in 0..MaxResets
    BY <1>5 DEF AdminReset
  <2> QED BY <1>5, <2>1, <2>2, <2>3 DEF AdminReset
<1>6. CASE EndTimePasses(s)
  BY <1>6 DEF EndTimePasses
<1>7. CASE \/ ExpireDueSubscriptions(s) \/ AdminInvalidateUserSubscription(s)
           \/ AdminDeleteUserSubscription(s)
  BY <1>7 DEF ExpireDueSubscriptions, AdminInvalidateUserSubscription, AdminDeleteUserSubscription, EndAs
<1>8. ASSUME NEW d \in Deltas, AdminIncreaseUserSubscriptionQuota(s, d)
      PROVE  SubsTypes' /\ UNCHANGED <<recVars, rfVars>>
  <2>1. d \in Nat /\ total[s] \in Nat
    OBVIOUS
  <2>2. total[s] + d \in Nat
    BY <2>1
  <2> QED BY <1>8, <2>2 DEF AdminIncreaseUserSubscriptionQuota
<1>9. ASSUME NEW d \in Deltas, AdminDecreaseUserSubscriptionQuota(s, d)
      PROVE  SubsTypes' /\ UNCHANGED <<recVars, rfVars>>
  <2>1. d \in Nat /\ total[s] \in Nat /\ d < total[s]
    BY <1>9 DEF AdminDecreaseUserSubscriptionQuota
  <2>2. total[s] - d \in Nat
    BY <2>1
  <2> QED BY <1>9, <2>2 DEF AdminDecreaseUserSubscriptionQuota
<1> QED BY <1>1, <1>2, <1>3, <1>4, <1>5, <1>6, <1>7, <1>8, <1>9

\* So does every other step of the ledger.
LEMMA LedgerTypeStep ==
    ASSUME SubsTypes, RecordTypes, RefundTypes, LedgerStep
    PROVE  SubsTypes' /\ RecordTypes' /\ RefundTypes'
<1> USE LedgerNumbers
<1>1. ASSUME NEW r \in Requests, NEW a \in Nat, PreConsumeUserSubscription(r, a)
      PROVE  SubsTypes' /\ RecordTypes' /\ RefundTypes'
  <2>1. PICK s \in Subs :
           /\ used' = [u \in Subs |-> IF u = s THEN UsedNow(u) + a
                         ELSE IF u <= s /\ life[u] = "active" THEN UsedNow(u) ELSE used[u]]
           /\ total' = [u \in Subs |-> IF u <= s /\ life[u] = "active" THEN TotalNow(u) ELSE total[u]]
           /\ due' = [u \in Subs |-> IF u <= s /\ life[u] = "active" THEN "no" ELSE due[u]]
           /\ rec' = [rec EXCEPT ![r] = "consumed"]
           /\ recSub' = [recSub EXCEPT ![r] = s]
           /\ recAmt' = [recAmt EXCEPT ![r] = a]
           /\ UNCHANGED <<life, resets, rfVars>>
    BY <1>1 DEF PreConsumeUserSubscription
  <2>2. \A u \in Subs : UsedNow(u) \in Nat /\ TotalNow(u) \in Nat
    BY DEF UsedNow, TotalNow, SubsTypes
  <2>3. SubsTypes'
    BY <2>1, <2>2 DEF SubsTypes
  <2>4. RecordTypes'
    BY <2>1 DEF RecordTypes
  <2>5. RefundTypes'
    BY <2>1 DEF RefundTypes, TriesLeft, rfVars
  <2> QED BY <2>3, <2>4, <2>5
<1>2. ASSUME NEW s, NEW d \in Int, PostConsumeUserSubscriptionDelta(s, d),
             UNCHANGED <<total, life, due, resets>>
      PROVE  SubsTypes'
  <2>1. s \in Subs /\ used[s] \in Nat
    BY <1>2 DEF PostConsumeUserSubscriptionDelta, Adjustable, SubsTypes
  <2>2. NewUsed(s, d) \in Nat
    BY <2>1 DEF NewUsed
  <2> QED BY <1>2, <2>1, <2>2 DEF PostConsumeUserSubscriptionDelta, SubsTypes
<1>3. ASSUME NEW r \in Requests, AttemptFailed(r), rf[r] \in {"begin", "open", "credited"}
      PROVE  SubsTypes' /\ RecordTypes' /\ RefundTypes'
  <2>1. tries[r] \in 0..MaxAttempts /\ tries[r] < MaxAttempts
    BY <1>3 DEF RefundTypes, TriesLeft
  <2>2. tries[r] + 1 \in 0..MaxAttempts
    BY <2>1
  <2>3. /\ tries' = [tries EXCEPT ![r] = @ + 1]
        /\ rf' = [rf EXCEPT ![r] = IF tries[r] + 1 < MaxAttempts THEN "begin" ELSE "gaveup"]
        /\ UNCHANGED <<subVars, recVars, credit>>
    BY <1>3 DEF AttemptFailed
  <2>4. SubsTypes' /\ RecordTypes'
    BY <2>3 DEF SubsTypes, RecordTypes, subVars, recVars
  <2>5. tries' \in [Requests -> 0..MaxAttempts] /\ rf' \in [Requests -> RefundPhases]
    BY <2>2, <2>3 DEF RefundTypes, RefundPhases
  <2>6. TriesLeft'
    BY <2>3 DEF TriesLeft, RefundTypes
  <2> QED BY <2>3, <2>4, <2>5, <2>6 DEF RefundTypes
\* What the steps of the refund do to its own columns.
<1>4. ASSUME NEW r \in Requests, NEW p \in RefundPhases, rf' = [rf EXCEPT ![r] = p], tries' = tries,
             credit' \in [Requests -> Nat],
             p \in {"begin", "open", "credited"} => rf[r] \in {"begin", "open", "credited"}
      PROVE  RefundTypes'
  BY <1>4 DEF RefundTypes, TriesLeft
<1>5. ASSUME NEW r \in Requests, RefundOpen(r) PROVE SubsTypes' /\ RecordTypes' /\ RefundTypes'
  <2>1. CASE AttemptFailed(r)
    BY <1>3, <1>5, <2>1 DEF RefundOpen
  <2>2. CASE /\ rf' = [rf EXCEPT ![r] = IF rec[r] = "refunded" THEN "done" ELSE "open"]
             /\ UNCHANGED <<subVars, recVars, tries, credit>>
    <3>1. SubsTypes' /\ RecordTypes' /\ tries' = tries /\ credit' \in [Requests -> Nat]
      BY <2>2 DEF SubsTypes, RecordTypes, RefundTypes, subVars, recVars
    <3>2. rf[r] = "begin"
      BY <1>5 DEF RefundOpen
    <3>3. PICK p \in {"done", "open"} : rf' = [rf EXCEPT ![r] = p]
      BY <2>2
    <3>4. p \in RefundPhases
      BY DEF RefundPhases
    <3>5. RefundTypes'
      BY <1>4, <3>1, <3>2, <3>3, <3>4
    <3> QED BY <3>1, <3>5
  <2> QED BY <1>5, <2>1, <2>2 DEF RefundOpen
<1>6. ASSUME NEW r \in Requests, RefundCredit(r) PROVE SubsTypes' /\ RecordTypes' /\ RefundTypes'
  <2>1. CASE AttemptFailed(r)
    BY <1>3, <1>6, <2>1 DEF RefundCredit
  <2>2. CASE /\ PostConsumeUserSubscriptionDelta(recSub[r], -recAmt[r])
             /\ credit' = [credit EXCEPT ![r] = @ + recAmt[r]]
             /\ rf' = [rf EXCEPT ![r] = "credited"]
             /\ UNCHANGED <<total, life, due, resets, recVars, tries>>
    <3>1. recAmt[r] \in Nat /\ -recAmt[r] \in Int /\ credit[r] \in Nat
      BY DEF RecordTypes, RefundTypes
    <3>2. SubsTypes' /\ RecordTypes'
      BY <1>2, <2>2, <3>1 DEF RecordTypes, recVars
    <3>3. credit' \in [Requests -> Nat]
      BY <2>2, <3>1 DEF RefundTypes
    <3>4. RefundTypes'
      BY <1>4, <1>6, <2>2, <3>3 DEF RefundCredit, RefundPhases
    <3> QED BY <3>2, <3>4
  <2> QED BY <1>6, <2>1, <2>2 DEF RefundCredit
<1>7. ASSUME NEW r \in Requests, RefundSave(r) PROVE SubsTypes' /\ RecordTypes' /\ RefundTypes'
  <2>1. CASE AttemptFailed(r)
    BY <1>3, <1>7, <2>1 DEF RefundSave
  <2>2. CASE /\ rec' = [rec EXCEPT ![r] = "refunded"] /\ rf' = [rf EXCEPT ![r] = "done"]
             /\ UNCHANGED <<subVars, recSub, recAmt, tries, credit>>
    <3>1. SubsTypes' /\ RecordTypes'
      BY <2>2 DEF SubsTypes, RecordTypes, subVars
    <3>2. RefundTypes'
      BY <2>2 DEF RefundTypes, TriesLeft, RefundPhases
    <3> QED BY <3>1, <3>2
  <2> QED BY <1>7, <2>1, <2>2 DEF RefundSave
<1>8. ASSUME NEW r \in Requests, SubscriptionRefund(r) PROVE SubsTypes' /\ RecordTypes' /\ RefundTypes'
  <2>1. SubsTypes' /\ RecordTypes'
    BY <1>8 DEF SubscriptionRefund, SubsTypes, RecordTypes, subVars, recVars
  <2>2. rf' \in [Requests -> RefundPhases] /\ tries' \in [Requests -> 0..MaxAttempts] /\ credit' = credit
    BY <1>8 DEF SubscriptionRefund, RefundTypes, RefundPhases
  <2>3. TriesLeft'
    BY <1>8 DEF SubscriptionRefund, RefundTypes, TriesLeft
  <2> QED BY <2>1, <2>2, <2>3 DEF RefundTypes
<1>9. ASSUME NEW s \in Subs, NEW d \in Int, Adjust(s, d) PROVE SubsTypes' /\ RecordTypes' /\ RefundTypes'
  <2>1. SubsTypes'
    BY <1>2, <1>9 DEF Adjust
  <2> QED BY <1>9, <2>1 DEF Adjust, RecordTypes, RefundTypes, TriesLeft, recVars, rfVars
<1>10. CASE Maintenance
  BY <1>10, MaintenanceTypes DEF RecordTypes, RefundTypes, TriesLeft, recVars, rfVars
<1> QED BY <1>1, <1>5, <1>6, <1>7, <1>8, <1>9, <1>10 DEF LedgerStep, RefundStep

\* The ledger starts with the types it keeps.
LEMMA LedgerTypeInit == LedgerInit => SubsTypes /\ RecordTypes /\ RefundTypes
BY LedgerNumbers DEF LedgerInit, SubsTypes, RecordTypes, RefundTypes, TriesLeft, RefundPhases

\* Subscriptions, pre-consume records and refunds have their types; no more than
\* maxAttempts attempts of a refund are counted.
THEOREM LedgerTypes == LedgerSpec => []LedgerTypeOK
<1>1. /\ SubsTypes /\ RecordTypes /\ RefundTypes /\ [LedgerNext]_ledgerVars
      => SubsTypes' /\ RecordTypes' /\ RefundTypes'
  <2> SUFFICES ASSUME SubsTypes, RecordTypes, RefundTypes, [LedgerNext]_ledgerVars
               PROVE  SubsTypes' /\ RecordTypes' /\ RefundTypes'
    OBVIOUS
  <2>1. CASE LedgerNext
    BY <2>1, ClientSteps, LedgerTypeStep
  <2>2. CASE UNCHANGED ledgerVars
    BY <2>2 DEF SubsTypes, RecordTypes, RefundTypes, TriesLeft, ledgerVars, subVars, recVars, rfVars
  <2> QED BY <2>1, <2>2
<1>2. SubsTypes /\ RecordTypes /\ RefundTypes => LedgerTypeOK
  BY DEF SubsTypes, RecordTypes, RefundTypes, LedgerTypeOK
<1> QED BY <1>1, <1>2, LedgerTypeInit, PTL DEF LedgerSpec

-----------------------------------------------------------------------------
(* Every limited subscription stays within its total.                       *)

\* The columns of user_subscriptions are typed.
SubsTyped ==
    /\ used \in [Subs -> Nat] /\ total \in [Subs -> Nat]
    /\ recSub \in [Requests -> Subs \cup {0}] /\ recAmt \in [Requests -> Nat]

Limits == \A s \in Subs : total[s] > 0 /\ used[s] <= total[s]

\* Every step keeps the subscriptions limited and within their totals, when the
\* plans are limited: a reset restores a positive total, the decrease never goes
\* below what is used, and every charge is checked against the total.
LEMMA LimitStep ==
    ASSUME \A s \in Subs : PlanTotal[s] > 0, SubsTyped, Limits, LedgerStep
    PROVE  SubsTyped' /\ Limits'
<1> USE LedgerNumbers DEF SubsTyped, Limits
<1>1. ASSUME NEW r \in Requests, NEW a \in Nat, PreConsumeUserSubscription(r, a)
      PROVE  SubsTyped' /\ Limits'
  <2>1. \A s \in Subs : /\ UsedNow(s) \in Nat /\ TotalNow(s) \in Nat
                        /\ TotalNow(s) > 0 /\ UsedNow(s) <= TotalNow(s)
    BY DEF UsedNow, TotalNow
  <2>2. a \in Nat
    OBVIOUS
  <2>3. PICK s \in Subs :
           /\ Fits(s, a)
           /\ used' = [u \in Subs |-> IF u = s THEN UsedNow(u) + a
                         ELSE IF u <= s /\ life[u] = "active" THEN UsedNow(u) ELSE used[u]]
           /\ total' = [u \in Subs |-> IF u <= s /\ life[u] = "active" THEN TotalNow(u) ELSE total[u]]
           /\ recSub' = [recSub EXCEPT ![r] = s]
           /\ recAmt' = [recAmt EXCEPT ![r] = a]
    BY <1>1 DEF PreConsumeUserSubscription
  <2>4. UsedNow(s) + a <= TotalNow(s) /\ life[s] = "active" /\ s <= s
    <3>1. TotalNow(s) - UsedNow(s) >= a /\ life[s] = "active"
      BY <2>1, <2>3 DEF Fits
    <3>2. s \in Int
      BY <2>3 DEF Subs
    <3> QED BY <2>1, <2>2, <3>1, <3>2
  <2>5. SubsTyped'
    BY <2>1, <2>2, <2>3
  <2>6. \A u \in Subs : total'[u] > 0 /\ used'[u] <= total'[u]
    BY <2>1, <2>2, <2>3, <2>4
  <2> QED BY <2>5, <2>6
<1>2. ASSUME NEW s, NEW d \in Int, PostConsumeUserSubscriptionDelta(s, d),
             UNCHANGED <<total, recSub, recAmt>>
      PROVE  SubsTyped' /\ Limits'
  BY <1>2 DEF PostConsumeUserSubscriptionDelta, Adjustable, NewUsed
<1>3. ASSUME UNCHANGED <<used, total, recSub, recAmt>>
      PROVE  SubsTyped' /\ Limits'
  BY <1>3
<1>4. ASSUME NEW s \in Subs, ResetTo(s), UNCHANGED <<recSub, recAmt>>
      PROVE  SubsTyped' /\ Limits'
  BY <1>4 DEF ResetTo
<1>5. ASSUME NEW r \in Requests, RefundStep(r) PROVE SubsTyped' /\ Limits'
  <2>1. CASE RefundOpen(r)
    BY <1>3, <2>1 DEF RefundOpen, AttemptFailed, subVars, recVars
  <2>2. CASE RefundCredit(r)
    <3>1. -recAmt[r] \in Int
      OBVIOUS
    <3> QED BY <1>2, <1>3, <2>2, <3>1 DEF RefundCredit, AttemptFailed, subVars, recVars
  <2>3. CASE RefundSave(r)
    BY <1>3, <2>3 DEF RefundSave, AttemptFailed, subVars, recVars
  <2> QED BY <1>5, <2>1, <2>2, <2>3 DEF RefundStep
<1>6. ASSUME NEW s \in Subs, NEW d \in Int, Adjust(s, d) PROVE SubsTyped' /\ Limits'
  BY <1>2, <1>6 DEF Adjust, recVars
<1>7. CASE Maintenance
  <2>1. PICK s \in Subs :
           \/ ResetFallsDue(s) \/ ResetList(s) \/ ResetDueSubscriptions(s) \/ AdminReset(s)
           \/ EndTimePasses(s) \/ ExpireDueSubscriptions(s)
           \/ AdminInvalidateUserSubscription(s) \/ AdminDeleteUserSubscription(s)
           \/ \E d \in Deltas :
                 \/ AdminIncreaseUserSubscriptionQuota(s, d)
                 \/ AdminDecreaseUserSubscriptionQuota(s, d)
    BY <1>7 DEF Maintenance
  <2>2. CASE \/ ResetFallsDue(s) \/ ResetList(s) \/ EndTimePasses(s)
              \/ ExpireDueSubscriptions(s) \/ AdminInvalidateUserSubscription(s)
              \/ AdminDeleteUserSubscription(s)
    BY <1>3, <2>2 DEF ResetFallsDue, ResetList, EndTimePasses, ExpireDueSubscriptions,
       AdminInvalidateUserSubscription, AdminDeleteUserSubscription, EndAs, recVars
  <2>3. CASE ResetDueSubscriptions(s) \/ AdminReset(s)
    BY <1>4, <2>3 DEF ResetDueSubscriptions, AdminReset, recVars
  <2>4. ASSUME NEW d \in Deltas, AdminIncreaseUserSubscriptionQuota(s, d)
        PROVE  SubsTyped' /\ Limits'
    <3>1. d \in Nat
      OBVIOUS
    <3>2. /\ total' = [total EXCEPT ![s] = @ + d]
          /\ UNCHANGED <<used, recSub, recAmt>>
      BY <2>4 DEF AdminIncreaseUserSubscriptionQuota, recVars
    <3> QED BY <3>1, <3>2
  <2>5. ASSUME NEW d \in Deltas, AdminDecreaseUserSubscriptionQuota(s, d)
        PROVE  SubsTyped' /\ Limits'
    <3>1. d \in Nat
      OBVIOUS
    <3>2. /\ d < total[s] /\ total[s] - d >= used[s]
          /\ total' = [total EXCEPT ![s] = @ - d]
          /\ UNCHANGED <<used, recSub, recAmt>>
      BY <2>5 DEF AdminDecreaseUserSubscriptionQuota, recVars
    <3>3. total[s] - d \in Nat /\ total[s] - d > 0 /\ used[s] <= total[s] - d
      BY <3>1, <3>2
    <3> QED BY <3>2, <3>3
  <2> QED BY <2>1, <2>2, <2>3, <2>4, <2>5
<1>8. ASSUME NEW r \in Requests, SubscriptionRefund(r) PROVE SubsTyped' /\ Limits'
  BY <1>3, <1>8 DEF SubscriptionRefund, subVars, recVars
<1> QED BY <1>1, <1>5, <1>6, <1>7, <1>8 DEF LedgerStep

\* With limited plans no interleaving of pre-consumes, adjustments, refunds,
\* resets and administrator operations overruns a subscription.
THEOREM WithinTotal ==
    ASSUME \A s \in Subs : PlanTotal[s] > 0
    PROVE  LedgerSpec => []UsedWithinTotal
<1>1. LedgerInit => SubsTyped /\ Limits
  BY LedgerNumbers DEF LedgerInit, SubsTyped, Limits
<1>2. SubsTyped /\ Limits /\ [LedgerNext]_ledgerVars => SubsTyped' /\ Limits'
  <2>1. SubsTyped /\ Limits /\ UNCHANGED ledgerVars => SubsTyped' /\ Limits'
    BY DEF SubsTyped, Limits, ledgerVars, subVars, recVars
  <2> QED BY <2>1, LimitStep, ClientSteps
<1>3. Limits => UsedWithinTotal
  BY DEF Limits, UsedWithinTotal
<1> QED
  BY <1>1, <1>2, <1>3, PTL DEF LedgerSpec

-----------------------------------------------------------------------------
(* The refund is idempotent as long as its outer transaction commits.       *)

\* What the record says of the credit given so far.
CreditInv ==
    \A r \in Requests :
        /\ rec[r] = "none" => rf[r] = "idle" /\ credit[r] = 0
        /\ rec[r] = "consumed" => credit[r] = IF rf[r] = "credited" THEN recAmt[r] ELSE 0
        /\ rec[r] = "refunded" => credit[r] = recAmt[r] /\ rf[r] \notin {"open", "credited"}
        /\ rf[r] \in {"open", "credited"} => rec[r] = "consumed"

RecordsTyped ==
    /\ rec \in [Requests -> {"none", "consumed", "refunded"}]
    /\ recAmt \in [Requests -> Nat]
    /\ rf \in [Requests -> RefundPhases]
    /\ credit \in [Requests -> Nat]

\* Every step keeps the record and the credit in agreement.
LEMMA CreditStep ==
    ASSUME ~CommitMayFail, RecordsTyped, CreditInv, LedgerStep
    PROVE  RecordsTyped' /\ CreditInv'
<1> USE LedgerNumbers DEF RecordsTyped, CreditInv, RefundPhases
<1>1. ASSUME UNCHANGED <<rec, recAmt, rf, credit>> PROVE RecordsTyped' /\ CreditInv'
  BY <1>1
<1>2. ASSUME NEW r \in Requests, NEW a \in Nat, PreConsumeUserSubscription(r, a)
      PROVE  RecordsTyped' /\ CreditInv'
  <2>1. /\ rec[r] = "none" /\ rec' = [rec EXCEPT ![r] = "consumed"]
        /\ recAmt' = [recAmt EXCEPT ![r] = a] /\ a \in Nat /\ UNCHANGED <<rf, credit>>
    BY <1>2 DEF PreConsumeUserSubscription, rfVars
  <2> QED BY <2>1
<1>3. ASSUME NEW r \in Requests, AttemptFailed(r), rf[r] \in {"begin", "open"}
      PROVE  RecordsTyped' /\ CreditInv'
  <2>1. /\ UNCHANGED <<rec, recAmt, credit>>
        /\ rf' = [rf EXCEPT ![r] = IF tries[r] + 1 < MaxAttempts THEN "begin" ELSE "gaveup"]
    BY <1>3 DEF AttemptFailed, recVars
  <2>2. rec[r] # "none"
    BY <1>3
  <2> QED BY <1>3, <2>1, <2>2
<1>4. ASSUME NEW r \in Requests, RefundStep(r) PROVE RecordsTyped' /\ CreditInv'
  <2>1. CASE RefundOpen(r)
    <3>1. CASE AttemptFailed(r)
      BY <1>3, <2>1, <3>1 DEF RefundOpen
    <3>2. CASE /\ rf' = [rf EXCEPT ![r] = IF rec[r] = "refunded" THEN "done" ELSE "open"]
               /\ UNCHANGED <<rec, recAmt, credit>>
      <4>1. rf[r] = "begin" /\ rec[r] # "none"
        BY <2>1 DEF RefundOpen
      <4> QED BY <3>2, <4>1
    <3> QED BY <2>1, <3>1, <3>2 DEF RefundOpen, recVars
  <2>2. CASE RefundCredit(r)
    <3>1. CASE AttemptFailed(r)
      BY <1>3, <2>2, <3>1 DEF RefundCredit
    <3>2. CASE /\ rf' = [rf EXCEPT ![r] = "credited"]
               /\ credit' = [credit EXCEPT ![r] = @ + recAmt[r]]
               /\ UNCHANGED <<rec, recAmt>>
      <4>1. rf[r] = "open" /\ rec[r] = "consumed" /\ credit[r] = 0
        BY <2>2 DEF RefundCredit
      <4> QED BY <3>2, <4>1
    <3> QED BY <2>2, <3>1, <3>2 DEF RefundCredit, recVars
  <2>3. CASE RefundSave(r)
    <3>1. /\ rf[r] = "credited" /\ rf' = [rf EXCEPT ![r] = "done"]
          /\ rec' = [rec EXCEPT ![r] = "refunded"] /\ UNCHANGED <<recAmt, credit>>
      BY <2>3 DEF RefundSave
    <3> QED BY <3>1
  <2> QED BY <1>4, <2>1, <2>2, <2>3 DEF RefundStep
<1>5. ASSUME NEW r \in Requests, SubscriptionRefund(r) PROVE RecordsTyped' /\ CreditInv'
  <2>1. /\ rf[r] \in {"idle", "done", "gaveup"} /\ rec[r] # "none"
        /\ rf' = [rf EXCEPT ![r] = "begin"] /\ UNCHANGED <<rec, recAmt, credit>>
    BY <1>5 DEF SubscriptionRefund, recVars
  <2> QED BY <2>1
<1>6. ASSUME NEW s \in Subs, NEW d \in Int, Adjust(s, d) PROVE RecordsTyped' /\ CreditInv'
  BY <1>1, <1>6 DEF Adjust, recVars, rfVars
<1>7. CASE Maintenance
  BY <1>1, <1>7 DEF Maintenance, ResetFallsDue, ResetList, ResetDueSubscriptions, AdminReset,
     EndTimePasses, ExpireDueSubscriptions, AdminInvalidateUserSubscription,
     AdminDeleteUserSubscription, EndAs,
     AdminIncreaseUserSubscriptionQuota, AdminDecreaseUserSubscriptionQuota,
     recVars, rfVars
<1> QED BY <1>2, <1>4, <1>5, <1>6, <1>7 DEF LedgerStep

\* When the outer refund transaction never fails after the inner one committed,
\* a request gets back at most what it pre-consumed, whatever is retried.
THEOREM RefundOnce ==
    ASSUME ~CommitMayFail
    PROVE  LedgerSpec => []RefundIsIdempotent
<1>1. LedgerInit => RecordsTyped /\ CreditInv
  BY DEF LedgerInit, RecordsTyped, CreditInv, RefundPhases
<1>2. RecordsTyped /\ CreditInv /\ [LedgerNext]_ledgerVars => RecordsTyped' /\ CreditInv'
  <2>1. RecordsTyped /\ CreditInv /\ UNCHANGED ledgerVars => RecordsTyped' /\ CreditInv'
    BY DEF RecordsTyped, CreditInv, ledgerVars, recVars, rfVars
  <2> QED BY <2>1, CreditStep, ClientSteps
<1>3. RecordsTyped /\ CreditInv => RefundIsIdempotent
  BY DEF RecordsTyped, CreditInv, RefundIsIdempotent
<1> QED
  BY <1>1, <1>2, <1>3, PTL DEF LedgerSpec
=============================================================================
