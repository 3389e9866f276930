--------------------------- MODULE BillingSession ---------------------------
(***************************************************************************)
(* The billing sessions of service/billing_session.go for one user with    *)
(* one API token: pre-consume with fallback between the wallet and the     *)
(* subscriptions, further reservation before a retry, settlement and the   *)
(* asynchronous refund.  Sessions of concurrent requests interleave between*)
(* any two updates of the wallet row, the token row and the subscription   *)
(* ledger; a session's own steps are serialised by its mutex.              *)
(*                                                                         *)
(* Wallet and token are the database rows updated in place (no Redis, no   *)
(* batch update).  A crash of the process is a session that takes no       *)
(* further step.                                                           *)
(***************************************************************************)
EXTENDS SubscriptionLedger, FiniteSetsExt

CONSTANTS WalletOpening, TokenOpening,  \* opening balances
          TrustQuota,                   \* common.GetTrustQuota
          Quotas,                       \* estimates: pre-consume and reserve targets
          Actuals,                      \* quotas a request turns out to cost
          Playground                    \* requests that use no token quota

ASSUME SessionNumbers ==
    /\ {WalletOpening, TokenOpening, TrustQuota} \subseteq Nat
    /\ Quotas \subseteq Nat /\ Actuals \subseteq Nat /\ Playground \subseteq Requests

VARIABLES wallet,   \* users.quota
          token,    \* tokens.remain_quota
          ph,       \* where the session is
          src,      \* its funding source
          next,     \* the source to fall back to
          trust,    \* trusted: yes, no, or maybe while the wallet is unread
          amt,      \* the amount in flight: quota, reserve delta or actualQuota
          pre,      \* preConsumedQuota
          tokC,     \* tokenConsumed
          wal,      \* WalletFunding.consumed
          extra,    \* extraReserved
          fundErr,  \* funding left wrongly booked by updates that only logged an error
          tokErr    \* the same for the token

flow == <<src, next, trust>>
held == <<pre, tokC, wal, extra>>
errs == <<fundErr, tokErr>>
sessionVars == <<wallet, token, ph, amt, flow, held, errs>>
billingVars == <<ledgerVars, sessionVars>>

Phases == {"new", "try", "token", "fund", "undo", "rejected", "open",
           "rsvToken", "rsvUndo", "failed", "settleToken", "settled", "unsettled",
           "refund", "refundToken", "refunded", "closed"}

SessionTypeOK ==
    /\ wallet \in Int /\ token \in Int
    /\ ph \in [Requests -> Phases]
    /\ src \in [Requests -> {"wallet", "subscription"}]
    /\ next \in [Requests -> {"wallet", "subscription", "none"}]
    /\ trust \in [Requests -> {"maybe", "yes", "no"}]
    /\ \A f \in {amt, pre, tokC, wal, extra, fundErr} : f \in [Requests -> Nat]
    /\ tokErr \in [Requests -> Int]

SessionInit ==
    /\ LedgerInit
    /\ wallet = WalletOpening /\ token = TokenOpening
    /\ ph = [r \in Requests |-> "new"]
    /\ src = [r \in Requests |-> "wallet"]
    /\ next = [r \in Requests |-> "none"]
    /\ trust = [r \in Requests |-> "no"]
    /\ amt = [r \in Requests |-> 0] /\ pre = [r \in Requests |-> 0]
    /\ tokC = [r \in Requests |-> 0] /\ wal = [r \in Requests |-> 0]
    /\ extra = [r \in Requests |-> 0]
    /\ fundErr = [r \in Requests |-> 0] /\ tokErr = [r \in Requests |-> 0]

-----------------------------------------------------------------------------
Go(r, p)     == ph' = [ph EXCEPT ![r] = p]
Add(f, r, d) == [f EXCEPT ![r] = @ + d]

\* The token update of d for request r; a playground request has none.
TokenPays(r, d) == token' = IF r \in Playground THEN token ELSE token - d
TokenHas(r, d)  == r \in Playground \/ token >= d

\* A token update of d that failed and was only logged.
TokenFails(r, d) ==
    /\ DBMayFail /\ r \notin Playground
    /\ token' = token
    /\ tokErr' = Add(tokErr, r, d)

\* The quota pre-consumed: a subscription is charged at least 1.
Need(r) == IF src[r] = "subscription" /\ amt[r] = 0 THEN 1 ELSE amt[r]

\* The sources a billing preference tries, in order.  subscription_first goes to
\* the wallet only when the active subscriptions allow wallet overflow.
Sources(pref) ==
    CASE pref = "subscription_only" -> {<<"subscription", "none">>}
      [] pref = "wallet_only"       -> {<<"wallet", "none">>}
      [] pref = "wallet_first"      -> {<<"wallet", "subscription">>}
      [] pref = "subscription_first" ->
            IF \E s \in Subs : life[s] = "active"
            THEN {<<"subscription", "wallet">>, <<"subscription", "none">>}
            ELSE {<<"wallet", "none">>}

-----------------------------------------------------------------------------
(* PreConsumeBilling and NewBillingSession.                                 *)

\* The request arrives; its token quota is read once, for the trust check.
NewBillingSession(r, q, pref, forced) ==
    /\ ph[r] = "new"
    /\ \E so \in Sources(pref) :
          /\ src' = [src EXCEPT ![r] = so[1]]
          /\ next' = [next EXCEPT ![r] = so[2]]
    /\ trust' = [trust EXCEPT ![r] = IF ~forced /\ TrustQuota > 0 /\ token > TrustQuota
                                     THEN "maybe" ELSE "no"]
    /\ amt' = [amt EXCEPT ![r] = q]
    /\ Go(r, "try")
    /\ UNCHANGED <<ledgerVars, wallet, token, held, errs>>

FallbackBothWays(r) ==
    IF next[r] = "none"
    THEN Go(r, "rejected") /\ UNCHANGED <<src, next>>
    ELSE /\ src' = [src EXCEPT ![r] = next[r]]
         /\ next' = [next EXCEPT ![r] = src[r]]
         /\ Go(r, "try")

\* Insufficient quota: the next source is tried, if there is one.
Fallback(r) ==
    IF next[r] = "none"
    THEN Go(r, "rejected") /\ UNCHANGED <<src, next>>
    ELSE /\ src' = [src EXCEPT ![r] = next[r]]
         /\ next' = [next EXCEPT ![r] = "none"]
         /\ Go(r, "try")

\* tryWallet reads the balance; a trusted request pre-consumes nothing.
TryWallet(r) ==
    /\ ph[r] = "try" /\ src[r] = "wallet"
    /\ \/ /\ wallet <= 0 \/ wallet < amt[r]
          /\ Fallback(r)
          /\ trust' = trust
       \/ /\ wallet > 0 /\ wallet >= amt[r]
          /\ LET trusted == trust[r] = "maybe" /\ wallet > TrustQuota
             IN  /\ trust' = [trust EXCEPT ![r] = IF trusted THEN "yes" ELSE @]
                 /\ Go(r, IF trusted \/ amt[r] = 0 THEN "open" ELSE "token")
          /\ UNCHANGED <<src, next>>
       \/ DBMayFail /\ Go(r, "rejected") /\ UNCHANGED flow
    /\ UNCHANGED <<ledgerVars, wallet, token, amt, held, errs>>

TrySubscription(r) ==
    /\ ph[r] = "try" /\ src[r] = "subscription"
    /\ Go(r, "token")
    /\ UNCHANGED <<ledgerVars, wallet, token, amt, flow, held, errs>>

\* The token is charged first; its refusal ends the request, without fallback.
PreConsumeTokenQuota(r) ==
    /\ ph[r] = "token"
    /\ \/ /\ TokenHas(r, Need(r))
          /\ TokenPays(r, Need(r))
          /\ tokC' = [tokC EXCEPT ![r] = Need(r)]
          /\ Go(r, "fund")
       \/ /\ r \notin Playground /\ (DBMayFail \/ ~TokenHas(r, Need(r)))
          /\ Go(r, "rejected")
          /\ UNCHANGED <<token, tokC>>
    /\ UNCHANGED <<ledgerVars, wallet, amt, flow, pre, wal, extra, errs>>

\* WalletFunding.PreConsume: one conditional UPDATE.
WalletPreConsume(r) ==
    /\ ph[r] = "fund" /\ src[r] = "wallet"
    /\ \/ /\ wallet >= Need(r)
          /\ wallet' = wallet - Need(r)
          /\ wal' = [wal EXCEPT ![r] = Need(r)]
          /\ pre' = [pre EXCEPT ![r] = Need(r)]
          /\ Go(r, "open")
          /\ next' = next
       \/ /\ \/ wallet < Need(r) /\ next' = next
             \/ DBMayFail /\ next' = [next EXCEPT ![r] = "none"]
          /\ Go(r, "undo")
          /\ UNCHANGED <<wallet, wal, pre>>
    /\ UNCHANGED <<ledgerVars, token, src, trust, amt, tokC, extra, errs>>

\* SubscriptionFunding.PreConsume.
SubscriptionPreConsume(r) ==
    /\ ph[r] = "fund" /\ src[r] = "subscription"
    /\ \/ /\ PreConsumeUserSubscription(r, Need(r))
          /\ pre' = [pre EXCEPT ![r] = Need(r)]
          /\ Go(r, "open")
          /\ next' = next
       \/ /\ CanBegin
          /\ \/ (\A s \in Subs : ~Fits(s, Need(r))) /\ next' = next
             \/ DBMayFail /\ next' = [next EXCEPT ![r] = "none"]
          /\ Go(r, "undo")
          /\ UNCHANGED <<ledgerVars, pre>>
    /\ UNCHANGED <<wallet, token, src, trust, amt, tokC, wal, extra, errs>>

RollbackForgotten(r) ==
    /\ ph[r] = "undo"
    /\ Fallback(r)
    /\ tokC' = [tokC EXCEPT ![r] = 0]
    /\ UNCHANGED <<ledgerVars, wallet, token, trust, amt, pre, wal, extra, errs>>

\* The funding failed: the token is given back, then the next source is tried.
RollbackToken(r) ==
    /\ ph[r] = "undo"
    /\ \/ TokenPays(r, -tokC[r]) /\ tokErr' = tokErr
       \/ TokenFails(r, tokC[r])
    /\ tokC' = [tokC EXCEPT ![r] = 0]
    /\ Fallback(r)
    /\ UNCHANGED <<ledgerVars, wallet, trust, amt, pre, wal, extra, fundErr>>

-----------------------------------------------------------------------------
(* Reserve: a retry on a dearer group raises the reservation.               *)

RaisesOrLowers(r, target) == trust[r] # "yes" /\ target # pre[r]

\* A trusted session reserves nothing; the others only ever raise.
Raises(r, target) == trust[r] # "yes" /\ target > pre[r]

\* The wallet may be overdrawn; a subscription refuses to exceed its total.
ReserveFunding(r, target) ==
    /\ ph[r] = "open" /\ Raises(r, target)
    /\ LET d == target - pre[r]
       IN  /\ amt' = [amt EXCEPT ![r] = d]
           /\ \/ /\ src[r] = "wallet"
                 /\ wallet' = wallet - d /\ wal' = Add(wal, r, d)
                 /\ Go(r, "rsvToken") /\ UNCHANGED ledgerVars
              \/ /\ src[r] = "subscription" /\ Adjust(recSub[r], d)
                 /\ Go(r, "rsvToken") /\ UNCHANGED <<wallet, wal>>
              \/ /\ src[r] = "wallet" => DBMayFail
                 /\ src[r] = "subscription" => CanBegin /\ (DBMayFail \/ ~Adjustable(recSub[r], d))
                 /\ Go(r, "failed") /\ UNCHANGED <<ledgerVars, wallet, wal>>
    /\ UNCHANGED <<token, flow, pre, tokC, extra, errs>>

ReserveToken(r) ==
    /\ ph[r] = "rsvToken"
    /\ \/ /\ TokenHas(r, amt[r])
          /\ TokenPays(r, amt[r])
          /\ pre' = Add(pre, r, amt[r])
          /\ tokC' = Add(tokC, r, amt[r])
          /\ extra' = Add(extra, r, amt[r])
          /\ Go(r, "open")
       \/ /\ r \notin Playground /\ (DBMayFail \/ ~TokenHas(r, amt[r]))
          /\ Go(r, "rsvUndo")
          /\ UNCHANGED <<token, pre, tokC, extra>>
    /\ UNCHANGED <<ledgerVars, wallet, amt, flow, wal, errs>>

\* rollbackFundingReserve; a failed rollback of the wallet stays in consumed.
RollbackFundingReserve(r) ==
    /\ ph[r] = "rsvUndo"
    /\ \/ /\ src[r] = "wallet"
          /\ wallet' = wallet + amt[r] /\ wal' = Add(wal, r, -amt[r])
          /\ UNCHANGED <<ledgerVars, fundErr>>
       \/ /\ src[r] = "wallet" /\ DBMayFail
          /\ UNCHANGED <<ledgerVars, wallet, wal, fundErr>>
       \/ /\ src[r] = "subscription" /\ Adjust(recSub[r], -amt[r])
          /\ UNCHANGED <<wallet, wal, fundErr>>
       \/ /\ src[r] = "subscription" /\ CanBegin
          /\ DBMayFail \/ ~Adjustable(recSub[r], -amt[r])
          /\ fundErr' = Add(fundErr, r, amt[r])
          /\ UNCHANGED <<ledgerVars, wallet, wal>>
    /\ Go(r, "failed")
    /\ UNCHANGED <<token, amt, flow, pre, tokC, extra, tokErr>>

-----------------------------------------------------------------------------
(* Settle and Refund.                                                       *)

DeltaBeforeReserve(r, actual) == actual - (pre[r] - extra[r])

\* What is still to be paid, or given back when negative.
Delta(r, actual) == actual - pre[r]

\* The funding pays the difference to what was pre-consumed.  When it cannot,
\* the session is left as it is and the caller only logs the error.
SettleFunding(r, actual) ==
    /\ ph[r] = "open"
    /\ LET d == Delta(r, actual)
       IN  \/ /\ d = 0
              /\ amt' = [amt EXCEPT ![r] = actual]
              /\ Go(r, "settled") /\ UNCHANGED <<ledgerVars, wallet>>
           \/ /\ d # 0 /\ src[r] = "wallet"
              /\ amt' = [amt EXCEPT ![r] = actual]
              /\ wallet' = wallet - d
              /\ Go(r, "settleToken") /\ UNCHANGED ledgerVars
           \/ /\ d # 0 /\ src[r] = "subscription" /\ Adjust(recSub[r], d)
              /\ amt' = [amt EXCEPT ![r] = actual]
              /\ Go(r, "settleToken") /\ UNCHANGED wallet
           \/ /\ d # 0
              /\ src[r] = "wallet" => DBMayFail
              /\ src[r] = "subscription" => CanBegin /\ (DBMayFail \/ ~Adjustable(recSub[r], d))
              /\ Go(r, "unsettled") /\ UNCHANGED <<ledgerVars, wallet, amt>>
    /\ UNCHANGED <<token, flow, held, errs>>

\* The token follows; its failure is logged and the session is settled anyway.
SettleToken(r) ==
    /\ ph[r] = "settleToken"
    /\ LET d == Delta(r, amt[r])
       IN  \/ TokenPays(r, d) /\ tokErr' = tokErr
           \/ TokenFails(r, -d)
    /\ Go(r, "settled")
    /\ UNCHANGED <<ledgerVars, wallet, amt, flow, held, fundErr>>

RefundableAlways(r) == ph[r] \in {"open", "failed", "unsettled", "settled"}

\* Neither settled nor refunded, and the funding not yet settled.
Refundable(r) == ph[r] \in {"open", "failed", "unsettled"}

\* needsRefundLocked.
NeedsRefund(r) == tokC[r] > 0 \/ (src[r] = "subscription" /\ recAmt[r] > 0)

\* The request failed: Refund starts its goroutine, if there is anything to give
\* back.
Refund(r) ==
    /\ Refundable(r)
    /\ IF NeedsRefund(r)
       THEN /\ Go(r, "refund")
            /\ IF src[r] = "subscription" THEN SubscriptionRefund(r) ELSE UNCHANGED ledgerVars
       ELSE Go(r, "closed") /\ UNCHANGED ledgerVars
    /\ UNCHANGED <<wallet, token, amt, flow, held, errs>>

\* WalletFunding.Refund, which is never retried.
RefundWallet(r) ==
    /\ ph[r] = "refund" /\ src[r] = "wallet"
    /\ \/ wallet' = wallet + wal[r] /\ fundErr' = fundErr
       \/ DBMayFail /\ wallet' = wallet /\ fundErr' = Add(fundErr, r, wal[r])
    /\ Go(r, "refundToken")
    /\ UNCHANGED <<ledgerVars, token, amt, flow, held, tokErr>>

RefundExtraForgotten(r) ==
    /\ ph[r] = "refund" /\ src[r] = "subscription" /\ rf[r] \in {"done", "gaveup"}
    /\ fundErr' = Add(fundErr, r, recAmt[r] - credit[r])
    /\ Go(r, "refundToken")
    /\ UNCHANGED <<ledgerVars, wallet, token, amt, flow, held, tokErr>>

\* After refundWithRetry has returned, the extra reservation is given back.
RefundExtra(r) ==
    /\ ph[r] = "refund" /\ src[r] = "subscription" /\ rf[r] \in {"done", "gaveup"}
    /\ LET kept == recAmt[r] - credit[r]
       IN  \/ /\ extra[r] = 0
              /\ fundErr' = Add(fundErr, r, kept) /\ UNCHANGED ledgerVars
           \/ /\ extra[r] > 0 /\ Adjust(recSub[r], -extra[r])
              /\ fundErr' = Add(fundErr, r, kept)
           \/ /\ extra[r] > 0 /\ CanBegin /\ (DBMayFail \/ ~Adjustable(recSub[r], -extra[r]))
              /\ fundErr' = Add(fundErr, r, kept + extra[r]) /\ UNCHANGED ledgerVars
    /\ Go(r, "refundToken")
    /\ UNCHANGED <<wallet, token, amt, flow, held, tokErr>>

RefundToken(r) ==
    /\ ph[r] = "refundToken"
    /\ \/ TokenPays(r, -tokC[r]) /\ tokErr' = tokErr
       \/ TokenFails(r, tokC[r])
    /\ Go(r, "refunded")
    /\ UNCHANGED <<ledgerVars, wallet, amt, flow, held, fundErr>>

-----------------------------------------------------------------------------
Prefs == {"subscription_only", "wallet_only", "wallet_first", "subscription_first"}

PreConsume(r) ==
    \/ TryWallet(r) \/ TrySubscription(r) \/ PreConsumeTokenQuota(r)
    \/ WalletPreConsume(r) \/ SubscriptionPreConsume(r) \/ RollbackToken(r)

Finish(r) ==
    \/ ReserveToken(r) \/ RollbackFundingReserve(r)
    \/ \E a \in Actuals : SettleFunding(r, a)
    \/ SettleToken(r) \/ RefundWallet(r)
    \/ ph[r] # "unsettled" /\ Refund(r)
    \/ RefundStep(r) /\ UNCHANGED sessionVars
    \/ RefundExtra(r) \/ RefundToken(r)

Arrive(r) ==
    \E q \in Quotas, pref \in Prefs, forced \in BOOLEAN : NewBillingSession(r, q, pref, forced)

\* A handler that fails after a failed settlement still gets its refund.
LateRefund(r) == ph[r] = "unsettled" /\ Refund(r)

Raise(r) == \E q \in Quotas : ReserveFunding(r, q)

SessionNext ==
    \/ \E r \in Requests : Arrive(r) \/ PreConsume(r) \/ Raise(r) \/ Finish(r) \/ LateRefund(r)
    \/ Maintenance /\ UNCHANGED sessionVars

SessionSpec == SessionInit /\ [][SessionNext]_billingVars

\* The request handler and the refund goroutine run to their end.
FairSessionSpec ==
    SessionSpec /\ \A r \in Requests : WF_billingVars(PreConsume(r)) /\ WF_billingVars(Finish(r))

-----------------------------------------------------------------------------
(* The accounts a session keeps.                                            *)

\* What the session has taken of its subscription.
SubHeld(r) == recAmt[r] - credit[r] + extra[r]
                 + IF ph[r] \in {"rsvToken", "rsvUndo"} THEN amt[r] ELSE 0

FundHeld(r) ==
    CASE ph[r] \in {"settleToken", "settled"}     -> amt[r]
      [] ph[r] \in {"refundToken", "refunded"}    -> 0
      [] OTHER -> IF src[r] = "wallet" THEN wal[r] ELSE SubHeld(r)

TokenHeld(r) ==
    IF r \in Playground THEN 0
    ELSE CASE ph[r] = "settled"   -> amt[r]
           [] ph[r] = "refunded"  -> 0
           [] OTHER               -> tokC[r]

\* Where the session stands with an account it has not touched in the phases none.
Standing(r, none, charged, returned) ==
    CASE ph[r] \in none     -> "none"
      [] ph[r] \in charged  -> "charged"
      [] ph[r] \in returned -> "returned"
      [] OTHER              -> "live"

OnWallet(r) == src[r] = "wallet"

Wallet == INSTANCE PrepaidAccount WITH
    Sessions <- Requests, Opening <- WalletOpening, balance <- wallet,
    hold <- [r \in Requests |-> IF OnWallet(r) THEN FundHeld(r) ELSE 0],
    lost <- [r \in Requests |-> IF OnWallet(r) THEN fundErr[r] ELSE 0],
    st <- [r \in Requests |-> IF OnWallet(r)
              THEN Standing(r, {"new", "try", "token", "fund", "undo", "rejected"},
                            {"settleToken", "settled"}, {"refundToken", "refunded"})
              ELSE "none"]

Token == INSTANCE PrepaidAccount WITH
    Sessions <- Requests, Opening <- TokenOpening, balance <- token,
    hold <- [r \in Requests |-> TokenHeld(r)],
    lost <- tokErr,
    st <- [r \in Requests |->
              Standing(r, {"new", "try", "token", "rejected"}, {"settled"}, {"refunded"})]

\* Each session uses the wallet as a prepaid account: a pre-consume is covered by
\* the balance however requests interleave, and the session then charges the actual
\* quota or returns everything, once, whichever updates fail.
WalletIsPrepaid == Wallet!AccountSpec

\* The same for the token, across fallbacks and rolled-back reservations.
TokenIsPrepaid == Token!AccountSpec

\* service/billing_session.go:248: logged reservations and balance changes "always
\* reconcile": wallet and token are what they were, less what sessions hold or were
\* charged, less what failed updates logged.
Reconciles == Wallet!Balanced /\ Token!Balanced

\* What the session of r has booked on subscription s.
BookedOn(s, r) == IF OnWallet(r) \/ recSub[r] # s THEN 0 ELSE FundHeld(r) + fundErr[r]

\* The usage of each subscription is never more than the sessions on it account for,
\* and is exactly that until a reset erases usage.
SubscriptionReconciles ==
    \A s \in Subs :
        LET booked == MapThenSumSet(LAMBDA r : BookedOn(s, r), Requests)
        IN  used[s] <= booked /\ (resets = 0 => used[s] = booked)

Ended == {"rejected", "settled", "unsettled", "refunded", "closed"}

\* Every request's billing ends: no handler or refund goroutine is left waiting for
\* a connection or for another session.
EverySessionEnds == \A r \in Requests : ph[r] = "try" ~> ph[r] \in Ended
=============================================================================
