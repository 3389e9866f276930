------------------------ MODULE BillingSessionProofs ------------------------
(***************************************************************************)
(* What the billing sessions guarantee for any number of concurrent        *)
(* requests and any quotas: the books each session keeps, the ledger they  *)
(* share, and the wallet and the token as prepaid accounts.                *)
(***************************************************************************)
EXTENDS BillingSession, SubscriptionLedgerProofs, FiniteSums

-----------------------------------------------------------------------------
(* The sessions take the steps of the ledger.                               *)

\* Every variable of a session has its type; what failed updates leave wrongly
\* booked may be negative until the ledger's own invariant excludes it.
BooksTyped ==
    /\ wallet \in Int /\ token \in Int
    /\ ph \in [Requests -> Phases]
    /\ src \in [Requests -> {"wallet", "subscription"}]
    /\ next \in [Requests -> {"wallet", "subscription", "none"}]
    /\ trust \in [Requests -> {"maybe", "yes", "no"}]
    /\ amt \in [Requests -> Nat] /\ pre \in [Requests -> Nat] /\ tokC \in [Requests -> Nat]
    /\ wal \in [Requests -> Nat] /\ extra \in [Requests -> Nat]
    /\ fundErr \in [Requests -> Int] /\ tokErr \in [Requests -> Int]

\* The phases in which the funding has not paid yet.
Unfunded == {"new", "try", "token", "fund", "undo", "rejected"}

\* What one session's fields say to each other, phase by phase.
Books(r) ==
    /\ ph[r] \in {"new", "try", "token", "rejected"} => tokC[r] = 0
    /\ ph[r] \in Unfunded => pre[r] = 0 /\ wal[r] = 0 /\ fundErr[r] = 0
    /\ ph[r] = "fund" => tokC[r] = Need(r)
    /\ ph[r] \in {"open", "rsvToken", "rsvUndo", "settleToken"} => tokC[r] = pre[r]
    /\ src[r] = "wallet" /\ ph[r] = "open" => wal[r] = pre[r]
    /\ src[r] = "wallet" /\ ph[r] \in {"rsvToken", "rsvUndo"} => wal[r] = pre[r] + amt[r]

\* The steps of one request that touch its session.
SessionStep(r) ==
    \/ Arrive(r) \/ PreConsume(r) \/ Raise(r)
    \/ ReserveToken(r) \/ RollbackFundingReserve(r)
    \/ \E a \in Actuals : SettleFunding(r, a)
    \/ SettleToken(r) \/ RefundWallet(r) \/ Refund(r) \/ RefundExtra(r) \/ RefundToken(r)

\* A step is one of a session, of a refund of the ledger, or of maintenance.
LEMMA SessionSteps ==
    SessionNext => \/ \E r \in Requests : SessionStep(r)
                   \/ \E r \in Requests : RefundStep(r) /\ UNCHANGED sessionVars
                   \/ Maintenance /\ UNCHANGED sessionVars
BY DEF SessionNext, Finish, LateRefund, SessionStep

\* The session of one request leaves the others' alone.
OthersSame(r) ==
    \A q \in Requests \ {r} :
        /\ ph'[q] = ph[q] /\ src'[q] = src[q] /\ amt'[q] = amt[q] /\ pre'[q] = pre[q]
        /\ tokC'[q] = tokC[q] /\ wal'[q] = wal[q] /\ fundErr'[q] = fundErr[q] /\ tokErr'[q] = tokErr[q]

\* What a request pre-consumes is a natural number.
LEMMA NeedIsNat == ASSUME BooksTyped, NEW r \in Requests PROVE Need(r) \in Nat
BY DEF BooksTyped, Need

\* The sources of a billing preference.
LEMMA SourcesTyped ==
    ASSUME NEW pref \in Prefs, NEW so \in Sources(pref)
    PROVE  so[1] \in {"wallet", "subscription"} /\ so[2] \in {"wallet", "subscription", "none"}
BY DEF Prefs, Sources

\* Insufficient quota, for a request that holds nothing.
LEMMA FallbackBooks ==
    ASSUME BooksTyped, NEW r \in Requests, Fallback(r)
    PROVE  /\ ph' \in [Requests -> Phases] /\ ph'[r] \in {"try", "rejected"}
           /\ src' \in [Requests -> {"wallet", "subscription"}]
           /\ next' \in [Requests -> {"wallet", "subscription", "none"}]
           /\ \A q \in Requests \ {r} : ph'[q] = ph[q] /\ src'[q] = src[q]
<1>1. CASE next[r] = "none"
  BY <1>1 DEF Fallback, BooksTyped, Go, Phases
<1>2. CASE next[r] # "none"
  <2>1. next[r] \in {"wallet", "subscription"}
    BY <1>2 DEF BooksTyped
  <2> QED BY <1>2, <2>1 DEF Fallback, BooksTyped, Go, Phases
<1> QED BY <1>1, <1>2

\* Each step of a session keeps its books, its types and the other sessions.
LEMMA BookStep ==
    ASSUME BooksTyped, RecordTypes, RefundTypes, NEW r \in Requests, Books(r), SessionStep(r)
    PROVE  BooksTyped' /\ OthersSame(r) /\ Books(r)'
<1> USE DEF Go, Add
<1>0. /\ ph[r] \in Phases /\ amt[r] \in Nat /\ pre[r] \in Nat /\ tokC[r] \in Nat /\ wal[r] \in Nat
      /\ extra[r] \in Nat /\ fundErr[r] \in Int /\ tokErr[r] \in Int /\ token \in Int /\ wallet \in Int
      /\ recAmt[r] \in Nat /\ credit[r] \in Nat /\ Need(r) \in Nat
  BY NeedIsNat DEF BooksTyped, RecordTypes, RefundTypes
\* A token update leaves a number.
<1>1. ASSUME NEW d \in Int, TokenPays(r, d) PROVE token' \in Int
  BY <1>0, <1>1 DEF TokenPays
<1>2. ASSUME NEW d \in Int, TokenFails(r, d)
      PROVE  token' \in Int /\ tokErr' \in [Requests -> Int] /\ \A q \in Requests \ {r} : tokErr'[q] = tokErr[q]
  BY <1>0, <1>2 DEF TokenFails, BooksTyped
<1>3. CASE Arrive(r)
  <2>1. PICK q \in Quotas, pref \in Prefs, forced \in BOOLEAN : NewBillingSession(r, q, pref, forced)
    BY <1>3 DEF Arrive
  <2>2. PICK so \in Sources(pref) :
           src' = [src EXCEPT ![r] = so[1]] /\ next' = [next EXCEPT ![r] = so[2]]
    BY <2>1 DEF NewBillingSession
  <2>3. so[1] \in {"wallet", "subscription"} /\ so[2] \in {"wallet", "subscription", "none"}
    BY SourcesTyped
  <2>4. /\ ph[r] = "new" /\ ph' = [ph EXCEPT ![r] = "try"] /\ amt' = [amt EXCEPT ![r] = q]
        /\ UNCHANGED <<wallet, token, pre, tokC, wal, extra, fundErr, tokErr>>
        /\ q \in Nat
    BY <2>1, SessionNumbers DEF NewBillingSession, held, errs
  <2>5. trust' \in [Requests -> {"maybe", "yes", "no"}]
    BY <2>1 DEF NewBillingSession, BooksTyped
  <2>6. BooksTyped'
    BY <2>2, <2>3, <2>4, <2>5 DEF BooksTyped, Phases
  <2>7. OthersSame(r)
    BY <2>2, <2>4 DEF OthersSame, BooksTyped
  <2>8. Books(r)'
    BY <2>4 DEF Books, BooksTyped, Unfunded
  <2> QED BY <2>6, <2>7, <2>8
<1>4. CASE TryWallet(r)
  <2>0. /\ ph[r] = "try" /\ src[r] = "wallet"
        /\ UNCHANGED <<wallet, token, amt, pre, tokC, wal, extra, fundErr, tokErr>>
    BY <1>4 DEF TryWallet, held, errs
  <2>1. tokC[r] = 0 /\ pre[r] = 0 /\ wal[r] = 0 /\ fundErr[r] = 0
    BY <2>0 DEF Books, Unfunded
  <2>2. CASE Fallback(r) /\ trust' = trust
    <3>1. BooksTyped' /\ OthersSame(r)
      BY <2>0, <2>2, FallbackBooks DEF BooksTyped, OthersSame
    <3>2. Books(r)'
      BY <2>0, <2>1, <2>2, FallbackBooks DEF Books, Unfunded
    <3> QED BY <3>1, <3>2
  <2>3. CASE \E p \in {"open", "token"} : ph' = [ph EXCEPT ![r] = p] /\ UNCHANGED <<src, next>>
    <3>0. PICK p \in {"open", "token"} : ph' = [ph EXCEPT ![r] = p] /\ UNCHANGED <<src, next>>
      BY <2>3
    <3>1. trust' \in [Requests -> {"maybe", "yes", "no"}]
      BY <1>4 DEF TryWallet, BooksTyped, flow
    <3>2. BooksTyped' /\ OthersSame(r)
      BY <2>0, <3>0, <3>1 DEF BooksTyped, OthersSame, Phases
    <3>3. Books(r)'
      BY <2>0, <2>1, <3>0, <1>0 DEF Books, Unfunded, BooksTyped
    <3> QED BY <3>2, <3>3
  <2>4. CASE ph' = [ph EXCEPT ![r] = "rejected"] /\ UNCHANGED flow
    <3>2. BooksTyped' /\ OthersSame(r)
      BY <2>0, <2>4 DEF BooksTyped, OthersSame, Phases, flow
    <3>3. Books(r)'
      BY <2>0, <2>1, <2>4 DEF Books, Unfunded, BooksTyped, flow
    <3> QED BY <3>2, <3>3
  <2> QED BY <1>4, <2>2, <2>3, <2>4 DEF TryWallet
<1>5. CASE TrySubscription(r)
  <2>1. /\ ph[r] = "try" /\ ph' = [ph EXCEPT ![r] = "token"]
        /\ UNCHANGED <<wallet, token, amt, src, next, trust, pre, tokC, wal, extra, fundErr, tokErr>>
    BY <1>5 DEF TrySubscription, flow, held, errs
  <2>2. BooksTyped' /\ OthersSame(r)
    BY <2>1 DEF BooksTyped, OthersSame, Phases
  <2>3. Books(r)'
    BY <2>1 DEF Books, BooksTyped, Unfunded
  <2> QED BY <2>2, <2>3
<1>6. CASE PreConsumeTokenQuota(r)
  <2>1. /\ ph[r] = "token"
        /\ UNCHANGED <<wallet, amt, src, next, trust, pre, wal, extra, fundErr, tokErr>>
    BY <1>6 DEF PreConsumeTokenQuota, flow, errs
  <2>2. Need(r)' = Need(r) /\ tokC[r] = 0 /\ pre[r] = 0 /\ wal[r] = 0 /\ fundErr[r] = 0
    BY <2>1 DEF Need, Books, Unfunded
  <2>3. CASE TokenPays(r, Need(r)) /\ tokC' = [tokC EXCEPT ![r] = Need(r)] /\ ph' = [ph EXCEPT ![r] = "fund"]
    <3>1. token' \in Int
      BY <1>0, <1>1, <2>3
    <3>2. BooksTyped' /\ OthersSame(r)
      BY <1>0, <2>1, <2>3, <3>1 DEF BooksTyped, OthersSame, Phases
    <3>3. Books(r)'
      BY <2>1, <2>2, <2>3 DEF Books, BooksTyped, Unfunded
    <3> QED BY <3>2, <3>3
  <2>4. CASE ph' = [ph EXCEPT ![r] = "rejected"] /\ UNCHANGED <<token, tokC>>
    <3>2. BooksTyped' /\ OthersSame(r)
      BY <1>0, <2>1, <2>4 DEF BooksTyped, OthersSame, Phases
    <3>3. Books(r)'
      BY <2>1, <2>2, <2>4 DEF Books, BooksTyped, Unfunded
    <3> QED BY <3>2, <3>3
  <2> QED BY <1>6, <2>3, <2>4 DEF PreConsumeTokenQuota
<1>7. ASSUME ph[r] = "fund", ph' = [ph EXCEPT ![r] = "undo"],
             next' = next \/ next' = [next EXCEPT ![r] = "none"],
             UNCHANGED <<wallet, token, amt, src, trust, pre, tokC, wal, extra, fundErr, tokErr>>
      PROVE  BooksTyped' /\ OthersSame(r) /\ Books(r)'
  <2>1. next' \in [Requests -> {"wallet", "subscription", "none"}]
    BY <1>7 DEF BooksTyped
  <2>2. BooksTyped' /\ OthersSame(r)
    BY <1>7, <2>1 DEF BooksTyped, OthersSame, Phases
  <2>3. Books(r)'
    BY <1>7 DEF Books, BooksTyped, Unfunded
  <2> QED BY <2>2, <2>3
<1>8. CASE WalletPreConsume(r)
  <2>1. CASE /\ wallet' = wallet - Need(r)
             /\ wal' = [wal EXCEPT ![r] = Need(r)] /\ pre' = [pre EXCEPT ![r] = Need(r)]
             /\ ph' = [ph EXCEPT ![r] = "open"] /\ next' = next
    <3>0. ph[r] = "fund" /\ tokC[r] = Need(r)
          /\ UNCHANGED <<token, src, trust, amt, tokC, extra, fundErr, tokErr>>
      BY <1>8 DEF WalletPreConsume, errs, Books
    <3>1. BooksTyped' /\ OthersSame(r)
      BY <1>0, <2>1, <3>0 DEF BooksTyped, OthersSame, Phases
    <3>2. Books(r)'
      BY <2>1, <3>0 DEF Books, BooksTyped, Unfunded
    <3> QED BY <3>1, <3>2
  <2>2. CASE /\ next' = next \/ next' = [next EXCEPT ![r] = "none"]
             /\ ph' = [ph EXCEPT ![r] = "undo"] /\ UNCHANGED <<wallet, wal, pre>>
    BY <1>7, <1>8, <2>2 DEF WalletPreConsume, errs
  <2> QED BY <1>8, <2>1, <2>2 DEF WalletPreConsume
<1>9. CASE SubscriptionPreConsume(r)
  <2>0. /\ ph[r] = "fund" /\ src[r] = "subscription"
        /\ UNCHANGED <<wallet, token, src, trust, amt, tokC, wal, extra, fundErr, tokErr>>
    BY <1>9 DEF SubscriptionPreConsume, errs
  <2>1. CASE pre' = [pre EXCEPT ![r] = Need(r)] /\ ph' = [ph EXCEPT ![r] = "open"] /\ next' = next
    <3>0. tokC[r] = Need(r)
      BY <2>0 DEF Books
    <3>1. BooksTyped' /\ OthersSame(r)
      BY <1>0, <2>0, <2>1 DEF BooksTyped, OthersSame, Phases
    <3>2. Books(r)'
      BY <2>0, <2>1, <3>0 DEF Books, BooksTyped, Unfunded
    <3> QED BY <3>1, <3>2
  <2>2. CASE /\ next' = next \/ next' = [next EXCEPT ![r] = "none"]
             /\ ph' = [ph EXCEPT ![r] = "undo"] /\ UNCHANGED pre
    BY <1>7, <2>0, <2>2
  <2> QED BY <1>9, <2>1, <2>2 DEF SubscriptionPreConsume
<1>10. CASE RollbackToken(r)
  <2>1. /\ ph[r] = "undo" /\ tokC' = [tokC EXCEPT ![r] = 0] /\ Fallback(r)
        /\ UNCHANGED <<wallet, trust, amt, pre, wal, extra, fundErr>>
    BY <1>10 DEF RollbackToken
  <2>2. token' \in Int /\ tokErr' \in [Requests -> Int] /\ \A q \in Requests \ {r} : tokErr'[q] = tokErr[q]
    <3>1. -tokC[r] \in Int /\ tokC[r] \in Int /\ tokErr \in [Requests -> Int]
      BY <1>0 DEF BooksTyped
    <3> QED BY <1>1, <1>2, <1>10, <3>1 DEF RollbackToken
  <2>3. /\ ph' \in [Requests -> Phases] /\ ph'[r] \in {"try", "rejected"}
        /\ src' \in [Requests -> {"wallet", "subscription"}]
        /\ next' \in [Requests -> {"wallet", "subscription", "none"}]
        /\ \A q \in Requests \ {r} : ph'[q] = ph[q] /\ src'[q] = src[q]
    BY <2>1, FallbackBooks
  <2>4. BooksTyped'
    BY <2>1, <2>2, <2>3 DEF BooksTyped
  <2>5. OthersSame(r)
    BY <2>1, <2>2, <2>3 DEF BooksTyped, OthersSame
  <2>6. Books(r)'
    BY <2>1, <2>3 DEF Books, BooksTyped, Unfunded
  <2> QED BY <2>4, <2>5, <2>6
<1>11. CASE Raise(r)
  <2>1. PICK target \in Quotas : ReserveFunding(r, target)
    BY <1>11 DEF Raise
  <2>2. target - pre[r] \in Nat
    BY <1>0, <2>1, SessionNumbers DEF ReserveFunding, Raises
  <2>3. /\ ph[r] = "open" /\ amt' = [amt EXCEPT ![r] = target - pre[r]]
        /\ UNCHANGED <<token, src, next, trust, pre, tokC, extra, fundErr, tokErr>>
    BY <2>1 DEF ReserveFunding, flow, errs
  <2>4. CASE /\ src[r] = "wallet" /\ wallet' = wallet - (target - pre[r])
             /\ wal' = [wal EXCEPT ![r] = @ + (target - pre[r])] /\ ph' = [ph EXCEPT ![r] = "rsvToken"]
    <3>1. BooksTyped' /\ OthersSame(r)
      BY <1>0, <2>2, <2>3, <2>4 DEF BooksTyped, OthersSame, Phases
    <3>2. Books(r)'
      BY <1>0, <2>2, <2>3, <2>4 DEF Books, BooksTyped, Unfunded
    <3> QED BY <3>1, <3>2
  <2>5. CASE /\ src[r] = "subscription" /\ ph' = [ph EXCEPT ![r] = "rsvToken"] /\ UNCHANGED <<wallet, wal>>
    <3>1. BooksTyped' /\ OthersSame(r)
      BY <1>0, <2>2, <2>3, <2>5 DEF BooksTyped, OthersSame, Phases
    <3>2. Books(r)'
      BY <1>0, <2>2, <2>3, <2>5 DEF Books, BooksTyped, Unfunded
    <3> QED BY <3>1, <3>2
  <2>6. CASE ph' = [ph EXCEPT ![r] = "failed"] /\ UNCHANGED <<wallet, wal>>
    <3>1. BooksTyped' /\ OthersSame(r)
      BY <1>0, <2>2, <2>3, <2>6 DEF BooksTyped, OthersSame, Phases
    <3>2. Books(r)'
      BY <1>0, <2>2, <2>3, <2>6 DEF Books, BooksTyped, Unfunded
    <3> QED BY <3>1, <3>2
  <2> QED BY <2>1, <2>4, <2>5, <2>6 DEF ReserveFunding
<1>12. CASE ReserveToken(r)
  <2>1. /\ ph[r] = "rsvToken"
        /\ UNCHANGED <<wallet, amt, src, next, trust, wal, fundErr, tokErr>>
    BY <1>12 DEF ReserveToken, flow, errs
  <2>2. tokC[r] = pre[r] /\ (src[r] = "wallet" => wal[r] = pre[r] + amt[r])
    BY <2>1 DEF Books
  <2>3. CASE /\ TokenPays(r, amt[r]) /\ pre' = [pre EXCEPT ![r] = @ + amt[r]]
             /\ tokC' = [tokC EXCEPT ![r] = @ + amt[r]] /\ extra' = [extra EXCEPT ![r] = @ + amt[r]]
             /\ ph' = [ph EXCEPT ![r] = "open"]
    <3>1. token' \in Int
      BY <1>0, <1>1, <2>3
    <3>2. BooksTyped' /\ OthersSame(r)
      BY <1>0, <2>1, <2>3, <3>1 DEF BooksTyped, OthersSame, Phases
    <3>3. Books(r)'
      BY <1>0, <2>1, <2>2, <2>3 DEF Books, BooksTyped, Unfunded
    <3> QED BY <3>2, <3>3
  <2>4. CASE ph' = [ph EXCEPT ![r] = "rsvUndo"] /\ UNCHANGED <<token, pre, tokC, extra>>
    <3>2. BooksTyped' /\ OthersSame(r)
      BY <1>0, <2>1, <2>4 DEF BooksTyped, OthersSame, Phases
    <3>3. Books(r)'
      BY <1>0, <2>1, <2>2, <2>4 DEF Books, BooksTyped, Unfunded
    <3> QED BY <3>2, <3>3
  <2> QED BY <1>12, <2>3, <2>4 DEF ReserveToken
<1>13. CASE RollbackFundingReserve(r)
  <2>1. /\ ph[r] = "rsvUndo" /\ ph' = [ph EXCEPT ![r] = "failed"]
        /\ UNCHANGED <<token, amt, src, next, trust, pre, tokC, extra, tokErr>>
    BY <1>13 DEF RollbackFundingReserve, flow
  <2>2. CASE /\ src[r] = "wallet" /\ wallet' = wallet + amt[r] /\ wal' = [wal EXCEPT ![r] = @ + (-amt[r])]
             /\ UNCHANGED fundErr
    <3>1. wal[r] + (-amt[r]) \in Nat
      BY <1>0, <2>1, <2>2 DEF Books
    <3>2. BooksTyped' /\ OthersSame(r)
      BY <1>0, <2>1, <2>2, <3>1 DEF BooksTyped, OthersSame, Phases
    <3>3. Books(r)'
      BY <2>1 DEF Books, BooksTyped, Unfunded
    <3> QED BY <3>2, <3>3
  <2>3. CASE UNCHANGED <<wallet, wal>> /\ (UNCHANGED fundErr \/ fundErr' = [fundErr EXCEPT ![r] = @ + amt[r]])
    <3>1. fundErr' \in [Requests -> Int] /\ \A q \in Requests \ {r} : fundErr'[q] = fundErr[q]
      BY <1>0, <2>3 DEF BooksTyped
    <3>2. BooksTyped' /\ OthersSame(r)
      BY <1>0, <2>1, <2>3, <3>1 DEF BooksTyped, OthersSame, Phases
    <3>3. Books(r)'
      BY <2>1 DEF Books, BooksTyped, Unfunded
    <3> QED BY <3>2, <3>3
  <2> QED BY <1>13, <2>2, <2>3 DEF RollbackFundingReserve
<1>14. ASSUME NEW a \in Actuals, SettleFunding(r, a) PROVE BooksTyped' /\ OthersSame(r) /\ Books(r)'
  <2>1. /\ ph[r] = "open" /\ a \in Nat /\ Delta(r, a) \in Int
        /\ UNCHANGED <<token, src, next, trust, pre, tokC, wal, extra, fundErr, tokErr>>
    BY <1>0, <1>14, SessionNumbers DEF SettleFunding, flow, held, errs, Delta
  <2>2. PICK p \in {"settled", "settleToken", "unsettled"} : ph' = [ph EXCEPT ![r] = p]
    BY <1>14 DEF SettleFunding
  <2>3. wallet' \in Int /\ (amt' = amt \/ amt' = [amt EXCEPT ![r] = a])
    BY <1>0, <1>14, <2>1 DEF SettleFunding
  <2>4. BooksTyped' /\ OthersSame(r)
    BY <2>1, <2>2, <2>3 DEF BooksTyped, OthersSame, Phases
  <2>5. Books(r)'
    BY <2>1, <2>2 DEF Books, BooksTyped, Unfunded
  <2> QED BY <2>4, <2>5
<1>15. CASE SettleToken(r)
  <2>1. /\ ph' = [ph EXCEPT ![r] = "settled"]
        /\ UNCHANGED <<wallet, amt, src, next, trust, pre, tokC, wal, extra, fundErr>>
    BY <1>15 DEF SettleToken, flow, held
  <2>2. token' \in Int /\ tokErr' \in [Requests -> Int] /\ \A q \in Requests \ {r} : tokErr'[q] = tokErr[q]
    <3>1. Delta(r, amt[r]) \in Int /\ -Delta(r, amt[r]) \in Int /\ tokErr \in [Requests -> Int]
      BY <1>0 DEF BooksTyped, Delta
    <3> QED BY <1>1, <1>2, <1>15, <3>1 DEF SettleToken
  <2>3. BooksTyped' /\ OthersSame(r)
    BY <2>1, <2>2 DEF BooksTyped, OthersSame, Phases
  <2>4. Books(r)'
    BY <2>1 DEF Books, BooksTyped, Unfunded
  <2> QED BY <2>3, <2>4
<1>16. CASE Refund(r)
  <2>1. PICK p \in {"refund", "closed"} : ph' = [ph EXCEPT ![r] = p]
    BY <1>16 DEF Refund
  <2>2. UNCHANGED <<wallet, token, amt, src, next, trust, pre, tokC, wal, extra, fundErr, tokErr>>
    BY <1>16 DEF Refund, flow, held, errs
  <2>3. BooksTyped' /\ OthersSame(r)
    BY <2>1, <2>2 DEF BooksTyped, OthersSame, Phases
  <2>4. Books(r)'
    BY <2>1 DEF Books, BooksTyped, Unfunded
  <2> QED BY <2>3, <2>4
<1>17. ASSUME ph' = [ph EXCEPT ![r] = "refundToken"], wallet' \in Int, fundErr' \in [Requests -> Int],
              \A q \in Requests \ {r} : fundErr'[q] = fundErr[q],
              UNCHANGED <<token, amt, src, next, trust, pre, tokC, wal, extra, tokErr>>
       PROVE  BooksTyped' /\ OthersSame(r) /\ Books(r)'
  <2>1. BooksTyped' /\ OthersSame(r)
    BY <1>17 DEF BooksTyped, OthersSame, Phases
  <2>2. Books(r)'
    BY <1>17 DEF Books, BooksTyped, Unfunded
  <2> QED BY <2>1, <2>2
<1>18. CASE RefundWallet(r)
  <2>1. wallet' \in Int /\ fundErr' \in [Requests -> Int] /\ \A q \in Requests \ {r} : fundErr'[q] = fundErr[q]
    BY <1>0, <1>18 DEF RefundWallet, BooksTyped
  <2> QED BY <1>17, <1>18, <2>1 DEF RefundWallet, flow, held
<1>19. CASE RefundExtra(r)
  <2>0. recAmt[r] - credit[r] \in Int /\ recAmt[r] - credit[r] + extra[r] \in Int
    BY <1>0
  <2>1. fundErr' \in [Requests -> Int] /\ \A q \in Requests \ {r} : fundErr'[q] = fundErr[q]
    BY <1>0, <1>19, <2>0 DEF RefundExtra, BooksTyped
  <2> QED BY <1>0, <1>17, <1>19, <2>1 DEF RefundExtra, flow, held
<1>20. CASE RefundToken(r)
  <2>1. /\ ph' = [ph EXCEPT ![r] = "refunded"]
        /\ UNCHANGED <<wallet, amt, src, next, trust, pre, tokC, wal, extra, fundErr>>
    BY <1>20 DEF RefundToken, flow, held
  <2>2. token' \in Int /\ tokErr' \in [Requests -> Int] /\ \A q \in Requests \ {r} : tokErr'[q] = tokErr[q]
    <3>1. -tokC[r] \in Int /\ tokC[r] \in Int /\ tokErr \in [Requests -> Int]
      BY <1>0 DEF BooksTyped
    <3> QED BY <1>1, <1>2, <1>20, <3>1 DEF RefundToken
  <2>3. BooksTyped' /\ OthersSame(r)
    BY <2>1, <2>2 DEF BooksTyped, OthersSame, Phases
  <2>4. Books(r)'
    BY <2>1 DEF Books, BooksTyped, Unfunded
  <2> QED BY <2>3, <2>4
<1> QED BY <1>3, <1>4, <1>5, <1>6, <1>8, <1>9, <1>10, <1>11, <1>12, <1>13, <1>14, <1>15, <1>16, <1>18,
           <1>19, <1>20 DEF SessionStep, PreConsume

\* What a session does to the ledger is a step of the ledger.
LEMMA SessionLedger ==
    ASSUME BooksTyped, RecordTypes, RefundTypes, NEW r \in Requests, SessionStep(r)
    PROVE  LedgerStep \/ UNCHANGED ledgerVars
<1>0. /\ amt[r] \in Nat /\ pre[r] \in Nat /\ extra[r] \in Nat /\ Need(r) \in Nat
  BY NeedIsNat DEF BooksTyped
<1>1. ASSUME NEW s, NEW d \in Int, Adjust(s, d) PROVE LedgerStep
  <2>1. s \in Subs
    BY <1>1 DEF Adjust, PostConsumeUserSubscriptionDelta, Adjustable
  <2> QED BY <1>1, <2>1 DEF LedgerStep
<1>2. CASE \/ Arrive(r) \/ TryWallet(r) \/ TrySubscription(r) \/ PreConsumeTokenQuota(r)
           \/ WalletPreConsume(r) \/ RollbackToken(r) \/ ReserveToken(r)
           \/ SettleToken(r) \/ RefundWallet(r) \/ RefundToken(r)
  <2>1. UNCHANGED ledgerVars
    BY <1>2 DEF Arrive, NewBillingSession, TryWallet, TrySubscription, PreConsumeTokenQuota,
       WalletPreConsume, RollbackToken, ReserveToken, SettleToken, RefundWallet, RefundToken
  <2> QED BY <2>1
<1>3. CASE SubscriptionPreConsume(r)
  <2>1. PreConsumeUserSubscription(r, Need(r)) => LedgerStep
    BY <1>0 DEF LedgerStep
  <2> QED BY <1>3, <2>1 DEF SubscriptionPreConsume
<1>4. CASE Raise(r)
  <2>1. PICK target \in Quotas : ReserveFunding(r, target)
    BY <1>4 DEF Raise
  <2>2. target - pre[r] \in Int
    BY <1>0, SessionNumbers
  <2> QED BY <1>1, <2>1, <2>2 DEF ReserveFunding
<1>5. CASE RollbackFundingReserve(r)
  <2>1. -amt[r] \in Int
    BY <1>0
  <2> QED BY <1>1, <1>5, <2>1 DEF RollbackFundingReserve
<1>6. ASSUME NEW a \in Actuals, SettleFunding(r, a) PROVE LedgerStep \/ UNCHANGED ledgerVars
  <2>1. Delta(r, a) \in Int
    BY <1>0, SessionNumbers DEF Delta
  <2> QED BY <1>1, <1>6, <2>1 DEF SettleFunding
<1>7. CASE Refund(r)
  BY <1>7 DEF Refund, LedgerStep
<1>8. CASE RefundExtra(r)
  <2>1. -extra[r] \in Int
    BY <1>0
  <2> QED BY <1>1, <1>8, <2>1 DEF RefundExtra
<1> QED BY <1>2, <1>3, <1>4, <1>5, <1>6, <1>7, <1>8 DEF SessionStep, PreConsume

\* The ledger and the books together.
SInv == BooksTyped /\ (\A r \in Requests : Books(r)) /\ SubsTypes /\ RecordTypes /\ RefundTypes

\* Every step of the sessions is a step of the ledger or leaves it alone.
LEMMA LedgerFollows ==
    ASSUME SInv, [SessionNext]_billingVars
    PROVE  LedgerStep \/ UNCHANGED ledgerVars
<1>1. ASSUME NEW r \in Requests, SessionStep(r) PROVE LedgerStep \/ UNCHANGED ledgerVars
  BY <1>1, SessionLedger DEF SInv
<1>2. ASSUME NEW r \in Requests, RefundStep(r) PROVE LedgerStep
  BY <1>2 DEF LedgerStep
<1>3. CASE Maintenance
  BY <1>3 DEF LedgerStep
<1>4. CASE UNCHANGED billingVars
  BY <1>4 DEF billingVars
<1> QED BY <1>1, <1>2, <1>3, <1>4, SessionSteps

\* A step that leaves the sessions alone leaves their books alone.
LEMMA BooksKept ==
    ASSUME BooksTyped, \A r \in Requests : Books(r), UNCHANGED sessionVars
    PROVE  BooksTyped' /\ \A r \in Requests : Books(r)'
<1>1. UNCHANGED <<wallet, token, ph, amt, src, next, trust, pre, tokC, wal, extra, fundErr, tokErr>>
  BY DEF sessionVars, flow, held, errs
<1>2. BooksTyped'
  BY <1>1 DEF BooksTyped
<1>3. \A r \in Requests : Books(r)'
  BY <1>1 DEF Books, Need
<1> QED BY <1>2, <1>3

\* The books are kept by every step.
LEMMA SessionInvStep ==
    ASSUME SInv, [SessionNext]_billingVars
    PROVE  SInv'
<1>0. BooksTyped /\ (\A r \in Requests : Books(r)) /\ SubsTypes /\ RecordTypes /\ RefundTypes
  BY DEF SInv
<1>1. SubsTypes' /\ RecordTypes' /\ RefundTypes'
  <2>1. CASE LedgerStep
    BY <1>0, <2>1, LedgerTypeStep
  <2>2. CASE UNCHANGED ledgerVars
    BY <1>0, <2>2 DEF SubsTypes, RecordTypes, RefundTypes, TriesLeft, ledgerVars, subVars, recVars, rfVars
  <2> QED BY <2>1, <2>2, LedgerFollows
<1>2. BooksTyped' /\ \A r \in Requests : Books(r)'
  <2>1. ASSUME NEW r \in Requests, SessionStep(r) PROVE BooksTyped' /\ \A q \in Requests : Books(q)'
    <3>1. BooksTyped' /\ OthersSame(r) /\ Books(r)'
      BY <1>0, <2>1, BookStep
    <3>2. ASSUME NEW q \in Requests PROVE Books(q)'
      <4>1. CASE q = r
        BY <3>1, <4>1
      <4>2. CASE q # r
        <5>1. /\ ph'[q] = ph[q] /\ src'[q] = src[q] /\ amt'[q] = amt[q] /\ pre'[q] = pre[q]
              /\ tokC'[q] = tokC[q] /\ wal'[q] = wal[q] /\ fundErr'[q] = fundErr[q]
          BY <3>1, <4>2 DEF OthersSame
        <5>2. Need(q)' = Need(q)
          BY <5>1 DEF Need
        <5>3. Books(q)
          BY <1>0
        <5> QED BY <5>1, <5>2, <5>3 DEF Books
      <4> QED BY <4>1, <4>2
    <3> QED BY <3>1, <3>2
  <2>2. CASE UNCHANGED sessionVars
    BY <1>0, <2>2, BooksKept
  <2> QED BY <2>1, <2>2, SessionSteps DEF billingVars
<1> QED BY <1>1, <1>2 DEF SInv

\* The sessions start with books that balance.
LEMMA SessionInvInit == SessionInit => SInv
<1> SUFFICES ASSUME SessionInit PROVE SInv
  OBVIOUS
<1>1. SubsTypes /\ RecordTypes /\ RefundTypes
  BY LedgerTypeInit DEF SessionInit
<1>2. BooksTyped
  BY SessionNumbers DEF SessionInit, BooksTyped, Phases
<1>3. \A r \in Requests : Books(r)
  BY DEF SessionInit, Books, Unfunded
<1> QED BY <1>1, <1>2, <1>3 DEF SInv

\* The books hold throughout.
LEMMA SessionInvariant == SessionSpec => []SInv
<1>1. SInv /\ [SessionNext]_billingVars => SInv'
  BY SessionInvStep
<1> QED BY <1>1, SessionInvInit, PTL DEF SessionSpec

-----------------------------------------------------------------------------
(* Types, and the ledger under its real client.                             *)

\* What failed updates leave booked is never negative.
FundErrNat == fundErr \in [Requests -> Nat]

\* Only a reservation or a refund that failed adds to it.
LEMMA FundErrStep ==
    ASSUME SInv, RecordsTyped, CreditInv, FundErrNat, NEW r \in Requests, SessionStep(r)
    PROVE  FundErrNat'
<1>0. /\ amt[r] \in Nat /\ wal[r] \in Nat /\ extra[r] \in Nat /\ fundErr[r] \in Nat
      /\ recAmt[r] \in Nat /\ credit[r] \in Nat
  BY DEF SInv, BooksTyped, FundErrNat, RecordsTyped
<1>1. recAmt[r] - credit[r] \in Nat
  <2>1. rec[r] \in {"none", "consumed", "refunded"}
    BY DEF RecordsTyped
  <2>2. credit[r] <= recAmt[r]
    BY <1>0, <2>1 DEF CreditInv
  <2> QED BY <1>0, <2>2
<1>2. ASSUME NEW d \in Nat, fundErr' = [fundErr EXCEPT ![r] = @ + d] PROVE FundErrNat'
  BY <1>0, <1>2 DEF FundErrNat
<1>3. ASSUME UNCHANGED fundErr PROVE FundErrNat'
  BY <1>3 DEF FundErrNat
<1>4. CASE RollbackFundingReserve(r)
  BY <1>0, <1>2, <1>3, <1>4 DEF RollbackFundingReserve, Add
<1>5. CASE RefundWallet(r)
  BY <1>0, <1>2, <1>3, <1>5 DEF RefundWallet, Add
<1>6. CASE RefundExtra(r)
  <2>1. recAmt[r] - credit[r] + extra[r] \in Nat
    BY <1>0, <1>1
  <2> QED BY <1>1, <1>2, <1>6, <2>1 DEF RefundExtra, Add
<1>7. CASE \/ Arrive(r) \/ PreConsume(r) \/ Raise(r) \/ ReserveToken(r)
           \/ (\E a \in Actuals : SettleFunding(r, a)) \/ SettleToken(r) \/ Refund(r) \/ RefundToken(r)
  <2>1. UNCHANGED fundErr
    BY <1>7 DEF Arrive, NewBillingSession, PreConsume, TryWallet, TrySubscription, PreConsumeTokenQuota,
       WalletPreConsume, SubscriptionPreConsume, RollbackToken, Raise, ReserveFunding, ReserveToken,
       SettleFunding, SettleToken, Refund, RefundToken, errs
  <2> QED BY <1>3, <2>1
<1> QED BY <1>4, <1>5, <1>6, <1>7 DEF SessionStep

\* The ledger's invariants hold under the sessions as under its general client.
LEMMA SessionCredit ==
    ASSUME ~CommitMayFail
    PROVE  SessionSpec => [](RecordsTyped /\ CreditInv /\ FundErrNat)
<1>1. SessionInit => RecordsTyped /\ CreditInv /\ FundErrNat
  BY DEF SessionInit, LedgerInit, RecordsTyped, CreditInv, RefundPhases, FundErrNat
<1>2. /\ SInv /\ RecordsTyped /\ CreditInv /\ FundErrNat /\ [SessionNext]_billingVars
      => RecordsTyped' /\ CreditInv' /\ FundErrNat'
  <2> SUFFICES ASSUME SInv, RecordsTyped, CreditInv, FundErrNat, [SessionNext]_billingVars
               PROVE  RecordsTyped' /\ CreditInv' /\ FundErrNat'
    OBVIOUS
  <2>1. RecordsTyped' /\ CreditInv'
    <3>1. CASE LedgerStep
      BY <3>1, CreditStep
    <3>2. CASE UNCHANGED ledgerVars
      BY <3>2 DEF RecordsTyped, CreditInv, ledgerVars, recVars, rfVars
    <3> QED BY <3>1, <3>2, LedgerFollows
  <2>2. FundErrNat'
    <3>1. CASE UNCHANGED sessionVars
      BY <3>1 DEF sessionVars, errs, FundErrNat
    <3> QED BY <3>1, FundErrStep, SessionSteps DEF billingVars
  <2> QED BY <2>1, <2>2
<1> QED BY <1>1, <1>2, SessionInvariant, PTL DEF SessionSpec

\* Balances, phases, sources and amounts have their types: no amount that a
\* session holds or has left wrongly booked is ever negative.
THEOREM SessionTypes ==
    ASSUME ~CommitMayFail
    PROVE  SessionSpec => []SessionTypeOK
<1>1. SInv /\ FundErrNat => SessionTypeOK
  BY DEF SInv, BooksTyped, FundErrNat, SessionTypeOK
<1> QED BY <1>1, SessionInvariant, SessionCredit, PTL

\* Under the billing sessions too a request gets back at most what it
\* pre-consumed of its subscription.
THEOREM SessionRefundOnce ==
    ASSUME ~CommitMayFail
    PROVE  SessionSpec => []RefundIsIdempotent
<1>1. RecordsTyped /\ CreditInv => RefundIsIdempotent
  BY DEF RecordsTyped, CreditInv, RefundIsIdempotent
<1> QED BY <1>1, SessionCredit, PTL

\* Under the billing sessions too, with their reservations and settlements of any
\* size, no limited subscription is overrun.
THEOREM SessionWithinTotal ==
    ASSUME \A s \in Subs : PlanTotal[s] > 0
    PROVE  SessionSpec => []UsedWithinTotal
<1>1. SessionInit => SubsTyped /\ Limits
  BY LedgerNumbers DEF SessionInit, LedgerInit, SubsTyped, Limits
<1>2. SInv /\ SubsTyped /\ Limits /\ [SessionNext]_billingVars => SubsTyped' /\ Limits'
  <2>1. SubsTyped /\ Limits /\ UNCHANGED ledgerVars => SubsTyped' /\ Limits'
    BY DEF SubsTyped, Limits, ledgerVars, subVars, recVars
  <2> QED BY <2>1, LimitStep, LedgerFollows
<1>3. Limits => UsedWithinTotal
  BY DEF Limits, UsedWithinTotal
<1> QED BY <1>1, <1>2, <1>3, SessionInvariant, PTL DEF SessionSpec

-----------------------------------------------------------------------------
(* Wallet and token are prepaid accounts.                                   *)

\* One session's part of a step of a prepaid account: balance b, hold h, loss l
\* and standing s before it, and after it.
AccountMoves(b, b1, h, h1, l, l1, s, s1) ==
    \/ b1 = b /\ h1 = h /\ l1 = l /\ s1 = s
    \/ /\ s = "none" /\ s1 = "live" /\ h1 \in Nat
       /\ b1 = b + h - h1 /\ l1 = l /\ (h1 > 0 => b1 >= 0)
    \/ s = "live" /\ s1 = "live" /\ h1 \in Nat /\ b1 = b + h - h1 /\ l1 = l
    \/ /\ s = "live" /\ s1 \in {"charged", "returned", "none"} /\ h1 \in Nat
       /\ s1 # "charged" => h1 = 0
       /\ (b1 = b + h - h1 /\ l1 = l) \/ (b1 = b /\ l1 = l + h - h1)

WHold(r) == IF OnWallet(r) THEN FundHeld(r) ELSE 0
WLost(r) == IF OnWallet(r) THEN fundErr[r] ELSE 0
WSt(r) == IF OnWallet(r)
          THEN Standing(r, {"new", "try", "token", "fund", "undo", "rejected"},
                        {"settleToken", "settled"}, {"refundToken", "refunded"})
          ELSE "none"
TSt(r) == Standing(r, {"new", "try", "token", "rejected"}, {"settled"}, {"refunded"})

\* A step that moves the wallet for one session is a step of the account.
LEMMA WalletMoves ==
    ASSUME NEW r \in Requests,
           \A q \in Requests \ {r} : WHold(q)' = WHold(q) /\ WLost(q)' = WLost(q) /\ WSt(q)' = WSt(q),
           AccountMoves(wallet, wallet', WHold(r), WHold(r)', WLost(r), WLost(r)', WSt(r), WSt(r)')
    PROVE  [Wallet!AccountNext]_(Wallet!accountVars)
<1> DEFINE H == [q \in Requests |-> IF OnWallet(q) THEN FundHeld(q) ELSE 0]
           L == [q \in Requests |-> IF OnWallet(q) THEN fundErr[q] ELSE 0]
           S == [q \in Requests |-> IF OnWallet(q)
                    THEN Standing(q, {"new", "try", "token", "fund", "undo", "rejected"},
                                  {"settleToken", "settled"}, {"refundToken", "refunded"})
                    ELSE "none"]
<1>1. \A q \in Requests : /\ H[q] = WHold(q) /\ L[q] = WLost(q) /\ S[q] = WSt(q)
                          /\ H'[q] = WHold(q)' /\ L'[q] = WLost(q)' /\ S'[q] = WSt(q)'
  BY DEF WHold, WLost, WSt
<1>2. /\ H = [q \in Requests |-> H[q]] /\ H' = [q \in Requests |-> H'[q]]
      /\ L = [q \in Requests |-> L[q]] /\ L' = [q \in Requests |-> L'[q]]
      /\ S = [q \in Requests |-> S[q]] /\ S' = [q \in Requests |-> S'[q]]
  OBVIOUS
<1>3. /\ Wallet!Open(r) <=>
           /\ S[r] = "none" /\ S' = [S EXCEPT ![r] = "live"]
           /\ H'[r] \in Nat /\ H' = [H EXCEPT ![r] = H'[r]]
           /\ wallet' = wallet + H[r] - H'[r] /\ L' = L
           /\ H'[r] > 0 => wallet' >= 0
      /\ Wallet!Move(r) <=>
           /\ S[r] = "live" /\ S' = S
           /\ H'[r] \in Nat /\ H' = [H EXCEPT ![r] = H'[r]]
           /\ wallet' = wallet + H[r] - H'[r] /\ L' = L
  BY DEF Wallet!Open, Wallet!Move, Wallet!Holds, Wallet!Paid
<1>4. ASSUME NEW final
      PROVE  Wallet!Close(r, final) <=>
           /\ S[r] = "live" /\ S' = [S EXCEPT ![r] = final]
           /\ H'[r] \in Nat /\ H' = [H EXCEPT ![r] = H'[r]]
           /\ final # "charged" => H'[r] = 0
           /\ \/ wallet' = wallet + H[r] - H'[r] /\ L' = L
              \/ wallet' = wallet /\ L' = [L EXCEPT ![r] = @ + H[r] - H'[r]]
  BY DEF Wallet!Close, Wallet!Holds, Wallet!Paid, Wallet!Unpaid
<1>5. Wallet!accountVars = <<wallet, H, L, S>>
  BY DEF Wallet!accountVars
<1>6. Wallet!accountVars' = <<wallet', H', L', S'>>
  BY DEF Wallet!accountVars
<1> HIDE DEF H, L, S
<1>7. /\ H' = [H EXCEPT ![r] = H'[r]] /\ L' = [L EXCEPT ![r] = L'[r]] /\ S' = [S EXCEPT ![r] = S'[r]]
  BY <1>1, <1>2
<1>8. /\ H'[r] = H[r] => H' = H
      /\ L'[r] = L[r] => L' = L
      /\ S'[r] = S[r] => S' = S
  BY <1>1, <1>2
<1>9. AccountMoves(wallet, wallet', H[r], H'[r], L[r], L'[r], S[r], S'[r])
  BY <1>1
<1>10. CASE wallet' = wallet /\ H'[r] = H[r] /\ L'[r] = L[r] /\ S'[r] = S[r]
  BY <1>5, <1>6, <1>8, <1>10
<1>11. CASE /\ S[r] = "none" /\ S'[r] = "live" /\ H'[r] \in Nat
            /\ wallet' = wallet + H[r] - H'[r] /\ L'[r] = L[r] /\ (H'[r] > 0 => wallet' >= 0)
  <2>1. Wallet!Open(r)
    BY <1>3, <1>7, <1>8, <1>11
  <2> QED BY <2>1 DEF Wallet!AccountNext
<1>12. CASE S[r] = "live" /\ S'[r] = "live" /\ H'[r] \in Nat /\ wallet' = wallet + H[r] - H'[r] /\ L'[r] = L[r]
  <2>1. Wallet!Move(r)
    BY <1>3, <1>7, <1>8, <1>12
  <2> QED BY <2>1 DEF Wallet!AccountNext
<1>13. CASE /\ S[r] = "live" /\ S'[r] \in {"charged", "returned", "none"} /\ H'[r] \in Nat
            /\ S'[r] # "charged" => H'[r] = 0
            /\ \/ wallet' = wallet + H[r] - H'[r] /\ L'[r] = L[r]
               \/ wallet' = wallet /\ L'[r] = L[r] + H[r] - H'[r]
  <2>1. L'[r] = L[r] + H[r] - H'[r] => L' = [L EXCEPT ![r] = @ + H[r] - H'[r]]
    BY <1>7
  <2>2. Wallet!Close(r, S'[r])
    BY <1>4, <1>7, <1>8, <1>13, <2>1
  <2> QED BY <1>13, <2>2 DEF Wallet!AccountNext
<1> QED BY <1>9, <1>10, <1>11, <1>12, <1>13 DEF AccountMoves

\* The same for the token.
LEMMA TokenMoves ==
    ASSUME NEW r \in Requests, BooksTyped, BooksTyped',
           \A q \in Requests \ {r} : TokenHeld(q)' = TokenHeld(q) /\ tokErr'[q] = tokErr[q] /\ TSt(q)' = TSt(q),
           AccountMoves(token, token', TokenHeld(r), TokenHeld(r)', tokErr[r], tokErr'[r], TSt(r), TSt(r)')
    PROVE  [Token!AccountNext]_(Token!accountVars)
<1> DEFINE H == [q \in Requests |-> TokenHeld(q)]
           S == [q \in Requests |->
                    Standing(q, {"new", "try", "token", "rejected"}, {"settled"}, {"refunded"})]
<1>1. \A q \in Requests : /\ H[q] = TokenHeld(q) /\ S[q] = TSt(q)
                          /\ H'[q] = TokenHeld(q)' /\ S'[q] = TSt(q)'
  BY DEF TSt
<1>2. /\ H = [q \in Requests |-> H[q]] /\ H' = [q \in Requests |-> H'[q]]
      /\ tokErr = [q \in Requests |-> tokErr[q]] /\ tokErr' = [q \in Requests |-> tokErr'[q]]
      /\ S = [q \in Requests |-> S[q]] /\ S' = [q \in Requests |-> S'[q]]
  BY DEF BooksTyped
<1>3. /\ Token!Open(r) <=>
           /\ S[r] = "none" /\ S' = [S EXCEPT ![r] = "live"]
           /\ H'[r] \in Nat /\ H' = [H EXCEPT ![r] = H'[r]]
           /\ token' = token + H[r] - H'[r] /\ tokErr' = tokErr
           /\ H'[r] > 0 => token' >= 0
      /\ Token!Move(r) <=>
           /\ S[r] = "live" /\ S' = S
           /\ H'[r] \in Nat /\ H' = [H EXCEPT ![r] = H'[r]]
           /\ token' = token + H[r] - H'[r] /\ tokErr' = tokErr
  BY DEF Token!Open, Token!Move, Token!Holds, Token!Paid
<1>4. ASSUME NEW final
      PROVE  Token!Close(r, final) <=>
           /\ S[r] = "live" /\ S' = [S EXCEPT ![r] = final]
           /\ H'[r] \in Nat /\ H' = [H EXCEPT ![r] = H'[r]]
           /\ final # "charged" => H'[r] = 0
           /\ \/ token' = token + H[r] - H'[r] /\ tokErr' = tokErr
              \/ token' = token /\ tokErr' = [tokErr EXCEPT ![r] = @ + H[r] - H'[r]]
  BY DEF Token!Close, Token!Holds, Token!Paid, Token!Unpaid
<1>5. Token!accountVars = <<token, H, tokErr, S>>
  BY DEF Token!accountVars
<1>6. Token!accountVars' = <<token', H', tokErr', S'>>
  BY DEF Token!accountVars
<1> HIDE DEF H, S
<1>7. /\ H' = [H EXCEPT ![r] = H'[r]] /\ tokErr' = [tokErr EXCEPT ![r] = tokErr'[r]]
      /\ S' = [S EXCEPT ![r] = S'[r]]
  BY <1>1, <1>2
<1>8. /\ H'[r] = H[r] => H' = H
      /\ tokErr'[r] = tokErr[r] => tokErr' = tokErr
      /\ S'[r] = S[r] => S' = S
  BY <1>1, <1>2
<1>9. AccountMoves(token, token', H[r], H'[r], tokErr[r], tokErr'[r], S[r], S'[r])
  BY <1>1
<1>10. CASE token' = token /\ H'[r] = H[r] /\ tokErr'[r] = tokErr[r] /\ S'[r] = S[r]
  BY <1>5, <1>6, <1>8, <1>10
<1>11. CASE /\ S[r] = "none" /\ S'[r] = "live" /\ H'[r] \in Nat
            /\ token' = token + H[r] - H'[r] /\ tokErr'[r] = tokErr[r] /\ (H'[r] > 0 => token' >= 0)
  <2>1. Token!Open(r)
    BY <1>3, <1>7, <1>8, <1>11
  <2> QED BY <2>1 DEF Token!AccountNext
<1>12. CASE S[r] = "live" /\ S'[r] = "live" /\ H'[r] \in Nat /\ token' = token + H[r] - H'[r] /\ tokErr'[r] = tokErr[r]
  <2>1. Token!Move(r)
    BY <1>3, <1>7, <1>8, <1>12
  <2> QED BY <2>1 DEF Token!AccountNext
<1>13. CASE /\ S[r] = "live" /\ S'[r] \in {"charged", "returned", "none"} /\ H'[r] \in Nat
            /\ S'[r] # "charged" => H'[r] = 0
            /\ \/ token' = token + H[r] - H'[r] /\ tokErr'[r] = tokErr[r]
               \/ token' = token /\ tokErr'[r] = tokErr[r] + H[r] - H'[r]
  <2>1. tokErr'[r] = tokErr[r] + H[r] - H'[r] => tokErr' = [tokErr EXCEPT ![r] = @ + H[r] - H'[r]]
    BY <1>7
  <2>2. Token!Close(r, S'[r])
    BY <1>4, <1>7, <1>8, <1>13, <2>1
  <2> QED BY <1>13, <2>2 DEF Token!AccountNext
<1> QED BY <1>9, <1>10, <1>11, <1>12, <1>13 DEF AccountMoves

\* Where a session stands with the wallet, phase by phase.
LEMMA WalletStanding ==
    ASSUME NEW r \in Requests, BooksTyped, BooksTyped', Books(r), Books(r)'
    PROVE  /\ src[r] = "subscription" \/ ph[r] \in Unfunded =>
                WHold(r) = 0 /\ WLost(r) = 0 /\ WSt(r) = "none"
           /\ src'[r] = "subscription" \/ ph'[r] \in Unfunded =>
                WHold(r)' = 0 /\ WLost(r)' = 0 /\ WSt(r)' = "none"
           /\ src[r] = "wallet" =>
                /\ WLost(r) = fundErr[r]
                /\ ph[r] \in {"settleToken", "settled"} => WHold(r) = amt[r] /\ WSt(r) = "charged"
                /\ ph[r] \in {"refundToken", "refunded"} => WHold(r) = 0 /\ WSt(r) = "returned"
                /\ ph[r] \in {"open", "rsvToken", "rsvUndo", "failed", "unsettled", "refund", "closed"} =>
                      WHold(r) = wal[r] /\ WSt(r) = "live"
           /\ src'[r] = "wallet" =>
                /\ WLost(r)' = fundErr'[r]
                /\ ph'[r] \in {"settleToken", "settled"} => WHold(r)' = amt'[r] /\ WSt(r)' = "charged"
                /\ ph'[r] \in {"refundToken", "refunded"} => WHold(r)' = 0 /\ WSt(r)' = "returned"
                /\ ph'[r] \in {"open", "rsvToken", "rsvUndo", "failed", "unsettled", "refund", "closed"} =>
                      WHold(r)' = wal'[r] /\ WSt(r)' = "live"
<1>1. src[r] = "subscription" \/ ph[r] \in Unfunded => WHold(r) = 0 /\ WLost(r) = 0 /\ WSt(r) = "none"
  <2>1. CASE src[r] = "subscription"
    BY <2>1 DEF WHold, WLost, WSt, OnWallet
  <2>2. CASE ph[r] \in Unfunded
    <3>1. FundHeld(r) = IF src[r] = "wallet" THEN wal[r] ELSE SubHeld(r)
      BY <2>2 DEF FundHeld, Unfunded
    <3>2. WHold(r) = 0 /\ WLost(r) = 0
      BY <2>2, <3>1 DEF WHold, WLost, OnWallet, Books
    <3>3. WSt(r) = "none"
      BY <2>2 DEF WSt, Standing, Unfunded
    <3> QED BY <3>2, <3>3
  <2> QED BY <2>1, <2>2
<1>2. src'[r] = "subscription" \/ ph'[r] \in Unfunded => WHold(r)' = 0 /\ WLost(r)' = 0 /\ WSt(r)' = "none"
  <2>1. CASE src'[r] = "subscription"
    BY <2>1 DEF WHold, WLost, WSt, OnWallet
  <2>2. CASE ph'[r] \in Unfunded
    <3>1. FundHeld(r)' = IF src'[r] = "wallet" THEN wal'[r] ELSE SubHeld(r)'
      BY <2>2 DEF FundHeld, Unfunded
    <3>2. WHold(r)' = 0 /\ WLost(r)' = 0
      BY <2>2, <3>1 DEF WHold, WLost, OnWallet, Books, Unfunded
    <3>3. WSt(r)' = "none"
      BY <2>2 DEF WSt, Standing, Unfunded
    <3> QED BY <3>2, <3>3
  <2> QED BY <2>1, <2>2
<1>3. ASSUME src[r] = "wallet"
      PROVE  /\ WLost(r) = fundErr[r]
             /\ ph[r] \in {"settleToken", "settled"} => WHold(r) = amt[r] /\ WSt(r) = "charged"
             /\ ph[r] \in {"refundToken", "refunded"} => WHold(r) = 0 /\ WSt(r) = "returned"
             /\ ph[r] \in {"open", "rsvToken", "rsvUndo", "failed", "unsettled", "refund", "closed"} =>
                   WHold(r) = wal[r] /\ WSt(r) = "live"
  BY <1>3 DEF WHold, WLost, WSt, OnWallet, FundHeld, Standing
<1>4. ASSUME src'[r] = "wallet"
      PROVE  /\ WLost(r)' = fundErr'[r]
             /\ ph'[r] \in {"settleToken", "settled"} => WHold(r)' = amt'[r] /\ WSt(r)' = "charged"
             /\ ph'[r] \in {"refundToken", "refunded"} => WHold(r)' = 0 /\ WSt(r)' = "returned"
             /\ ph'[r] \in {"open", "rsvToken", "rsvUndo", "failed", "unsettled", "refund", "closed"} =>
                   WHold(r)' = wal'[r] /\ WSt(r)' = "live"
  BY <1>4 DEF WHold, WLost, WSt, OnWallet, FundHeld, Standing
<1> QED BY <1>1, <1>2, <1>3, <1>4

\* Each step of a session is a step of the wallet's account.
LEMMA WalletStep ==
    ASSUME SInv, SInv', NEW r \in Requests, SessionStep(r)
    PROVE  [Wallet!AccountNext]_(Wallet!accountVars)
<1> USE DEF Go, Add
<1>0. /\ BooksTyped /\ BooksTyped' /\ Books(r) /\ Books(r)' /\ OthersSame(r)
  BY BookStep DEF SInv
<1>1. /\ ph[r] \in Phases /\ amt[r] \in Nat /\ pre[r] \in Nat /\ wal[r] \in Nat /\ wallet \in Int
      /\ fundErr[r] \in Int /\ src[r] \in {"wallet", "subscription"} /\ Need(r) \in Nat
      /\ amt'[r] \in Nat /\ wal'[r] \in Nat /\ src'[r] \in {"wallet", "subscription"}
      /\ wallet' \in Int /\ fundErr'[r] \in Int
  BY <1>0, NeedIsNat DEF BooksTyped
<1>2. /\ ph \in [Requests -> Phases] /\ src \in [Requests -> {"wallet", "subscription"}]
      /\ amt \in [Requests -> Nat] /\ wal \in [Requests -> Nat] /\ fundErr \in [Requests -> Int]
  BY <1>0 DEF BooksTyped
<1>3. \A q \in Requests \ {r} : WHold(q)' = WHold(q) /\ WLost(q)' = WLost(q) /\ WSt(q)' = WSt(q)
  <2>1. ASSUME NEW q \in Requests \ {r}
        PROVE  WHold(q)' = WHold(q) /\ WLost(q)' = WLost(q) /\ WSt(q)' = WSt(q)
    <3>1. /\ ph'[q] = ph[q] /\ src'[q] = src[q] /\ amt'[q] = amt[q] /\ wal'[q] = wal[q]
          /\ fundErr'[q] = fundErr[q]
      BY <1>0 DEF OthersSame
    <3>2. src[q] = "wallet" => FundHeld(q)' = FundHeld(q)
      BY <3>1 DEF FundHeld
    <3> QED BY <3>1, <3>2 DEF WHold, WLost, WSt, OnWallet, Standing
  <2> QED BY <2>1
<1> DEFINE Moves == AccountMoves(wallet, wallet', WHold(r), WHold(r)', WLost(r), WLost(r)', WSt(r), WSt(r)')
<1>4. SUFFICES Moves
  BY <1>3, WalletMoves
<1> HIDE DEF Moves
\* The wallet is not touched by a session that has not been funded, is funded by
\* a subscription, or keeps its standing.
<1>5. ASSUME src[r] = "subscription" \/ ph[r] \in Unfunded, src'[r] = "subscription" \/ ph'[r] \in Unfunded,
             wallet' = wallet
      PROVE  Moves
  BY <1>0, <1>5, WalletStanding DEF Moves, AccountMoves
<1>6. ASSUME src[r] = "wallet", src'[r] = "wallet",
             {ph[r], ph'[r]} \subseteq {"open", "rsvToken", "rsvUndo", "failed", "unsettled", "refund", "closed"},
             wallet' = wallet + wal[r] - wal'[r], fundErr'[r] = fundErr[r]
      PROVE  Moves
  BY <1>0, <1>1, <1>6, WalletStanding DEF Moves, AccountMoves
<1>7. CASE Arrive(r)
  <2>1. PICK q \in Quotas, pref \in Prefs, forced \in BOOLEAN : NewBillingSession(r, q, pref, forced)
    BY <1>7 DEF Arrive
  <2> QED BY <1>2, <1>5, <2>1 DEF NewBillingSession, Unfunded
<1>8. CASE TryWallet(r)
  <2>0. ph[r] \in Unfunded /\ src[r] = "wallet" /\ wallet' = wallet /\ wal' = wal /\ wal[r] = 0
    BY <1>0, <1>8 DEF TryWallet, held, Unfunded, Books
  <2>1. CASE Fallback(r)
    BY <1>0, <1>5, <2>0, <2>1, FallbackBooks DEF Unfunded
  <2>2. CASE ph'[r] \in {"token", "rejected"}
    BY <1>5, <2>0, <2>2 DEF Unfunded
  <2>3. CASE ph'[r] = "open" /\ src' = src
    <3>1. WHold(r) = 0 /\ WLost(r) = 0 /\ WSt(r) = "none"
      BY <1>0, <2>0, WalletStanding
    <3>2. fundErr' = fundErr /\ fundErr[r] = 0
      BY <1>0, <1>8, <2>0 DEF TryWallet, errs, Books
    <3>3. WHold(r)' = 0 /\ WLost(r)' = 0 /\ WSt(r)' = "live"
      BY <1>0, <2>0, <2>3, <3>2, WalletStanding
    <3> QED BY <1>1, <2>0, <3>1, <3>3 DEF Moves, AccountMoves
  <2> QED BY <1>2, <1>8, <2>1, <2>2, <2>3 DEF TryWallet
<1>9. CASE TrySubscription(r)
  BY <1>2, <1>5, <1>9 DEF TrySubscription, Unfunded
<1>10. CASE PreConsumeTokenQuota(r)
  BY <1>2, <1>5, <1>10 DEF PreConsumeTokenQuota, Unfunded
<1>11. CASE WalletPreConsume(r)
  <2>1. CASE /\ wallet >= Need(r) /\ wallet' = wallet - Need(r)
             /\ wal' = [wal EXCEPT ![r] = Need(r)] /\ ph' = [ph EXCEPT ![r] = "open"]
    <3>0. ph[r] \in Unfunded /\ src[r] = "wallet" /\ src' = src /\ fundErr' = fundErr
      BY <1>11 DEF WalletPreConsume, Unfunded, errs
    <3>1. WHold(r) = 0 /\ WLost(r) = 0 /\ WSt(r) = "none" /\ fundErr[r] = 0
      BY <1>0, <3>0, WalletStanding DEF Books
    <3>2. ph'[r] = "open" /\ wal'[r] = Need(r)
      BY <1>2, <2>1
    <3>3. WHold(r)' = Need(r) /\ WLost(r)' = 0 /\ WSt(r)' = "live"
      BY <1>0, <3>0, <3>1, <3>2, WalletStanding
    <3> QED BY <1>1, <2>1, <3>1, <3>3 DEF Moves, AccountMoves
  <2>2. CASE ph' = [ph EXCEPT ![r] = "undo"] /\ wallet' = wallet
    BY <1>2, <1>5, <1>11, <2>2 DEF WalletPreConsume, Unfunded
  <2> QED BY <1>11, <2>1, <2>2 DEF WalletPreConsume
<1>12. CASE SubscriptionPreConsume(r)
  BY <1>5, <1>12 DEF SubscriptionPreConsume
<1>13. CASE RollbackToken(r)
  BY <1>0, <1>5, <1>13, FallbackBooks DEF RollbackToken, Unfunded
<1>14. CASE Raise(r)
  <2>1. PICK target \in Quotas : ReserveFunding(r, target)
    BY <1>14 DEF Raise
  <2>2. ph[r] = "open" /\ src' = src /\ fundErr' = fundErr /\ target - pre[r] \in Int
    BY <1>1, <2>1, SessionNumbers DEF ReserveFunding, flow, errs
  <2>3. CASE src[r] = "subscription"
    BY <1>5, <2>1, <2>2, <2>3 DEF ReserveFunding
  <2>4. CASE src[r] = "wallet"
    <3>1. ph'[r] \in {"rsvToken", "failed"}
      BY <1>2, <2>1 DEF ReserveFunding
    <3>2. wallet' = wallet + wal[r] - wal'[r]
      BY <1>1, <1>2, <2>1, <2>2, <2>4 DEF ReserveFunding
    <3> QED BY <1>6, <2>2, <2>4, <3>1, <3>2
  <2> QED BY <1>1, <2>3, <2>4
<1>15. CASE ReserveToken(r)
  <2>1. /\ ph[r] = "rsvToken" /\ ph'[r] \in {"open", "rsvUndo"} /\ src' = src /\ fundErr' = fundErr
        /\ wallet' = wallet /\ wal' = wal
    BY <1>2, <1>15 DEF ReserveToken, flow, errs
  <2>2. wallet' = wallet + wal[r] - wal'[r]
    BY <1>1, <2>1
  <2> QED BY <1>1, <1>5, <1>6, <2>1, <2>2
<1>16. CASE RollbackFundingReserve(r)
  <2>1. ph[r] = "rsvUndo" /\ ph'[r] = "failed" /\ src' = src
    BY <1>2, <1>16 DEF RollbackFundingReserve, flow
  <2>2. CASE src[r] = "subscription"
    BY <1>5, <1>16, <2>1, <2>2 DEF RollbackFundingReserve
  <2>3. CASE src[r] = "wallet"
    <3>1. fundErr' = fundErr
      BY <1>16, <2>3 DEF RollbackFundingReserve
    <3>2. wallet' = wallet + wal[r] - wal'[r]
      BY <1>1, <1>2, <1>16, <2>3 DEF RollbackFundingReserve
    <3> QED BY <1>6, <2>1, <2>3, <3>1, <3>2
  <2> QED BY <1>1, <2>2, <2>3
<1>17. ASSUME NEW a \in Actuals, SettleFunding(r, a) PROVE Moves
  <2>1. /\ ph[r] = "open" /\ src' = src /\ wal' = wal /\ fundErr' = fundErr /\ a \in Nat
        /\ Delta(r, a) = a - pre[r] /\ Delta(r, a) \in Int
    BY <1>1, <1>17, SessionNumbers DEF SettleFunding, flow, held, errs, Delta
  <2>2. CASE src[r] = "subscription"
    <3>1. wallet' = wallet
      BY <1>17, <2>2 DEF SettleFunding
    <3> QED BY <1>5, <2>1, <2>2, <3>1
  <2>3. CASE src[r] = "wallet" /\ ph'[r] = "unsettled"
    <3>1. wallet' = wallet
      BY <1>2, <1>17, <2>3 DEF SettleFunding
    <3>2. wallet' = wallet + wal[r] - wal'[r]
      BY <1>1, <2>1, <3>1
    <3> QED BY <1>6, <2>1, <2>3, <3>2
  <2>4. CASE src[r] = "wallet" /\ ph'[r] # "unsettled"
    <3>1. /\ ph'[r] \in {"settled", "settleToken"} /\ amt'[r] = a
          /\ wallet' = wallet - Delta(r, a) \/ (Delta(r, a) = 0 /\ wallet' = wallet)
      BY <1>2, <1>17, <2>4 DEF SettleFunding
    <3>2. WHold(r) = pre[r] /\ WLost(r) = fundErr[r] /\ WSt(r) = "live"
      BY <1>0, <2>1, <2>4, WalletStanding DEF Books
    <3>3. WHold(r)' = a /\ WLost(r)' = fundErr[r] /\ WSt(r)' = "charged"
      BY <1>0, <2>1, <2>4, <3>1, WalletStanding
    <3>4. wallet' = wallet + pre[r] - a
      BY <1>1, <2>1, <3>1
    <3> QED BY <1>1, <2>1, <3>2, <3>3, <3>4 DEF Moves, AccountMoves
  <2> QED BY <1>1, <2>2, <2>3, <2>4
<1>18. CASE SettleToken(r)
  <2>1. /\ ph[r] = "settleToken" /\ ph'[r] = "settled" /\ src' = src /\ amt' = amt
        /\ fundErr' = fundErr /\ wallet' = wallet
    BY <1>2, <1>18 DEF SettleToken, flow
  <2>2. CASE src[r] = "subscription"
    BY <1>5, <2>1, <2>2
  <2>3. CASE src[r] = "wallet"
    BY <1>0, <2>1, <2>3, WalletStanding DEF Moves, AccountMoves
  <2> QED BY <1>1, <2>2, <2>3
<1>19. CASE Refund(r)
  <2>1. /\ ph[r] \in {"open", "failed", "unsettled"} /\ ph'[r] \in {"refund", "closed"}
        /\ src' = src /\ fundErr' = fundErr /\ wallet' = wallet /\ wal' = wal
    BY <1>2, <1>19 DEF Refund, Refundable, flow, held, errs
  <2>2. wallet' = wallet + wal[r] - wal'[r]
    BY <1>1, <2>1
  <2> QED BY <1>1, <1>5, <1>6, <2>1, <2>2
<1>20. CASE RefundWallet(r)
  <2>1. /\ ph[r] = "refund" /\ ph'[r] = "refundToken" /\ src[r] = "wallet" /\ src' = src
        /\ \/ wallet' = wallet + wal[r] /\ fundErr'[r] = fundErr[r]
           \/ wallet' = wallet /\ fundErr'[r] = fundErr[r] + wal[r]
    BY <1>2, <1>20 DEF RefundWallet, flow
  <2>2. WHold(r) = wal[r] /\ WLost(r) = fundErr[r] /\ WSt(r) = "live"
    BY <1>0, <2>1, WalletStanding
  <2>3. WHold(r)' = 0 /\ WLost(r)' = fundErr'[r] /\ WSt(r)' = "returned"
    BY <1>0, <2>1, WalletStanding
  <2> QED BY <1>1, <2>1, <2>2, <2>3 DEF Moves, AccountMoves
<1>21. CASE RefundExtra(r)
  BY <1>5, <1>21 DEF RefundExtra, flow
<1>22. CASE RefundToken(r)
  <2>1. /\ ph[r] = "refundToken" /\ ph'[r] = "refunded" /\ src' = src
        /\ fundErr' = fundErr /\ wallet' = wallet
    BY <1>2, <1>22 DEF RefundToken, flow
  <2>2. CASE src[r] = "subscription"
    BY <1>5, <2>1, <2>2
  <2>3. CASE src[r] = "wallet"
    BY <1>0, <2>1, <2>3, WalletStanding DEF Moves, AccountMoves
  <2> QED BY <1>1, <2>2, <2>3
<1> QED BY <1>7, <1>8, <1>9, <1>10, <1>11, <1>12, <1>13, <1>14, <1>15, <1>16, <1>17, <1>18, <1>19,
           <1>20, <1>21, <1>22 DEF SessionStep, PreConsume

-----------------------------------------------------------------------------
\* What a token update of n moves for request r; a playground request moves nothing.
Share(r, n) == IF r \in Playground THEN 0 ELSE n

TokenNone == {"new", "try", "token", "rejected"}
TokenLive == {"fund", "undo", "open", "rsvToken", "rsvUndo", "failed", "settleToken", "unsettled",
              "refund", "refundToken", "closed"}

\* Where a session stands with the token, phase by phase.
LEMMA TokenStanding ==
    ASSUME NEW r \in Requests, Books(r), Books(r)'
    PROVE  /\ ph[r] \in TokenNone => TokenHeld(r) = 0 /\ TSt(r) = "none"
           /\ ph[r] = "settled" => TokenHeld(r) = Share(r, amt[r]) /\ TSt(r) = "charged"
           /\ ph[r] = "refunded" => TokenHeld(r) = 0 /\ TSt(r) = "returned"
           /\ ph[r] \in TokenLive => TokenHeld(r) = Share(r, tokC[r]) /\ TSt(r) = "live"
           /\ ph'[r] \in TokenNone => TokenHeld(r)' = 0 /\ TSt(r)' = "none"
           /\ ph'[r] = "settled" => TokenHeld(r)' = Share(r, amt'[r]) /\ TSt(r)' = "charged"
           /\ ph'[r] = "refunded" => TokenHeld(r)' = 0 /\ TSt(r)' = "returned"
           /\ ph'[r] \in TokenLive => TokenHeld(r)' = Share(r, tokC'[r]) /\ TSt(r)' = "live"
<1>1. /\ ph[r] \in TokenNone => TSt(r) = "none"
      /\ ph[r] = "settled" => TSt(r) = "charged"
      /\ ph[r] = "refunded" => TSt(r) = "returned"
      /\ ph[r] \in TokenLive => TSt(r) = "live"
  BY DEF TSt, Standing, TokenNone, TokenLive
<1>2. /\ ph'[r] \in TokenNone => TSt(r)' = "none"
      /\ ph'[r] = "settled" => TSt(r)' = "charged"
      /\ ph'[r] = "refunded" => TSt(r)' = "returned"
      /\ ph'[r] \in TokenLive => TSt(r)' = "live"
  BY DEF TSt, Standing, TokenNone, TokenLive
<1>3. /\ ph[r] \in TokenNone => TokenHeld(r) = 0
      /\ ph[r] = "settled" => TokenHeld(r) = Share(r, amt[r])
      /\ ph[r] = "refunded" => TokenHeld(r) = 0
      /\ ph[r] \in TokenLive => TokenHeld(r) = Share(r, tokC[r])
  <2>1. ph[r] \in TokenNone => tokC[r] = 0
    BY DEF Books, TokenNone
  <2>2. CASE r \in Playground
    BY <2>2 DEF TokenHeld, Share
  <2>3. CASE r \notin Playground
    <3>1. TokenHeld(r) = CASE ph[r] = "settled" -> amt[r] [] ph[r] = "refunded" -> 0 [] OTHER -> tokC[r]
      BY <2>3 DEF TokenHeld
    <3> QED BY <2>1, <2>3, <3>1 DEF Share, TokenNone, TokenLive
  <2> QED BY <2>2, <2>3
<1>4. /\ ph'[r] \in TokenNone => TokenHeld(r)' = 0
      /\ ph'[r] = "settled" => TokenHeld(r)' = Share(r, amt'[r])
      /\ ph'[r] = "refunded" => TokenHeld(r)' = 0
      /\ ph'[r] \in TokenLive => TokenHeld(r)' = Share(r, tokC'[r])
  <2>1. ph'[r] \in TokenNone => tokC'[r] = 0
    BY DEF Books, TokenNone
  <2>2. CASE r \in Playground
    BY <2>2 DEF TokenHeld, Share
  <2>3. CASE r \notin Playground
    <3>1. TokenHeld(r)' = CASE ph'[r] = "settled" -> amt'[r] [] ph'[r] = "refunded" -> 0 [] OTHER -> tokC'[r]
      BY <2>3 DEF TokenHeld
    <3> QED BY <2>1, <2>3, <3>1 DEF Share, TokenNone, TokenLive
  <2> QED BY <2>2, <2>3
<1> QED BY <1>1, <1>2, <1>3, <1>4

\* Each step of a session is a step of the token's account.
LEMMA TokenStep ==
    ASSUME SInv, SInv', NEW r \in Requests, SessionStep(r)
    PROVE  [Token!AccountNext]_(Token!accountVars)
<1> USE DEF Go, Add
<1>0. /\ BooksTyped /\ BooksTyped' /\ Books(r) /\ Books(r)' /\ OthersSame(r)
  BY BookStep DEF SInv
<1>1. /\ ph[r] \in Phases /\ amt[r] \in Nat /\ pre[r] \in Nat /\ tokC[r] \in Nat /\ token \in Int
      /\ tokErr[r] \in Int /\ Need(r) \in Nat
      /\ amt'[r] \in Nat /\ tokC'[r] \in Nat /\ token' \in Int /\ tokErr'[r] \in Int
  BY <1>0, NeedIsNat DEF BooksTyped
<1>2. /\ ph \in [Requests -> Phases] /\ amt \in [Requests -> Nat] /\ tokC \in [Requests -> Nat]
      /\ tokErr \in [Requests -> Int]
  BY <1>0 DEF BooksTyped
<1>3. ASSUME NEW q \in Requests \ {r}
      PROVE  TokenHeld(q)' = TokenHeld(q) /\ tokErr'[q] = tokErr[q] /\ TSt(q)' = TSt(q)
  <2>1. ph'[q] = ph[q] /\ amt'[q] = amt[q] /\ tokC'[q] = tokC[q] /\ tokErr'[q] = tokErr[q]
    BY <1>0 DEF OthersSame
  <2> QED BY <2>1 DEF TokenHeld, TSt, Standing
<1> DEFINE Moves == AccountMoves(token, token', TokenHeld(r), TokenHeld(r)', tokErr[r], tokErr'[r], TSt(r), TSt(r)')
<1>4. SUFFICES Moves
  BY <1>0, <1>3, TokenMoves
<1> HIDE DEF Moves
<1>5. /\ \A n \in Nat : Share(r, n) \in Nat
      /\ \A d : TokenPays(r, d) => token' = token - Share(r, d)
      /\ \A d : TokenFails(r, d) => token' = token /\ tokErr'[r] = tokErr[r] + d /\ r \notin Playground
      /\ r \notin Playground => \A d : Share(r, d) = d
      /\ r \in Playground => \A d : Share(r, d) = 0
  <2>1. ASSUME NEW d, TokenPays(r, d) PROVE token' = token - Share(r, d)
    BY <1>1, <2>1 DEF TokenPays, Share
  <2>2. ASSUME NEW d, TokenFails(r, d)
        PROVE  token' = token /\ tokErr'[r] = tokErr[r] + d /\ r \notin Playground
    BY <1>2, <2>2 DEF TokenFails
  <2> QED BY <2>1, <2>2 DEF Share
\* The token is not touched by a session that has none of it, or keeps its hold.
<1>6. ASSUME ph[r] \in TokenNone, ph'[r] \in TokenNone, token' = token, tokErr'[r] = tokErr[r]
      PROVE  Moves
  BY <1>0, <1>6, TokenStanding DEF Moves, AccountMoves
<1>7. ASSUME ph[r] \in TokenLive, ph'[r] \in TokenLive, token' = token, tokErr' = tokErr, tokC' = tokC
      PROVE  Moves
  BY <1>0, <1>7, TokenStanding DEF Moves, AccountMoves
\* Giving up what the session holds, or failing to.
<1>8. ASSUME ph[r] \in TokenLive, ph'[r] \in TokenNone \cup {"refunded"},
             \/ TokenPays(r, -tokC[r]) /\ tokErr' = tokErr
             \/ TokenFails(r, tokC[r])
      PROVE  Moves
  <2>1. TokenHeld(r) = Share(r, tokC[r]) /\ TSt(r) = "live"
    BY <1>0, <1>8, TokenStanding
  <2>2. TokenHeld(r)' = 0 /\ TSt(r)' \in {"returned", "none"}
    BY <1>0, <1>8, TokenStanding
  <2>3. \/ token' = token + Share(r, tokC[r]) - 0 /\ tokErr'[r] = tokErr[r]
        \/ token' = token /\ tokErr'[r] = tokErr[r] + Share(r, tokC[r]) - 0
    <3>1. CASE TokenPays(r, -tokC[r]) /\ tokErr' = tokErr
      BY <1>1, <1>5, <3>1
    <3>2. CASE TokenFails(r, tokC[r])
      BY <1>1, <1>5, <3>2
    <3> QED BY <1>8, <3>1, <3>2
  <2> QED BY <1>1, <1>5, <2>1, <2>2, <2>3 DEF Moves, AccountMoves
<1>9. CASE Arrive(r)
  <2>1. PICK q \in Quotas, pref \in Prefs, forced \in BOOLEAN : NewBillingSession(r, q, pref, forced)
    BY <1>9 DEF Arrive
  <2> QED BY <1>2, <1>6, <2>1 DEF NewBillingSession, TokenNone, errs
<1>10. CASE TryWallet(r)
  <2>0. ph[r] = "try" /\ token' = token /\ tokC' = tokC /\ tokC[r] = 0 /\ tokErr' = tokErr
    BY <1>0, <1>10 DEF TryWallet, held, errs, Books
  <2>1. CASE Fallback(r)
    BY <1>0, <1>6, <2>0, <2>1, FallbackBooks DEF TokenNone
  <2>2. CASE ph'[r] \in {"token", "rejected"}
    BY <1>6, <2>0, <2>2 DEF TokenNone
  <2>3. CASE ph'[r] = "open"
    <3>1. TokenHeld(r) = 0 /\ TSt(r) = "none"
      BY <1>0, <2>0, TokenStanding DEF TokenNone
    <3>2. TokenHeld(r)' = 0 /\ TSt(r)' = "live"
      BY <1>0, <2>0, <2>3, TokenStanding DEF TokenLive, Share
    <3> QED BY <1>1, <2>0, <3>1, <3>2 DEF Moves, AccountMoves
  <2> QED BY <1>2, <1>10, <2>1, <2>2, <2>3 DEF TryWallet
<1>11. CASE TrySubscription(r)
  BY <1>2, <1>6, <1>11 DEF TrySubscription, TokenNone, errs
<1>12. CASE PreConsumeTokenQuota(r)
  <2>0. ph[r] = "token" /\ tokErr' = tokErr
    BY <1>12 DEF PreConsumeTokenQuota, errs
  <2>1. CASE /\ TokenHas(r, Need(r)) /\ TokenPays(r, Need(r))
             /\ tokC' = [tokC EXCEPT ![r] = Need(r)] /\ ph' = [ph EXCEPT ![r] = "fund"]
    <3>1. TokenHeld(r) = 0 /\ TSt(r) = "none"
      BY <1>0, <2>0, TokenStanding DEF TokenNone
    <3>2. ph'[r] = "fund" /\ tokC'[r] = Need(r)
      BY <1>2, <2>1
    <3>3. TokenHeld(r)' = Share(r, Need(r)) /\ TSt(r)' = "live"
      BY <1>0, <3>2, TokenStanding DEF TokenLive
    <3>4. token' = token + 0 - Share(r, Need(r)) /\ (Share(r, Need(r)) > 0 => token' >= 0)
      BY <1>1, <1>5, <2>1 DEF TokenHas
    <3> QED BY <1>1, <1>5, <2>0, <3>1, <3>3, <3>4 DEF Moves, AccountMoves
  <2>2. CASE ph' = [ph EXCEPT ![r] = "rejected"] /\ token' = token
    BY <1>2, <1>6, <2>0, <2>2 DEF TokenNone
  <2> QED BY <1>12, <2>1, <2>2 DEF PreConsumeTokenQuota
<1>13. CASE WalletPreConsume(r) \/ SubscriptionPreConsume(r)
  <2>1. /\ ph[r] = "fund" /\ ph'[r] \in {"open", "undo"}
        /\ token' = token /\ tokErr' = tokErr /\ tokC' = tokC
    BY <1>2, <1>13 DEF WalletPreConsume, SubscriptionPreConsume, errs
  <2> QED BY <1>7, <2>1 DEF TokenLive
<1>14. CASE RollbackToken(r)
  <2>1. ph[r] = "undo" /\ ph'[r] \in {"try", "rejected"}
    BY <1>0, <1>14, FallbackBooks DEF RollbackToken
  <2> QED BY <1>8, <1>14, <2>1 DEF RollbackToken, TokenNone, TokenLive
<1>15. CASE Raise(r)
  <2>1. PICK target \in Quotas : ReserveFunding(r, target)
    BY <1>15 DEF Raise
  <2>2. /\ ph[r] = "open" /\ ph'[r] \in {"rsvToken", "failed"}
        /\ token' = token /\ tokErr' = tokErr /\ tokC' = tokC
    BY <1>2, <2>1 DEF ReserveFunding, errs
  <2> QED BY <1>7, <2>2 DEF TokenLive
<1>16. CASE ReserveToken(r)
  <2>0. ph[r] = "rsvToken" /\ tokErr' = tokErr
    BY <1>16 DEF ReserveToken, errs
  <2>1. CASE TokenPays(r, amt[r]) /\ tokC' = [tokC EXCEPT ![r] = @ + amt[r]] /\ ph' = [ph EXCEPT ![r] = "open"]
    <3>1. TokenHeld(r) = Share(r, tokC[r]) /\ TSt(r) = "live"
      BY <1>0, <2>0, TokenStanding DEF TokenLive
    <3>2. ph'[r] = "open" /\ tokC'[r] = tokC[r] + amt[r]
      BY <1>2, <2>1
    <3>3. TokenHeld(r)' = Share(r, tokC[r] + amt[r]) /\ TSt(r)' = "live"
      BY <1>0, <3>2, TokenStanding DEF TokenLive
    <3>4. token' = token + Share(r, tokC[r]) - Share(r, tokC[r] + amt[r])
      BY <1>1, <1>5, <2>1
    <3>5. Share(r, tokC[r] + amt[r]) \in Nat
      BY <1>1, <1>5
    <3> QED BY <2>0, <3>1, <3>3, <3>4, <3>5 DEF Moves, AccountMoves
  <2>2. CASE ph' = [ph EXCEPT ![r] = "rsvUndo"] /\ token' = token /\ tokC' = tokC
    BY <1>2, <1>7, <2>0, <2>2 DEF TokenLive
  <2> QED BY <1>16, <2>1, <2>2 DEF ReserveToken
<1>17. CASE RollbackFundingReserve(r)
  BY <1>2, <1>7, <1>17 DEF RollbackFundingReserve, TokenLive
<1>18. ASSUME NEW a \in Actuals, SettleFunding(r, a) PROVE Moves
  <2>1. /\ ph[r] = "open" /\ tokC' = tokC /\ token' = token /\ tokErr' = tokErr
        /\ tokC[r] = pre[r] /\ a \in Nat /\ Delta(r, a) = a - pre[r]
    BY <1>0, <1>18, SessionNumbers DEF SettleFunding, held, errs, Delta, Books
  <2>2. CASE ph'[r] \in {"settleToken", "unsettled"}
    BY <1>7, <2>1, <2>2 DEF TokenLive
  <2>3. CASE ph'[r] = "settled" /\ amt'[r] = a /\ Delta(r, a) = 0
    <3>1. TokenHeld(r) = Share(r, tokC[r]) /\ TSt(r) = "live"
      BY <1>0, <2>1, TokenStanding DEF TokenLive
    <3>2. TokenHeld(r)' = Share(r, a) /\ TSt(r)' = "charged"
      BY <1>0, <2>3, TokenStanding
    <3>3. a = tokC[r]
      BY <1>1, <2>1, <2>3
    <3>4. Share(r, a) \in Nat /\ token' = token + Share(r, tokC[r]) - Share(r, a)
      BY <1>1, <1>5, <2>1, <3>3
    <3> QED BY <2>1, <3>1, <3>2, <3>4 DEF Moves, AccountMoves
  <2> QED BY <1>2, <1>18, <2>2, <2>3 DEF SettleFunding
<1>19. CASE SettleToken(r)
  <2>1. /\ ph[r] = "settleToken" /\ ph'[r] = "settled" /\ amt' = amt
        /\ tokC[r] = pre[r] /\ Delta(r, amt[r]) = amt[r] - pre[r]
    BY <1>0, <1>2, <1>19 DEF SettleToken, Delta, Books
  <2>2. TokenHeld(r) = Share(r, tokC[r]) /\ TSt(r) = "live"
    BY <1>0, <2>1, TokenStanding DEF TokenLive
  <2>3. TokenHeld(r)' = Share(r, amt[r]) /\ TSt(r)' = "charged"
    BY <1>0, <2>1, TokenStanding
  <2>4. \/ token' = token + Share(r, tokC[r]) - Share(r, amt[r]) /\ tokErr'[r] = tokErr[r]
        \/ token' = token /\ tokErr'[r] = tokErr[r] + Share(r, tokC[r]) - Share(r, amt[r])
    <3>1. CASE TokenPays(r, Delta(r, amt[r])) /\ tokErr' = tokErr
      BY <1>1, <1>5, <2>1, <3>1
    <3>2. CASE TokenFails(r, -Delta(r, amt[r]))
      BY <1>1, <1>5, <2>1, <3>2
    <3> QED BY <1>19, <3>1, <3>2 DEF SettleToken
  <2> QED BY <1>1, <1>5, <2>2, <2>3, <2>4 DEF Moves, AccountMoves
<1>20. CASE Refund(r)
  <2>1. /\ ph[r] \in {"open", "failed", "unsettled"} /\ ph'[r] \in {"refund", "closed"}
        /\ token' = token /\ tokErr' = tokErr /\ tokC' = tokC
    BY <1>2, <1>20 DEF Refund, Refundable, held, errs
  <2> QED BY <1>7, <2>1 DEF TokenLive
<1>21. CASE RefundWallet(r) \/ RefundExtra(r)
  <2>1. /\ ph[r] = "refund" /\ ph'[r] = "refundToken"
        /\ token' = token /\ tokErr' = tokErr /\ tokC' = tokC
    BY <1>2, <1>21 DEF RefundWallet, RefundExtra, held
  <2> QED BY <1>7, <2>1 DEF TokenLive
<1>22. CASE RefundToken(r)
  <2>1. ph[r] = "refundToken" /\ ph'[r] = "refunded"
    BY <1>2, <1>22 DEF RefundToken
  <2> QED BY <1>8, <1>22, <2>1 DEF RefundToken, TokenLive
<1> QED BY <1>9, <1>10, <1>11, <1>12, <1>13, <1>14, <1>15, <1>16, <1>17, <1>18, <1>19,
           <1>20, <1>21, <1>22 DEF SessionStep, PreConsume

-----------------------------------------------------------------------------
\* A step that leaves the sessions alone leaves both accounts alone: no ledger
\* step shows in a session's hold on the wallet or on the token.
LEMMA AccountsKept ==
    ASSUME SInv, UNCHANGED sessionVars
    PROVE  UNCHANGED Wallet!accountVars /\ UNCHANGED Token!accountVars
<1>1. UNCHANGED <<wallet, token, ph, amt, src, pre, tokC, wal, extra, fundErr, tokErr>>
  BY DEF sessionVars, flow, held, errs
<1>2. ASSUME NEW q \in Requests
      PROVE  /\ WHold(q)' = WHold(q) /\ WLost(q)' = WLost(q) /\ WSt(q)' = WSt(q)
             /\ TokenHeld(q)' = TokenHeld(q) /\ TSt(q)' = TSt(q)
  <2>1. src[q] = "wallet" => FundHeld(q)' = FundHeld(q)
    BY <1>1 DEF FundHeld
  <2> QED BY <1>1, <2>1 DEF WHold, WLost, WSt, OnWallet, Standing, TokenHeld, TSt
<1>3. UNCHANGED Wallet!accountVars
  BY <1>1, <1>2 DEF Wallet!accountVars, WHold, WLost, WSt
<1>4. UNCHANGED Token!accountVars
  BY <1>1, <1>2 DEF Token!accountVars, TSt
<1> QED BY <1>3, <1>4

\* The billing sessions implement a prepaid account on the wallet: whichever
\* requests interleave and whichever updates fail, what a session first takes of
\* users.quota is covered by the balance, and it ends by charging the actual quota
\* or by returning all it took, once.
THEOREM WalletRefines == SessionSpec => WalletIsPrepaid
<1>1. SessionInit => Wallet!AccountInit
  BY DEF SessionInit, Wallet!AccountInit, OnWallet, FundHeld, Standing
<1>2. SInv /\ SInv' /\ [SessionNext]_billingVars => [Wallet!AccountNext]_(Wallet!accountVars)
  <2> SUFFICES ASSUME SInv, SInv', [SessionNext]_billingVars
               PROVE  [Wallet!AccountNext]_(Wallet!accountVars)
    OBVIOUS
  <2>1. CASE UNCHANGED sessionVars
    BY <2>1, AccountsKept
  <2>2. ASSUME NEW r \in Requests, SessionStep(r) PROVE [Wallet!AccountNext]_(Wallet!accountVars)
    BY <2>2, WalletStep
  <2> QED BY <2>1, <2>2, SessionSteps DEF billingVars
<1> QED BY <1>1, <1>2, SessionInvariant, PTL DEF SessionSpec, WalletIsPrepaid, Wallet!AccountSpec

\* The same for the token, which is charged before the funding and given back when
\* the funding falls through: every session on it opens within remain_quota and
\* closes once, with its charge or with nothing.
THEOREM TokenRefines == SessionSpec => TokenIsPrepaid
<1>1. SessionInit => Token!AccountInit
  BY DEF SessionInit, Token!AccountInit, TokenHeld, Standing
<1>2. SInv /\ SInv' /\ [SessionNext]_billingVars => [Token!AccountNext]_(Token!accountVars)
  <2> SUFFICES ASSUME SInv, SInv', [SessionNext]_billingVars
               PROVE  [Token!AccountNext]_(Token!accountVars)
    OBVIOUS
  <2>1. CASE UNCHANGED sessionVars
    BY <2>1, AccountsKept
  <2>2. ASSUME NEW r \in Requests, SessionStep(r) PROVE [Token!AccountNext]_(Token!accountVars)
    BY <2>2, TokenStep
  <2> QED BY <2>1, <2>2, SessionSteps DEF billingVars
<1> QED BY <1>1, <1>2, SessionInvariant, PTL DEF SessionSpec, TokenIsPrepaid, Token!AccountSpec

\* Wallet and token reconcile with the sessions' books: inherited from the prepaid
\* account that both implement.
THEOREM AccountsReconcile ==
    ASSUME IsFiniteSet(Requests)
    PROVE  SessionSpec => []Reconciles
<1>1. WalletOpening \in Int /\ TokenOpening \in Int
  BY SessionNumbers
<1>2. SessionSpec => []Wallet!Balanced
  <2>1. Wallet!IsFiniteSet(Requests)
    BY DEF IsFiniteSet, Wallet!IsFiniteSet
  <2>2. Wallet!AccountSpec => []Wallet!Balanced
    BY <1>1, <2>1, Wallet!AccountBalanced, PTL
  <2>3. WalletIsPrepaid => []Wallet!Balanced
    BY <2>2, PTL DEF WalletIsPrepaid
  <2> QED BY <2>3, WalletRefines, PTL
<1>3. SessionSpec => []Token!Balanced
  <2>1. Token!IsFiniteSet(Requests)
    BY DEF IsFiniteSet, Token!IsFiniteSet
  <2>2. Token!AccountSpec => []Token!Balanced
    BY <1>1, <2>1, Token!AccountBalanced, PTL
  <2>3. TokenIsPrepaid => []Token!Balanced
    BY <2>2, PTL DEF TokenIsPrepaid
  <2> QED BY <2>3, TokenRefines, PTL
<1> QED BY <1>2, <1>3, PTL DEF Reconciles

-----------------------------------------------------------------------------
(* The usage of a subscription is what the sessions on it account for.      *)

\* What a session has of its subscription, in its hold or wrongly booked.
SubShare(r) == IF OnWallet(r) THEN 0 ELSE FundHeld(r) + fundErr[r]

\* What a session's fields and its record in the ledger say to each other.
SubBooks(r) ==
    /\ rec[r] = "none" => recAmt[r] = 0 /\ recSub[r] = 0
    /\ ph[r] \in Unfunded => rec[r] = "none" /\ extra[r] = 0
    /\ src[r] = "wallet" => rec[r] = "none"
    /\ src[r] = "subscription" /\ ph[r] \notin Unfunded => recSub[r] \in Subs
    /\ ph[r] \notin {"refund", "refundToken", "refunded"} => rf[r] = "idle" /\ credit[r] = 0
    /\ rf[r] \in {"begin", "open", "credited"} => ph[r] = "refund"
    /\ src[r] = "subscription" /\ ph[r] \in {"open", "rsvToken", "rsvUndo"} =>
          recAmt[r] + extra[r] = pre[r]

\* The record of one request and what its session reserved on top of it.
OthersRecords(r) ==
    \A q \in Requests \ {r} :
        /\ rec'[q] = rec[q] /\ recSub'[q] = recSub[q] /\ recAmt'[q] = recAmt[q]
        /\ rf'[q] = rf[q] /\ credit'[q] = credit[q] /\ extra'[q] = extra[q]

\* How a step of r's session or refund moves the usage of its subscription: not at
\* all; by what it moves the session's share; or, for the pre-consume, with the
\* resets that were due.
ShareMoves(r) ==
    \/ UNCHANGED <<used, due, resets, recSub>> /\ SubShare(r)' = SubShare(r)
    \/ \E d \in Int :
          /\ recSub[r] \in Subs /\ UNCHANGED <<due, resets, recSub>>
          /\ used' = [used EXCEPT ![recSub[r]] = NewUsed(recSub[r], d)]
          /\ SubShare(r)' = SubShare(r) + d
    \/ \E s \in Subs :
          /\ SubShare(r) = 0 /\ recSub' = [recSub EXCEPT ![r] = s] /\ UNCHANGED resets
          /\ \A u \in Subs :
                /\ due'[u] \in {due[u], "no"}
                /\ \E v \in {used[u], UsedNow(u)} : used'[u] = v + IF u = s THEN SubShare(r)' ELSE 0

\* A session's share, phase by phase.
ShareByPhase(r) ==
    /\ SubShare(r) \in Int
    /\ src[r] = "wallet" => SubShare(r) = 0
    /\ src[r] = "subscription" =>
         /\ ph[r] \in {"settleToken", "settled"} => SubShare(r) = amt[r] + fundErr[r]
         /\ ph[r] \in {"refundToken", "refunded"} => SubShare(r) = fundErr[r]
         /\ ph[r] \in {"rsvToken", "rsvUndo"} =>
               SubShare(r) = recAmt[r] - credit[r] + extra[r] + amt[r] + fundErr[r]
         /\ ph[r] \in Unfunded \cup {"open", "failed", "unsettled", "refund", "closed"} =>
               SubShare(r) = recAmt[r] - credit[r] + extra[r] + fundErr[r]

SharesByPhase == \A r \in Requests : ShareByPhase(r)

\* That is what the definitions of the holds come to.
LEMMA ShareIs == SInv => SharesByPhase
<1> SUFFICES ASSUME SInv, NEW r \in Requests PROVE ShareByPhase(r)
  BY DEF SharesByPhase
<1> USE DEF ShareByPhase
<1>0. /\ amt[r] \in Nat /\ wal[r] \in Nat /\ extra[r] \in Nat /\ fundErr[r] \in Int
      /\ recAmt[r] \in Nat /\ credit[r] \in Nat
      /\ src[r] \in {"wallet", "subscription"} /\ ph[r] \in Phases
  BY DEF SInv, BooksTyped, RecordTypes, RefundTypes
<1>1. CASE src[r] = "wallet"
  BY <1>1 DEF SubShare, OnWallet
<1>2. CASE src[r] = "subscription"
  <2>1. SubShare(r) = FundHeld(r) + fundErr[r]
    BY <1>2 DEF SubShare, OnWallet
  <2>2. CASE ph[r] \in {"settleToken", "settled"}
    <3>1. FundHeld(r) = amt[r]
      BY <2>2 DEF FundHeld
    <3> QED BY <1>0, <1>2, <2>1, <2>2, <3>1 DEF Unfunded
  <2>3. CASE ph[r] \in {"refundToken", "refunded"}
    <3>1. FundHeld(r) = 0
      BY <2>3 DEF FundHeld
    <3> QED BY <1>0, <1>2, <2>1, <2>3, <3>1 DEF Unfunded
  <2>4. CASE ph[r] \in {"rsvToken", "rsvUndo"}
    <3>1. FundHeld(r) = SubHeld(r)
      BY <1>2, <2>4 DEF FundHeld
    <3>2. SubHeld(r) = recAmt[r] - credit[r] + extra[r] + amt[r]
      BY <2>4 DEF SubHeld
    <3> QED BY <1>0, <1>2, <2>1, <2>4, <3>1, <3>2 DEF Unfunded
  <2>5. CASE ph[r] \in Unfunded \cup {"open", "failed", "unsettled", "refund", "closed"}
    <3>1. FundHeld(r) = SubHeld(r)
      BY <1>2, <2>5 DEF FundHeld, Unfunded
    <3>2. SubHeld(r) = recAmt[r] - credit[r] + extra[r]
      BY <1>0, <2>5 DEF SubHeld, Unfunded
    <3> QED BY <1>0, <1>2, <2>1, <2>5, <3>1, <3>2 DEF Unfunded
  <2> QED BY <1>0, <2>2, <2>3, <2>4, <2>5 DEF Phases, Unfunded
<1> QED BY <1>0, <1>1, <1>2

\* The same after a step.
LEMMA ShareIsNext == SInv' => SharesByPhase'
BY ShareIs, PTL

\* The session of one request leaves the others' records alone.
LEMMA OthersRecordsKept ==
    ASSUME SInv, NEW r \in Requests, SessionStep(r)
    PROVE  OthersRecords(r)
<1> USE DEF Go, Add
<1>0. /\ extra \in [Requests -> Nat] /\ rec \in [Requests -> {"none", "consumed", "refunded"}]
      /\ recSub \in [Requests -> Subs \cup {0}] /\ recAmt \in [Requests -> Nat]
      /\ rf \in [Requests -> RefundPhases] /\ credit \in [Requests -> Nat]
  BY DEF SInv, BooksTyped, RecordTypes, RefundTypes
<1>1. ASSUME UNCHANGED <<recVars, rfVars, extra>> PROVE OthersRecords(r)
  BY <1>1 DEF OthersRecords, recVars, rfVars
<1>2. ASSUME NEW s, NEW d, Adjust(s, d) PROVE UNCHANGED <<recVars, rfVars>>
  BY <1>2 DEF Adjust
<1>3. CASE \/ Arrive(r) \/ TryWallet(r) \/ TrySubscription(r) \/ PreConsumeTokenQuota(r)
           \/ WalletPreConsume(r) \/ RollbackToken(r)
           \/ SettleToken(r) \/ RefundWallet(r) \/ RefundToken(r)
  <2>1. UNCHANGED <<ledgerVars, extra>>
    BY <1>3 DEF Arrive, NewBillingSession, TryWallet, TrySubscription, PreConsumeTokenQuota,
       WalletPreConsume, RollbackToken, SettleToken, RefundWallet, RefundToken, held
  <2> QED BY <1>1, <2>1 DEF ledgerVars
<1>4. CASE SubscriptionPreConsume(r)
  <2>1. extra' = extra
    BY <1>4 DEF SubscriptionPreConsume
  <2>2. CASE PreConsumeUserSubscription(r, Need(r))
    <3>1. PICK s \in Subs : /\ rec' = [rec EXCEPT ![r] = "consumed"]
                            /\ recSub' = [recSub EXCEPT ![r] = s]
                            /\ recAmt' = [recAmt EXCEPT ![r] = Need(r)]
                            /\ UNCHANGED rfVars
      BY <2>2 DEF PreConsumeUserSubscription
    <3> QED BY <1>0, <2>1, <3>1 DEF OthersRecords, rfVars
  <2>3. CASE UNCHANGED ledgerVars
    BY <1>1, <2>1, <2>3 DEF ledgerVars
  <2> QED BY <1>4, <2>2, <2>3 DEF SubscriptionPreConsume
<1>5. CASE Raise(r)
  <2>1. PICK target \in Quotas : ReserveFunding(r, target)
    BY <1>5 DEF Raise
  <2>2. UNCHANGED <<recVars, rfVars, extra>>
    BY <1>2, <2>1 DEF ReserveFunding, ledgerVars
  <2> QED BY <1>1, <2>2
<1>6. CASE ReserveToken(r)
  <2>1. /\ UNCHANGED ledgerVars
        /\ extra' = extra \/ extra' = [extra EXCEPT ![r] = @ + amt[r]]
    BY <1>6 DEF ReserveToken
  <2> QED BY <1>0, <2>1 DEF OthersRecords, ledgerVars, recVars, rfVars
<1>7. CASE RollbackFundingReserve(r)
  <2>1. UNCHANGED <<recVars, rfVars, extra>>
    BY <1>2, <1>7 DEF RollbackFundingReserve, ledgerVars
  <2> QED BY <1>1, <2>1
<1>8. ASSUME NEW a \in Actuals, SettleFunding(r, a) PROVE OthersRecords(r)
  <2>1. UNCHANGED <<recVars, rfVars, extra>>
    BY <1>2, <1>8 DEF SettleFunding, ledgerVars, held
  <2> QED BY <1>1, <2>1
<1>9. CASE Refund(r)
  <2>1. extra' = extra
    BY <1>9 DEF Refund, held
  <2>2. CASE SubscriptionRefund(r)
    BY <1>0, <2>1, <2>2 DEF SubscriptionRefund, OthersRecords, recVars
  <2>3. CASE UNCHANGED ledgerVars
    BY <1>1, <2>1, <2>3 DEF ledgerVars
  <2> QED BY <1>9, <2>2, <2>3 DEF Refund
<1>10. CASE RefundExtra(r)
  <2>1. UNCHANGED <<recVars, rfVars, extra>>
    BY <1>2, <1>10 DEF RefundExtra, ledgerVars, held
  <2> QED BY <1>1, <2>1
<1> QED BY <1>3, <1>4, <1>5, <1>6, <1>7, <1>8, <1>9, <1>10 DEF SessionStep, PreConsume

\* Each step of a session moves the usage of its subscription by what it moves the
\* session's share, and keeps the record and the session in agreement.
LEMMA SubStep ==
    ASSUME SInv, SInv', CreditInv, NEW r \in Requests, SubBooks(r), SessionStep(r)
    PROVE  SubBooks(r)' /\ ShareMoves(r)
<1> USE DEF Go, Add
<1>0. BooksTyped /\ Books(r) /\ RecordTypes /\ RefundTypes /\ BooksTyped'
  BY DEF SInv
<1>1. /\ ph[r] \in Phases /\ amt[r] \in Nat /\ pre[r] \in Nat /\ extra[r] \in Nat
      /\ fundErr[r] \in Int /\ recAmt[r] \in Nat /\ credit[r] \in Nat /\ Need(r) \in Nat
      /\ src[r] \in {"wallet", "subscription"} /\ rf[r] \in RefundPhases
      /\ rec[r] \in {"none", "consumed", "refunded"} /\ src'[r] \in {"wallet", "subscription"}
      /\ ph'[r] \in Phases /\ SubShare(r) \in Int
  BY <1>0, NeedIsNat, ShareIs DEF BooksTyped, RecordTypes, RefundTypes, SharesByPhase, ShareByPhase
<1>2. /\ ph \in [Requests -> Phases] /\ src \in [Requests -> {"wallet", "subscription"}]
      /\ amt \in [Requests -> Nat] /\ pre \in [Requests -> Nat] /\ extra \in [Requests -> Nat]
      /\ fundErr \in [Requests -> Int] /\ rec \in [Requests -> {"none", "consumed", "refunded"}]
      /\ recSub \in [Requests -> Subs \cup {0}] /\ recAmt \in [Requests -> Nat]
      /\ rf \in [Requests -> RefundPhases] /\ credit \in [Requests -> Nat]
  BY <1>0 DEF BooksTyped, RecordTypes, RefundTypes
<1>3. ShareByPhase(r)
  BY ShareIs DEF SharesByPhase
<1>4. ShareByPhase(r)'
  BY ShareIsNext DEF SharesByPhase
<1>5. rec[r] = "none" => rf[r] = "idle" /\ credit[r] = 0
  BY DEF CreditInv
\* The session is not funded, or by the wallet: it has no share before and after.
<1>6. ASSUME UNCHANGED ledgerVars, ph[r] \in Unfunded, extra'[r] = extra[r], fundErr'[r] = fundErr[r],
             ph'[r] \in Unfunded \/ (ph'[r] = "open" /\ src'[r] = "wallet")
      PROVE  SubBooks(r)' /\ ShareMoves(r)
  <2>1. /\ rec[r] = "none" /\ recAmt[r] = 0 /\ credit[r] = 0 /\ extra[r] = 0 /\ fundErr[r] = 0
        /\ rf[r] = "idle" /\ recSub[r] = 0
    BY <1>0, <1>5, <1>6 DEF SubBooks, Books
  <2>2. UNCHANGED <<rec, recAmt, credit, recSub, rf, used, due, resets>>
    BY <1>6 DEF ledgerVars, subVars, recVars, rfVars
  <2>3. SubShare(r) = 0
    BY <1>1, <1>3, <1>6, <2>1 DEF ShareByPhase
  <2>4. SubShare(r)' = 0
    BY <1>1, <1>4, <1>6, <2>1, <2>2 DEF ShareByPhase
  <2>5. SubBooks(r)'
    BY <1>6, <2>1, <2>2 DEF SubBooks, Unfunded
  <2> QED BY <2>2, <2>3, <2>4, <2>5 DEF ShareMoves
<1>7. ASSUME UNCHANGED ledgerVars, src[r] = "wallet", src' = src,
             ph[r] \notin Unfunded, ph'[r] \notin Unfunded
      PROVE  SubBooks(r)' /\ ShareMoves(r)
  <2>1. /\ rec[r] = "none" /\ rf[r] = "idle" /\ credit[r] = 0
    BY <1>5, <1>7 DEF SubBooks
  <2>2. UNCHANGED <<rec, recAmt, credit, recSub, rf, used, due, resets>>
    BY <1>7 DEF ledgerVars, subVars, recVars, rfVars
  <2>3. SubShare(r) = 0 /\ SubShare(r)' = 0
    BY <1>3, <1>4, <1>7 DEF ShareByPhase
  <2>4. SubBooks(r)'
    BY <1>7, <2>1, <2>2 DEF SubBooks
  <2> QED BY <2>2, <2>3, <2>4 DEF ShareMoves
\* The session is funded by a subscription, and the share stays.
<1>8. ASSUME UNCHANGED <<used, due, resets, recSub>>, SubShare(r)' = SubShare(r) PROVE ShareMoves(r)
  BY <1>8 DEF ShareMoves
\* It is moved by an adjustment.
<1>9. ASSUME NEW d \in Int, Adjust(recSub[r], d), SubShare(r)' = SubShare(r) + d PROVE ShareMoves(r)
  BY <1>9 DEF ShareMoves, Adjust, PostConsumeUserSubscriptionDelta, Adjustable, recVars
<1>10. ASSUME NEW d, Adjust(recSub[r], d) PROVE UNCHANGED <<rec, recAmt, credit, recSub, rf>>
  BY <1>10 DEF Adjust, recVars, rfVars
<1>11. ASSUME UNCHANGED ledgerVars PROVE UNCHANGED <<rec, recAmt, credit, recSub, rf, used, due, resets>>
  BY <1>11 DEF ledgerVars, subVars, recVars, rfVars
<1>12. CASE Arrive(r)
  <2>1. PICK q \in Quotas, pref \in Prefs, forced \in BOOLEAN : NewBillingSession(r, q, pref, forced)
    BY <1>12 DEF Arrive
  <2>2. /\ UNCHANGED ledgerVars /\ ph[r] = "new" /\ ph'[r] = "try" /\ extra' = extra /\ fundErr' = fundErr
    BY <1>2, <2>1 DEF NewBillingSession, held, errs
  <2> QED BY <1>6, <2>2 DEF Unfunded
<1>13. CASE TryWallet(r)
  <2>1. /\ UNCHANGED ledgerVars /\ ph[r] = "try" /\ src[r] = "wallet" /\ extra' = extra /\ fundErr' = fundErr
    BY <1>13 DEF TryWallet, held, errs
  <2>2. ph'[r] \in {"try", "rejected", "token"} \/ (ph'[r] = "open" /\ src' = src)
    <3>1. CASE Fallback(r)
      BY <1>0, <3>1, FallbackBooks
    <3>2. CASE ~Fallback(r)
      BY <1>2, <1>13, <3>2 DEF TryWallet
    <3> QED BY <3>1, <3>2
  <2> QED BY <1>6, <2>1, <2>2 DEF Unfunded
<1>14. CASE TrySubscription(r) \/ PreConsumeTokenQuota(r)
  <2>1. /\ UNCHANGED ledgerVars /\ ph[r] \in Unfunded /\ ph'[r] \in Unfunded
        /\ extra' = extra /\ fundErr' = fundErr
    BY <1>2, <1>14 DEF TrySubscription, PreConsumeTokenQuota, held, errs, Unfunded
  <2> QED BY <1>6, <2>1
<1>15. CASE WalletPreConsume(r)
  <2>1. /\ UNCHANGED ledgerVars /\ ph[r] = "fund" /\ src[r] = "wallet" /\ src' = src
        /\ ph'[r] \in {"open", "undo"} /\ extra' = extra /\ fundErr' = fundErr
    BY <1>2, <1>15 DEF WalletPreConsume, errs
  <2> QED BY <1>6, <2>1 DEF Unfunded
<1>16. CASE RollbackToken(r)
  <2>1. UNCHANGED ledgerVars /\ ph[r] = "undo" /\ extra' = extra /\ fundErr' = fundErr /\ Fallback(r)
    BY <1>16 DEF RollbackToken
  <2>2. ph'[r] \in {"try", "rejected"}
    BY <1>0, <2>1, FallbackBooks
  <2> QED BY <1>6, <2>1, <2>2 DEF Unfunded
<1>17. CASE SubscriptionPreConsume(r)
  <2>0. /\ ph[r] = "fund" /\ src[r] = "subscription" /\ src' = src /\ extra' = extra /\ fundErr' = fundErr
    BY <1>17 DEF SubscriptionPreConsume, errs
  <2>1. CASE UNCHANGED ledgerVars /\ ph' = [ph EXCEPT ![r] = "undo"]
    BY <1>2, <1>6, <2>0, <2>1 DEF Unfunded
  <2>2. CASE /\ PreConsumeUserSubscription(r, Need(r)) /\ pre' = [pre EXCEPT ![r] = Need(r)]
             /\ ph' = [ph EXCEPT ![r] = "open"]
    <3>1. PICK s \in Subs :
             /\ used' = [u \in Subs |-> IF u = s THEN UsedNow(u) + Need(r)
                           ELSE IF u <= s /\ life[u] = "active" THEN UsedNow(u) ELSE used[u]]
             /\ due' = [u \in Subs |-> IF u <= s /\ life[u] = "active" THEN "no" ELSE due[u]]
             /\ rec' = [rec EXCEPT ![r] = "consumed"]
             /\ recSub' = [recSub EXCEPT ![r] = s]
             /\ recAmt' = [recAmt EXCEPT ![r] = Need(r)]
             /\ UNCHANGED <<resets, rfVars>>
      BY <2>2 DEF PreConsumeUserSubscription
    <3>2. /\ rec[r] = "none" /\ recAmt[r] = 0 /\ credit[r] = 0 /\ extra[r] = 0 /\ fundErr[r] = 0
          /\ rf[r] = "idle"
      BY <1>0, <1>5, <2>0 DEF SubBooks, Books, Unfunded
    <3>3. /\ rec'[r] = "consumed" /\ recSub'[r] = s /\ recAmt'[r] = Need(r) /\ pre'[r] = Need(r)
          /\ ph'[r] = "open" /\ rf'[r] = "idle" /\ credit'[r] = 0 /\ extra'[r] = 0 /\ fundErr'[r] = 0
          /\ src'[r] = "subscription"
      BY <1>2, <2>0, <2>2, <3>1, <3>2 DEF rfVars
    <3>4. SubShare(r) = 0
      BY <1>1, <1>3, <2>0, <3>2 DEF ShareByPhase, Unfunded
    <3>5. SubShare(r)' = Need(r)
      BY <1>1, <1>4, <3>3 DEF ShareByPhase
    <3>6. SubBooks(r)'
      BY <1>1, <3>3 DEF SubBooks, Unfunded
    <3>7. ASSUME NEW u \in Subs
          PROVE  /\ due'[u] \in {due[u], "no"}
                 /\ \E v \in {used[u], UsedNow(u)} : used'[u] = v + IF u = s THEN SubShare(r)' ELSE 0
      <4>0. used[u] \in Nat /\ UsedNow(u) \in Nat
        BY DEF SInv, SubsTypes, UsedNow
      <4>1. CASE u = s
        BY <3>1, <3>5, <4>1
      <4>2. CASE u # s
        BY <3>1, <4>0, <4>2
      <4> QED BY <4>1, <4>2
    <3> QED BY <3>1, <3>4, <3>6, <3>7 DEF ShareMoves
  <2> QED BY <1>17, <2>1, <2>2 DEF SubscriptionPreConsume
\* The session goes on with the subscription it has.
<1>18. ASSUME src[r] = "subscription", src' = src, UNCHANGED <<rec, recAmt, credit, recSub, rf>>,
              {ph[r], ph'[r]} \cap (Unfunded \cup {"refund", "refundToken", "refunded"}) = {},
              ph'[r] \in {"open", "rsvToken", "rsvUndo"} => recAmt[r] + extra'[r] = pre'[r]
       PROVE  SubBooks(r)'
  <2>1. ph[r] \notin Unfunded \cup {"refund", "refundToken", "refunded"}
        /\ ph'[r] \notin Unfunded \cup {"refund", "refundToken", "refunded"}
    BY <1>18
  <2> QED BY <1>18, <2>1 DEF SubBooks
<1>19. CASE Raise(r)
  <2>1. PICK target \in Quotas : ReserveFunding(r, target)
    BY <1>19 DEF Raise
  <2>2. /\ ph[r] = "open" /\ src' = src /\ pre' = pre /\ extra' = extra /\ fundErr' = fundErr
        /\ target - pre[r] \in Int /\ amt'[r] = target - pre[r] /\ ph'[r] \in {"rsvToken", "failed"}
    BY <1>1, <1>2, <2>1, SessionNumbers DEF ReserveFunding, flow, errs
  <2>3. CASE src[r] = "wallet"
    <3>1. UNCHANGED ledgerVars
      BY <2>1, <2>3 DEF ReserveFunding
    <3> QED BY <1>7, <2>2, <2>3, <3>1 DEF Unfunded
  <2>4. CASE src[r] = "subscription"
    <3>0. recAmt[r] + extra[r] = pre[r]
      BY <2>2, <2>4 DEF SubBooks
    <3>1. CASE Adjust(recSub[r], target - pre[r]) /\ ph'[r] = "rsvToken"
      <4>1. UNCHANGED <<rec, recAmt, credit, recSub, rf>>
        BY <1>10, <3>1
      <4>2. SubShare(r)' = SubShare(r) + (target - pre[r])
        <5>1. SubShare(r) = recAmt[r] - credit[r] + extra[r] + fundErr[r]
          BY <1>3, <2>2, <2>4 DEF ShareByPhase
        <5>2. SubShare(r)' = recAmt[r] - credit[r] + extra[r] + (target - pre[r]) + fundErr[r]
          BY <1>4, <2>2, <2>4, <3>1, <4>1 DEF ShareByPhase
        <5> QED BY <1>1, <2>2, <5>1, <5>2
      <4>3. SubBooks(r)'
        BY <1>18, <2>2, <2>4, <3>0, <3>1, <4>1 DEF Unfunded
      <4> QED BY <1>9, <2>2, <3>1, <4>2, <4>3
    <3>2. CASE UNCHANGED ledgerVars /\ ph'[r] = "failed"
      <4>1. SubShare(r)' = SubShare(r)
        BY <1>3, <1>4, <1>11, <2>2, <2>4, <3>2 DEF ShareByPhase
      <4>2. SubBooks(r)'
        BY <1>11, <1>18, <2>2, <2>4, <3>2 DEF Unfunded
      <4> QED BY <1>8, <1>11, <3>2, <4>1, <4>2
    <3> QED BY <1>2, <2>1, <2>4, <3>1, <3>2 DEF ReserveFunding
  <2> QED BY <1>1, <2>3, <2>4
<1>20. CASE ReserveToken(r)
  <2>1. /\ UNCHANGED ledgerVars /\ ph[r] = "rsvToken" /\ src' = src /\ amt' = amt /\ fundErr' = fundErr
        /\ \/ ph'[r] = "open" /\ pre'[r] = pre[r] + amt[r] /\ extra'[r] = extra[r] + amt[r]
           \/ ph'[r] = "rsvUndo" /\ pre'[r] = pre[r] /\ extra'[r] = extra[r]
    BY <1>2, <1>20 DEF ReserveToken, flow, errs
  <2>2. CASE src[r] = "wallet"
    BY <1>7, <2>1, <2>2 DEF Unfunded
  <2>3. CASE src[r] = "subscription"
    <3>0. recAmt[r] + extra[r] = pre[r]
      BY <2>1, <2>3 DEF SubBooks
    <3>1. recAmt[r] + extra'[r] = pre'[r]
      BY <1>1, <2>1, <3>0
    <3>2. SubBooks(r)'
      BY <1>11, <1>18, <2>1, <2>3, <3>1 DEF Unfunded
    <3>3. SubShare(r) = recAmt[r] - credit[r] + extra[r] + amt[r] + fundErr[r]
      BY <1>3, <2>1, <2>3 DEF ShareByPhase
    <3>4. CASE ph'[r] = "open" /\ extra'[r] = extra[r] + amt[r]
      <4>1. SubShare(r)' = recAmt[r] - credit[r] + (extra[r] + amt[r]) + fundErr[r]
        BY <1>4, <1>11, <2>1, <2>3, <3>4 DEF ShareByPhase
      <4>2. SubShare(r)' = SubShare(r)
        BY <1>1, <3>3, <4>1
      <4> QED BY <1>8, <1>11, <2>1, <3>2, <4>2
    <3>5. CASE ph'[r] = "rsvUndo" /\ extra'[r] = extra[r]
      <4>1. SubShare(r)' = SubShare(r)
        BY <1>4, <1>11, <2>1, <2>3, <3>3, <3>5 DEF ShareByPhase
      <4> QED BY <1>8, <1>11, <2>1, <3>2, <4>1
    <3> QED BY <2>1, <3>4, <3>5
  <2> QED BY <1>1, <2>2, <2>3
<1>21. CASE RollbackFundingReserve(r)
  <2>1. /\ ph[r] = "rsvUndo" /\ ph'[r] = "failed" /\ src' = src /\ amt' = amt /\ pre' = pre /\ extra' = extra
    BY <1>2, <1>21 DEF RollbackFundingReserve, flow
  <2>2. CASE src[r] = "wallet"
    <3>1. UNCHANGED ledgerVars
      BY <1>21, <2>2 DEF RollbackFundingReserve
    <3> QED BY <1>7, <2>1, <2>2, <3>1 DEF Unfunded
  <2>3. CASE src[r] = "subscription"
    <3>1. SubShare(r) = recAmt[r] - credit[r] + extra[r] + amt[r] + fundErr[r]
      BY <1>3, <2>1, <2>3 DEF ShareByPhase
    <3>2. CASE Adjust(recSub[r], -amt[r]) /\ fundErr' = fundErr
      <4>1. UNCHANGED <<rec, recAmt, credit, recSub, rf>>
        BY <1>10, <3>2
      <4>2. SubBooks(r)'
        BY <1>18, <2>1, <2>3, <4>1 DEF Unfunded
      <4>3. SubShare(r)' = recAmt[r] - credit[r] + extra[r] + fundErr[r]
        BY <1>4, <2>1, <2>3, <3>2, <4>1 DEF ShareByPhase
      <4>4. -amt[r] \in Int /\ SubShare(r)' = SubShare(r) + (-amt[r])
        BY <1>1, <3>1, <4>3
      <4> QED BY <1>9, <3>2, <4>2, <4>4
    <3>3. CASE UNCHANGED ledgerVars /\ fundErr' = [fundErr EXCEPT ![r] = @ + amt[r]]
      <4>1. SubBooks(r)'
        BY <1>11, <1>18, <2>1, <2>3, <3>3 DEF Unfunded
      <4>2. fundErr'[r] = fundErr[r] + amt[r]
        BY <1>2, <3>3
      <4>3. SubShare(r)' = recAmt[r] - credit[r] + extra[r] + (fundErr[r] + amt[r])
        BY <1>4, <1>11, <2>1, <2>3, <3>3, <4>2 DEF ShareByPhase
      <4>4. SubShare(r)' = SubShare(r)
        BY <1>1, <3>1, <4>3
      <4> QED BY <1>8, <1>11, <3>3, <4>1, <4>4
    <3> QED BY <1>21, <2>3, <3>2, <3>3 DEF RollbackFundingReserve
  <2> QED BY <1>1, <2>2, <2>3
<1>22. ASSUME NEW a \in Actuals, SettleFunding(r, a) PROVE SubBooks(r)' /\ ShareMoves(r)
  <2>1. /\ ph[r] = "open" /\ src' = src /\ pre' = pre /\ extra' = extra /\ fundErr' = fundErr /\ a \in Nat
        /\ Delta(r, a) = a - pre[r] /\ Delta(r, a) \in Int
        /\ ph'[r] \in {"settled", "settleToken", "unsettled"}
    BY <1>1, <1>2, <1>22, SessionNumbers DEF SettleFunding, flow, held, errs, Delta
  <2>2. CASE src[r] = "wallet"
    <3>1. UNCHANGED ledgerVars
      BY <1>22, <2>2 DEF SettleFunding
    <3> QED BY <1>7, <2>1, <2>2, <3>1 DEF Unfunded
  <2>3. CASE src[r] = "subscription"
    <3>0. recAmt[r] + extra[r] = pre[r] /\ credit[r] = 0
      BY <2>1, <2>3 DEF SubBooks
    <3>1. SubShare(r) = recAmt[r] - credit[r] + extra[r] + fundErr[r]
      BY <1>3, <2>1, <2>3 DEF ShareByPhase
    <3>2. SubShare(r) = pre[r] + fundErr[r]
      BY <1>1, <3>0, <3>1
    <3>3. CASE Delta(r, a) = 0 /\ UNCHANGED ledgerVars /\ amt' = [amt EXCEPT ![r] = a] /\ ph'[r] = "settled"
      <4>1. SubShare(r)' = a + fundErr[r]
        BY <1>2, <1>4, <2>1, <2>3, <3>3 DEF ShareByPhase
      <4>2. SubShare(r)' = SubShare(r)
        BY <1>1, <2>1, <3>2, <3>3, <4>1
      <4>3. SubBooks(r)'
        BY <1>11, <1>18, <2>1, <2>3, <3>3 DEF Unfunded
      <4> QED BY <1>8, <1>11, <3>3, <4>2, <4>3
    <3>4. CASE Adjust(recSub[r], Delta(r, a)) /\ amt' = [amt EXCEPT ![r] = a] /\ ph'[r] = "settleToken"
      <4>1. SubShare(r)' = a + fundErr[r]
        BY <1>2, <1>4, <2>1, <2>3, <3>4 DEF ShareByPhase
      <4>2. SubShare(r)' = SubShare(r) + Delta(r, a)
        BY <1>1, <2>1, <3>2, <4>1
      <4>3. SubBooks(r)'
        BY <1>10, <1>18, <2>1, <2>3, <3>4 DEF Unfunded
      <4> QED BY <1>9, <2>1, <3>4, <4>2, <4>3
    <3>5. CASE UNCHANGED ledgerVars /\ ph'[r] = "unsettled"
      <4>1. SubShare(r)' = SubShare(r)
        BY <1>4, <1>11, <2>1, <2>3, <3>1, <3>5 DEF ShareByPhase
      <4>2. SubBooks(r)'
        BY <1>11, <1>18, <2>1, <2>3, <3>5 DEF Unfunded
      <4> QED BY <1>8, <1>11, <3>5, <4>1, <4>2
    <3> QED BY <1>2, <1>22, <2>3, <3>3, <3>4, <3>5 DEF SettleFunding
  <2> QED BY <1>1, <2>2, <2>3
<1>23. CASE SettleToken(r)
  <2>1. /\ UNCHANGED ledgerVars /\ ph[r] = "settleToken" /\ ph'[r] = "settled"
        /\ src' = src /\ amt' = amt /\ extra' = extra /\ fundErr' = fundErr
    BY <1>2, <1>23 DEF SettleToken, flow, held
  <2>2. CASE src[r] = "wallet"
    BY <1>7, <2>1, <2>2 DEF Unfunded
  <2>3. CASE src[r] = "subscription"
    <3>1. SubShare(r)' = SubShare(r)
      BY <1>3, <1>4, <2>1, <2>3 DEF ShareByPhase
    <3>2. SubBooks(r)'
      BY <1>11, <1>18, <2>1, <2>3 DEF Unfunded
    <3> QED BY <1>8, <1>11, <2>1, <3>1, <3>2
  <2> QED BY <1>1, <2>2, <2>3
<1>24. CASE Refund(r)
  <2>1. /\ ph[r] \in {"open", "failed", "unsettled"} /\ ph'[r] \in {"refund", "closed"}
        /\ src' = src /\ extra' = extra /\ fundErr' = fundErr
    BY <1>2, <1>24 DEF Refund, Refundable, flow, held, errs
  <2>2. CASE src[r] = "wallet"
    <3>1. UNCHANGED ledgerVars
      BY <1>24, <2>2 DEF Refund
    <3> QED BY <1>7, <2>1, <2>2, <3>1 DEF Unfunded
  <2>3. CASE src[r] = "subscription"
    <3>1. UNCHANGED <<rec, recAmt, credit, recSub, used, due, resets>>
      BY <1>11, <1>24 DEF Refund, SubscriptionRefund, subVars, recVars
    <3>2. SubShare(r)' = SubShare(r)
      BY <1>3, <1>4, <2>1, <2>3, <3>1 DEF ShareByPhase
    <3>3. CASE ph'[r] = "closed" /\ UNCHANGED ledgerVars
      <4>1. SubBooks(r)'
        BY <1>11, <1>18, <2>1, <2>3, <3>3 DEF Unfunded
      <4> QED BY <1>8, <3>1, <3>2, <4>1
    <3>4. CASE ph'[r] = "refund" /\ rec[r] # "none"
      <4>1. SubBooks(r)'
        BY <2>1, <2>3, <3>1, <3>4 DEF SubBooks, Unfunded
      <4> QED BY <1>8, <3>1, <3>2, <4>1
    <3> QED BY <1>2, <1>24, <2>3, <3>3, <3>4 DEF Refund, SubscriptionRefund
  <2> QED BY <1>1, <2>2, <2>3
<1>25. CASE RefundWallet(r)
  <2>1. /\ UNCHANGED ledgerVars /\ src[r] = "wallet" /\ src' = src
        /\ ph[r] = "refund" /\ ph'[r] = "refundToken"
    BY <1>2, <1>25 DEF RefundWallet, flow
  <2> QED BY <1>7, <2>1 DEF Unfunded
<1>26. CASE RefundExtra(r)
  <2>1. /\ ph[r] = "refund" /\ ph'[r] = "refundToken" /\ src[r] = "subscription" /\ src' = src
        /\ rf[r] \in {"done", "gaveup"} /\ extra' = extra
    BY <1>2, <1>26 DEF RefundExtra, flow, held
  <2>2. UNCHANGED <<rec, recAmt, credit, recSub, rf>>
    BY <1>10, <1>11, <1>26 DEF RefundExtra
  <2>3. SubBooks(r)'
    BY <2>1, <2>2 DEF SubBooks, Unfunded
  <2>4. SubShare(r) = recAmt[r] - credit[r] + extra[r] + fundErr[r] /\ SubShare(r)' = fundErr'[r]
    BY <1>3, <1>4, <2>1 DEF ShareByPhase
  <2>5. CASE /\ Adjust(recSub[r], -extra[r])
             /\ fundErr' = [fundErr EXCEPT ![r] = @ + (recAmt[r] - credit[r])]
    <3>1. fundErr'[r] = fundErr[r] + (recAmt[r] - credit[r])
      BY <1>2, <2>5
    <3>2. -extra[r] \in Int /\ SubShare(r)' = SubShare(r) + (-extra[r])
      BY <1>1, <2>4, <3>1
    <3> QED BY <1>9, <2>3, <2>5, <3>2
  <2>6. ASSUME UNCHANGED ledgerVars, NEW kept \in Int, kept = recAmt[r] - credit[r] + extra[r],
               fundErr' = [fundErr EXCEPT ![r] = @ + kept]
        PROVE  SubBooks(r)' /\ ShareMoves(r)
    <3>1. fundErr'[r] = fundErr[r] + kept
      BY <1>2, <2>6
    <3>2. SubShare(r)' = SubShare(r)
      BY <1>1, <2>4, <2>6, <3>1
    <3> QED BY <1>8, <1>11, <2>3, <2>6, <3>2
  <2>7. CASE UNCHANGED ledgerVars
    <3>1. CASE extra[r] = 0 /\ fundErr' = [fundErr EXCEPT ![r] = @ + (recAmt[r] - credit[r])]
      <4>1. recAmt[r] - credit[r] \in Int /\ recAmt[r] - credit[r] = recAmt[r] - credit[r] + extra[r]
        BY <1>1, <3>1
      <4> QED BY <2>6, <2>7, <3>1, <4>1
    <3>2. CASE fundErr' = [fundErr EXCEPT ![r] = @ + (recAmt[r] - credit[r] + extra[r])]
      <4>1. recAmt[r] - credit[r] + extra[r] \in Int
        BY <1>1
      <4> QED BY <2>6, <2>7, <3>2, <4>1
    <3>3. CASE Adjust(recSub[r], -extra[r]) /\ fundErr' = [fundErr EXCEPT ![r] = @ + (recAmt[r] - credit[r])]
      BY <2>5, <3>3
    <3> QED BY <1>26, <3>1, <3>2, <3>3 DEF RefundExtra
  <2> QED BY <1>26, <2>5, <2>7 DEF RefundExtra
<1>27. CASE RefundToken(r)
  <2>1. /\ UNCHANGED ledgerVars /\ ph[r] = "refundToken" /\ ph'[r] = "refunded"
        /\ src' = src /\ fundErr' = fundErr
    BY <1>2, <1>27 DEF RefundToken, flow
  <2>2. CASE src[r] = "wallet"
    BY <1>7, <2>1, <2>2 DEF Unfunded
  <2>3. CASE src[r] = "subscription"
    <3>1. SubShare(r)' = SubShare(r)
      BY <1>3, <1>4, <2>1, <2>3 DEF ShareByPhase
    <3>2. SubBooks(r)'
      BY <1>11, <2>1, <2>3 DEF SubBooks, Unfunded
    <3> QED BY <1>8, <1>11, <2>1, <3>1, <3>2
  <2> QED BY <1>1, <2>2, <2>3
<1> QED BY <1>12, <1>13, <1>14, <1>15, <1>16, <1>17, <1>19, <1>20, <1>21, <1>22, <1>23, <1>24, <1>25,
           <1>26, <1>27 DEF SessionStep, PreConsume

\* A step of the refund moves the usage and the share together as well.
LEMMA RefundShare ==
    ASSUME SInv, SInv', CreditInv, NEW r \in Requests, SubBooks(r), RefundStep(r), UNCHANGED sessionVars
    PROVE  SubBooks(r)' /\ ShareMoves(r) /\ OthersRecords(r) /\ OthersSame(r)
<1>0. UNCHANGED <<ph, amt, src, pre, tokC, wal, extra, fundErr, tokErr>>
  BY DEF sessionVars, flow, held, errs
<1>1. /\ amt[r] \in Nat /\ extra[r] \in Nat /\ fundErr[r] \in Int /\ recAmt[r] \in Nat /\ credit[r] \in Nat
      /\ src[r] \in {"wallet", "subscription"}
  BY DEF SInv, BooksTyped, RecordTypes, RefundTypes
<1>2. /\ rec \in [Requests -> {"none", "consumed", "refunded"}]
      /\ recSub \in [Requests -> Subs \cup {0}] /\ recAmt \in [Requests -> Nat]
      /\ rf \in [Requests -> RefundPhases] /\ credit \in [Requests -> Nat]
  BY DEF SInv, RecordTypes, RefundTypes
<1>3. rf[r] \in {"begin", "open", "credited"}
  BY DEF RefundStep, RefundOpen, RefundCredit, RefundSave
<1>4. ph[r] = "refund" /\ src[r] = "subscription" /\ recSub[r] \in Subs /\ rec[r] # "none"
  <2>1. ph[r] = "refund" /\ rec[r] # "none"
    BY <1>3 DEF SubBooks, CreditInv
  <2>2. src[r] = "subscription"
    BY <1>1, <2>1 DEF SubBooks
  <2> QED BY <2>1, <2>2 DEF SubBooks, Unfunded
<1>5. /\ SubShare(r) = recAmt[r] - credit[r] + extra[r] + fundErr[r]
      /\ SubShare(r)' = recAmt'[r] - credit'[r] + extra[r] + fundErr[r]
  BY <1>0, <1>4, ShareIs, ShareIsNext DEF SharesByPhase, ShareByPhase
<1>6. OthersSame(r)
  BY <1>0 DEF OthersSame
<1>7. ASSUME recSub' = recSub, recAmt' = recAmt, rec'[r] # "none" PROVE SubBooks(r)'
  BY <1>0, <1>4, <1>7 DEF SubBooks, Unfunded
<1>8. ASSUME UNCHANGED <<used, due, resets, recSub, recAmt, credit>> PROVE ShareMoves(r)
  BY <1>5, <1>8 DEF ShareMoves
<1>9. CASE AttemptFailed(r)
  <2>1. /\ UNCHANGED <<used, due, resets, rec, recSub, recAmt, credit>>
        /\ \E p : rf' = [rf EXCEPT ![r] = p]
    BY <1>9 DEF AttemptFailed, subVars, recVars
  <2>2. OthersRecords(r)
    BY <1>0, <1>2, <2>1 DEF OthersRecords
  <2> QED BY <1>4, <1>6, <1>7, <1>8, <2>1, <2>2
<1>10. CASE RefundOpen(r)
  <2>1. CASE /\ rf' = [rf EXCEPT ![r] = IF rec[r] = "refunded" THEN "done" ELSE "open"]
             /\ UNCHANGED <<subVars, recVars, tries, credit>>
    <3>1. UNCHANGED <<used, due, resets, rec, recSub, recAmt, credit>>
      BY <2>1 DEF subVars, recVars
    <3>2. OthersRecords(r)
      BY <1>0, <1>2, <2>1, <3>1 DEF OthersRecords
    <3> QED BY <1>4, <1>6, <1>7, <1>8, <3>1, <3>2
  <2> QED BY <1>9, <1>10, <2>1 DEF RefundOpen
<1>11. CASE RefundCredit(r)
  <2>1. CASE /\ PostConsumeUserSubscriptionDelta(recSub[r], -recAmt[r])
             /\ credit' = [credit EXCEPT ![r] = @ + recAmt[r]]
             /\ rf' = [rf EXCEPT ![r] = "credited"]
             /\ UNCHANGED <<total, life, due, resets, recVars, tries>>
    <3>1. UNCHANGED <<due, resets, rec, recSub, recAmt>> /\ credit'[r] = credit[r] + recAmt[r]
      BY <1>2, <2>1 DEF recVars
    <3>2. OthersRecords(r)
      BY <1>0, <1>2, <2>1, <3>1 DEF OthersRecords
    <3>3. -recAmt[r] \in Int /\ SubShare(r)' = SubShare(r) + (-recAmt[r])
      BY <1>1, <1>5, <3>1
    <3>4. ShareMoves(r)
      BY <1>4, <2>1, <3>1, <3>3 DEF ShareMoves, PostConsumeUserSubscriptionDelta
    <3> QED BY <1>4, <1>6, <1>7, <3>1, <3>2, <3>4
  <2> QED BY <1>9, <1>11, <2>1 DEF RefundCredit
<1>12. CASE RefundSave(r)
  <2>1. CASE /\ rec' = [rec EXCEPT ![r] = "refunded"] /\ rf' = [rf EXCEPT ![r] = "done"]
             /\ UNCHANGED <<subVars, recSub, recAmt, tries, credit>>
    <3>1. UNCHANGED <<used, due, resets, recSub, recAmt, credit>> /\ rec'[r] = "refunded"
      BY <1>2, <2>1 DEF subVars
    <3>2. OthersRecords(r)
      BY <1>0, <1>2, <2>1, <3>1 DEF OthersRecords
    <3> QED BY <1>6, <1>7, <1>8, <3>1, <3>2
  <2> QED BY <1>9, <1>12, <2>1 DEF RefundSave
<1> QED BY <1>10, <1>11, <1>12 DEF RefundStep

\* What the sessions have booked on a subscription.
OnSub(s) == [r \in Requests |-> BookedOn(s, r)]

\* The usage of one subscription against what is booked on it.
Usage(s) ==
    /\ used[s] <= Total(OnSub(s), Requests)
    /\ resets = 0 => due[s] = "no" /\ used[s] = Total(OnSub(s), Requests)

\* No share is negative.
SharesNat == \A r \in Requests : SubShare(r) \in Nat

\* A refund that gives back at most what was pre-consumed leaves no negative share.
LEMMA SharesAreNat == SInv /\ CreditInv /\ FundErrNat => SharesNat
<1> SUFFICES ASSUME SInv, CreditInv, FundErrNat, NEW r \in Requests PROVE SubShare(r) \in Nat
  BY DEF SharesNat
<1>1. /\ amt[r] \in Nat /\ extra[r] \in Nat /\ fundErr[r] \in Nat /\ recAmt[r] \in Nat /\ credit[r] \in Nat
      /\ src[r] \in {"wallet", "subscription"} /\ ph[r] \in Phases
      /\ rec[r] \in {"none", "consumed", "refunded"}
  BY DEF SInv, BooksTyped, RecordTypes, RefundTypes, FundErrNat
<1>2. credit[r] <= recAmt[r]
  BY <1>1 DEF CreditInv
<1>3. ShareByPhase(r)
  BY ShareIs DEF SharesByPhase
<1>4. /\ amt[r] + fundErr[r] \in Nat
      /\ recAmt[r] - credit[r] + extra[r] + fundErr[r] \in Nat
      /\ recAmt[r] - credit[r] + extra[r] + amt[r] + fundErr[r] \in Nat
  BY <1>1, <1>2
<1> QED BY <1>1, <1>3, <1>4 DEF ShareByPhase, Phases, Unfunded

\* The same after a step.
LEMMA SharesAreNatNext == SInv' /\ CreditInv' /\ FundErrNat' => SharesNat'
BY SharesAreNat, PTL

\* What is booked on a subscription changes with the share of the session that steps.
LEMMA BookedChange ==
    ASSUME IsFiniteSet(Requests), SharesNat, SharesNat', NEW r \in Requests, NEW s \in Subs,
           OthersSame(r), OthersRecords(r)
    PROVE  /\ Total(OnSub(s), Requests) \in Nat /\ Total(OnSub(s), Requests)' \in Nat
           /\ BookedOn(s, r) = (IF recSub[r] = s THEN SubShare(r) ELSE 0)
           /\ BookedOn(s, r)' = (IF recSub'[r] = s THEN SubShare(r)' ELSE 0)
           /\ Total(OnSub(s), Requests)' =
                 Total(OnSub(s), Requests) + BookedOn(s, r)' - BookedOn(s, r)
<1>1. \A q \in Requests : BookedOn(s, q) = IF recSub[q] = s THEN SubShare(q) ELSE 0
  BY DEF BookedOn, SubShare
<1>2. \A q \in Requests : BookedOn(s, q)' = IF recSub'[q] = s THEN SubShare(q)' ELSE 0
  BY DEF BookedOn, SubShare
<1>3. \A q \in Requests : BookedOn(s, q) \in Nat /\ BookedOn(s, q)' \in Nat
  BY <1>1, <1>2 DEF SharesNat
<1>4. ASSUME NEW q \in Requests \ {r} PROVE BookedOn(s, q)' = BookedOn(s, q)
  <2>1. /\ ph'[q] = ph[q] /\ src'[q] = src[q] /\ amt'[q] = amt[q] /\ wal'[q] = wal[q]
        /\ fundErr'[q] = fundErr[q] /\ extra'[q] = extra[q] /\ recSub'[q] = recSub[q]
        /\ recAmt'[q] = recAmt[q] /\ credit'[q] = credit[q]
    BY DEF OthersSame, OthersRecords
  <2>2. SubHeld(q)' = SubHeld(q)
    BY <2>1 DEF SubHeld
  <2>3. FundHeld(q)' = FundHeld(q)
    BY <2>1, <2>2 DEF FundHeld
  <2> QED BY <2>1, <2>3 DEF BookedOn, OnWallet
<1> DEFINE F == OnSub(s)
           G == OnSub(s)'
<1>5. /\ F \in [Requests -> Int] /\ G \in [Requests -> Int]
      /\ \A q \in Requests : F[q] = BookedOn(s, q) /\ G[q] = BookedOn(s, q)'
  BY <1>3 DEF OnSub
<1>6. Total(OnSub(s), Requests)' = Total(G, Requests)
  OBVIOUS
<1> HIDE DEF F, G
<1>7. \A q \in Requests \ {r} : G[q] = F[q]
  BY <1>4, <1>5
<1>8. Total(G, Requests) = Total(F, Requests) + G[r] - F[r]
  BY <1>5, <1>7, TotalChange
<1>9. Total(F, Requests) \in Nat
  <2>1. \A q \in Requests : F[q] >= 0
    BY <1>3, <1>5
  <2> QED BY <1>5, <2>1, TotalTyped
<1>10. Total(G, Requests) \in Nat
  <2>1. \A q \in Requests : G[q] >= 0
    BY <1>3, <1>5
  <2> QED BY <1>5, <2>1, TotalTyped
<1> QED BY <1>1, <1>2, <1>5, <1>6, <1>8, <1>9, <1>10 DEF F

\* A step of one session or refund keeps the usage of every subscription accounted for.
LEMMA UsageStep ==
    ASSUME IsFiniteSet(Requests), SubsTypes, SharesNat, SharesNat', NEW r \in Requests, NEW s \in Subs,
           Usage(s), OthersSame(r), OthersRecords(r), ShareMoves(r), recSub \in [Requests -> Subs \cup {0}]
    PROVE  Usage(s)'
<1> DEFINE T == Total(OnSub(s), Requests)
           T1 == Total(OnSub(s), Requests)'
           b == BookedOn(s, r)
           b1 == BookedOn(s, r)'
<1>1. /\ T \in Nat /\ T1 \in Nat /\ T1 = T + b1 - b
      /\ b = (IF recSub[r] = s THEN SubShare(r) ELSE 0)
      /\ b1 = (IF recSub'[r] = s THEN SubShare(r)' ELSE 0)
  BY BookedChange
<1>2. used[s] <= T /\ (resets = 0 => due[s] = "no" /\ used[s] = T)
  BY DEF Usage
<1>3. SUFFICES used'[s] <= T1 /\ (resets' = 0 => due'[s] = "no" /\ used'[s] = T1)
  BY DEF Usage
<1> DEFINE h == SubShare(r)
           h1 == SubShare(r)'
<1>4. h \in Nat /\ h1 \in Nat /\ used[s] \in Nat
  BY DEF SharesNat, SubsTypes
<1>5. /\ b = (IF recSub[r] = s THEN h ELSE 0)
      /\ b1 = (IF recSub'[r] = s THEN h1 ELSE 0)
  BY <1>1
<1>6. CASE UNCHANGED <<used, due, resets, recSub>> /\ SubShare(r)' = SubShare(r)
  <2>1. h1 = h
    BY <1>6
  <2> HIDE DEF T, T1, b, b1, h, h1
  <2>2. T1 = T
    BY <1>1, <1>4, <1>5, <1>6, <2>1
  <2> QED BY <1>2, <1>6, <2>2
<1>7. ASSUME NEW d \in Int, recSub[r] \in Subs, UNCHANGED <<due, resets, recSub>>,
             used' = [used EXCEPT ![recSub[r]] = NewUsed(recSub[r], d)],
             SubShare(r)' = SubShare(r) + d
      PROVE  used'[s] <= T1 /\ (resets' = 0 => due'[s] = "no" /\ used'[s] = T1)
  <2>1. h1 = h + d
    BY <1>7
  <2> HIDE DEF T, T1, b, b1, h, h1
  <2>2. CASE recSub[r] = s
    <3>1. used'[s] = IF used[s] + d < 0 THEN 0 ELSE used[s] + d
      BY <1>7, <2>2 DEF NewUsed, SubsTypes
    <3>2. T1 = T + d
      BY <1>1, <1>4, <1>5, <1>7, <2>1, <2>2
    <3> QED BY <1>1, <1>2, <1>4, <1>7, <3>1, <3>2
  <2>3. CASE recSub[r] # s
    <3>1. used'[s] = used[s]
      BY <1>7, <2>3 DEF SubsTypes
    <3>2. T1 = T
      BY <1>1, <1>5, <1>7, <2>3
    <3> QED BY <1>2, <1>7, <3>1, <3>2
  <2> QED BY <2>2, <2>3
<1>8. ASSUME NEW u \in Subs, SubShare(r) = 0, recSub' = [recSub EXCEPT ![r] = u], UNCHANGED resets,
             \A w \in Subs : /\ due'[w] \in {due[w], "no"}
                             /\ \E v \in {used[w], UsedNow(w)} :
                                   used'[w] = v + IF w = u THEN SubShare(r)' ELSE 0
      PROVE  used'[s] <= T1 /\ (resets' = 0 => due'[s] = "no" /\ used'[s] = T1)
  <2>1. PICK v \in {used[s], UsedNow(s)} : used'[s] = v + IF s = u THEN h1 ELSE 0
    BY <1>8
  <2>2. v \in Nat /\ v <= used[s] /\ (due[s] = "no" => v = used[s])
    BY <1>4 DEF UsedNow
  <2>3. recSub'[r] = u /\ h = 0
    BY <1>8
  <2> HIDE DEF T, T1, b, b1, h, h1
  <2>4. b = 0
    BY <1>5, <2>3
  <2>5. used'[s] = v + b1
    BY <1>5, <2>1, <2>3
  <2>6. T1 = T + b1 /\ b1 \in Nat
    BY <1>1, <1>4, <1>5, <2>4
  <2> QED BY <1>1, <1>2, <1>4, <1>8, <2>2, <2>5, <2>6
<1> QED BY <1>6, <1>7, <1>8 DEF ShareMoves

\* Resets, expiry and the administrator only ever erase usage, and a usage they erase
\* has been counted as a reset.
LEMMA MaintenanceUsage ==
    ASSUME SubsTypes, Maintenance, NEW s \in Subs
    PROVE  /\ used'[s] \in {used[s], 0}
           /\ resets' = 0 /\ (resets = 0 => \A u \in Subs : due[u] = "no") =>
                 resets = 0 /\ used'[s] = used[s] /\ due'[s] = due[s]
<1> USE DEF SubsTypes
<1>1. PICK u \in Subs :
         \/ ResetFallsDue(u) \/ ResetList(u) \/ ResetDueSubscriptions(u) \/ AdminReset(u)
         \/ EndTimePasses(u) \/ ExpireDueSubscriptions(u)
         \/ AdminInvalidateUserSubscription(u) \/ AdminDeleteUserSubscription(u)
         \/ \E d \in Deltas :
               \/ AdminIncreaseUserSubscriptionQuota(u, d)
               \/ AdminDecreaseUserSubscriptionQuota(u, d)
  BY DEF Maintenance
<1>2. CASE ResetFallsDue(u)
  BY <1>2 DEF ResetFallsDue
<1>3. CASE ResetList(u)
  BY <1>3 DEF ResetList
<1>4. CASE ResetDueSubscriptions(u)
  BY <1>4 DEF ResetDueSubscriptions, ResetTo
<1>5. CASE AdminReset(u)
  BY <1>5 DEF AdminReset, ResetTo
<1>6. ASSUME UNCHANGED <<used, due, resets>> PROVE used'[s] = used[s] /\ due'[s] = due[s] /\ resets' = resets
  BY <1>6
<1>7. CASE \/ EndTimePasses(u) \/ ExpireDueSubscriptions(u) \/ AdminInvalidateUserSubscription(u)
           \/ AdminDeleteUserSubscription(u)
           \/ \E d \in Deltas : \/ AdminIncreaseUserSubscriptionQuota(u, d)
                                \/ AdminDecreaseUserSubscriptionQuota(u, d)
  <2>1. UNCHANGED <<used, due, resets>>
    BY <1>7 DEF EndTimePasses, ExpireDueSubscriptions, AdminInvalidateUserSubscription,
       AdminDeleteUserSubscription, EndAs, AdminIncreaseUserSubscriptionQuota,
       AdminDecreaseUserSubscriptionQuota
  <2> QED BY <1>6, <2>1
<1> QED BY <1>1, <1>2, <1>3, <1>4, <1>5, <1>7

\* What the subscriptions and the sessions say to each other.
SubInv == (\A r \in Requests : SubBooks(r)) /\ (\A s \in Subs : Usage(s))

\* What is booked on a subscription is a natural number, zero if no share is taken.
LEMMA BookedNat ==
    ASSUME IsFiniteSet(Requests), SharesNat, NEW s \in Subs
    PROVE  /\ OnSub(s) \in [Requests -> Nat] /\ Total(OnSub(s), Requests) \in Nat
           /\ (\A r \in Requests : SubShare(r) = 0) => Total(OnSub(s), Requests) = 0
<1>1. \A q \in Requests : BookedOn(s, q) = IF recSub[q] = s THEN SubShare(q) ELSE 0
  BY DEF BookedOn, SubShare
<1>2. OnSub(s) \in [Requests -> Nat]
  BY <1>1 DEF OnSub, SharesNat
<1>3. (\A r \in Requests : SubShare(r) = 0) => \A r \in Requests : OnSub(s)[r] = 0
  BY <1>1 DEF OnSub
<1> QED BY <1>2, <1>3, TotalTyped

\* While the sessions and the records stay, so does what is booked.
LEMMA BookedKept ==
    ASSUME UNCHANGED sessionVars, UNCHANGED <<recVars, rfVars>>, NEW s \in Subs
    PROVE  Total(OnSub(s), Requests)' = Total(OnSub(s), Requests)
<1>1. UNCHANGED <<ph, src, amt, wal, extra, fundErr, recSub, recAmt, credit>>
  BY DEF sessionVars, flow, held, errs, recVars, rfVars
<1>2. \A q \in Requests : SubHeld(q)' = SubHeld(q)
  BY <1>1 DEF SubHeld
<1>3. \A q \in Requests : FundHeld(q)' = FundHeld(q)
  BY <1>1, <1>2 DEF FundHeld
<1>4. \A q \in Requests : BookedOn(s, q)' = BookedOn(s, q)
  BY <1>1, <1>3 DEF BookedOn, OnWallet
<1>5. OnSub(s)' = OnSub(s)
  BY <1>4 DEF OnSub
<1> QED BY <1>5

\* Every step keeps the two in agreement.
LEMMA SubInvStep ==
    ASSUME IsFiniteSet(Requests), SInv, SInv', CreditInv, CreditInv', FundErrNat, FundErrNat',
           SubInv, [SessionNext]_billingVars
    PROVE  SubInv'
<1>0. SubsTypes /\ RecordTypes /\ SharesNat /\ SharesNat'
  BY SharesAreNat, SharesAreNatNext DEF SInv
<1>1. ASSUME NEW r \in Requests, SubBooks(r)', ShareMoves(r), OthersRecords(r), OthersSame(r)
      PROVE  SubInv'
  <2>1. ASSUME NEW q \in Requests PROVE SubBooks(q)'
    <3>1. CASE q = r
      BY <1>1, <3>1
    <3>2. CASE q # r
      <4>1. /\ ph'[q] = ph[q] /\ src'[q] = src[q] /\ pre'[q] = pre[q] /\ extra'[q] = extra[q]
            /\ rec'[q] = rec[q] /\ recSub'[q] = recSub[q] /\ recAmt'[q] = recAmt[q]
            /\ rf'[q] = rf[q] /\ credit'[q] = credit[q]
        BY <1>1, <3>2 DEF OthersSame, OthersRecords
      <4>2. SubBooks(q)
        BY DEF SubInv
      <4> QED BY <4>1, <4>2 DEF SubBooks
    <3> QED BY <3>1, <3>2
  <2>2. ASSUME NEW s \in Subs PROVE Usage(s)'
    <3>1. Usage(s)
      BY DEF SubInv
    <3> QED BY <1>0, <1>1, <3>1, UsageStep DEF RecordTypes
  <2> QED BY <2>1, <2>2 DEF SubInv
<1>2. ASSUME NEW r \in Requests, SessionStep(r) PROVE SubInv'
  <2>1. SubBooks(r)
    BY DEF SubInv
  <2>2. OthersSame(r)
    BY <1>2, BookStep DEF SInv
  <2>3. SubBooks(r)' /\ ShareMoves(r)
    BY <1>2, <2>1, SubStep
  <2>4. OthersRecords(r)
    BY <1>2, OthersRecordsKept
  <2> QED BY <1>1, <2>2, <2>3, <2>4
<1>3. ASSUME NEW r \in Requests, RefundStep(r), UNCHANGED sessionVars PROVE SubInv'
  <2>1. SubBooks(r)
    BY DEF SubInv
  <2>2. SubBooks(r)' /\ ShareMoves(r) /\ OthersRecords(r) /\ OthersSame(r)
    BY <1>3, <2>1, RefundShare
  <2> QED BY <1>1, <2>2
<1>4. ASSUME UNCHANGED sessionVars, UNCHANGED <<recVars, rfVars>>,
             Maintenance \/ UNCHANGED subVars
      PROVE  SubInv'
  <2>0. UNCHANGED <<ph, src, pre, extra, rec, recSub, recAmt, rf, credit>>
    BY <1>4 DEF sessionVars, flow, held, recVars, rfVars
  <2>1. ASSUME NEW q \in Requests PROVE SubBooks(q)'
    <3>1. SubBooks(q)
      BY DEF SubInv
    <3> QED BY <2>0, <3>1 DEF SubBooks
  <2>2. ASSUME NEW s \in Subs PROVE Usage(s)'
    <3> DEFINE T == Total(OnSub(s), Requests)
               T1 == Total(OnSub(s), Requests)'
    <3>1. T1 = T
      BY <1>4, BookedKept
    <3>2. used[s] \in Nat /\ used[s] <= T /\ (resets = 0 => due[s] = "no" /\ used[s] = T)
      BY <1>0 DEF SubInv, Usage, SubsTypes
    <3>3. resets = 0 => \A u \in Subs : due[u] = "no"
      BY DEF SubInv, Usage
    <3>4. /\ used'[s] \in {used[s], 0}
          /\ resets' = 0 => resets = 0 /\ used'[s] = used[s] /\ due'[s] = due[s]
      <4>1. CASE Maintenance
        BY <1>0, <3>3, <4>1, MaintenanceUsage
      <4>2. CASE UNCHANGED subVars
        BY <4>2 DEF subVars
      <4> QED BY <1>4, <4>1, <4>2
    <3>5. T \in Nat
      BY <1>0, BookedNat
    <3>6. used'[s] <= T1 /\ (resets' = 0 => due'[s] = "no" /\ used'[s] = T1)
      <4> HIDE DEF T, T1
      <4> QED BY <3>1, <3>2, <3>4, <3>5
    <3> QED BY <3>6 DEF Usage
  <2> QED BY <2>1, <2>2 DEF SubInv
<1>5. CASE Maintenance /\ UNCHANGED sessionVars
  BY <1>0, <1>4, <1>5, MaintenanceTypes
<1>6. CASE UNCHANGED billingVars
  BY <1>4, <1>6 DEF billingVars, ledgerVars
<1> QED BY <1>2, <1>3, <1>5, <1>6, SessionSteps

\* At the start nothing is used and nothing is booked.
LEMMA SubInvInit ==
    ASSUME IsFiniteSet(Requests), SessionInit
    PROVE  SubInv
<1>1. /\ ph = [r \in Requests |-> "new"] /\ src = [r \in Requests |-> "wallet"]
      /\ pre = [r \in Requests |-> 0] /\ extra = [r \in Requests |-> 0]
      /\ rec = [r \in Requests |-> "none"] /\ recSub = [r \in Requests |-> 0]
      /\ recAmt = [r \in Requests |-> 0] /\ rf = [r \in Requests |-> "idle"]
      /\ credit = [r \in Requests |-> 0] /\ used = [s \in Subs |-> 0] /\ due = [s \in Subs |-> "no"]
  BY DEF SessionInit, LedgerInit
<1>2. \A r \in Requests : SubBooks(r)
  BY <1>1 DEF SubBooks, Unfunded
<1>3. \A r \in Requests : SubShare(r) = 0
  BY <1>1 DEF SubShare, OnWallet
<1>4. ASSUME NEW s \in Subs PROVE Usage(s)
  <2>1. Total(OnSub(s), Requests) = 0
    BY <1>3, BookedNat DEF SharesNat
  <2> QED BY <1>1, <2>1 DEF Usage
<1> QED BY <1>2, <1>4 DEF SubInv

\* The sum in the property is the total the proof reasons about.
LEMMA BookedIsTotal ==
    ASSUME IsFiniteSet(Requests), NEW s
    PROVE  MapThenSumSet(LAMBDA r : BookedOn(s, r), Requests) = Total(OnSub(s), Requests)
<1> DEFINE H == OnSub(s)
           iter == CHOOSE g : g = [u \in SUBSET Requests |->
                        IF u = {} THEN 0 ELSE BookedOn(s, Pick(u)) + g[u \ {Pick(u)}]]
<1>1. ASSUME NEW g
      PROVE  IsSum(g, H, Requests) <=> g = [u \in SUBSET Requests |->
                        IF u = {} THEN 0 ELSE BookedOn(s, Pick(u)) + g[u \ {Pick(u)}]]
  <2>1. ASSUME NEW u \in SUBSET Requests, u # {} PROVE H[Pick(u)] = BookedOn(s, Pick(u))
    BY <2>1, PickIsElement DEF OnSub
  <2> HIDE DEF H
  <2>2. [u \in SUBSET Requests |-> IF u = {} THEN 0 ELSE H[Pick(u)] + g[u \ {Pick(u)}]]
          = [u \in SUBSET Requests |-> IF u = {} THEN 0 ELSE BookedOn(s, Pick(u)) + g[u \ {Pick(u)}]]
    BY <2>1
  <2> QED BY <2>2 DEF IsSum, Adds
<1>2. \E g : IsSum(g, H, Requests)
  BY SumExists
<1>3. IsSum(iter, H, Requests)
  BY <1>1, <1>2
<1>4. MapThenSumSet(LAMBDA r : BookedOn(s, r), Requests) = iter[Requests]
  BY DEF MapThenSumSet, MapThenFoldSet, Pick
<1> HIDE DEF iter, H
<1>5. Total(H, Requests) = iter[Requests]
  BY <1>3, TotalOf
<1> QED BY <1>4, <1>5 DEF H

\* The usage of every subscription is what the sessions on it hold, were charged or
\* left wrongly booked, across fallbacks, reservations, failed adjustments, refunds
\* and their retries; only a reset makes it less.
THEOREM SubscriptionsReconcile ==
    ASSUME ~CommitMayFail, IsFiniteSet(Requests)
    PROVE  SessionSpec => []SubscriptionReconciles
<1>1. SessionInit => SubInv
  BY SubInvInit
<1>2. SInv /\ SInv' /\ CreditInv /\ CreditInv' /\ FundErrNat /\ FundErrNat' /\ SubInv
         /\ [SessionNext]_billingVars => SubInv'
  BY SubInvStep
<1>3. SessionSpec => []SubInv
  BY <1>1, <1>2, SessionInvariant, SessionCredit, PTL DEF SessionSpec
<1>4. SubInv => SubscriptionReconciles
  BY BookedIsTotal DEF SubInv, Usage, SubscriptionReconciles
<1> QED BY <1>3, <1>4, PTL
=============================================================================
