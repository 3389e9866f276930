--------------------------- MODULE PrepaidAccount ---------------------------
(***************************************************************************)
(* What billing sessions promise about one account (the user's wallet or   *)
(* the API token).  A session opens with a hold the balance covers, may    *)
(* move its hold while it is live, and closes exactly once, by charging an *)
(* amount or by returning the whole hold.  A failed update moves no money: *)
(* what it should have moved is lost, and logged.                          *)
(***************************************************************************)
EXTENDS FiniteSums

CONSTANTS Sessions, Opening   \* the sessions and the opening balance

VARIABLES balance,  \* what is left on the account
          hold,     \* what each session has taken
          lost,     \* what failed updates have left wrongly booked
          st        \* none, live, charged or returned

accountVars == <<balance, hold, lost, st>>

AccountInit ==
    /\ balance = Opening
    /\ hold = [r \in Sessions |-> 0]
    /\ lost = [r \in Sessions |-> 0]
    /\ st = [r \in Sessions |-> "none"]

\* Only r's hold changes, to a natural number.
Holds(r) == hold'[r] \in Nat /\ hold' = [hold EXCEPT ![r] = hold'[r]]

\* The balance gives or gets what r's hold gets or gives.
Paid(r) == balance' = balance + hold[r] - hold'[r] /\ lost' = lost

\* The update failed: the balance stays.
Unpaid(r) == balance' = balance /\ lost' = [lost EXCEPT ![r] = @ + hold[r] - hold'[r]]

\* The first hold is covered by the balance.
Open(r) ==
    /\ st[r] = "none" /\ st' = [st EXCEPT ![r] = "live"]
    /\ Holds(r) /\ Paid(r)
    /\ hold'[r] > 0 => balance' >= 0

\* A live session takes more or gives some back.
Move(r) == st[r] = "live" /\ st' = st /\ Holds(r) /\ Paid(r)

\* The session ends: its charge stays held, nothing when it is returned or when
\* the session gives this account up.
Close(r, final) ==
    /\ st[r] = "live" /\ st' = [st EXCEPT ![r] = final]
    /\ Holds(r) /\ (final # "charged" => hold'[r] = 0)
    /\ Paid(r) \/ Unpaid(r)

AccountNext ==
    \E r \in Sessions :
        Open(r) \/ Move(r) \/ \E final \in {"charged", "returned", "none"} : Close(r, final)

AccountSpec == AccountInit /\ [][AccountNext]_accountVars

\* The opening balance is accounted for: what is left, what sessions hold and
\* what failed updates lost.
Balanced ==
    balance + MapThenSumSet(LAMBDA r : hold[r] + lost[r], Sessions) = Opening

-----------------------------------------------------------------------------
(* Why every implementation of the account is balanced.                     *)

AccountTypes ==
    balance \in Int /\ hold \in [Sessions -> Int] /\ lost \in [Sessions -> Int]

\* What a session has of the account, in its hold or lost.
Booked == [r \in Sessions |-> hold[r] + lost[r]]

\* Opening, moving and closing keep the balance and what the session has together.
LEMMA AccountStep ==
    ASSUME AccountTypes, [AccountNext]_accountVars
    PROVE  /\ AccountTypes'
           /\ \/ balance' = balance /\ Booked' = Booked
              \/ \E r \in Sessions :
                    /\ balance' + Booked'[r] = balance + Booked[r]
                    /\ \A q \in Sessions \ {r} : Booked'[q] = Booked[q]
<1>1. CASE UNCHANGED accountVars
  BY <1>1 DEF accountVars, AccountTypes, Booked
<1>2. ASSUME NEW r \in Sessions, Holds(r), Paid(r) \/ Unpaid(r)
      PROVE  /\ AccountTypes'
             /\ balance' + Booked'[r] = balance + Booked[r]
             /\ \A q \in Sessions \ {r} : Booked'[q] = Booked[q]
  <2>0. balance \in Int /\ hold[r] \in Int /\ lost[r] \in Int /\ hold'[r] \in Int
    BY <1>2 DEF AccountTypes, Holds
  <2>1. hold' \in [Sessions -> Int] /\ \A q \in Sessions \ {r} : hold'[q] = hold[q]
    BY <1>2, <2>0 DEF AccountTypes, Holds
  <2>2. CASE Paid(r)
    <3>1. balance' = balance + hold[r] - hold'[r] /\ lost' = lost
      BY <2>2 DEF Paid
    <3> QED BY <2>0, <2>1, <3>1 DEF AccountTypes, Booked
  <2>3. CASE Unpaid(r)
    <3>1. balance' = balance /\ lost' = [lost EXCEPT ![r] = @ + hold[r] - hold'[r]]
      BY <2>3 DEF Unpaid
    <3>2. /\ lost' \in [Sessions -> Int] /\ lost'[r] = lost[r] + hold[r] - hold'[r]
          /\ \A q \in Sessions \ {r} : lost'[q] = lost[q]
      BY <2>0, <3>1 DEF AccountTypes
    <3> QED BY <2>0, <2>1, <3>1, <3>2 DEF AccountTypes, Booked
  <2> QED BY <1>2, <2>2, <2>3
<1>3. ASSUME NEW r \in Sessions,
             Open(r) \/ Move(r) \/ \E final \in {"charged", "returned", "none"} : Close(r, final)
      PROVE  Holds(r) /\ (Paid(r) \/ Unpaid(r))
  BY <1>3 DEF Open, Move, Close
<1> QED BY <1>1, <1>2, <1>3 DEF AccountNext

\* However many sessions use it and whichever updates fail, an account keeps its
\* opening balance: what it has left, what sessions hold and what was lost.
THEOREM AccountBalanced ==
    ASSUME IsFiniteSet(Sessions), Opening \in Int
    PROVE  AccountSpec => []Balanced
<1> DEFINE Inv == AccountTypes /\ balance + Total(Booked, Sessions) = Opening
<1>1. AccountInit => Inv
  <2> SUFFICES ASSUME AccountInit PROVE Inv
    OBVIOUS
  <2>1. AccountTypes
    BY DEF AccountInit, AccountTypes
  <2>2. Booked \in [Sessions -> Int] /\ \A r \in Sessions : Booked[r] = 0
    BY DEF AccountInit, Booked
  <2>3. Total(Booked, Sessions) = 0
    BY <2>2, TotalTyped
  <2> QED BY <2>1, <2>3 DEF AccountInit
<1>2. Inv /\ [AccountNext]_accountVars => Inv'
  <2> SUFFICES ASSUME Inv, [AccountNext]_accountVars PROVE Inv'
    OBVIOUS
  <2>1. AccountTypes'
    BY AccountStep
  <2>2. Booked \in [Sessions -> Int] /\ Booked' \in [Sessions -> Int] /\ balance \in Int /\ balance' \in Int
    BY <2>1 DEF AccountTypes, Booked
  <2>3. Total(Booked, Sessions) \in Int
    BY <2>2, TotalTyped
  <2>4. CASE balance' = balance /\ Booked' = Booked
    BY <2>1, <2>4
  <2>5. ASSUME NEW r \in Sessions, balance' + Booked'[r] = balance + Booked[r],
               \A q \in Sessions \ {r} : Booked'[q] = Booked[q]
        PROVE  Inv'
    <3>1. Total(Booked', Sessions) = Total(Booked, Sessions) + Booked'[r] - Booked[r]
      BY <2>2, <2>5, TotalChange
    <3>2. Booked'[r] \in Int /\ Booked[r] \in Int
      BY <2>2
    <3> QED BY <2>1, <2>2, <2>3, <2>5, <3>1, <3>2
  <2> QED BY <2>4, <2>5, AccountStep
<1>3. Inv => Balanced
  <2> SUFFICES ASSUME Inv PROVE Balanced
    OBVIOUS
  <2>1. MapThenSumSet(LAMBDA r : hold[r] + lost[r], Sessions) = Total(Booked, Sessions)
    BY FoldOfTwo DEF Booked
  <2> QED BY <2>1 DEF Balanced
<1> QED BY <1>1, <1>2, <1>3, PTL DEF AccountSpec
=============================================================================
