------------------------ MODULE WalletTrafficProofs ------------------------
(***************************************************************************)
(* Proofs about WalletTraffic: inference keeps what Payments assumes of it *)
(* (the refinement), so that what is proved of Payments and of             *)
(* InferenceBilling holds of both on one wallet, for any number of         *)
(* requests, purchases, deliveries and refunds.  A request whose capture   *)
(* was committed but not acknowledged gives back more than it took, which  *)
(* Payments does not allow for: the theorems assume that this fault does   *)
(* not happen.                                                             *)
(***************************************************************************)
EXTENDS WalletTraffic, InferenceBillingProofs

\* Promised, with what is proved of it.
P == INSTANCE PaymentsProofs WITH
    spent <- Spent,
    Spends <- Int,
    lock <- None,
    wallet <- [paid |-> wallet.paid, promo |-> InitPromo]

LEMMA PaymentsAssumed == P!PaymentsAssumption
  BY TrafficAssumption, BillingAssumption DEF P!PaymentsAssumption, IsFiniteSet, P!IsFiniteSet

\* The instances are of the same definitions.
LEMMA SameSpec == P!Spec <=> Promised!Spec
  BY DEF
         P!walletVars, P!purchaseVars, P!stripeVars, P!payVars, P!vars, P!NoHook, P!NoRefund,
         P!WalletFree, P!InUse, P!ConnectionFree, P!CreditsFor, P!Worth, P!AddPaid, P!Offer,
         P!MockPurchase, P!CreateSession, P!StorePending, P!SessionPaid, P!KeysExpire,
         P!MarkFailed, P!FailPending, P!CheckPosted, P!BeginPost, P!PaymentRowReady,
         P!NotYetPosted, P!PostPurchase, P!PostCommit, P!PostDuplicate, P!PostFails,
         P!RefundOnly, P!BeginRefund, P!LockPayment, P!RefuseRefund, P!Abandon, P!RefundKey,
         P!StripeRefunds, P!StripeAccepts, P!StripeUnheard, P!StripeRefuses, P!RefundFails,
         P!RatioReadable, P!TakenBack, P!WalletCovers, P!SettleRefund, P!RefundUncovered,
         P!SetRatio, P!Spend, P!Buy, P!PostProceeds, P!Deliver, P!RefundProceeds,
         P!StripeAnswers, P!Refunding, P!PaymentStep, P!Next, P!Cardinality, P!Init, P!Spec,
         Promised!walletVars, Promised!purchaseVars, Promised!stripeVars, Promised!payVars,
         Promised!vars, Promised!NoHook, Promised!NoRefund, Promised!WalletFree,
         Promised!InUse, Promised!ConnectionFree, Promised!CreditsFor, Promised!Worth,
         Promised!AddPaid, Promised!Offer, Promised!MockPurchase, Promised!CreateSession,
         Promised!StorePending, Promised!SessionPaid, Promised!KeysExpire,
         Promised!MarkFailed, Promised!FailPending, Promised!CheckPosted, Promised!BeginPost,
         Promised!PaymentRowReady, Promised!NotYetPosted, Promised!PostPurchase,
         Promised!PostCommit, Promised!PostDuplicate, Promised!PostFails,
         Promised!RefundOnly, Promised!BeginRefund, Promised!LockPayment,
         Promised!RefuseRefund, Promised!Abandon, Promised!RefundKey, Promised!StripeRefunds,
         Promised!StripeAccepts, Promised!StripeUnheard, Promised!StripeRefuses,
         Promised!RefundFails, Promised!RatioReadable, Promised!TakenBack,
         Promised!WalletCovers, Promised!SettleRefund, Promised!RefundUncovered,
         Promised!SetRatio, Promised!Spend, Promised!Buy, Promised!PostProceeds,
         Promised!Deliver, Promised!RefundProceeds, Promised!StripeAnswers,
         Promised!Refunding, Promised!PaymentStep, Promised!Next, Promised!Cardinality,
         Promised!Init, Promised!Spec

LEMMA SameSums == \A f : P!SumFunction(f) = Pay!SumFunction(f)
  BY DEF P!SumFunction, P!SumFunctionOnSet, P!FoldFunctionOnSet, P!MapThenFoldSet,
         Pay!SumFunction, Pay!SumFunctionOnSet, Pay!FoldFunctionOnSet, Pay!MapThenFoldSet

LEMMA SameLedger == P!LedgerExplainsPaid <=> Pay!LedgerExplainsPaid
  BY SameSums DEF P!LedgerExplainsPaid, Pay!LedgerExplainsPaid, P!Reversed, Pay!Reversed

LEMMA SameConnections == P!ConnectionFree <=> Pay!ConnectionFree
  BY
       DEF P!ConnectionFree, P!InUse, P!Cardinality, Pay!ConnectionFree, Pay!InUse,
           Pay!Cardinality
-----------------------------------------------------------------------------
(* Purchases and refunds, as Promised sees them *)

LEMMA SpentKept ==
    ASSUME ledger' = ledger
    PROVE  Spent' = Spent
  BY DEF Spent, NetPaid


LEMMA PaidMapped ==
    ASSUME NEW n, Pay!AddPaid(n)
    PROVE  P!AddPaid(n)
  BY DEF P!AddPaid, Pay!AddPaid

LEMMA BuyMapped ==
    ASSUME NEW p \in Purchases, Pay!Buy(p), ledger' = ledger
    PROVE  P!Buy(p)
  <1>1. Spent' = Spent BY SpentKept
  <1>2. CASE Pay!MockPurchase(p)
    <2>1. P!MockPurchase(p)
      BY <1>1, <1>2, SameConnections, PaidMapped
         DEF Pay!MockPurchase, P!MockPurchase, Pay!Offer, P!Offer, Pay!CreditsFor, Pay!Worth,
             P!CreditsFor, P!Worth, P!WalletFree, Pay!stripeVars, P!stripeVars
    <2>2. QED BY <2>1 DEF P!Buy
  <1>3. CASE Pay!CreateSession(p)
    <2>1. P!CreateSession(p)
      BY <1>1, <1>3
         DEF Pay!CreateSession, P!CreateSession, Pay!Offer, P!Offer, Pay!CreditsFor, Pay!Worth,
             P!CreditsFor, P!Worth, P!walletVars, Pay!walletVars
    <2>2. QED BY <2>1 DEF P!Buy
  <1>4. CASE Pay!StorePending(p)
    <2>1. P!StorePending(p)
      BY <1>1, <1>4, SameConnections
         DEF Pay!StorePending, P!StorePending, P!walletVars, Pay!walletVars, P!stripeVars,
             Pay!stripeVars
    <2>2. QED BY <2>1 DEF P!Buy
  <1>5. QED BY <1>2, <1>3, <1>4 DEF Pay!Buy

LEMMA SessionMapped ==
    ASSUME NEW p \in Purchases, ledger' = ledger,
           Pay!SessionPaid(p) \/ Pay!KeysExpire(p) \/ Pay!MarkFailed(p)
    PROVE  P!SessionPaid(p) \/ P!KeysExpire(p) \/ P!MarkFailed(p)
  <1>1. Spent' = Spent BY SpentKept
  <1>2. CASE Pay!SessionPaid(p)
    <2>1. P!SessionPaid(p)
      BY <1>1, <1>2
         DEF Pay!SessionPaid, P!SessionPaid, Pay!walletVars, P!walletVars, Pay!purchaseVars,
             P!purchaseVars
    <2>2. QED BY <2>1
  <1>3. CASE Pay!KeysExpire(p)
    <2>1. P!KeysExpire(p)
      BY <1>1, <1>3
         DEF Pay!KeysExpire, P!KeysExpire, Pay!walletVars, P!walletVars, Pay!purchaseVars,
             P!purchaseVars
    <2>2. QED BY <2>1
  <1>4. CASE Pay!MarkFailed(p)
    <2>1. P!MarkFailed(p)
      BY <1>1, <1>4, SameConnections
         DEF Pay!MarkFailed, Pay!FailPending, P!MarkFailed, P!FailPending, Pay!walletVars,
             P!walletVars, Pay!stripeVars, P!stripeVars
    <2>2. QED BY <2>1
  <1>5. QED BY <1>2, <1>3, <1>4

LEMMA DeliverMapped ==
    ASSUME NEW d \in Deliveries, Pay!Deliver(d), ledger' = ledger
    PROVE  P!Deliver(d)
  <1>1. Spent' = Spent BY SpentKept
  <1>2. CASE Pay!CheckPosted(d)
    <2>1. P!CheckPosted(d)
      BY <1>1, <1>2, SameConnections
         DEF Pay!CheckPosted, P!CheckPosted, Pay!walletVars,
             P!walletVars, Pay!purchaseVars, P!purchaseVars, Pay!stripeVars, P!stripeVars
    <2>2. QED BY <2>1 DEF P!Deliver
  <1>3. CASE Pay!BeginPost(d)
    <2>1. P!BeginPost(d)
      BY <1>1, <1>3, SameConnections
         DEF Pay!BeginPost, P!BeginPost, Pay!walletVars, P!walletVars, Pay!purchaseVars,
             P!purchaseVars, Pay!stripeVars, P!stripeVars
    <2>2. QED BY <2>1 DEF P!Deliver, P!PostProceeds
  <1>4. CASE Pay!PostCommit(d)
    <2>1. P!PostCommit(d)
      BY <1>1, <1>4, PaidMapped
         DEF Pay!PostCommit, P!PostCommit, Pay!PostPurchase, P!PostPurchase,
             Pay!PaymentRowReady, P!PaymentRowReady, Pay!WalletFree, P!WalletFree,
             Pay!NotYetPosted, P!NotYetPosted, Pay!NoHook, P!NoHook, Pay!stripeVars,
             P!stripeVars
    <2>2. QED BY <2>1 DEF P!Deliver, P!PostProceeds
  <1>5. CASE Pay!PostDuplicate(d)
    <2>1. P!PostDuplicate(d)
      BY <1>1, <1>5
         DEF Pay!PostDuplicate, P!PostDuplicate, Pay!PaymentRowReady, P!PaymentRowReady,
             Pay!NotYetPosted, P!NotYetPosted, Pay!NoHook, P!NoHook, Pay!walletVars,
             P!walletVars, Pay!purchaseVars, P!purchaseVars, Pay!stripeVars, P!stripeVars
    <2>2. QED BY <2>1 DEF P!Deliver, P!PostProceeds
  <1>6. CASE Pay!PostFails(d)
    <2>1. P!PostFails(d)
      BY <1>1, <1>6
         DEF Pay!PostFails, P!PostFails, Pay!NoHook, P!NoHook, Pay!walletVars, P!walletVars,
             Pay!purchaseVars, P!purchaseVars, Pay!stripeVars, P!stripeVars
    <2>2. QED BY <2>1 DEF P!Deliver
  <1>7. QED BY <1>2, <1>3, <1>4, <1>5, <1>6 DEF Pay!Deliver, Pay!PostProceeds

LEMMA RefundOnlyMapped ==
    ASSUME Pay!RefundOnly, ledger' = ledger
    PROVE  P!RefundOnly
  BY SpentKept
     DEF Pay!RefundOnly, P!RefundOnly, Pay!walletVars, P!walletVars, Pay!purchaseVars,
         P!purchaseVars

LEMMA AbandonMapped ==
    ASSUME NEW f \in Refunders, Pay!Abandon(f), ledger' = ledger
    PROVE  P!Abandon(f)
  BY RefundOnlyMapped
     DEF Pay!Abandon, P!Abandon, Pay!NoRefund, P!NoRefund

LEMMA StripeMapped ==
    ASSUME NEW f \in Refunders, Pay!StripeRefunds(f)
    PROVE  P!StripeRefunds(f)
  BY Zenon
     DEF Pay!StripeRefunds, P!StripeRefunds, Pay!RefundKey, P!RefundKey

LEMMA RefundingMapped ==
    ASSUME NEW f \in Refunders, Pay!Refunding(f), ledger' = ledger
    PROVE  P!Refunding(f)
  <1>1. CASE Pay!BeginRefund(f)
    <2>1. P!BeginRefund(f)
      BY <1>1, SameConnections, RefundOnlyMapped
         DEF Pay!BeginRefund, P!BeginRefund, Pay!stripeVars, P!stripeVars
    <2>2. QED BY <2>1 DEF P!Refunding
  <1>2. CASE Pay!LockPayment(f)
    <2>1. P!LockPayment(f)
      BY <1>2, RefundOnlyMapped
         DEF Pay!LockPayment, P!LockPayment, Pay!stripeVars, P!stripeVars
    <2>2. QED BY <2>1 DEF P!Refunding, P!RefundProceeds
  <1>3. CASE Pay!RefuseRefund(f)
    <2>1. P!RefuseRefund(f)
      BY <1>3, RefundOnlyMapped
         DEF Pay!RefuseRefund, P!RefuseRefund, Pay!NoRefund, P!NoRefund, Pay!stripeVars,
             P!stripeVars
    <2>2. QED BY <2>1 DEF P!Refunding, P!RefundProceeds, P!StripeAnswers
  <1>4. CASE Pay!StripeAccepts(f)
    <2>1. P!StripeAccepts(f)
      BY <1>4, RefundOnlyMapped, StripeMapped
         DEF Pay!StripeAccepts, P!StripeAccepts
    <2>2. QED BY <2>1 DEF P!Refunding, P!RefundProceeds, P!StripeAnswers
  <1>5. CASE Pay!StripeUnheard(f)
    <2>1. P!StripeUnheard(f)
      BY <1>5, StripeMapped, AbandonMapped
         DEF Pay!StripeUnheard, P!StripeUnheard
    <2>2. QED BY <2>1 DEF P!Refunding
  <1>6. CASE Pay!StripeRefuses(f)
    <2>1. P!StripeRefuses(f)
      BY <1>6, AbandonMapped
         DEF Pay!StripeRefuses, P!StripeRefuses, Pay!RefundKey, P!RefundKey, Pay!stripeVars,
             P!stripeVars
    <2>2. QED BY <2>1 DEF P!Refunding, P!RefundProceeds, P!StripeAnswers
  <1>7. CASE Pay!RefundFails(f)
    <2>1. P!RefundFails(f)
      BY <1>7, AbandonMapped
         DEF Pay!RefundFails, P!RefundFails, Pay!stripeVars, P!stripeVars
    <2>2. QED BY <2>1 DEF P!Refunding
  <1>8. CASE Pay!SettleRefund(f)
    <2>1. P!SettleRefund(f)
      BY <1>8, SameConnections, PaidMapped, SpentKept
         DEF Pay!SettleRefund, P!SettleRefund, Pay!RatioReadable, Pay!TakenBack,
             Pay!WalletCovers, P!RatioReadable, P!TakenBack, P!WalletCovers, Pay!WalletFree,
             P!WalletFree, Pay!CreditsFor, Pay!Worth, P!CreditsFor, P!Worth, Pay!NoRefund,
             P!NoRefund, Pay!stripeVars, P!stripeVars
    <2>2. QED BY <2>1 DEF P!Refunding, P!RefundProceeds, P!StripeAnswers
  <1>9. CASE Pay!RefundUncovered(f)
    <2>1. P!RefundUncovered(f)
      BY <1>9, SameConnections, AbandonMapped
         DEF Pay!RefundUncovered, P!RefundUncovered, Pay!RatioReadable, Pay!TakenBack,
             Pay!WalletCovers, P!RatioReadable, P!TakenBack, P!WalletCovers, Pay!WalletFree,
             P!WalletFree, Pay!CreditsFor, Pay!Worth, P!CreditsFor, P!Worth, Pay!stripeVars,
             P!stripeVars
    <2>2. QED BY <2>1 DEF P!Refunding, P!RefundProceeds, P!StripeAnswers
  <1>10. QED
    BY <1>1, <1>2, <1>3, <1>4, <1>5, <1>6, <1>7, <1>8, <1>9
         DEF Pay!Refunding, Pay!RefundProceeds, Pay!StripeAnswers

\* A step of purchases and refunds is one as Promised sees it.
LEMMA PaymentMapped ==
    ASSUME BuyOrRefund
    PROVE  P!Next
  <1>1. ledger' = ledger BY DEF BuyOrRefund, billingVars
  <1>2. CASE Pay!SetRatio
    <2>1. P!SetRatio
      BY <1>1, <1>2, SpentKept
         DEF Pay!SetRatio, P!SetRatio, Pay!walletVars, P!walletVars, Pay!purchaseVars,
             P!purchaseVars, Pay!stripeVars, P!stripeVars
    <2>2. QED BY <2>1 DEF P!Next, P!PaymentStep
  <1>3. ASSUME NEW p \in Purchases,
               Pay!Buy(p) \/ Pay!SessionPaid(p) \/ Pay!KeysExpire(p) \/ Pay!MarkFailed(p)
        PROVE  P!Next
    BY <1>1, <1>3, BuyMapped, SessionMapped DEF P!Next, P!PaymentStep
  <1>4. ASSUME NEW d \in Deliveries, Pay!Deliver(d) PROVE P!Next
    BY <1>1, <1>4, DeliverMapped DEF P!Next, P!PaymentStep
  <1>5. ASSUME NEW f \in Refunders, Pay!Refunding(f) PROVE P!Next
    BY <1>1, <1>5, RefundingMapped DEF P!Next, P!PaymentStep
  <1>6. QED BY <1>2, <1>3, <1>4, <1>5 DEF BuyOrRefund, Pay!PaymentStep

\* A purchase or a refund changes only the paid credits of the row, only while no request
\* has it, and takes no more than is there.
LEMMA PaymentWallet ==
    ASSUME TypeOK, NoOverspend, P!TypeOK, BuyOrRefund
    PROVE  /\ lock' = lock
           /\ wallet' = wallet \/ lock = None
           /\ wallet' \in Credits /\ wallet'.promo = wallet.promo /\ wallet'.paid >= 0
  <1>1. wallet \in Credits /\ wallet.paid >= 0 BY DEF TypeOK, NoOverspend
  <1>2. \A n \in Int : Pay!AddPaid(n) /\ wallet.paid + n >= 0
           => wallet' \in Credits /\ wallet'.promo = wallet.promo /\ wallet'.paid >= 0
    BY <1>1 DEF Pay!AddPaid, Credits
  <1>3. ratio \in Nat
    BY P!RatioNatural, PaymentsAssumed
  <1>4. \A cents \in Nat : Pay!CreditsFor(cents, ratio) \in Nat
    BY <1>3, P!CreditsNatural, PaymentsAssumed
       DEF Pay!CreditsFor, Pay!Worth, P!CreditsFor, P!Worth
  <1>5. ASSUME UNCHANGED <<wallet, lock>>
        PROVE  /\ lock' = lock /\ wallet' = wallet
               /\ wallet' \in Credits /\ wallet'.promo = wallet.promo /\ wallet'.paid >= 0
    BY <1>1, <1>5
  <1>6. ASSUME NEW n \in Int, Pay!AddPaid(n), wallet.paid + n >= 0, lock = None, lock' = lock
        PROVE  /\ lock' = lock /\ lock = None
               /\ wallet' \in Credits /\ wallet'.promo = wallet.promo /\ wallet'.paid >= 0
    BY <1>2, <1>6
  <1>7. ASSUME NEW p \in Purchases, Pay!MockPurchase(p)
        PROVE  \E n \in Int : Pay!AddPaid(n) /\ wallet.paid + n >= 0 /\ lock = None /\ lock' = lock
    <2>1. PICK cents \in Amounts : Pay!AddPaid(Pay!CreditsFor(cents, ratio))
      BY <1>7 DEF Pay!MockPurchase
    <2>2. Pay!CreditsFor(cents, ratio) \in Nat BY <1>4, TrafficAssumption
    <2>3. lock = None /\ lock' = lock BY <1>7 DEF Pay!MockPurchase, Pay!WalletFree
    <2>4. wallet.paid + Pay!CreditsFor(cents, ratio) >= 0 BY <1>1, <2>2 DEF Credits
    <2>5. QED BY <2>1, <2>2, <2>3, <2>4
  <1>8. ASSUME NEW d \in Deliveries, Pay!PostCommit(d)
        PROVE  \E n \in Int : Pay!AddPaid(n) /\ wallet.paid + n >= 0 /\ lock = None /\ lock' = lock
    <2>1. hook[d].at = "posting" /\ Pay!PostPurchase(hook[d].of) /\ lock' = lock
      BY <1>8 DEF Pay!PostCommit
    <2>2. hook[d].of \in Purchases /\ grant \in [Purchases -> Nat]
      BY <2>1 DEF P!TypeOK, P!Hooks, P!NoHook
    <2>3. PICK n \in Nat : n = grant[hook[d].of] BY <2>2
    <2>4. lock = None /\ Pay!AddPaid(n)
      BY <2>1, <2>3 DEF Pay!PostPurchase, Pay!WalletFree
    <2>5. wallet.paid + n >= 0 BY <1>1 DEF Credits
    <2>6. QED BY <2>1, <2>4, <2>5
  <1>9. ASSUME NEW f \in Refunders, Pay!SettleRefund(f)
        PROVE  \E n \in Int : Pay!AddPaid(n) /\ wallet.paid + n >= 0 /\ lock = None /\ lock' = lock
    <2> DEFINE c == Pay!CreditsFor(refund[f].cents, ratio)
    <2>1. /\ refund[f].at = "settling" /\ wallet.paid >= c /\ Pay!AddPaid(-c)
          /\ lock = None /\ lock' = lock
      BY <1>9 DEF Pay!SettleRefund, Pay!TakenBack, Pay!WalletCovers, Pay!WalletFree
    <2>2. refund[f].cents \in Nat
      BY <2>1 DEF P!TypeOK, P!Refunds, P!NoRefund
    <2>3. c \in Nat BY <1>4, <2>2
    <2> HIDE DEF c
    <2>4. wallet.paid + -c >= 0 /\ -c \in Int BY <1>1, <2>1, <2>3 DEF Credits
    <2>5. QED BY <2>1, <2>4
  <1>10. ASSUME NEW p \in Purchases,
                \/ Pay!CreateSession(p) \/ Pay!StorePending(p) \/ Pay!SessionPaid(p)
                \/ Pay!KeysExpire(p) \/ Pay!MarkFailed(p)
         PROVE  UNCHANGED <<wallet, lock>>
    BY <1>10 DEF Pay!CreateSession, Pay!StorePending, Pay!SessionPaid, Pay!KeysExpire,
                 Pay!MarkFailed, Pay!walletVars
  <1>11. ASSUME NEW d \in Deliveries,
                \/ Pay!CheckPosted(d) \/ Pay!BeginPost(d) \/ Pay!PostDuplicate(d)
                \/ Pay!PostFails(d)
         PROVE  UNCHANGED <<wallet, lock>>
    BY <1>11 DEF Pay!CheckPosted, Pay!BeginPost, Pay!PostDuplicate, Pay!PostFails,
                 Pay!walletVars
  <1>12. ASSUME NEW f \in Refunders,
                \/ Pay!BeginRefund(f) \/ Pay!LockPayment(f) \/ Pay!RefuseRefund(f)
                \/ Pay!StripeAccepts(f) \/ Pay!StripeUnheard(f) \/ Pay!StripeRefuses(f)
                \/ Pay!RefundFails(f) \/ Pay!RefundUncovered(f)
         PROVE  UNCHANGED <<wallet, lock>>
    BY <1>12 DEF Pay!BeginRefund, Pay!LockPayment, Pay!RefuseRefund, Pay!StripeAccepts,
                 Pay!StripeUnheard, Pay!StripeRefuses, Pay!RefundFails, Pay!RefundUncovered,
                 Pay!Abandon, Pay!RefundOnly, Pay!walletVars
  <1>13. CASE Pay!SetRatio BY <1>5, <1>13 DEF Pay!SetRatio, Pay!walletVars
  <1>14. ASSUME NEW p \in Purchases,
                Pay!Buy(p) \/ Pay!SessionPaid(p) \/ Pay!KeysExpire(p) \/ Pay!MarkFailed(p)
         PROVE  \/ UNCHANGED <<wallet, lock>>
                \/ \E n \in Int :
                      Pay!AddPaid(n) /\ wallet.paid + n >= 0 /\ lock = None /\ lock' = lock
    BY <1>7, <1>10, <1>14 DEF Pay!Buy
  <1>15. ASSUME NEW d \in Deliveries, Pay!Deliver(d)
         PROVE  \/ UNCHANGED <<wallet, lock>>
                \/ \E n \in Int :
                      Pay!AddPaid(n) /\ wallet.paid + n >= 0 /\ lock = None /\ lock' = lock
    BY <1>8, <1>11, <1>15 DEF Pay!Deliver, Pay!PostProceeds
  <1>16. ASSUME NEW f \in Refunders, Pay!Refunding(f)
         PROVE  \/ UNCHANGED <<wallet, lock>>
                \/ \E n \in Int :
                      Pay!AddPaid(n) /\ wallet.paid + n >= 0 /\ lock = None /\ lock' = lock
    BY <1>9, <1>12, <1>16 DEF Pay!Refunding, Pay!RefundProceeds, Pay!StripeAnswers
  <1>17. QED
    BY <1>5, <1>6, <1>13, <1>14, <1>15, <1>16 DEF BuyOrRefund, Pay!PaymentStep
-----------------------------------------------------------------------------
(***************************************************************************)
(* Inference, as Promised sees it.  The invariant holds of both what keeps *)
(* requests safe on their own; nothing in it says what the wallet started  *)
(* with or which credits were bought.                                      *)
(***************************************************************************)

PromoExplained == wallet.promo = InitPromo + PromoSum

Shared ==
    /\ WalletSafe
    /\ Accounted
    /\ PromoExplained

TrafficInv == Shared /\ Mintless /\ P!TypeOK

LEMMA SpentIsSum == Spent = -PaidSum /\ Spent' = -(PaidSum')
  BY DEF Spent, PaidSum

\* What requests spent is never negative.
LEMMA SpentNatural ==
    ASSUME TypeOK, NoRequestMintsCredits
    PROVE  Spent \in Nat
  <1> DEFINE paid == [r \in Requests |-> NetPaid(r)]
             nothing == [r \in Requests |-> 0]
  <1>1. \A r \in Requests : paid[r] \in Int /\ nothing[r] = 0 /\ paid[r] <= 0
    BY NetIsSum DEF NoRequestMintsCredits
  <1>2. PaidSum = SumFunctionOnSet(paid, Requests) BY DEF PaidSum, SumFunction
  <1> HIDE DEF paid, nothing
  <1>3. SumFunctionOnSet(paid, Requests) <= SumFunctionOnSet(nothing, Requests)
    BY <1>1, SumMonotone, BillingAssumption
  <1>4. SumFunctionOnSet(nothing, Requests) = 0 BY <1>1, SumZero, BillingAssumption
  <1>5. PaidSum \in Int BY SumsInt
  <1>6. QED BY <1>2, <1>3, <1>4, <1>5, SpentIsSum

LEMMA InferMapped ==
    ASSUME WalletSafe, WalletSafe', Accounted, Mintless, Mintless', Infer
    PROVE  [P!Next]_P!vars
  <1>1. TypeOK /\ TypeOK' /\ (Untouched \/ \E r \in Requests : Posts(r))
    BY AccountedStep DEF WalletSafe, Infer
  <1>2. /\ wallet \in Credits /\ wallet' \in Credits
        /\ wallet.paid \in Int /\ wallet'.paid \in Int /\ wallet'.paid >= 0
    BY <1>1 DEF WalletSafe, TypeOK, Credits, NoOverspend
  <1>3. Spent \in Nat /\ PaidSum \in Int BY <1>1, SpentNatural, SumsInt DEF Mintless
  <1>4. Spent' \in Nat
    <2>1. (TypeOK /\ NoRequestMintsCredits => Spent \in Nat)' BY SpentNatural, PTL
    <2>2. QED BY <1>1, <2>1 DEF Mintless
  <1>5. PaidSum' = PaidSum + (wallet'.paid - wallet.paid) BY <1>1, SumsMove
  <1>6. PICK n \in Int : n = wallet.paid - wallet'.paid BY <1>2
  <1>7. Spent' = Spent + n BY <1>2, <1>3, <1>5, <1>6, SpentIsSum
  <1>8. n \in -Spent .. wallet.paid BY <1>2, <1>3, <1>4, <1>6, <1>7
  <1>9. P!AddPaid(-n)
    <2>1. wallet'.paid = wallet.paid + -n BY <1>2, <1>6
    <2>2. QED BY <2>1 DEF P!AddPaid
  <1>10. P!Spend
    BY <1>7, <1>8, <1>9
       DEF P!Spend, P!WalletFree, Infer, paymentVars, P!purchaseVars, P!stripeVars
  <1>11. QED BY <1>10 DEF P!Next

LEMMA TrafficMapped ==
    ASSUME TrafficInv, "ack" \notin Faults, [TrafficNext]_trafficVars
    PROVE  [P!Next]_P!vars
  <1>1. CASE BuyOrRefund BY <1>1, PaymentMapped
  <1>2. CASE Infer
    <2>1. [Next]_vars BY <1>2 DEF Infer
    <2>2. WalletSafe' BY <2>1, WalletSafeStep DEF TrafficInv, Shared
    <2>3. Mintless' BY <2>1, MintlessStep DEF TrafficInv, Shared
    <2>4. QED BY <1>2, <2>2, <2>3, InferMapped DEF TrafficInv, Shared
  <1>3. CASE UNCHANGED trafficVars
    <2>1. Spent' = Spent BY <1>3, SpentKept DEF trafficVars, billingVars
    <2>2. UNCHANGED P!vars
      BY <1>3, <2>1
         DEF trafficVars, paymentVars, P!vars, P!walletVars, P!payVars, P!purchaseVars,
             P!stripeVars
    <2>3. QED BY <2>2
  <1>4. QED BY <1>1, <1>2, <1>3 DEF TrafficNext

\* Purchases and refunds leave the requests what they rely on.
LEMMA PaymentKeepsShared ==
    ASSUME Shared, P!TypeOK, BuyOrRefund
    PROVE  Shared'
  <1>1. /\ TypeOK /\ ReadIsCurrent /\ HeldIsNatural /\ NoOverspend
        /\ Accounted /\ wallet.promo = InitPromo + PromoSum
    BY DEF Shared, WalletSafe, PromoExplained
  <1>2. UNCHANGED <<ledger, stage, seen, held, due, failed, captured, rows, reply>>
    BY DEF BuyOrRefund, billingVars, handlerVars
  <1>3. /\ lock' = lock
        /\ wallet' = wallet \/ lock = None
        /\ wallet' \in Credits /\ wallet'.promo = wallet.promo /\ wallet'.paid >= 0
    BY <1>1, PaymentWallet
  <1>4. TypeOK' BY <1>1, <1>2, <1>3 DEF TypeOK
  <1>5. ReadIsCurrent' BY <1>1, <1>2, <1>3, BillingAssumption DEF ReadIsCurrent
  <1>6. HeldIsNatural' /\ NoOverspend' BY <1>1, <1>2, <1>3 DEF HeldIsNatural, NoOverspend
  <1>7. Accounted'
    BY <1>1, <1>2 DEF Accounted, OnlyReserved, MovedWhole, Net, NetPaid, NetPromo
  <1>8. PromoSum' = PromoSum BY <1>2 DEF PromoSum, NetPromo
  <1>9. PromoExplained' BY <1>1, <1>3, <1>8 DEF PromoExplained
  <1>10. QED BY <1>4, <1>5, <1>6, <1>7, <1>9 DEF Shared, WalletSafe

LEMMA InferKeepsShared ==
    ASSUME Shared, [Next]_vars
    PROVE  Shared'
  <1>1. WalletSafe' BY WalletSafeStep DEF Shared
  <1>2. Accounted' /\ (Untouched \/ \E r \in Requests : Posts(r)) BY AccountedStep DEF Shared
  <1>3. TypeOK /\ TypeOK' BY <1>1 DEF Shared, WalletSafe
  <1>4. PromoSum' = PromoSum + (wallet'.promo - wallet.promo) BY <1>2, <1>3, SumsMove
  <1>5. /\ wallet.promo \in Int /\ wallet'.promo \in Int /\ PromoSum \in Int /\ InitPromo \in Int
    BY <1>3, SumsInt, BillingAssumption DEF TypeOK, Credits
  <1>6. wallet'.promo = InitPromo + PromoSum' BY <1>4, <1>5 DEF Shared, PromoExplained
  <1>7. QED BY <1>1, <1>2, <1>6 DEF Shared, PromoExplained

LEMMA TrafficInvStep ==
    ASSUME TrafficInv, "ack" \notin Faults, [TrafficNext]_trafficVars
    PROVE  TrafficInv'
  <1>1. P!TypeOK'
    BY TrafficMapped, PaymentsAssumed, P!PaymentsTypeStep DEF TrafficInv
  <1>2. CASE BuyOrRefund
    <2>1. Shared' BY <1>2, PaymentKeepsShared DEF TrafficInv
    <2>2. ledger' = ledger /\ stage' = stage /\ held' = held
      BY <1>2 DEF BuyOrRefund, billingVars, handlerVars
    <2>3. Mintless'
      BY <2>2 DEF TrafficInv, Mintless, NoRequestMintsCredits, UnwindsReserved, OnlyReserved,
                  NetPaid, NetPromo
    <2>4. QED BY <1>1, <2>1, <2>3 DEF TrafficInv
  <1>3. CASE Infer \/ UNCHANGED trafficVars
    <2>1. [Next]_vars
      BY <1>3 DEF Infer, trafficVars, billingVars, vars
    <2>2. Shared' BY <2>1, InferKeepsShared DEF TrafficInv
    <2>3. Mintless' BY <2>1, MintlessStep DEF TrafficInv, Shared
    <2>4. QED BY <1>1, <2>2, <2>3 DEF TrafficInv
  <1>4. QED BY <1>2, <1>3 DEF TrafficNext

LEMMA TrafficInitMapped ==
    ASSUME TrafficInit
    PROVE  P!Init
  <1>1. Pay!Init /\ wallet = [paid |-> InitPaid, promo |-> InitPromo]
    BY DEF TrafficInit, Init
  <1>2. QED
    BY <1>1 DEF Pay!Init, P!Init, Pay!NoHook, P!NoHook, Pay!NoRefund, P!NoRefund

LEMMA TrafficInvInit ==
    ASSUME TrafficInit
    PROVE  TrafficInv
  <1>1. Init BY DEF TrafficInit
  <1>2. P!TypeOK BY TrafficInitMapped, PaymentsAssumed, P!PaymentsTypeInit
  <1>3. wallet.promo = InitPromo + PromoSum
    BY <1>1, ExplainedInit DEF LedgerExplainsWallet, PromoSum
  <1>4. QED
    BY <1>1, <1>2, <1>3, WalletSafeInit, AccountedInit, MintlessInit
       DEF TrafficInv, Shared, PromoExplained

LEMMA AlwaysTrafficInv ==
    ASSUME "ack" \notin Faults
    PROVE  TrafficSpec => []TrafficInv
  <1>1. TrafficInit => TrafficInv BY TrafficInvInit
  <1>2. TrafficInv /\ [TrafficNext]_trafficVars => TrafficInv' BY TrafficInvStep
  <1>3. QED BY <1>1, <1>2, PTL DEF TrafficSpec

LEMMA TrafficRefines ==
    ASSUME "ack" \notin Faults
    PROVE  TrafficSpec => P!Spec
  <1>1. TrafficInit => P!Init BY TrafficInitMapped
  <1>2. TrafficInv /\ [TrafficNext]_trafficVars => [P!Next]_P!vars BY TrafficMapped
  <1>3. QED BY <1>1, <1>2, AlwaysTrafficInv, PTL DEF TrafficSpec, P!Spec

\* What Payments assumes of inference is what inference does: seen from purchases and
\* refunds, any number of requests only take paid credits that are there and give back
\* no more than they took, whatever fails but an acknowledgement.
THEOREM InferenceOnlySpends ==
    ASSUME "ack" \notin Faults
    PROVE  TrafficSpec => InferenceIsSpending
  BY TrafficRefines, SameSpec DEF InferenceIsSpending

\* Requests, purchases and refunds together overdraw neither kind of credits, however they
\* interleave on the row and whatever fails but an acknowledgement.
THEOREM NeverOverspentTogether ==
    ASSUME "ack" \notin Faults
    PROVE  TrafficSpec => []NoOverspend
  <1>1. TrafficInv => NoOverspend BY DEF TrafficInv, Shared, WalletSafe
  <1>2. QED BY <1>1, AlwaysTrafficInv, PTL

\* With any number of requests, purchases, deliveries and refunds on one wallet, all ledger
\* rows together explain both kinds of its credits, and its paid credits are not negative.
THEOREM WholeLedgerAlwaysExplains ==
    ASSUME "ack" \notin Faults
    PROVE  TrafficSpec => []WholeLedgerExplainsWallet
  <1>1. P!Spec => []P!LedgerExplainsPaid BY PaymentsAssumed, P!LedgerAlwaysExplainsPaid
  <1>2. TrafficInv /\ P!LedgerExplainsPaid => WholeLedgerExplainsWallet
    BY SameLedger DEF TrafficInv, Shared, PromoExplained, PromoSum, WholeLedgerExplainsWallet
  <1>3. QED BY <1>1, <1>2, AlwaysTrafficInv, TrafficRefines, PTL
=============================================================================
