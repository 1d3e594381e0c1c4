--------------------------- MODULE PaymentsProofs ---------------------------
(***************************************************************************)
(* Proofs about Payments for any number of purchases, webhook deliveries   *)
(* and concurrent refunds, any amounts and ratios, and any interleaving    *)
(* with lost answers, retries and expired idempotency keys: refunds never  *)
(* run ahead of Stripe, purchases are granted once, and the ledger rows    *)
(* account for the wallet and for every payment.                           *)
(***************************************************************************)
EXTENDS Payments, SumProofs

-----------------------------------------------------------------------------
(* Types *)

\* What cents buy is a natural number of credits, all they are worth or one less.
LEMMA CreditsNatural ==
    ASSUME NEW cents \in Nat, NEW r \in Nat
    PROVE  /\ CreditsFor(cents, r) \in Nat /\ Worth(cents, r) \in Nat
           /\ Worth(cents, r) - 1 <= CreditsFor(cents, r)
           /\ CreditsFor(cents, r) <= Worth(cents, r)
  <1>1. PICK n \in Nat : n = cents * r OBVIOUS
  <1>2. Worth(cents, r) = n \div 100 BY <1>1 DEF Worth
  <1>3. n \div 100 \in Nat OBVIOUS
  <1>4. CASE <<cents, r>> \in RoundedLow
    <2>1. n > 0 /\ n % 100 = 0 BY <1>1, <1>4, PaymentsAssumption
    <2>2. n \div 100 >= 1 BY <2>1
    <2>3. CreditsFor(cents, r) = n \div 100 - 1 BY <1>2, <1>4 DEF CreditsFor
    <2>4. QED BY <1>2, <1>3, <2>2, <2>3
  <1>5. CASE <<cents, r>> \notin RoundedLow
    <2>1. CreditsFor(cents, r) = n \div 100 BY <1>2, <1>5 DEF CreditsFor
    <2>2. QED BY <1>2, <1>3, <2>1
  <1>6. QED BY <1>4, <1>5

LEMMA PaymentsTypeInit == Init => TypeOK
  BY PaymentsAssumption
     DEF Init, TypeOK, Hooks, Refunds

LEMMA RatioNatural == TypeOK => ratio \in Nat
  BY PaymentsAssumption DEF TypeOK

LEMMA MockPurchaseType ==
    ASSUME TypeOK, NEW p \in Purchases, MockPurchase(p)
    PROVE  TypeOK'
  <1>1. PICK cents \in Amounts :
            /\ Offer(p, cents)
            /\ posted' = [posted EXCEPT ![p] = CreditsFor(cents, ratio)]
            /\ AddPaid(CreditsFor(cents, ratio))
    BY DEF MockPurchase
  <1>2. cents \in Nat /\ CreditsFor(cents, ratio) \in Nat
    BY PaymentsAssumption, CreditsNatural, RatioNatural
  <1>3. QED
    BY <1>1, <1>2 DEF TypeOK, MockPurchase, Offer, AddPaid, stripeVars

LEMMA BuyType ==
    ASSUME TypeOK, NEW p \in Purchases, Buy(p)
    PROVE  TypeOK'
  <1>1. CASE MockPurchase(p) BY <1>1, MockPurchaseType
  <1>2. CASE CreateSession(p)
    <2>1. PICK cents \in Amounts : Offer(p, cents) BY <1>2 DEF CreateSession
    <2>2. cents \in Nat /\ CreditsFor(cents, ratio) \in Nat
      BY PaymentsAssumption, CreditsNatural, RatioNatural
    <2>3. QED BY <1>2, <2>1, <2>2 DEF TypeOK, CreateSession, Offer, walletVars
  <1>3. CASE StorePending(p)
    BY <1>3 DEF TypeOK, StorePending, walletVars, stripeVars
  <1>4. QED BY <1>1, <1>2, <1>3 DEF Buy

LEMMA SessionType ==
    ASSUME TypeOK, NEW p \in Purchases, SessionPaid(p) \/ KeysExpire(p) \/ MarkFailed(p)
    PROVE  TypeOK'
  <1> USE DEF walletVars, stripeVars, purchaseVars
  <1>1. CASE SessionPaid(p) BY <1>1 DEF TypeOK, SessionPaid
  <1>2. CASE KeysExpire(p) BY <1>2 DEF TypeOK, KeysExpire
  <1>3. CASE MarkFailed(p) BY <1>3 DEF TypeOK, MarkFailed, FailPending
  <1>4. QED BY <1>1, <1>2, <1>3

LEMMA DeliverType ==
    ASSUME TypeOK, NEW d \in Deliveries, Deliver(d)
    PROVE  TypeOK'
  <1> USE DEF walletVars, stripeVars, purchaseVars, Hooks, NoHook
  <1>1. CASE CheckPosted(d) BY <1>1 DEF TypeOK, CheckPosted
  <1>2. CASE BeginPost(d) BY <1>2 DEF TypeOK, BeginPost
  <1>3. CASE PostCommit(d)
    <2> DEFINE p == hook[d].of
    <2>1. /\ purchase' = [purchase EXCEPT ![p] = "posted"]
          /\ payment' = [payment EXCEPT ![p] = IF paymentId[p] = "session" THEN "succeeded" ELSE @]
          /\ paymentId' = [paymentId EXCEPT ![p] = IF @ = "session" THEN "intent" ELSE @]
          /\ posted' = [posted EXCEPT ![p] = @ + grant[p]]
          /\ wallet' = [wallet EXCEPT !.paid = @ + grant[p]]
          /\ hook' = [hook EXCEPT ![d] = NoHook]
          /\ UNCHANGED <<lock, spent, ratio, amount, grant, refunded, reversals, payLock,
                         stripeVars, refund>>
      BY <1>3 DEF PostCommit, PostPurchase, AddPaid
    <2>2. p \in Purchases BY <1>3 DEF PostCommit, TypeOK
    <2>3. QED BY <2>1, <2>2 DEF TypeOK
  <1>4. CASE PostDuplicate(d) BY <1>4 DEF TypeOK, PostDuplicate
  <1>5. CASE PostFails(d) BY <1>5 DEF TypeOK, PostFails
  <1>6. QED BY <1>1, <1>2, <1>3, <1>4, <1>5 DEF Deliver, PostProceeds

LEMMA AbandonType ==
    ASSUME TypeOK, NEW f \in Refunders, Abandon(f)
    PROVE  /\ refund' \in [Refunders -> Refunds]
           /\ payLock' \in [Purchases -> Refunders \cup {None}]
  BY DEF TypeOK, Abandon, Refunds

LEMMA StripeRefundsType ==
    ASSUME TypeOK, NEW f \in Refunders, StripeRefunds(f)
    PROVE  /\ returned' \in [Purchases -> Nat]
           /\ keys' \in [Purchases -> SUBSET Keys]
           /\ session' = session
  <1>1. /\ refund[f].of \in Purchases
        /\ refund[f].cents \in Nat /\ refund[f].before \in Nat
    BY DEF StripeRefunds, TypeOK, Refunds, NoRefund
  <1>2. RefundKey(f) \in Keys BY <1>1 DEF RefundKey, Keys
  <1>3. QED BY <1>1, <1>2 DEF TypeOK, StripeRefunds

LEMMA RefundingType ==
    ASSUME TypeOK, NEW f \in Refunders, Refunding(f)
    PROVE  TypeOK'
  <1> USE DEF walletVars, stripeVars, purchaseVars, RefundOnly
  <1>a. ASSUME Abandon(f), UNCHANGED stripeVars PROVE TypeOK'
    <2>1. /\ refund' \in [Refunders -> Refunds]
          /\ payLock' \in [Purchases -> Refunders \cup {None}]
      BY <1>a, AbandonType
    <2>2. QED BY <1>a, <2>1 DEF TypeOK, Abandon
  <1>1. CASE BeginRefund(f)
    BY <1>1, PaymentsAssumption DEF TypeOK, BeginRefund, Refunds
  <1>2. CASE LockPayment(f)
    <2>1. refund[f].of \in Purchases BY <1>2 DEF LockPayment, TypeOK, Refunds, NoRefund
    <2>2. QED BY <1>2, <2>1 DEF TypeOK, LockPayment, Refunds, NoRefund
  <1>3. CASE RefuseRefund(f) BY <1>3 DEF TypeOK, RefuseRefund, Refunds
  <1>4. CASE StripeAccepts(f)
    <2>1. /\ returned' \in [Purchases -> Nat] /\ keys' \in [Purchases -> SUBSET Keys]
          /\ session' = session
      BY <1>4, StripeRefundsType DEF StripeAccepts
    <2>2. refund[f].at = "calling" BY <1>4 DEF StripeAccepts, StripeRefunds
    <2>3. refund' \in [Refunders -> Refunds]
      BY <1>4, <2>2 DEF StripeAccepts, TypeOK, Refunds, NoRefund
    <2>4. QED BY <1>4, <2>1, <2>3 DEF TypeOK, StripeAccepts
  <1>5. CASE StripeUnheard(f)
    <2>1. /\ returned' \in [Purchases -> Nat] /\ keys' \in [Purchases -> SUBSET Keys]
          /\ session' = session
      BY <1>5, StripeRefundsType DEF StripeUnheard
    <2>2. /\ refund' \in [Refunders -> Refunds]
          /\ payLock' \in [Purchases -> Refunders \cup {None}]
      BY <1>5, AbandonType DEF StripeUnheard
    <2>3. QED BY <1>5, <2>1, <2>2 DEF TypeOK, StripeUnheard, Abandon
  <1>6. CASE StripeRefuses(f) BY <1>6, <1>a DEF StripeRefuses
  <1>7. CASE RefundFails(f) BY <1>7, <1>a DEF RefundFails
  <1>8. CASE RefundUncovered(f) BY <1>8, <1>a DEF RefundUncovered
  <1>9. CASE SettleRefund(f)
    <2> DEFINE p == refund[f].of
               credits == TakenBack(f)
               total == refund[f].before + refund[f].cents
    <2>1. p \in Purchases /\ refund[f].cents \in Nat /\ refund[f].before \in Nat
      BY <1>9 DEF SettleRefund, TypeOK, Refunds, NoRefund
    <2>r. ratio \in Nat BY RatioNatural
    <2>c. credits \in Nat BY <2>1, <2>r, CreditsNatural DEF TakenBack
    <2>t. total \in Nat BY <2>1
    <2>2. credits \in Nat /\ total \in Nat BY <2>c, <2>t
    <2>3. /\ wallet' = [wallet EXCEPT !.paid = @ + -credits]
          /\ refunded' = [refunded EXCEPT ![p] = total]
          /\ payment' = [payment EXCEPT ![p] =
                IF total = amount[p] THEN "refunded" ELSE "partially_refunded"]
          /\ reversals' = [reversals EXCEPT ![p] = @ \cup
                {[before |-> refund[f].before, cents |-> refund[f].cents, credits |-> credits]}]
          /\ refund' = [refund EXCEPT ![f] = NoRefund]
          /\ payLock' = [payLock EXCEPT ![p] = None]
          /\ UNCHANGED <<lock, spent, ratio, amount, grant, purchase, paymentId, posted,
                         stripeVars, hook>>
      BY <1>9 DEF SettleRefund, AddPaid
    <2>4. [before |-> refund[f].before, cents |-> refund[f].cents, credits |-> credits] \in Reversals
      BY <2>1, <2>2 DEF Reversals
    <2> HIDE DEF p, credits, total
    <2>5. reversals' \in [Purchases -> SUBSET Reversals]
      BY <2>1, <2>3, <2>4 DEF TypeOK
    <2>6. QED BY <2>1, <2>2, <2>3, <2>5 DEF TypeOK, Refunds
  <1>10. QED
    BY <1>1, <1>2, <1>3, <1>4, <1>5, <1>6, <1>7, <1>8, <1>9 DEF Refunding, RefundProceeds, StripeAnswers

LEMMA PaymentsTypeStep == TypeOK /\ [Next]_vars => TypeOK'
  <1> SUFFICES ASSUME TypeOK, [Next]_vars PROVE TypeOK'
    OBVIOUS
  <1> USE DEF walletVars, stripeVars, purchaseVars
  <1>1. CASE Spend BY <1>1 DEF TypeOK, Spend, AddPaid
  <1>2. CASE SetRatio BY <1>2 DEF TypeOK, SetRatio
  <1>3. ASSUME NEW p \in Purchases, Buy(p) PROVE TypeOK' BY <1>3, BuyType
  <1>4. ASSUME NEW p \in Purchases, SessionPaid(p) \/ KeysExpire(p) \/ MarkFailed(p)
        PROVE  TypeOK'
    BY <1>4, SessionType
  <1>5. ASSUME NEW d \in Deliveries, Deliver(d) PROVE TypeOK' BY <1>5, DeliverType
  <1>6. ASSUME NEW f \in Refunders, Refunding(f) PROVE TypeOK' BY <1>6, RefundingType
  <1>7. CASE UNCHANGED vars BY <1>7 DEF TypeOK, vars, payVars
  <1>8. QED BY <1>1, <1>2, <1>3, <1>4, <1>5, <1>6, <1>7 DEF Next, PaymentStep

\* Every variable keeps its type.
THEOREM PaymentsTypeCorrect == Spec => []TypeOK
  BY PaymentsTypeInit, PaymentsTypeStep, PTL DEF Spec

-----------------------------------------------------------------------------
(***************************************************************************)
(* The inductive invariant.  From the moment a refund has locked the       *)
(* payment row until its transaction ends, the refunded cents it has read  *)
(* are the row's; what Stripe accepted under a key covers everything up to *)
(* that refund, so a key that is known again is no less than a new refund. *)
(***************************************************************************)
LockedIsCurrent ==
    \A f \in Refunders :
        refund[f].at \in {"calling", "settling"} =>
            /\ payLock[refund[f].of] = f
            /\ refund[f].before = refunded[refund[f].of]
            /\ refund[f].at = "calling" => refund[f].of \in Stripe

KeysAreCovered ==
    \A p \in Stripe : \A k \in keys[p] : k.before + k.cents <= returned[p]

SettlingIsCovered ==
    \A f \in Refunders :
        refund[f].at = "settling" /\ refund[f].of \in Stripe =>
            refund[f].before + refund[f].cents <= returned[refund[f].of]

Covered ==
    TypeOK /\ LockedIsCurrent /\ KeysAreCovered /\ SettlingIsCovered /\ NeverAheadOfStripe

LEMMA CoveredInit == Init => Covered
  <1> SUFFICES ASSUME Init PROVE Covered
    OBVIOUS
  <1>1. TypeOK BY PaymentsTypeInit
  <1>2. LockedIsCurrent /\ SettlingIsCovered
    BY DEF Init, LockedIsCurrent, SettlingIsCovered, NoRefund
  <1>3. KeysAreCovered /\ NeverAheadOfStripe
    BY PaymentsAssumption DEF Init, KeysAreCovered, NeverAheadOfStripe
  <1>4. QED BY <1>1, <1>2, <1>3 DEF Covered

\* A step that moves no refund, no payment lock and nothing at Stripe but sessions.
LEMMA CoveredElsewhere ==
    ASSUME Covered, TypeOK', UNCHANGED <<refund, payLock, refunded, returned>>,
           \A p \in Stripe : keys'[p] \subseteq keys[p]
    PROVE  Covered'
  BY DEF Covered, LockedIsCurrent, KeysAreCovered, SettlingIsCovered, NeverAheadOfStripe

\* A refund that ends without settling releases its lock; Stripe may have returned more.
LEMMA CoveredAbandon ==
    ASSUME Covered, TypeOK', NEW f \in Refunders, Abandon(f),
           \A p \in Stripe : returned[p] <= returned'[p],
           KeysAreCovered'
    PROVE  Covered'
  <1> USE PaymentsAssumption
  <1>1. \A g \in Refunders : g # f => refund'[g] = refund[g]
    BY DEF Covered, TypeOK, Abandon
  <1>2. refund'[f].at = "idle" BY DEF Covered, TypeOK, Abandon, NoRefund
  <1>3. refunded' = refunded BY DEF Abandon, RefundOnly, purchaseVars
  <1>4. \A g \in Refunders : refund[g].at # "idle" => refund[g].of \in Purchases
    BY DEF Covered, TypeOK, Refunds, NoRefund
  <1>5. LockedIsCurrent'
    BY <1>1, <1>2, <1>3, <1>4 DEF Covered, LockedIsCurrent, Abandon
  <1>6. \A p \in Stripe : returned[p] \in Nat /\ returned'[p] \in Nat /\ refunded[p] \in Nat
    BY DEF Covered, TypeOK
  <1>7. NeverAheadOfStripe'
    BY <1>3, <1>6 DEF Covered, NeverAheadOfStripe
  <1>8. SettlingIsCovered'
    <2> SUFFICES ASSUME NEW g \in Refunders, refund'[g].at = "settling", refund'[g].of \in Stripe
                 PROVE  refund'[g].before + refund'[g].cents <= returned'[refund'[g].of]
      BY DEF SettlingIsCovered
    <2>1. refund'[g] = refund[g] BY <1>1, <1>2
    <2>2. refund[g].before + refund[g].cents <= returned[refund[g].of]
      BY <2>1 DEF Covered, SettlingIsCovered
    <2>3. refund[g].before \in Nat /\ refund[g].cents \in Nat
      BY <2>1 DEF Covered, TypeOK, Refunds, NoRefund
    <2>4. QED BY <1>6, <2>1, <2>2, <2>3
  <1>9. QED BY <1>5, <1>7, <1>8 DEF Covered

\* What Stripe accepts covers the refund it is asked for, and keeps all keys covered.
LEMMA StripeCovers ==
    ASSUME Covered, NEW f \in Refunders, StripeRefunds(f), refund[f].of \in Stripe
    PROVE  /\ \A p \in Stripe : returned[p] <= returned'[p]
           /\ refund[f].before + refund[f].cents <= returned'[refund[f].of]
           /\ KeysAreCovered'
  <1> USE PaymentsAssumption
  <1> DEFINE p == refund[f].of
  <1>0. /\ p \in Stripe /\ p \in Purchases
        /\ refund[f].cents \in Nat /\ refund[f].before \in Nat
        /\ \A q \in Purchases : returned[q] \in Nat /\ refunded[q] \in Nat
        /\ \A q \in Purchases : \A k \in keys[q] : k.before \in Nat /\ k.cents \in Nat
    BY DEF StripeRefunds, Covered, TypeOK, Refunds, NoRefund, Keys
  <1>1. refund[f].before = refunded[p] /\ refunded[p] <= returned[p]
    BY <1>0 DEF StripeRefunds, Covered, LockedIsCurrent, NeverAheadOfStripe
  <1>2. keys' = [keys EXCEPT ![p] = @ \cup {RefundKey(f)}]
    BY DEF StripeRefunds
  <1>3. CASE RefundKey(f) \in keys[p]
    <2>1. returned' = returned BY <1>3 DEF StripeRefunds
    <2>2. refund[f].before + refund[f].cents <= returned[p]
      BY <1>0, <1>3 DEF Covered, KeysAreCovered, RefundKey
    <2>a. keys[p] \cup {RefundKey(f)} = keys[p] BY <1>3
    <2>3. \A q \in Stripe : keys'[q] = keys[q]
      BY <1>0, <1>2, <2>a DEF Covered, TypeOK
    <2>4. KeysAreCovered' BY <2>1, <2>3 DEF Covered, KeysAreCovered
    <2>5. QED BY <1>0, <2>1, <2>2, <2>4
  <1>4. CASE RefundKey(f) \notin keys[p]
    <2>1. returned' = [returned EXCEPT ![p] = @ + refund[f].cents]
      BY <1>4 DEF StripeRefunds
    <2>2. /\ returned'[p] = returned[p] + refund[f].cents
          /\ \A q \in Purchases : q # p => returned'[q] = returned[q]
      BY <1>0, <2>1 DEF Covered, TypeOK
    <2>3. \A q \in Stripe : returned[q] <= returned'[q]
      BY <1>0, <2>2
    <2>4. refund[f].before + refund[f].cents <= returned'[p]
      BY <1>0, <1>1, <2>2
    <2>5. KeysAreCovered'
      <3> SUFFICES ASSUME NEW q \in Stripe, NEW k \in keys'[q]
                   PROVE  k.before + k.cents <= returned'[q]
        BY DEF KeysAreCovered
      <3>1. CASE k \in keys[q]
        <4>1. k.before + k.cents <= returned[q] BY <3>1 DEF Covered, KeysAreCovered
        <4>2. k.before \in Nat /\ k.cents \in Nat BY <1>0, <3>1
        <4>3. returned'[q] \in Nat BY <1>0, <2>2
        <4>4. QED BY <1>0, <2>3, <4>1, <4>2, <4>3
      <3>2. CASE k \notin keys[q]
        <4>1. q = p /\ k = RefundKey(f) BY <1>0, <1>2, <3>2 DEF Covered, TypeOK
        <4>2. QED BY <2>4, <4>1 DEF RefundKey
      <3>3. QED BY <3>1, <3>2
    <2>6. QED BY <2>3, <2>4, <2>5
  <1>5. QED BY <1>3, <1>4

LEMMA CoveredBegin ==
    ASSUME Covered, TypeOK', NEW f \in Refunders, BeginRefund(f) \/ RefuseRefund(f)
    PROVE  Covered'
  <1> USE DEF BeginRefund, RefuseRefund, RefundOnly, purchaseVars, stripeVars
  <1>1. UNCHANGED <<payLock, refunded, returned, keys>>
    OBVIOUS
  <1>2. \A g \in Refunders : g # f => refund'[g] = refund[g]
    BY DEF Covered, TypeOK
  <1>3. refund'[f].at \in {"idle", "begun"}
    BY DEF Covered, TypeOK, NoRefund
  <1> HIDE DEF BeginRefund, RefuseRefund, RefundOnly, purchaseVars, stripeVars
  <1>4. LockedIsCurrent'
    BY <1>1, <1>2, <1>3 DEF Covered, LockedIsCurrent
  <1>5. SettlingIsCovered'
    BY <1>1, <1>2, <1>3 DEF Covered, SettlingIsCovered
  <1>6. KeysAreCovered' /\ NeverAheadOfStripe'
    BY <1>1 DEF Covered, KeysAreCovered, NeverAheadOfStripe
  <1>7. QED BY <1>4, <1>5, <1>6 DEF Covered

\* No other refund is past the lock that f takes.
LEMMA CoveredLock ==
    ASSUME Covered, TypeOK', NEW f \in Refunders, LockPayment(f)
    PROVE  Covered'
  <1> DEFINE p == refund[f].of
  <1> USE PaymentsAssumption
  <1>1. p \in Purchases
    BY DEF LockPayment, Covered, TypeOK, Refunds, NoRefund
  <1>2. /\ payLock[p] = None
        /\ payLock' = [payLock EXCEPT ![p] = f]
        /\ refund' = [refund EXCEPT ![f].before = refunded[p],
                                    ![f].at = IF p \in Stripe THEN "calling" ELSE "settling"]
        /\ UNCHANGED <<refunded, returned, keys>>
    BY DEF LockPayment, RefundOnly, purchaseVars, stripeVars
  <1>3. \A g \in Refunders : g # f => refund'[g] = refund[g]
    BY <1>2 DEF Covered, TypeOK
  <1>4. /\ refund'[f].of = p
        /\ refund'[f].before = refunded[p]
        /\ refund'[f].at = IF p \in Stripe THEN "calling" ELSE "settling"
    BY <1>2 DEF LockPayment, Covered, TypeOK, Refunds, NoRefund
  <1> HIDE DEF p
  <1>5. LockedIsCurrent'
    <2> SUFFICES ASSUME NEW g \in Refunders, refund'[g].at \in {"calling", "settling"}
                 PROVE  /\ payLock'[refund'[g].of] = g
                        /\ refund'[g].before = refunded'[refund'[g].of]
                        /\ refund'[g].at = "calling" => refund'[g].of \in Stripe
      BY DEF LockedIsCurrent
    <2>1. CASE g = f
      BY <1>1, <1>2, <1>4, <2>1 DEF Covered, TypeOK
    <2>2. CASE g # f
      <3>1. refund'[g] = refund[g] BY <1>3, <2>2
      <3>2. /\ payLock[refund[g].of] = g
            /\ refund[g].before = refunded[refund[g].of]
            /\ refund[g].at = "calling" => refund[g].of \in Stripe
        BY <3>1 DEF Covered, LockedIsCurrent
      <3>3. refund[g].of # p BY <1>2, <3>2
      <3>4. payLock'[refund[g].of] = payLock[refund[g].of]
        BY <1>2, <3>1, <3>3 DEF Covered, TypeOK, Refunds, NoRefund
      <3>5. QED BY <1>2, <3>1, <3>2, <3>4
    <2>3. QED BY <2>1, <2>2
  <1>6. SettlingIsCovered'
    <2> SUFFICES ASSUME NEW g \in Refunders, refund'[g].at = "settling", refund'[g].of \in Stripe
                 PROVE  refund'[g].before + refund'[g].cents <= returned'[refund'[g].of]
      BY DEF SettlingIsCovered
    <2>1. g # f BY <1>4
    <2>2. refund'[g] = refund[g] BY <1>3, <2>1
    <2>3. QED BY <1>2, <2>2 DEF Covered, SettlingIsCovered
  <1>7. KeysAreCovered' /\ NeverAheadOfStripe'
    BY <1>2 DEF Covered, KeysAreCovered, NeverAheadOfStripe
  <1>8. QED BY <1>5, <1>6, <1>7 DEF Covered

LEMMA CoveredAccept ==
    ASSUME Covered, TypeOK', NEW f \in Refunders, StripeAccepts(f)
    PROVE  Covered'
  <1> USE PaymentsAssumption
  <1>1. refund[f].at = "calling" /\ StripeRefunds(f)
    BY DEF StripeAccepts, StripeRefunds
  <1>2. refund[f].of \in Stripe
    BY <1>1 DEF Covered, LockedIsCurrent
  <1>3. /\ \A q \in Stripe : returned[q] <= returned'[q]
        /\ refund[f].before + refund[f].cents <= returned'[refund[f].of]
        /\ KeysAreCovered'
    BY <1>1, <1>2, StripeCovers
  <1>4. /\ \A g \in Refunders : g # f => refund'[g] = refund[g]
        /\ refund'[f].of = refund[f].of /\ refund'[f].at = "settling"
        /\ refund'[f].before = refund[f].before /\ refund'[f].cents = refund[f].cents
        /\ UNCHANGED <<payLock, refunded>>
    BY <1>1 DEF StripeAccepts, RefundOnly, purchaseVars, Covered, TypeOK, Refunds, NoRefund
  <1>5. LockedIsCurrent'
    BY <1>1, <1>4 DEF Covered, LockedIsCurrent
  <1>6. \A q \in Stripe : returned[q] \in Nat /\ returned'[q] \in Nat /\ refunded[q] \in Nat
    BY DEF Covered, TypeOK
  <1>7. NeverAheadOfStripe'
    BY <1>3, <1>4, <1>6 DEF Covered, NeverAheadOfStripe
  <1>8. SettlingIsCovered'
    <2> SUFFICES ASSUME NEW g \in Refunders, refund'[g].at = "settling", refund'[g].of \in Stripe
                 PROVE  refund'[g].before + refund'[g].cents <= returned'[refund'[g].of]
      BY DEF SettlingIsCovered
    <2>1. CASE g = f BY <1>3, <1>4, <2>1
    <2>2. CASE g # f
      <3>1. refund'[g] = refund[g] BY <1>4, <2>2
      <3>2. refund[g].before + refund[g].cents <= returned[refund[g].of]
        BY <3>1 DEF Covered, SettlingIsCovered
      <3>3. refund[g].before \in Nat /\ refund[g].cents \in Nat
        BY <3>1 DEF Covered, TypeOK, Refunds, NoRefund
      <3>4. QED BY <1>3, <1>6, <3>1, <3>2, <3>3
    <2>3. QED BY <2>1, <2>2
  <1>9. QED BY <1>3, <1>5, <1>7, <1>8 DEF Covered

\* Only f holds the row it settles, and Stripe has covered what it adds.
LEMMA CoveredSettle ==
    ASSUME Covered, TypeOK', NEW f \in Refunders, SettleRefund(f)
    PROVE  Covered'
  <1> DEFINE p == refund[f].of
             total == refund[f].before + refund[f].cents
  <1> USE PaymentsAssumption
  <1>1. /\ refund[f].at = "settling"
        /\ refunded' = [refunded EXCEPT ![p] = total]
        /\ refund' = [refund EXCEPT ![f] = NoRefund]
        /\ payLock' = [payLock EXCEPT ![p] = None]
        /\ UNCHANGED <<returned, keys>>
    BY DEF SettleRefund, stripeVars
  <1>2. p \in Purchases /\ payLock[p] = f
    BY <1>1 DEF Covered, TypeOK, Refunds, NoRefund, LockedIsCurrent
  <1>3. p \in Stripe => total <= returned[p]
    BY <1>1 DEF Covered, SettlingIsCovered
  <1> HIDE DEF p, total
  <1>4. /\ \A g \in Refunders : g # f => refund'[g] = refund[g]
        /\ refund'[f].at = "idle"
    BY <1>1 DEF Covered, TypeOK, NoRefund
  <1>5. /\ refunded'[p] = total
        /\ \A q \in Purchases : q # p => refunded'[q] = refunded[q] /\ payLock'[q] = payLock[q]
    BY <1>1, <1>2 DEF Covered, TypeOK
  <1>6. LockedIsCurrent'
    <2> SUFFICES ASSUME NEW g \in Refunders, refund'[g].at \in {"calling", "settling"}
                 PROVE  /\ payLock'[refund'[g].of] = g
                        /\ refund'[g].before = refunded'[refund'[g].of]
                        /\ refund'[g].at = "calling" => refund'[g].of \in Stripe
      BY DEF LockedIsCurrent
    <2>1. g # f /\ refund'[g] = refund[g] BY <1>4
    <2>2. /\ payLock[refund[g].of] = g
          /\ refund[g].before = refunded[refund[g].of]
          /\ refund[g].at = "calling" => refund[g].of \in Stripe
      BY <2>1 DEF Covered, LockedIsCurrent
    <2>3. refund[g].of # p BY <1>2, <2>1, <2>2
    <2>4. refund[g].of \in Purchases
      BY <2>1 DEF Covered, TypeOK, Refunds, NoRefund
    <2>5. QED BY <1>5, <2>1, <2>2, <2>3, <2>4
  <1>7. SettlingIsCovered'
    BY <1>1, <1>4 DEF Covered, SettlingIsCovered
  <1>8. KeysAreCovered'
    BY <1>1 DEF Covered, KeysAreCovered
  <1>9. NeverAheadOfStripe'
    BY <1>1, <1>3, <1>5 DEF Covered, NeverAheadOfStripe
  <1>10. QED BY <1>6, <1>7, <1>8, <1>9 DEF Covered

LEMMA CoveredStep == Covered /\ [Next]_vars => Covered'
  <1> SUFFICES ASSUME Covered, [Next]_vars PROVE Covered'
    OBVIOUS
  <1> USE DEF walletVars, stripeVars, purchaseVars
  <1>t. TypeOK' BY PaymentsTypeStep DEF Covered
  <1>e. ASSUME UNCHANGED <<refund, payLock, refunded, returned>>,
               \A p \in Stripe : keys'[p] \subseteq keys[p]
        PROVE  Covered'
    BY <1>e, <1>t, CoveredElsewhere
  <1>1. CASE Spend \/ SetRatio BY <1>1, <1>e DEF Spend, SetRatio
  <1>2. ASSUME NEW p \in Purchases, Buy(p) PROVE Covered'
    BY <1>2, <1>e DEF Buy, MockPurchase, CreateSession, StorePending
  <1>3. ASSUME NEW p \in Purchases, SessionPaid(p) \/ MarkFailed(p) PROVE Covered'
    BY <1>3, <1>e DEF SessionPaid, MarkFailed
  <1>4. ASSUME NEW p \in Purchases, KeysExpire(p) PROVE Covered'
    <2>1. keys' = [keys EXCEPT ![p] = {}] BY <1>4 DEF KeysExpire
    <2>2. \A q \in Stripe : keys'[q] \subseteq keys[q]
      BY <2>1, PaymentsAssumption DEF Covered, TypeOK
    <2>3. QED BY <1>4, <1>e, <2>2 DEF KeysExpire
  <1>5. ASSUME NEW d \in Deliveries, Deliver(d) PROVE Covered'
    BY <1>5, <1>e
       DEF Deliver, PostProceeds, CheckPosted, BeginPost, PostCommit, PostPurchase,
           PostDuplicate, PostFails
  <1>6. ASSUME NEW f \in Refunders, Refunding(f) PROVE Covered'
    <2>a. ASSUME Abandon(f), UNCHANGED stripeVars PROVE Covered'
      <3>1. \A p \in Stripe : returned[p] <= returned'[p]
        BY <2>a, PaymentsAssumption DEF Covered, TypeOK
      <3>2. KeysAreCovered' BY <2>a DEF Covered, KeysAreCovered
      <3>3. QED BY <1>t, <2>a, <3>1, <3>2, CoveredAbandon
    <2>1. CASE BeginRefund(f) \/ RefuseRefund(f) BY <1>t, <2>1, CoveredBegin
    <2>2. CASE LockPayment(f) BY <1>t, <2>2, CoveredLock
    <2>3. CASE StripeAccepts(f) BY <1>t, <2>3, CoveredAccept
    <2>4. CASE StripeUnheard(f)
      <3>1. refund[f].of \in Stripe
        BY <2>4 DEF StripeUnheard, StripeRefunds, Covered, LockedIsCurrent
      <3>2. /\ \A q \in Stripe : returned[q] <= returned'[q]
            /\ KeysAreCovered'
        BY <2>4, <3>1, StripeCovers DEF StripeUnheard
      <3>3. QED BY <1>t, <2>4, <3>2, CoveredAbandon DEF StripeUnheard
    <2>5. CASE StripeRefuses(f) \/ RefundFails(f) \/ RefundUncovered(f)
      BY <2>5, <2>a DEF StripeRefuses, RefundFails, RefundUncovered
    <2>6. CASE SettleRefund(f) BY <1>t, <2>6, CoveredSettle
    <2>7. QED BY <1>6, <2>1, <2>2, <2>3, <2>4, <2>5, <2>6 DEF Refunding, RefundProceeds, StripeAnswers
  <1>7. CASE UNCHANGED vars BY <1>7, <1>e DEF vars, payVars
  <1>8. QED BY <1>1, <1>2, <1>3, <1>4, <1>5, <1>6, <1>7 DEF Next, PaymentStep

\* NeverAheadOfStripe for every instance: under any interleaving of refunds, with lost
\* answers, retries and expired keys, the refunded cents of a payment, and with them
\* the credits taken back, never run ahead of what Stripe returned to the buyer.
THEOREM NeverRefundsAhead == Spec => []NeverAheadOfStripe
  <1>1. Covered => NeverAheadOfStripe BY DEF Covered
  <1>2. QED BY CoveredInit, CoveredStep, <1>1, PTL DEF Spec

-----------------------------------------------------------------------------
(***************************************************************************)
(* What the rows of one purchase say together, and what a delivery or a    *)
(* refund under way may rely on.                                           *)
(***************************************************************************)

\* The purchase, its ledger row and its session.
Sold(p) ==
    /\ purchase[p] = "posted" <=> posted[p] > 0
    /\ posted[p] \in {0, grant[p]}
    /\ session[p] # "none" => p \in Stripe
    /\ session[p] # "none" \/ purchase[p] # "none" => grant[p] > 0
    /\ session[p] = "paid" => purchase[p] # "none"
    /\ p \in Stripe /\ posted[p] > 0 => session[p] = "paid"

\* The payment row and its refunds.
PaymentRow(p) ==
    /\ payment[p] = "none" <=> purchase[p] = "none"
    /\ payment[p] = "none" => refunded[p] = 0
    /\ payment[p] = "pending" => paymentId[p] = "session"
    /\ paymentId[p] = "session" =>
          p \in Stripe /\ refunded[p] = 0 /\ payment[p] \in {"pending", "expired", "failed"}
    /\ refunded[p] <= amount[p]
    /\ payment[p] = "refunded" <=> amount[p] > 0 /\ refunded[p] = amount[p]
    /\ payment[p] = "partially_refunded" <=> 0 < refunded[p] /\ refunded[p] < amount[p]

\* The ledger rows of its refunds: each begins where earlier ones ended.
ReversalRows(p) ==
    /\ IsFiniteSet(reversals[p])
    /\ \A x \in reversals[p] : x.cents > 0 /\ x.before + x.cents <= refunded[p]
    /\ refunded[p] = Refunded(p)

DeliveryOfPaid(d) == hook[d].at # "idle" => session[hook[d].of] = "paid"

RefundOfPayment(f) ==
    refund[f].at # "idle" =>
        /\ refund[f].cents > 0
        /\ payment[refund[f].of] # "none"
        /\ refund[f].at \in {"calling", "settling"} =>
              refund[f].before + refund[f].cents <= amount[refund[f].of]
        /\ refund[f].at = "settling" => paymentId[refund[f].of] # "session"

RowsAgree ==
    /\ \A p \in Purchases : Sold(p) /\ PaymentRow(p) /\ ReversalRows(p)
    /\ \A d \in Deliveries : DeliveryOfPaid(d)
    /\ \A f \in Refunders : RefundOfPayment(f)

\* Sums over a set of reversals.
CentsOf(S) == SumFunction([x \in S |-> x.cents])
CreditsOf(S) == SumFunction([x \in S |-> x.credits])

LEMMA SumsOfRows ==
    ASSUME NEW p
    PROVE  /\ Refunded(p) = CentsOf(reversals[p]) /\ Refunded(p)' = CentsOf(reversals'[p])
           /\ Reversed(p) = CreditsOf(reversals[p]) /\ Reversed(p)' = CreditsOf(reversals'[p])
  BY DEF Refunded, Reversed, CentsOf, CreditsOf

LEMMA NoRowsNoSum == CentsOf({}) = 0 /\ CreditsOf({}) = 0
  BY SumEmpty DEF CentsOf, CreditsOf, SumFunction

\* Sums of rows are naturals, and a row that is not there yet adds its amount.
LEMMA RowsSum ==
    ASSUME NEW S \in SUBSET Reversals, IsFiniteSet(S)
    PROVE  CentsOf(S) \in Nat /\ CreditsOf(S) \in Nat
  <1> DEFINE cents == [y \in S |-> y.cents]
             credits == [y \in S |-> y.credits]
  <1>1. \A y \in S : cents[y] \in Nat /\ credits[y] \in Nat BY DEF Reversals
  <1>2. CentsOf(S) = SumFunctionOnSet(cents, S) /\ CreditsOf(S) = SumFunctionOnSet(credits, S)
    BY DEF CentsOf, CreditsOf, SumFunction
  <1> HIDE DEF cents, credits
  <1>3. QED BY <1>1, <1>2, SumNat

LEMMA RowAdds ==
    ASSUME NEW S \in SUBSET Reversals, IsFiniteSet(S), NEW x \in Reversals, x \notin S
    PROVE  /\ CentsOf(S \cup {x}) = CentsOf(S) + x.cents
           /\ CreditsOf(S \cup {x}) = CreditsOf(S) + x.credits
  <1> DEFINE T == S \cup {x}
             cents == [y \in S |-> y.cents]
             more == [y \in T |-> y.cents]
             credits == [y \in S |-> y.credits]
             moreCredits == [y \in T |-> y.credits]
  <1>1. /\ CentsOf(S) = SumFunctionOnSet(cents, S) /\ CentsOf(T) = SumFunctionOnSet(more, T)
        /\ CreditsOf(S) = SumFunctionOnSet(credits, S)
        /\ CreditsOf(T) = SumFunctionOnSet(moreCredits, T)
    BY DEF CentsOf, CreditsOf, SumFunction
  <1>2. /\ \A y \in T : more[y] \in Int /\ moreCredits[y] \in Int
        /\ \A y \in S : cents[y] = more[y] /\ credits[y] = moreCredits[y]
        /\ more[x] = x.cents /\ moreCredits[x] = x.credits
    BY DEF Reversals
  <1> HIDE DEF cents, more, credits, moreCredits
  <1>3. /\ SumFunctionOnSet(cents, S) = SumFunctionOnSet(more, S)
        /\ SumFunctionOnSet(credits, S) = SumFunctionOnSet(moreCredits, S)
    BY <1>2, SumSame
  <1>4. /\ SumFunctionOnSet(more, T) = more[x] + SumFunctionOnSet(more, S)
        /\ SumFunctionOnSet(moreCredits, T) = moreCredits[x] + SumFunctionOnSet(moreCredits, S)
    BY <1>2, SumMore
  <1>5. SumFunctionOnSet(more, S) \in Int /\ SumFunctionOnSet(moreCredits, S) \in Int
    BY <1>2, SumInt
  <1>6. x.cents \in Int /\ x.credits \in Int BY DEF Reversals
  <1>7. QED BY <1>1, <1>2, <1>3, <1>4, <1>5, <1>6

-----------------------------------------------------------------------------
(* The rows agree: step by step *)

RowOK(p) == Sold(p) /\ PaymentRow(p) /\ ReversalRows(p)

RowSame(p) ==
    /\ purchase'[p] = purchase[p] /\ posted'[p] = posted[p] /\ grant'[p] = grant[p]
    /\ session'[p] = session[p] /\ payment'[p] = payment[p] /\ paymentId'[p] = paymentId[p]
    /\ refunded'[p] = refunded[p] /\ amount'[p] = amount[p] /\ reversals'[p] = reversals[p]

LEMMA RowKept ==
    ASSUME NEW p \in Purchases, RowOK(p), RowSame(p)
    PROVE  RowOK(p)'
  BY SumsOfRows DEF RowOK, RowSame, Sold, PaymentRow, ReversalRows

LEMMA ReversalsKept ==
    ASSUME NEW p \in Purchases, ReversalRows(p), reversals'[p] = reversals[p],
           refunded'[p] = refunded[p]
    PROVE  ReversalRows(p)'
  BY SumsOfRows DEF ReversalRows

\* Handlers under way keep what they rely on when no row takes it back.
RowsKeepFaith ==
    \A p \in Purchases :
        /\ session[p] = "paid" => session'[p] = "paid"
        /\ payment[p] # "none" => /\ payment'[p] # "none" /\ amount'[p] = amount[p]
                                  /\ paymentId'[p] = "session" => paymentId[p] = "session"

LEMMA DeliveryKept ==
    ASSUME TypeOK, RowsKeepFaith, NEW d \in Deliveries, DeliveryOfPaid(d),
           hook'[d].at # "idle" => hook[d].at # "idle" /\ hook'[d].of = hook[d].of
    PROVE  DeliveryOfPaid(d)'
  BY DEF TypeOK, RowsKeepFaith, DeliveryOfPaid, Hooks, NoHook

LEMMA RefundKept ==
    ASSUME TypeOK, RowsKeepFaith, NEW f \in Refunders, RefundOfPayment(f),
           refund'[f] = refund[f] \/ refund'[f] = NoRefund
    PROVE  RefundOfPayment(f)'
  BY DEF TypeOK, RowsKeepFaith, RefundOfPayment, Refunds, NoRefund

\* A step that changes the row of p, and no handler.
LEMMA RowStep ==
    ASSUME TypeOK, RowsAgree, NEW p \in Purchases, RowOK(p)',
           \A q \in Purchases \ {p} : RowSame(q),
           RowsKeepFaith,
           \A d \in Deliveries : hook'[d] = hook[d] \/ hook'[d] = NoHook,
           \A f \in Refunders : refund'[f] = refund[f] \/ refund'[f] = NoRefund
    PROVE  RowsAgree'
  <1>1. \A q \in Purchases : RowOK(q)' BY RowKept DEF RowsAgree, RowOK
  <1>2. \A d \in Deliveries : DeliveryOfPaid(d)' BY DeliveryKept DEF RowsAgree, NoHook
  <1>3. \A f \in Refunders : RefundOfPayment(f)' BY RefundKept DEF RowsAgree
  <1>4. QED BY <1>1, <1>2, <1>3 DEF RowsAgree, RowOK

LEMMA RowsInit == Init => RowsAgree
  <1> SUFFICES ASSUME Init PROVE RowsAgree OBVIOUS
  <1>1. ASSUME NEW p \in Purchases PROVE Sold(p) /\ PaymentRow(p)
    BY DEF Init, Sold, PaymentRow
  <1>2. ASSUME NEW p \in Purchases PROVE ReversalRows(p)
    BY NoRowsNoSum, SumsOfRows, FS_EmptySet DEF Init, ReversalRows
  <1>3. \A d \in Deliveries : DeliveryOfPaid(d) BY DEF Init, DeliveryOfPaid, NoHook
  <1>4. \A f \in Refunders : RefundOfPayment(f) BY DEF Init, RefundOfPayment, NoRefund
  <1>5. QED BY <1>1, <1>2, <1>3, <1>4 DEF RowsAgree

LEMMA BuyRows ==
    ASSUME TypeOK, RowsAgree, NEW p \in Purchases, Buy(p)
    PROVE  RowsAgree'
  <1> USE DEF stripeVars, walletVars
  <1>t. /\ posted[p] \in Nat /\ refunded[p] \in Nat /\ grant[p] \in Nat /\ amount[p] \in Nat
    BY DEF TypeOK
  <1>0. Sold(p) /\ PaymentRow(p) /\ ReversalRows(p) BY DEF RowsAgree
  <1>1. CASE MockPurchase(p)
    <2>1. PICK cents \in Amounts :
              /\ Offer(p, cents)
              /\ posted' = [posted EXCEPT ![p] = CreditsFor(cents, ratio)]
      BY <1>1 DEF MockPurchase
    <2>2. cents \in Nat /\ cents > 0 /\ CreditsFor(cents, ratio) \in Nat
          /\ CreditsFor(cents, ratio) > 0
      BY <2>1, PaymentsAssumption, CreditsNatural, RatioNatural DEF Offer
    <2>3. /\ session[p] = "none" /\ purchase[p] = "none" /\ payment[p] = "none"
          /\ refunded[p] = 0
      BY <1>0, <2>1 DEF Offer, PaymentRow
    <2>4. /\ session'[p] = "none" /\ purchase'[p] = "posted" /\ payment'[p] = "succeeded"
          /\ paymentId'[p] = "fake" /\ refunded'[p] = 0 /\ reversals'[p] = reversals[p]
          /\ amount'[p] = cents /\ grant'[p] = CreditsFor(cents, ratio)
          /\ posted'[p] = CreditsFor(cents, ratio)
          /\ p \notin Stripe
      BY <1>1, <2>1, <2>3 DEF MockPurchase, Offer, TypeOK
    <2>5. Sold(p)' BY <2>2, <2>4 DEF Sold
    <2>6. PaymentRow(p)' BY <2>2, <2>4 DEF PaymentRow
    <2>7. ReversalRows(p)' BY <1>0, <2>3, <2>4, ReversalsKept
    <2>8. \A q \in Purchases \ {p} : RowSame(q)
      BY <1>1, <2>1 DEF MockPurchase, Offer, TypeOK, RowSame
    <2>9. RowsKeepFaith BY <1>1, <2>3, <2>4, <2>8 DEF RowsKeepFaith, RowSame
    <2>10. hook' = hook /\ refund' = refund BY <1>1 DEF MockPurchase
    <2>11. QED BY <2>5, <2>6, <2>7, <2>8, <2>9, <2>10, RowStep DEF RowOK
  <1>2. CASE CreateSession(p)
    <2>1. PICK cents \in Amounts : Offer(p, cents) BY <1>2 DEF CreateSession
    <2>2. cents \in Nat /\ cents > 0 /\ CreditsFor(cents, ratio) \in Nat
          /\ CreditsFor(cents, ratio) > 0
      BY <2>1, PaymentsAssumption, CreditsNatural, RatioNatural DEF Offer
    <2>3. /\ session[p] = "none" /\ purchase[p] = "none" /\ payment[p] = "none"
          /\ refunded[p] = 0 /\ posted[p] = 0
      BY <1>t, <1>0, <2>1 DEF Offer, PaymentRow, Sold
    <2>4. /\ session'[p] = "open" /\ purchase'[p] = "none" /\ payment'[p] = "none"
          /\ paymentId'[p] = paymentId[p] /\ refunded'[p] = 0 /\ reversals'[p] = reversals[p]
          /\ amount'[p] = cents /\ grant'[p] = CreditsFor(cents, ratio)
          /\ posted'[p] = 0 /\ p \in Stripe
      BY <1>2, <2>1, <2>3 DEF CreateSession, Offer, TypeOK
    <2>5. Sold(p)' BY <2>2, <2>4 DEF Sold
    <2>6. PaymentRow(p)' BY <1>0, <2>2, <2>3, <2>4 DEF PaymentRow
    <2>7. ReversalRows(p)' BY <1>0, <2>3, <2>4, ReversalsKept
    <2>8. \A q \in Purchases \ {p} : RowSame(q)
      BY <1>2, <2>1 DEF CreateSession, Offer, TypeOK, RowSame
    <2>9. RowsKeepFaith BY <1>2, <2>3, <2>4, <2>8 DEF RowsKeepFaith, RowSame
    <2>10. hook' = hook /\ refund' = refund BY <1>2 DEF CreateSession
    <2>11. QED BY <2>5, <2>6, <2>7, <2>8, <2>9, <2>10, RowStep DEF RowOK
  <1>3. CASE StorePending(p)
    <2>1. /\ session[p] = "open" /\ purchase[p] = "none" /\ payment[p] = "none"
          /\ refunded[p] = 0 /\ posted[p] = 0
      BY <1>t, <1>0, <1>3 DEF StorePending, PaymentRow, Sold
    <2>2. /\ session'[p] = "open" /\ purchase'[p] = "pending" /\ payment'[p] = "pending"
          /\ paymentId'[p] = "session" /\ refunded'[p] = 0 /\ reversals'[p] = reversals[p]
          /\ amount'[p] = amount[p] /\ grant'[p] = grant[p] /\ posted'[p] = 0
      BY <1>3, <2>1 DEF StorePending, TypeOK
    <2>3. Sold(p)' BY <1>0, <2>1, <2>2 DEF Sold
    <2>4. PaymentRow(p)' BY <1>t, <1>0, <2>1, <2>2 DEF PaymentRow, Sold
    <2>5. ReversalRows(p)' BY <1>0, <2>1, <2>2, ReversalsKept
    <2>6. \A q \in Purchases \ {p} : RowSame(q) BY <1>3 DEF StorePending, TypeOK, RowSame
    <2>7. RowsKeepFaith BY <1>3, <2>1, <2>2, <2>6 DEF RowsKeepFaith, RowSame
    <2>8. hook' = hook /\ refund' = refund BY <1>3 DEF StorePending
    <2>9. QED BY <2>3, <2>4, <2>5, <2>6, <2>7, <2>8, RowStep DEF RowOK
  <1>4. QED BY <1>1, <1>2, <1>3 DEF Buy

LEMMA SessionRows ==
    ASSUME TypeOK, RowsAgree, NEW p \in Purchases, SessionPaid(p) \/ MarkFailed(p)
    PROVE  RowsAgree'
  <1> USE DEF stripeVars, walletVars, purchaseVars
  <1>t. /\ posted[p] \in Nat /\ refunded[p] \in Nat /\ grant[p] \in Nat /\ amount[p] \in Nat
    BY DEF TypeOK
  <1>0. Sold(p) /\ PaymentRow(p) /\ ReversalRows(p) BY DEF RowsAgree
  <1>1. CASE SessionPaid(p)
    <2>1. session[p] = "open" /\ purchase[p] # "none" BY <1>1 DEF SessionPaid
    <2>3. /\ session'[p] = "paid" /\ purchase'[p] = purchase[p] /\ payment'[p] = payment[p]
          /\ paymentId'[p] = paymentId[p] /\ refunded'[p] = refunded[p]
          /\ reversals'[p] = reversals[p] /\ amount'[p] = amount[p] /\ grant'[p] = grant[p]
          /\ posted'[p] = posted[p]
      BY <1>1 DEF SessionPaid, TypeOK
    <2>4. Sold(p)' BY <1>0, <2>1, <2>3 DEF Sold
    <2>5. PaymentRow(p)' BY <1>0, <2>3 DEF PaymentRow
    <2>6. ReversalRows(p)' BY <1>0, <2>3, ReversalsKept
    <2>7. \A q \in Purchases \ {p} : RowSame(q) BY <1>1 DEF SessionPaid, TypeOK, RowSame
    <2>8. RowsKeepFaith BY <1>1, <2>1, <2>3, <2>7 DEF RowsKeepFaith, RowSame
    <2>9. hook' = hook /\ refund' = refund BY <1>1 DEF SessionPaid
    <2>10. QED BY <2>4, <2>5, <2>6, <2>7, <2>8, <2>9, RowStep DEF RowOK
  <1>2. CASE MarkFailed(p)
    <2>1. PICK s \in {"expired", "failed"} :
              /\ purchase' = [purchase EXCEPT ![p] = FailPending(@, s)]
              /\ payment' = [payment EXCEPT ![p] =
                    IF paymentId[p] = "session" THEN FailPending(@, s) ELSE @]
      BY <1>2 DEF MarkFailed
    <2>2. /\ session'[p] = session[p]
          /\ purchase'[p] = IF purchase[p] = "pending" THEN s ELSE purchase[p]
          /\ payment'[p] = IF paymentId[p] = "session" /\ payment[p] = "pending"
                           THEN s ELSE payment[p]
          /\ paymentId'[p] = paymentId[p] /\ refunded'[p] = refunded[p]
          /\ reversals'[p] = reversals[p] /\ amount'[p] = amount[p] /\ grant'[p] = grant[p]
          /\ posted'[p] = posted[p]
      BY <1>2, <2>1 DEF MarkFailed, FailPending, TypeOK
    <2>3. Sold(p)' BY <1>0, <2>1, <2>2 DEF Sold
    <2>4. PaymentRow(p)' BY <1>t, <1>0, <2>1, <2>2 DEF PaymentRow
    <2>5. ReversalRows(p)' BY <1>0, <2>2, ReversalsKept
    <2>6. \A q \in Purchases \ {p} : RowSame(q) BY <1>2, <2>1 DEF MarkFailed, TypeOK, RowSame
    <2>7. RowsKeepFaith BY <1>2, <2>1, <2>2, <2>6 DEF RowsKeepFaith, RowSame
    <2>8. hook' = hook /\ refund' = refund BY <1>2 DEF MarkFailed
    <2>9. QED BY <2>3, <2>4, <2>5, <2>6, <2>7, <2>8, RowStep DEF RowOK
  <1>3. QED BY <1>1, <1>2

LEMMA DeliverRows ==
    ASSUME TypeOK, RowsAgree, NEW d \in Deliveries, Deliver(d)
    PROVE  RowsAgree'
  <1> USE DEF stripeVars, walletVars, purchaseVars
  <1>1. ASSUME \A q \in Purchases : RowSame(q), refund' = refund,
               \A e \in Deliveries \ {d} : hook'[e] = hook[e],
               hook'[d].at # "idle" => session[hook'[d].of] = "paid",
               hook'[d].at # "idle" => hook'[d].of \in Purchases
        PROVE  RowsAgree'
    <2>1. \A q \in Purchases : RowOK(q)' BY <1>1, RowKept DEF RowsAgree, RowOK
    <2>2. RowsKeepFaith BY <1>1 DEF RowsKeepFaith, RowSame
    <2>3. \A f \in Refunders : RefundOfPayment(f)' BY <1>1, <2>2, RefundKept DEF RowsAgree
    <2>4. \A e \in Deliveries \ {d} : DeliveryOfPaid(e)' BY <1>1, <2>2, DeliveryKept DEF RowsAgree
    <2>5. DeliveryOfPaid(d)' BY <1>1 DEF DeliveryOfPaid, RowSame
    <2>6. QED BY <2>1, <2>3, <2>4, <2>5 DEF RowsAgree, RowOK
  <1>2. CASE CheckPosted(d)
    <2>1. PICK p \in Purchases : session[p] = "paid" /\ hook' = [hook EXCEPT ![d] = [at |-> "checked", of |-> p]]
      BY <1>2 DEF CheckPosted
    <2>2. QED BY <1>1, <1>2, <2>1 DEF CheckPosted, RowSame, TypeOK
  <1>3. CASE BeginPost(d)
    BY <1>1, <1>3 DEF BeginPost, RowSame, TypeOK, RowsAgree, DeliveryOfPaid, Hooks, NoHook
  <1>4. CASE PostDuplicate(d) \/ PostFails(d)
    BY <1>1, <1>4 DEF PostDuplicate, PostFails, RowSame, TypeOK, NoHook
  <1>5. CASE PostCommit(d)
    <2>0. PICK p \in Purchases : p = hook[d].of
      BY <1>5 DEF PostCommit, TypeOK, Hooks, NoHook
    <2>1. /\ posted[p] = 0
          /\ purchase' = [purchase EXCEPT ![p] = "posted"]
          /\ payment' = [payment EXCEPT ![p] = IF paymentId[p] = "session" THEN "succeeded" ELSE @]
          /\ paymentId' = [paymentId EXCEPT ![p] = IF @ = "session" THEN "intent" ELSE @]
          /\ posted' = [posted EXCEPT ![p] = grant[p]]
          /\ hook' = [hook EXCEPT ![d] = NoHook]
          /\ UNCHANGED <<amount, grant, refunded, reversals, session, refund>>
      <3>1. posted[p] = 0 /\ posted' = [posted EXCEPT ![p] = @ + grant[p]]
        BY <1>5, <2>0 DEF PostCommit, PostPurchase, NotYetPosted
      <3>n. grant[p] \in Nat BY DEF TypeOK
      <3>s. posted[p] + grant[p] = grant[p] BY <3>1, <3>n
      <3>2. posted' = [posted EXCEPT ![p] = grant[p]] BY <3>1, <3>s
      <3>3. QED BY <1>5, <2>0, <3>1, <3>2 DEF PostCommit, PostPurchase, NotYetPosted
    <2>2. session[p] = "paid"
      BY <1>5, <2>0 DEF PostCommit, RowsAgree, DeliveryOfPaid
    <2>3. Sold(p) /\ PaymentRow(p) /\ ReversalRows(p) BY <2>2 DEF RowsAgree
    <2>4. /\ p \in Stripe /\ grant[p] > 0 /\ purchase[p] # "none" /\ payment[p] # "none"
      BY <2>2, <2>3 DEF Sold, PaymentRow
    <2>5. /\ session'[p] = "paid" /\ purchase'[p] = "posted"
          /\ payment'[p] = IF paymentId[p] = "session" THEN "succeeded" ELSE payment[p]
          /\ paymentId'[p] = IF paymentId[p] = "session" THEN "intent" ELSE paymentId[p]
          /\ refunded'[p] = refunded[p]
          /\ reversals'[p] = reversals[p] /\ amount'[p] = amount[p] /\ grant'[p] = grant[p]
          /\ posted'[p] = grant[p]
      BY <2>1, <2>2 DEF TypeOK
    <2>t. /\ posted[p] \in Nat /\ refunded[p] \in Nat /\ grant[p] \in Nat /\ amount[p] \in Nat
      BY <2>2 DEF TypeOK
    <2>6. Sold(p)' BY <2>t, <2>4, <2>5 DEF Sold
    <2>7. PaymentRow(p)' BY <2>t, <2>3, <2>4, <2>5 DEF PaymentRow
    <2>8. ReversalRows(p)' BY <2>2, <2>3, <2>5, ReversalsKept
    <2>9. \A q \in Purchases \ {p} : RowSame(q) BY <2>1, <2>2 DEF TypeOK, RowSame
    <2>10. RowsKeepFaith BY <2>1, <2>4, <2>5, <2>9 DEF RowsKeepFaith, RowSame
    <2>11. \A e \in Deliveries : hook'[e] = hook[e] \/ hook'[e] = NoHook BY <2>1 DEF TypeOK
    <2>12. QED BY <2>1, <2>2, <2>6, <2>7, <2>8, <2>9, <2>10, <2>11, RowStep DEF RowOK
  <1>6. QED BY <1>2, <1>3, <1>4, <1>5 DEF Deliver, PostProceeds

\* A refund that settles adds its row, which begins where all others have ended.
LEMMA SettleRows ==
    ASSUME Covered, RowsAgree, NEW f \in Refunders, SettleRefund(f)
    PROVE  RowsAgree'
  <1>t. TypeOK BY DEF Covered
  <1>0. PICK p \in Purchases : p = refund[f].of
    BY <1>t DEF SettleRefund, TypeOK, Refunds, NoRefund
  <1>1. PICK x : x = [before |-> refund[f].before, cents |-> refund[f].cents,
                      credits |-> CreditsFor(refund[f].cents, ratio)]
    OBVIOUS
  <1>2. /\ refund[f].at = "settling"
        /\ refunded' = [refunded EXCEPT ![p] = x.before + x.cents]
        /\ payment' = [payment EXCEPT ![p] =
              IF x.before + x.cents = amount[p] THEN "refunded" ELSE "partially_refunded"]
        /\ reversals' = [reversals EXCEPT ![p] = @ \cup {x}]
        /\ refund' = [refund EXCEPT ![f] = NoRefund]
        /\ UNCHANGED <<amount, grant, purchase, paymentId, posted, session, hook>>
    BY <1>0, <1>1 DEF SettleRefund, TakenBack, stripeVars
  <1>3. /\ refund[f].cents \in Nat /\ refund[f].before \in Nat
    BY <1>t, <1>2 DEF TypeOK, Refunds, NoRefund
  <1>4. x \in Reversals
    BY <1>1, <1>3, <1>t, RatioNatural, CreditsNatural DEF Reversals
  <1>5. /\ x.cents > 0 /\ x.before + x.cents <= amount[p] /\ x.before = refunded[p]
        /\ payment[p] # "none" /\ paymentId[p] # "session"
    BY <1>0, <1>1, <1>2 DEF RowsAgree, RefundOfPayment, Covered, LockedIsCurrent
  <1>6. Sold(p) /\ PaymentRow(p) /\ ReversalRows(p) BY DEF RowsAgree
  <1>7. /\ refunded[p] \in Nat /\ amount[p] \in Nat /\ reversals[p] \in SUBSET Reversals
        /\ x.cents \in Nat /\ x.before \in Nat
    BY <1>t, <1>4 DEF TypeOK, Reversals
  <1>8. /\ refunded'[p] = x.before + x.cents /\ reversals'[p] = reversals[p] \cup {x}
        /\ payment'[p] = IF x.before + x.cents = amount[p] THEN "refunded"
                         ELSE "partially_refunded"
        /\ amount'[p] = amount[p] /\ grant'[p] = grant[p] /\ purchase'[p] = purchase[p]
        /\ paymentId'[p] = paymentId[p] /\ posted'[p] = posted[p] /\ session'[p] = session[p]
    BY <1>t, <1>2 DEF TypeOK
  <1>9. Sold(p)' BY <1>6, <1>8 DEF Sold
  <1>10. PaymentRow(p)' BY <1>5, <1>6, <1>7, <1>8 DEF PaymentRow
  <1>11. ReversalRows(p)'
    <2>1. x \notin reversals[p] BY <1>5, <1>6, <1>7 DEF ReversalRows
    <2>2. IsFiniteSet(reversals[p]) BY <1>6 DEF ReversalRows
    <2>3. CentsOf(reversals'[p]) = refunded[p] + x.cents
      BY <1>4, <1>6, <1>7, <1>8, <2>1, <2>2, RowAdds, SumsOfRows DEF ReversalRows
    <2>r. Refunded(p)' = CentsOf(reversals'[p]) BY SumsOfRows
    <2>4. Refunded(p)' = refunded'[p] BY <1>5, <1>8, <2>3, <2>r
    <2>f. IsFiniteSet(reversals[p] \cup {x}) BY <2>2, FS_AddElement
    <2>5. IsFiniteSet(reversals'[p]) BY <1>8, <2>f
    <2>6. \A y \in reversals'[p] : y.cents > 0 /\ y.before + y.cents <= refunded'[p]
      <3> SUFFICES ASSUME NEW y \in reversals'[p]
                   PROVE  y.cents > 0 /\ y.before + y.cents <= refunded'[p]
        OBVIOUS
      <3>1. CASE y = x BY <1>5, <1>7, <1>8, <3>1
      <3>2. CASE y \in reversals[p]
        <4>1. y.cents > 0 /\ y.before + y.cents <= refunded[p] BY <1>6, <3>2 DEF ReversalRows
        <4>2. y.cents \in Nat /\ y.before \in Nat BY <1>7, <3>2 DEF Reversals
        <4>3. QED BY <1>5, <1>7, <1>8, <4>1, <4>2
      <3>3. QED BY <1>8, <3>1, <3>2
    <2>7. QED BY <2>4, <2>5, <2>6 DEF ReversalRows
  <1>12. \A q \in Purchases \ {p} : RowSame(q) BY <1>t, <1>2 DEF TypeOK, RowSame
  <1>13. RowsKeepFaith BY <1>2, <1>8, <1>12 DEF RowsKeepFaith, RowSame
  <1>14. \A g \in Refunders : refund'[g] = refund[g] \/ refund'[g] = NoRefund
    BY <1>t, <1>2 DEF TypeOK
  <1>15. QED BY <1>t, <1>2, <1>9, <1>10, <1>11, <1>12, <1>13, <1>14, RowStep DEF RowOK

LEMMA RefundRows ==
    ASSUME Covered, RowsAgree, NEW f \in Refunders, Refunding(f)
    PROVE  RowsAgree'
  <1> USE DEF stripeVars, walletVars, purchaseVars, RefundOnly
  <1>t. TypeOK BY DEF Covered
  <1>1. ASSUME \A q \in Purchases : RowSame(q), hook' = hook,
               \A g \in Refunders \ {f} : refund'[g] = refund[g],
               RefundOfPayment(f)'
        PROVE  RowsAgree'
    <2>1. \A q \in Purchases : RowOK(q)' BY <1>1, RowKept DEF RowsAgree, RowOK
    <2>2. RowsKeepFaith BY <1>1 DEF RowsKeepFaith, RowSame
    <2>3. \A g \in Refunders \ {f} : RefundOfPayment(g)'
      BY <1>t, <1>1, <2>2, RefundKept DEF RowsAgree
    <2>4. \A d \in Deliveries : DeliveryOfPaid(d)'
      BY <1>t, <1>1, <2>2, DeliveryKept DEF RowsAgree
    <2>5. QED BY <1>1, <2>1, <2>3, <2>4 DEF RowsAgree, RowOK
  <1>2. CASE BeginRefund(f)
    <2>1. PICK p \in Purchases, cents \in RefundCents :
              /\ payment[p] # "none"
              /\ refund' = [refund EXCEPT ![f] =
                    [at |-> "begun", of |-> p, cents |-> cents, before |-> 0]]
      BY <1>2 DEF BeginRefund
    <2>2. cents > 0 BY PaymentsAssumption
    <2>3. refund'[f] = [at |-> "begun", of |-> p, cents |-> cents, before |-> 0]
          /\ \A g \in Refunders \ {f} : refund'[g] = refund[g]
      BY <1>t, <2>1 DEF TypeOK
    <2>4. /\ \A q \in Purchases : RowSame(q)
          /\ hook' = hook /\ payment' = payment
      BY <1>2 DEF BeginRefund, RowSame
    <2>5. RefundOfPayment(f)' BY <2>1, <2>2, <2>3, <2>4 DEF RefundOfPayment
    <2>6. QED BY <1>1, <2>3, <2>4, <2>5
  <1>3. CASE LockPayment(f)
    <2>1. PICK p \in Purchases : p = refund[f].of
      BY <1>t, <1>3 DEF LockPayment, TypeOK, Refunds, NoRefund
    <2>2. /\ refund[f].at = "begun" /\ refund[f].cents <= amount[p] - refunded[p]
          /\ refund' = [refund EXCEPT ![f].before = refunded[p],
                                      ![f].at = IF p \in Stripe THEN "calling" ELSE "settling"]
          /\ \A q \in Purchases : RowSame(q)
          /\ hook' = hook /\ payment' = payment /\ amount' = amount /\ paymentId' = paymentId
      BY <1>3, <2>1 DEF LockPayment, RowSame
    <2>3. /\ refund'[f].cents = refund[f].cents /\ refund'[f].of = p
          /\ refund'[f].before = refunded[p]
          /\ refund'[f].at = IF p \in Stripe THEN "calling" ELSE "settling"
          /\ \A g \in Refunders \ {f} : refund'[g] = refund[g]
      BY <1>t, <2>1, <2>2 DEF TypeOK, Refunds, NoRefund
    <2>4. refund[f].cents \in Nat /\ amount[p] \in Nat /\ refunded[p] \in Nat
      BY <1>t, <2>2 DEF TypeOK, Refunds, NoRefund
    <2>5. refund[f].cents > 0 /\ payment[p] # "none" /\ (paymentId[p] = "session" => p \in Stripe)
      BY <2>1, <2>2 DEF RowsAgree, RefundOfPayment, PaymentRow
    <2>6. RefundOfPayment(f)' BY <2>2, <2>3, <2>4, <2>5 DEF RefundOfPayment
    <2>7. QED BY <1>1, <2>2, <2>3, <2>6
  <1>4. CASE StripeAccepts(f)
    <2>1. PICK p \in Purchases : p = refund[f].of
      BY <1>t, <1>4 DEF StripeAccepts, StripeRefunds, TypeOK, Refunds, NoRefund
    <2>2. /\ refund[f].at = "calling" /\ paymentId[p] = "intent"
          /\ refund' = [refund EXCEPT ![f].at = "settling"]
          /\ \A q \in Purchases : RowSame(q)
          /\ hook' = hook /\ payment' = payment /\ amount' = amount /\ paymentId' = paymentId
      BY <1>4, <2>1 DEF StripeAccepts, StripeRefunds, RowSame
    <2>3. /\ refund'[f].cents = refund[f].cents /\ refund'[f].of = p
          /\ refund'[f].before = refund[f].before /\ refund'[f].at = "settling"
          /\ \A g \in Refunders \ {f} : refund'[g] = refund[g]
      BY <1>t, <2>1, <2>2 DEF TypeOK, Refunds, NoRefund
    <2>4. RefundOfPayment(f)' BY <2>1, <2>2, <2>3 DEF RefundOfPayment, RowsAgree
    <2>5. QED BY <1>1, <2>2, <2>3, <2>4
  <1>5. CASE RefuseRefund(f) \/ StripeUnheard(f) \/ StripeRefuses(f) \/ RefundFails(f)
             \/ RefundUncovered(f)
    <2>1. /\ refund' = [refund EXCEPT ![f] = NoRefund]
          /\ \A q \in Purchases : RowSame(q)
          /\ hook' = hook
      BY <1>5 DEF RefuseRefund, StripeUnheard, StripeRefuses, RefundFails, RefundUncovered,
                  StripeRefunds, Abandon, RowSame
    <2>2. RefundOfPayment(f)' BY <1>t, <2>1 DEF TypeOK, RefundOfPayment, NoRefund
    <2>3. QED BY <1>t, <1>1, <2>1, <2>2 DEF TypeOK
  <1>6. CASE SettleRefund(f) BY <1>6, SettleRows
  <1>7. QED BY <1>2, <1>3, <1>4, <1>5, <1>6 DEF Refunding, RefundProceeds, StripeAnswers

LEMMA RowsStep ==
    ASSUME Covered, RowsAgree, [Next]_vars
    PROVE  RowsAgree'
  <1> USE DEF stripeVars, walletVars, purchaseVars
  <1>t. TypeOK BY DEF Covered
  <1>1. ASSUME \A q \in Purchases : RowSame(q), hook' = hook, refund' = refund
        PROVE  RowsAgree'
    <2>1. \A q \in Purchases : RowOK(q)' BY <1>1, RowKept DEF RowsAgree, RowOK
    <2>2. RowsKeepFaith BY <1>1 DEF RowsKeepFaith, RowSame
    <2>3. \A f \in Refunders : RefundOfPayment(f)' BY <1>t, <1>1, <2>2, RefundKept DEF RowsAgree
    <2>4. \A d \in Deliveries : DeliveryOfPaid(d)' BY <1>t, <1>1, <2>2, DeliveryKept DEF RowsAgree
    <2>5. QED BY <2>1, <2>3, <2>4 DEF RowsAgree, RowOK
  <1>2. CASE Spend \/ SetRatio BY <1>1, <1>2 DEF Spend, SetRatio, RowSame
  <1>3. ASSUME NEW p \in Purchases, KeysExpire(p) PROVE RowsAgree'
    BY <1>1, <1>3 DEF KeysExpire, RowSame
  <1>4. CASE UNCHANGED vars BY <1>1, <1>4 DEF vars, payVars, RowSame
  <1>5. QED
    BY <1>t, <1>2, <1>3, <1>4, BuyRows, SessionRows, DeliverRows, RefundRows
    DEF Next, PaymentStep

LEMMA AlwaysCovered == Spec => []Covered
  BY CoveredInit, CoveredStep, PTL DEF Spec

LEMMA AlwaysRowsAgree == Spec => []RowsAgree
  <1>1. Covered /\ RowsAgree /\ [Next]_vars => RowsAgree' BY RowsStep
  <1>2. QED BY <1>1, RowsInit, AlwaysCovered, PTL DEF Spec

\* Duplicated, reordered and concurrent webhook deliveries grant a purchase's credits
\* exactly once, together with its status "posted", and a Stripe purchase's only when its
\* session was paid: for any number of purchases and deliveries.
THEOREM GrantedExactlyOnce == Spec => []GrantedOncePaid
  <1>1. RowsAgree => GrantedOncePaid BY DEF RowsAgree, Sold, GrantedOncePaid
  <1>2. QED BY <1>1, AlwaysRowsAgree, PTL

\* However many refunds of a payment interleave, retry and fail halfway, its refunded
\* cents are the sum of its ledger rows, never exceed what was paid, and its status says
\* which.
THEOREM RefundsAlwaysAddUp == Spec => []RefundsAddUp
  <1>1. RowsAgree => RefundsAddUp BY DEF RowsAgree, PaymentRow, ReversalRows, RefundsAddUp
  <1>2. QED BY <1>1, AlwaysRowsAgree, PTL

-----------------------------------------------------------------------------
(***************************************************************************)
(* The wallet: what the ledger rows of all purchases grant and take back,  *)
(* added up, moves with every transaction that moves the paid credits.     *)
(***************************************************************************)
NetOf(posts, rows) == [p \in Purchases |-> posts[p] - CreditsOf(rows[p])]
NetSum(posts, rows) == SumFunctionOnSet(NetOf(posts, rows), Purchases)

FiniteRows(rows) == \A p \in Purchases : IsFiniteSet(rows[p])

LEMMA PaidByRows ==
    /\ LedgerExplainsPaid <=>
          wallet.paid = InitPaid + NetSum(posted, reversals) - spent /\ wallet.paid >= 0
    /\ LedgerExplainsPaid' <=>
          wallet'.paid = InitPaid + NetSum(posted', reversals') - spent' /\ wallet'.paid >= 0
  BY DEF LedgerExplainsPaid, NetSum, NetOf, CreditsOf, Reversed, SumFunction

LEMMA NetInt ==
    ASSUME NEW posts \in [Purchases -> Nat], NEW rows \in [Purchases -> SUBSET Reversals],
           FiniteRows(rows)
    PROVE  /\ \A p \in Purchases : CreditsOf(rows[p]) \in Nat /\ NetOf(posts, rows)[p] \in Int
           /\ NetSum(posts, rows) \in Int
  <1>1. \A p \in Purchases : CreditsOf(rows[p]) \in Nat BY RowsSum DEF FiniteRows
  <1>2. \A p \in Purchases : NetOf(posts, rows)[p] \in Int BY <1>1 DEF NetOf
  <1>3. NetSum(posts, rows) \in Int BY <1>2, SumInt, PaymentsAssumption DEF NetSum
  <1>4. QED BY <1>1, <1>2, <1>3

\* The rows of one purchase change: so much does the sum.
LEMMA NetChange ==
    ASSUME NEW posts \in [Purchases -> Nat], NEW rows \in [Purchases -> SUBSET Reversals],
           NEW posts2 \in [Purchases -> Nat], NEW rows2 \in [Purchases -> SUBSET Reversals],
           FiniteRows(rows), FiniteRows(rows2), NEW p \in Purchases,
           \A q \in Purchases \ {p} : posts2[q] = posts[q] /\ rows2[q] = rows[q]
    PROVE  NetSum(posts2, rows2) = NetSum(posts, rows)
              + ((posts2[p] - CreditsOf(rows2[p])) - (posts[p] - CreditsOf(rows[p])))
  <1> DEFINE f == NetOf(posts, rows)
             g == NetOf(posts2, rows2)
  <1>1. \A q \in Purchases : f[q] \in Int /\ g[q] \in Int BY NetInt
  <1>2. \A q \in Purchases \ {p} : f[q] = g[q] BY DEF NetOf
  <1>3. f[p] = posts[p] - CreditsOf(rows[p]) /\ g[p] = posts2[p] - CreditsOf(rows2[p])
    BY DEF NetOf
  <1>4. NetSum(posts, rows) = SumFunctionOnSet(f, Purchases)
        /\ NetSum(posts2, rows2) = SumFunctionOnSet(g, Purchases)
    BY DEF NetSum
  <1> HIDE DEF f, g
  <1>5. SumFunctionOnSet(g, Purchases) = SumFunctionOnSet(f, Purchases) + (g[p] - f[p])
    BY <1>1, <1>2, SumChange, PaymentsAssumption
  <1>6. QED BY <1>3, <1>4, <1>5

LEMMA PaidInit == Init => LedgerExplainsPaid
  <1> SUFFICES ASSUME Init PROVE LedgerExplainsPaid OBVIOUS
  <1>1. \A p \in Purchases : NetOf(posted, reversals)[p] = 0
    BY NoRowsNoSum DEF Init, NetOf
  <1>2. NetSum(posted, reversals) = 0 BY <1>1, SumZero, PaymentsAssumption DEF NetSum
  <1>3. wallet.paid = InitPaid /\ spent = 0 /\ InitPaid \in Nat
    BY PaymentsAssumption DEF Init
  <1>4. QED BY <1>2, <1>3, PaidByRows

\* A transaction moves the wallet by what it changes in the rows of one purchase.
LEMMA PaidMoves ==
    ASSUME TypeOK, TypeOK', RowsAgree, RowsAgree', LedgerExplainsPaid, NEW p \in Purchases,
           \A q \in Purchases \ {p} : posted'[q] = posted[q] /\ reversals'[q] = reversals[q],
           NEW n \in Int, wallet'.paid = wallet.paid + n, wallet.paid + n >= 0, spent' = spent,
           posted'[p] - CreditsOf(reversals'[p]) = posted[p] - CreditsOf(reversals[p]) + n
    PROVE  LedgerExplainsPaid'
  <1>1. FiniteRows(reversals) /\ FiniteRows(reversals')
    BY DEF RowsAgree, ReversalRows, FiniteRows
  <1>2. /\ posted \in [Purchases -> Nat] /\ reversals \in [Purchases -> SUBSET Reversals]
        /\ posted' \in [Purchases -> Nat] /\ reversals' \in [Purchases -> SUBSET Reversals]
        /\ spent \in Nat /\ InitPaid \in Nat
    BY PaymentsAssumption DEF TypeOK
  <1>3. /\ NetSum(posted, reversals) \in Int
        /\ CreditsOf(reversals[p]) \in Nat /\ CreditsOf(reversals'[p]) \in Nat
    BY <1>1, <1>2, NetInt
  <1>4. posted[p] \in Nat /\ posted'[p] \in Nat BY <1>2
  <1>5. NetSum(posted', reversals') = NetSum(posted, reversals)
            + ((posted'[p] - CreditsOf(reversals'[p])) - (posted[p] - CreditsOf(reversals[p])))
    BY <1>1, <1>2, NetChange
  <1>6. NetSum(posted', reversals') = NetSum(posted, reversals) + n BY <1>3, <1>4, <1>5
  <1>7. wallet.paid = InitPaid + NetSum(posted, reversals) - spent BY PaidByRows
  <1>8. wallet'.paid = InitPaid + NetSum(posted', reversals') - spent' BY <1>2, <1>3, <1>6, <1>7
  <1>9. QED BY <1>8, PaidByRows

\* The row of a settled refund is a new one.
LEMMA SettledRow ==
    ASSUME Covered, RowsAgree, NEW f \in Refunders, SettleRefund(f)
    PROVE  \E p \in Purchases, x \in Reversals :
              /\ x.credits = CreditsFor(x.cents, ratio) /\ wallet.paid >= x.credits
              /\ wallet' = [wallet EXCEPT !.paid = @ + -x.credits]
              /\ spent' = spent /\ posted' = posted /\ ratio' = ratio
              /\ refunded' = [refunded EXCEPT ![p] = refunded[p] + x.cents]
              /\ reversals' = [reversals EXCEPT ![p] = @ \cup {x}]
              /\ x \notin reversals[p]
              /\ CentsOf(reversals[p] \cup {x}) = CentsOf(reversals[p]) + x.cents
              /\ CreditsOf(reversals[p] \cup {x}) = CreditsOf(reversals[p]) + x.credits
  <1>t. TypeOK BY DEF Covered
  <1>0. PICK p \in Purchases : p = refund[f].of
    BY <1>t DEF SettleRefund, TypeOK, Refunds, NoRefund
  <1>1. PICK x : x = [before |-> refund[f].before, cents |-> refund[f].cents,
                      credits |-> CreditsFor(refund[f].cents, ratio)]
    OBVIOUS
  <1>2. /\ refund[f].at = "settling"
        /\ refunded' = [refunded EXCEPT ![p] = x.before + x.cents]
        /\ reversals' = [reversals EXCEPT ![p] = @ \cup {x}]
        /\ wallet' = [wallet EXCEPT !.paid = @ + -x.credits]
        /\ wallet.paid >= x.credits
        /\ UNCHANGED <<spent, posted, ratio>>
    BY <1>0, <1>1 DEF SettleRefund, TakenBack, WalletCovers, AddPaid
  <1>3. /\ refund[f].cents \in Nat /\ refund[f].before \in Nat
    BY <1>t, <1>2 DEF TypeOK, Refunds, NoRefund
  <1>4. x \in Reversals
    BY <1>1, <1>3, <1>t, RatioNatural, CreditsNatural DEF Reversals
  <1>5. /\ x.cents > 0 /\ x.before = refunded[p] /\ x.credits = CreditsFor(x.cents, ratio)
    BY <1>0, <1>1, <1>2 DEF RowsAgree, RefundOfPayment, Covered, LockedIsCurrent
  <1>6. refunded[p] \in Nat /\ reversals[p] \in SUBSET Reversals /\ x.cents \in Nat
    BY <1>t, <1>4 DEF TypeOK, Reversals
  <1>7. x \notin reversals[p] BY <1>5, <1>6 DEF RowsAgree, ReversalRows
  <1>8. IsFiniteSet(reversals[p]) BY DEF RowsAgree, ReversalRows
  <1>9. /\ CentsOf(reversals[p] \cup {x}) = CentsOf(reversals[p]) + x.cents
        /\ CreditsOf(reversals[p] \cup {x}) = CreditsOf(reversals[p]) + x.credits
    BY <1>4, <1>6, <1>7, <1>8, RowAdds
  <1>10. QED BY <1>2, <1>4, <1>5, <1>7, <1>9

LEMMA PaidByMock ==
    ASSUME TypeOK, TypeOK', RowsAgree, RowsAgree', LedgerExplainsPaid,
           NEW p \in Purchases, MockPurchase(p)
    PROVE  LedgerExplainsPaid'
  <1>1. PICK n : n = CreditsFor(amount'[p], ratio) OBVIOUS
  <1>2. PICK cents \in Amounts :
            /\ Offer(p, cents)
            /\ posted' = [posted EXCEPT ![p] = CreditsFor(cents, ratio)]
            /\ wallet' = [wallet EXCEPT !.paid = @ + CreditsFor(cents, ratio)]
    BY DEF MockPurchase, AddPaid
  <1>3. amount'[p] = cents BY <1>2 DEF Offer, TypeOK
  <1>4. n = CreditsFor(cents, ratio) /\ n \in Nat
    BY <1>1, <1>2, <1>3, PaymentsAssumption, CreditsNatural, RatioNatural
  <1>5. posted[p] = 0 BY <1>2 DEF RowsAgree, Sold, Offer, TypeOK
  <1>6. /\ posted'[p] = n /\ reversals' = reversals /\ spent' = spent
        /\ wallet'.paid = wallet.paid + n
        /\ \A q \in Purchases \ {p} : posted'[q] = posted[q] /\ reversals'[q] = reversals[q]
    BY <1>2, <1>4 DEF MockPurchase, TypeOK
  <1>7. wallet.paid \in Int /\ wallet.paid >= 0 BY DEF TypeOK, LedgerExplainsPaid
  <1>8. CreditsOf(reversals[p]) \in Nat BY RowsSum DEF TypeOK, RowsAgree, ReversalRows
  <1>9. posted'[p] - CreditsOf(reversals'[p]) = posted[p] - CreditsOf(reversals[p]) + n
    BY <1>4, <1>5, <1>6, <1>8
  <1>10. wallet.paid + n >= 0 BY <1>4, <1>7
  <1>11. QED BY <1>4, <1>6, <1>9, <1>10, PaidMoves

LEMMA PaidByPost ==
    ASSUME TypeOK, TypeOK', RowsAgree, RowsAgree', LedgerExplainsPaid,
           NEW d \in Deliveries, PostCommit(d)
    PROVE  LedgerExplainsPaid'
  <1>1. PICK p \in Purchases : p = hook[d].of BY DEF PostCommit, TypeOK, Hooks, NoHook
  <1>2. PICK n : n = grant[p] OBVIOUS
  <1>3. /\ posted[p] = 0 /\ posted' = [posted EXCEPT ![p] = @ + n]
        /\ wallet' = [wallet EXCEPT !.paid = @ + n]
        /\ reversals' = reversals /\ spent' = spent
    BY <1>1, <1>2 DEF PostCommit, PostPurchase, NotYetPosted, AddPaid
  <1>4. n \in Nat BY <1>2 DEF TypeOK
  <1>s. posted[p] + n = n BY <1>3, <1>4
  <1>p. posted' = [posted EXCEPT ![p] = n] BY <1>3, <1>s
  <1>5. /\ posted'[p] = n /\ wallet'.paid = wallet.paid + n
        /\ \A q \in Purchases \ {p} : posted'[q] = posted[q] /\ reversals'[q] = reversals[q]
    BY <1>3, <1>p DEF TypeOK
  <1>6. wallet.paid \in Int /\ wallet.paid >= 0 BY DEF TypeOK, LedgerExplainsPaid
  <1>7. CreditsOf(reversals[p]) \in Nat BY RowsSum DEF TypeOK, RowsAgree, ReversalRows
  <1>8. posted'[p] - CreditsOf(reversals'[p]) = posted[p] - CreditsOf(reversals[p]) + n
    BY <1>3, <1>4, <1>5, <1>7
  <1>9. wallet.paid + n >= 0 BY <1>4, <1>6
  <1>10. QED BY <1>3, <1>4, <1>5, <1>8, <1>9, PaidMoves

LEMMA PaidBySettle ==
    ASSUME Covered, TypeOK', RowsAgree, RowsAgree', LedgerExplainsPaid,
           NEW f \in Refunders, SettleRefund(f)
    PROVE  LedgerExplainsPaid'
  <1>t. TypeOK BY DEF Covered
  <1>1. PICK p \in Purchases, x \in Reversals :
            /\ wallet.paid >= x.credits
            /\ wallet' = [wallet EXCEPT !.paid = @ + -x.credits]
            /\ spent' = spent /\ posted' = posted
            /\ reversals' = [reversals EXCEPT ![p] = @ \cup {x}]
            /\ CreditsOf(reversals[p] \cup {x}) = CreditsOf(reversals[p]) + x.credits
    BY SettledRow
  <1>2. PICK n : n = -x.credits OBVIOUS
  <1>3. x.credits \in Nat BY DEF Reversals
  <1>4. wallet.paid \in Int BY <1>t DEF TypeOK
  <1>5. n \in Int /\ wallet.paid + n >= 0 BY <1>1, <1>2, <1>3, <1>4
  <1>6. /\ wallet'.paid = wallet.paid + n
        /\ reversals'[p] = reversals[p] \cup {x}
        /\ \A q \in Purchases \ {p} : posted'[q] = posted[q] /\ reversals'[q] = reversals[q]
    BY <1>t, <1>1, <1>2 DEF TypeOK
  <1>7. CreditsOf(reversals[p]) \in Nat /\ posted[p] \in Nat
    BY <1>t, RowsSum DEF TypeOK, RowsAgree, ReversalRows
  <1>8. CreditsOf(reversals'[p]) = CreditsOf(reversals[p]) + x.credits BY <1>1, <1>6
  <1>9. posted'[p] - CreditsOf(reversals'[p]) = posted[p] - CreditsOf(reversals[p]) + n
    BY <1>1, <1>2, <1>3, <1>7, <1>8
  <1>10. QED BY <1>t, <1>1, <1>5, <1>6, <1>9, PaidMoves

LEMMA PaidBySpend ==
    ASSUME TypeOK, TypeOK', RowsAgree, LedgerExplainsPaid, Spend
    PROVE  LedgerExplainsPaid'
  <1>1. PICK n \in (-spent .. wallet.paid) \cap Spends :
            wallet' = [wallet EXCEPT !.paid = @ + -n] /\ spent' = spent + n
    BY DEF Spend, AddPaid
  <1>2. /\ wallet.paid \in Int /\ spent \in Nat /\ InitPaid \in Nat
        /\ posted \in [Purchases -> Nat] /\ reversals \in [Purchases -> SUBSET Reversals]
    BY PaymentsAssumption DEF TypeOK
  <1>3. posted' = posted /\ reversals' = reversals BY DEF Spend, purchaseVars
  <1>4. n \in Int /\ n <= wallet.paid BY <1>1, <1>2
  <1>5. wallet'.paid = wallet.paid + -n BY <1>1 DEF TypeOK
  <1>6. NetSum(posted, reversals) \in Int
    BY <1>2, NetInt DEF RowsAgree, ReversalRows, FiniteRows
  <1>7. wallet.paid = InitPaid + NetSum(posted, reversals) - spent BY PaidByRows
  <1>8. PICK net : net = NetSum(posted, reversals) OBVIOUS
  <1>9. net = NetSum(posted', reversals') BY <1>3, <1>8
  <1>10. wallet'.paid = InitPaid + net - spent' /\ wallet'.paid >= 0
    BY <1>1, <1>2, <1>4, <1>5, <1>6, <1>7, <1>8
  <1>11. QED BY <1>9, <1>10, PaidByRows

LEMMA PaidStep ==
    ASSUME Covered, TypeOK', RowsAgree, RowsAgree', LedgerExplainsPaid, [Next]_vars
    PROVE  LedgerExplainsPaid'
  <1> USE DEF stripeVars, walletVars, purchaseVars
  <1>t. TypeOK BY DEF Covered
  <1>1. ASSUME UNCHANGED <<wallet, spent, posted, reversals>> PROVE LedgerExplainsPaid'
    BY <1>1, PaidByRows
  <1>2. CASE Spend BY <1>t, <1>2, PaidBySpend
  <1>3. CASE SetRatio BY <1>1, <1>3 DEF SetRatio
  <1>4. ASSUME NEW p \in Purchases, Buy(p) PROVE LedgerExplainsPaid'
    BY <1>t, <1>1, <1>4, PaidByMock DEF Buy, CreateSession, StorePending
  <1>5. ASSUME NEW p \in Purchases, SessionPaid(p) \/ KeysExpire(p) \/ MarkFailed(p)
        PROVE  LedgerExplainsPaid'
    BY <1>1, <1>5 DEF SessionPaid, KeysExpire, MarkFailed
  <1>6. ASSUME NEW d \in Deliveries, Deliver(d) PROVE LedgerExplainsPaid'
    BY <1>t, <1>1, <1>6, PaidByPost
    DEF Deliver, PostProceeds, CheckPosted, BeginPost, PostDuplicate, PostFails
  <1>7. ASSUME NEW f \in Refunders, Refunding(f) PROVE LedgerExplainsPaid'
    <2>1. CASE SettleRefund(f) BY <2>1, PaidBySettle
    <2>2. CASE ~SettleRefund(f)
      BY <1>1, <1>7, <2>2
      DEF Refunding, RefundProceeds, StripeAnswers, RefundOnly, BeginRefund, LockPayment, RefuseRefund,
          StripeAccepts, StripeUnheard, StripeRefuses, RefundFails, RefundUncovered, Abandon
    <2>3. QED BY <2>1, <2>2
  <1>8. CASE UNCHANGED vars BY <1>1, <1>8 DEF vars, payVars
  <1>9. QED BY <1>2, <1>3, <1>4, <1>5, <1>6, <1>7, <1>8 DEF Next, PaymentStep

\* The paid credits of the wallet are, at every moment, what it started with, plus the
\* ledger's grants, less its reversals and what inference spent, and never negative: for any
\* number of purchases, deliveries and refunds.
THEOREM LedgerAlwaysExplainsPaid == Spec => []LedgerExplainsPaid
  <1>1. Covered /\ RowsAgree /\ RowsAgree' /\ TypeOK' /\ LedgerExplainsPaid /\ [Next]_vars
            => LedgerExplainsPaid'
    BY PaidStep
  <1>2. QED BY <1>1, PaidInit, AlwaysCovered, AlwaysRowsAgree, PaymentsTypeCorrect, PTL DEF Spec

-----------------------------------------------------------------------------
(* What refunds take back, at any ratio *)

LEMMA HighestRatio ==
    /\ Max(Ratios) \in Ratios /\ Max(Ratios) \in Nat
    /\ \A r \in Ratios : r <= Max(Ratios)
  <1>1. \E highest \in Ratios : \A r \in Ratios : highest >= r BY PaymentsAssumption
  <1>2. Max(Ratios) \in Ratios /\ \A r \in Ratios : Max(Ratios) >= r BY <1>1 DEF Max
  <1>3. QED BY <1>2, PaymentsAssumption

\* Two floors together are no more than the floor of the whole at a ratio as high.
LEMMA FloorsAddUp ==
    ASSUME NEW a \in Nat, NEW c \in Nat, NEW high \in Nat, NEW r \in Nat, r <= high
    PROVE  Worth(a, high) + Worth(c, r) <= Worth(a + c, high)
  <1>1. PICK A \in Nat : A = a * high OBVIOUS
  <1>2. PICK C \in Nat : C = c * high OBVIOUS
  <1>3. PICK D \in Nat : D = c * r OBVIOUS
  <1>4. (a + c) * high = A + C BY <1>1, <1>2
  <1>5. D <= C
    <2>1. PICK more \in Nat : high = r + more
      <3>1. high - r \in Nat /\ high = r + (high - r) OBVIOUS
      <3>2. QED BY <3>1
    <2>2. c * more \in Nat /\ C = D + c * more BY <1>2, <1>3, <2>1
    <2>3. QED BY <2>2
  <1>6. A \div 100 + D \div 100 <= (A + C) \div 100 BY <1>5
  <1>7. QED BY <1>1, <1>3, <1>4, <1>6 DEF Worth

\* The cents of a part are worth no more than the whole's.
LEMMA WorthGrows ==
    ASSUME NEW a \in Nat, NEW b \in Nat, a <= b, NEW r \in Nat
    PROVE  Worth(a, r) <= Worth(b, r)
  <1>1. b - a \in Nat /\ a + (b - a) = b OBVIOUS
  <1>2. Worth(a, r) + Worth(b - a, r) <= Worth(a + (b - a), r) BY <1>1, FloorsAddUp
  <1>3. Worth(a, r) \in Nat /\ Worth(b - a, r) \in Nat /\ Worth(b, r) \in Nat
    BY <1>1, CreditsNatural
  <1>4. QED BY <1>1, <1>2, <1>3

WorthOK(p) == Reversed(p) <= Worth(refunded[p], Max(Ratios))
AllWithinWorth == \A p \in Purchases : WorthOK(p)

\* A grant at the highest ratio is at most one credit short of what the cents are worth.
LEMMA WithinGrant ==
    ASSUME TypeOK, RowsAgree, AllWithinWorth
    PROVE  ReversedWithinWorth
  <1> SUFFICES ASSUME NEW p \in Purchases, grant[p] = CreditsFor(amount[p], Max(Ratios))
               PROVE  Reversed(p) <= grant[p] + 1
    BY DEF AllWithinWorth, WorthOK, ReversedWithinWorth
  <1>1. amount[p] \in Nat /\ refunded[p] \in Nat /\ Max(Ratios) \in Nat
    BY HighestRatio DEF TypeOK
  <1>2. refunded[p] <= amount[p] BY DEF RowsAgree, PaymentRow
  <1>3. Worth(refunded[p], Max(Ratios)) <= Worth(amount[p], Max(Ratios))
    BY <1>1, <1>2, WorthGrows
  <1>4. /\ Worth(refunded[p], Max(Ratios)) \in Nat /\ Worth(amount[p], Max(Ratios)) \in Nat
        /\ grant[p] \in Nat /\ Worth(amount[p], Max(Ratios)) - 1 <= grant[p]
    BY <1>1, CreditsNatural
  <1>5. Reversed(p) <= Worth(refunded[p], Max(Ratios)) BY DEF AllWithinWorth, WorthOK
  <1>6. Reversed(p) \in Nat BY RowsSum, SumsOfRows DEF TypeOK, RowsAgree, ReversalRows
  <1>7. QED BY <1>3, <1>4, <1>5, <1>6

LEMMA WorthKept ==
    ASSUME NEW p \in Purchases, WorthOK(p), refunded'[p] = refunded[p],
           reversals'[p] = reversals[p]
    PROVE  WorthOK(p)'
  BY SumsOfRows DEF WorthOK

LEMMA WorthInit == Init => AllWithinWorth
  <1> SUFFICES ASSUME Init, NEW p \in Purchases
               PROVE  Reversed(p) <= Worth(refunded[p], Max(Ratios))
    BY DEF AllWithinWorth, WorthOK
  <1>1. Reversed(p) = 0 BY SumsOfRows, NoRowsNoSum DEF Init
  <1>2. refunded[p] \in Nat BY DEF Init
  <1>3. Worth(refunded[p], Max(Ratios)) \in Nat BY <1>2, HighestRatio, CreditsNatural
  <1>4. QED BY <1>1, <1>3

LEMMA WorthSettle ==
    ASSUME Covered, RowsAgree, AllWithinWorth, NEW f \in Refunders, SettleRefund(f)
    PROVE  AllWithinWorth'
  <1>t. TypeOK BY DEF Covered
  <1>1. PICK p \in Purchases, x \in Reversals :
            /\ x.credits = CreditsFor(x.cents, ratio)
            /\ refunded' = [refunded EXCEPT ![p] = refunded[p] + x.cents]
            /\ reversals' = [reversals EXCEPT ![p] = @ \cup {x}]
            /\ CreditsOf(reversals[p] \cup {x}) = CreditsOf(reversals[p]) + x.credits
    BY SettledRow
  <1>2. refunded[p] \in Nat /\ x.cents \in Nat /\ x.credits \in Nat /\ ratio \in Ratios
        /\ ratio \in Nat
    BY <1>t, RatioNatural DEF TypeOK, Reversals
  <1>3. CreditsOf(reversals[p]) <= Worth(refunded[p], Max(Ratios))
    BY SumsOfRows DEF AllWithinWorth, WorthOK
  <1>4. Worth(refunded[p], Max(Ratios)) + Worth(x.cents, ratio)
            <= Worth(refunded[p] + x.cents, Max(Ratios))
    BY <1>2, FloorsAddUp, HighestRatio
  <1>5. CreditsOf(reversals[p]) \in Nat BY <1>t, RowsSum DEF TypeOK, RowsAgree, ReversalRows
  <1>6. /\ Worth(refunded[p], Max(Ratios)) \in Nat
        /\ Worth(refunded[p] + x.cents, Max(Ratios)) \in Nat
        /\ Worth(x.cents, ratio) \in Nat /\ x.credits <= Worth(x.cents, ratio)
    <2>1. refunded[p] + x.cents \in Nat /\ Max(Ratios) \in Nat BY <1>2, HighestRatio
    <2>2. Worth(refunded[p], Max(Ratios)) \in Nat BY <1>2, <2>1, CreditsNatural
    <2>3. Worth(refunded[p] + x.cents, Max(Ratios)) \in Nat BY <2>1, CreditsNatural
    <2>4. Worth(x.cents, ratio) \in Nat /\ x.credits <= Worth(x.cents, ratio)
      BY <1>1, <1>2, CreditsNatural
    <2>5. QED BY <2>2, <2>3, <2>4
  <1>7. CreditsOf(reversals[p] \cup {x}) <= Worth(refunded[p] + x.cents, Max(Ratios))
    BY <1>1, <1>2, <1>3, <1>4, <1>5, <1>6
  <1>8. refunded'[p] = refunded[p] + x.cents /\ reversals'[p] = reversals[p] \cup {x}
    BY <1>t, <1>1 DEF TypeOK
  <1>9. CreditsOf(reversals'[p]) <= Worth(refunded'[p], Max(Ratios)) BY <1>7, <1>8
  <1>10. WorthOK(p)' BY <1>9, SumsOfRows DEF WorthOK
  <1>11. \A q \in Purchases \ {p} : refunded'[q] = refunded[q] /\ reversals'[q] = reversals[q]
    BY <1>t, <1>1 DEF TypeOK
  <1>12. \A q \in Purchases \ {p} : WorthOK(q)'
    BY <1>11, WorthKept DEF AllWithinWorth
  <1>13. QED BY <1>10, <1>12 DEF AllWithinWorth

LEMMA WorthStep ==
    ASSUME Covered, RowsAgree, AllWithinWorth, [Next]_vars
    PROVE  AllWithinWorth'
  <1> USE DEF stripeVars, walletVars, purchaseVars
  <1>t. TypeOK BY DEF Covered
  <1>1. ASSUME \A p \in Purchases : refunded'[p] = refunded[p] /\ reversals'[p] = reversals[p]
        PROVE  AllWithinWorth'
    BY <1>1, WorthKept DEF AllWithinWorth
  <1>2. CASE Spend \/ SetRatio BY <1>1, <1>2 DEF Spend, SetRatio
  <1>4. ASSUME NEW p \in Purchases, Buy(p) PROVE AllWithinWorth'
    BY <1>1, <1>4 DEF Buy, MockPurchase, CreateSession, StorePending
  <1>5. ASSUME NEW p \in Purchases, SessionPaid(p) \/ KeysExpire(p) \/ MarkFailed(p)
        PROVE  AllWithinWorth'
    BY <1>1, <1>5 DEF SessionPaid, KeysExpire, MarkFailed
  <1>6. ASSUME NEW d \in Deliveries, Deliver(d) PROVE AllWithinWorth'
    BY <1>1, <1>6
    DEF Deliver, PostProceeds, CheckPosted, BeginPost, PostCommit, PostPurchase, PostDuplicate,
        PostFails
  <1>7. ASSUME NEW f \in Refunders, Refunding(f) PROVE AllWithinWorth'
    <2>1. CASE SettleRefund(f) BY <2>1, WorthSettle
    <2>2. CASE ~SettleRefund(f)
      BY <1>1, <1>7, <2>2
      DEF Refunding, RefundProceeds, StripeAnswers, RefundOnly, BeginRefund, LockPayment, RefuseRefund,
          StripeAccepts, StripeUnheard, StripeRefuses, RefundFails, RefundUncovered, Abandon
    <2>3. QED BY <2>1, <2>2
  <1>8. CASE UNCHANGED vars BY <1>1, <1>8 DEF vars, payVars
  <1>9. QED BY <1>2, <1>4, <1>5, <1>6, <1>7, <1>8 DEF Next, PaymentStep

\* However often the ratio changes between a purchase and its partial refunds, and however
\* each computation rounds, together they take back no more credits than the refunded cents
\* are worth at the highest ratio there is, and of a purchase made at that ratio at most one
\* credit more than it granted.
THEOREM RefundsStayWithinWorth == Spec => []ReversedWithinWorth
  <1>1. Covered /\ RowsAgree /\ AllWithinWorth /\ [Next]_vars => AllWithinWorth'
    BY WorthStep
  <1>2. Covered /\ RowsAgree /\ AllWithinWorth => ReversedWithinWorth
    BY WithinGrant DEF Covered
  <1>3. QED BY <1>1, <1>2, WorthInit, AlwaysCovered, AlwaysRowsAgree, PTL DEF Spec

-----------------------------------------------------------------------------
(* What has been decided stays *)

OutcomeStands(p) ==
    /\ purchase[p] = "posted" => purchase'[p] = "posted"
    /\ payment[p] \in {"refunded", "partially_refunded"}
          => payment'[p] \in {"refunded", "partially_refunded"}
    /\ payment[p] = "refunded" => payment'[p] = "refunded"

LEMMA OutcomesStep ==
    ASSUME Covered, RowsAgree, [Next]_vars
    PROVE  \A p \in Purchases : OutcomeStands(p)
  <1> USE DEF stripeVars, walletVars, purchaseVars
  <1>t. TypeOK BY DEF Covered
  <1>1. ASSUME NEW q \in Purchases,
               \A p \in Purchases \ {q} : purchase'[p] = purchase[p] /\ payment'[p] = payment[p],
               OutcomeStands(q)
        PROVE  \A p \in Purchases : OutcomeStands(p)
    BY <1>1 DEF OutcomeStands
  <1>2. ASSUME UNCHANGED <<purchase, payment>>
        PROVE  \A p \in Purchases : OutcomeStands(p)
    BY <1>2 DEF OutcomeStands
  <1>3. ASSUME NEW p \in Purchases, Buy(p) PROVE \A q \in Purchases : OutcomeStands(q)
    <2>1. purchase[p] = "none" /\ payment[p] = "none"
      BY <1>3 DEF Buy, MockPurchase, CreateSession, StorePending, Offer, RowsAgree, PaymentRow
    <2>2. OutcomeStands(p) BY <2>1 DEF OutcomeStands
    <2>3. \A q \in Purchases \ {p} : purchase'[q] = purchase[q] /\ payment'[q] = payment[q]
      BY <1>t, <1>3 DEF Buy, MockPurchase, CreateSession, StorePending, Offer, TypeOK
    <2>4. QED BY <1>1, <2>2, <2>3
  <1>4. ASSUME NEW p \in Purchases, SessionPaid(p) \/ KeysExpire(p)
        PROVE  \A q \in Purchases : OutcomeStands(q)
    BY <1>2, <1>4 DEF SessionPaid, KeysExpire
  <1>5. ASSUME NEW p \in Purchases, MarkFailed(p) PROVE \A q \in Purchases : OutcomeStands(q)
    <2>1. PICK s \in {"expired", "failed"} :
              /\ purchase' = [purchase EXCEPT ![p] = IF @ = "pending" THEN s ELSE @]
              /\ payment' = [payment EXCEPT ![p] =
                    IF paymentId[p] = "session" /\ @ = "pending" THEN s ELSE @]
      BY <1>5 DEF MarkFailed, FailPending
    <2>2. OutcomeStands(p) BY <1>t, <2>1 DEF OutcomeStands, TypeOK
    <2>3. \A q \in Purchases \ {p} : purchase'[q] = purchase[q] /\ payment'[q] = payment[q]
      BY <1>t, <2>1 DEF TypeOK
    <2>4. QED BY <1>1, <2>2, <2>3
  <1>6. ASSUME NEW d \in Deliveries, Deliver(d) PROVE \A q \in Purchases : OutcomeStands(q)
    <2>1. CASE PostCommit(d)
      <3>1. PICK p \in Purchases : p = hook[d].of
        BY <1>t, <2>1 DEF PostCommit, TypeOK, Hooks, NoHook
      <3>2. /\ purchase' = [purchase EXCEPT ![p] = "posted"]
            /\ payment' = [payment EXCEPT ![p] =
                  IF paymentId[p] = "session" THEN "succeeded" ELSE @]
        BY <2>1, <3>1 DEF PostCommit, PostPurchase
      <3>3. paymentId[p] = "session" => payment[p] \notin {"refunded", "partially_refunded"}
        BY DEF RowsAgree, PaymentRow
      <3>4. OutcomeStands(p) BY <1>t, <3>2, <3>3 DEF OutcomeStands, TypeOK
      <3>5. \A q \in Purchases \ {p} : purchase'[q] = purchase[q] /\ payment'[q] = payment[q]
        BY <1>t, <3>2 DEF TypeOK
      <3>6. QED BY <1>1, <3>4, <3>5
    <2>2. CASE ~PostCommit(d)
      BY <1>2, <1>6, <2>2
      DEF Deliver, PostProceeds, CheckPosted, BeginPost, PostDuplicate, PostFails
    <2>3. QED BY <2>1, <2>2
  <1>7. ASSUME NEW f \in Refunders, Refunding(f) PROVE \A q \in Purchases : OutcomeStands(q)
    <2>1. CASE SettleRefund(f)
      <3>1. PICK p \in Purchases : p = refund[f].of
        BY <1>t, <2>1 DEF SettleRefund, TypeOK, Refunds, NoRefund
      <3>2. /\ purchase' = purchase
            /\ payment' = [payment EXCEPT ![p] =
                  IF refund[f].before + refund[f].cents = amount[p]
                  THEN "refunded" ELSE "partially_refunded"]
            /\ refund[f].at = "settling"
        BY <2>1, <3>1 DEF SettleRefund
      <3>3. /\ refund[f].cents > 0 /\ refund[f].before + refund[f].cents <= amount[p]
            /\ refund[f].before = refunded[p]
        BY <3>1, <3>2 DEF RowsAgree, RefundOfPayment, Covered, LockedIsCurrent
      <3>4. refund[f].cents \in Nat /\ refunded[p] \in Nat /\ amount[p] \in Nat
        BY <1>t, <3>2 DEF TypeOK, Refunds, NoRefund
      <3>5. payment[p] = "refunded" => refunded[p] = amount[p]
        BY DEF RowsAgree, PaymentRow
      <3>6. payment[p] # "refunded" BY <3>3, <3>4, <3>5
      <3>7. OutcomeStands(p) BY <1>t, <3>2, <3>6 DEF OutcomeStands, TypeOK
      <3>8. \A q \in Purchases \ {p} : purchase'[q] = purchase[q] /\ payment'[q] = payment[q]
        BY <1>t, <3>2 DEF TypeOK
      <3>9. QED BY <1>1, <3>7, <3>8
    <2>2. CASE ~SettleRefund(f)
      BY <1>2, <1>7, <2>2
      DEF Refunding, RefundProceeds, StripeAnswers, RefundOnly, BeginRefund, LockPayment, RefuseRefund,
          StripeAccepts, StripeUnheard, StripeRefuses, RefundFails, RefundUncovered, Abandon
    <2>3. QED BY <2>1, <2>2
  <1>8. CASE Spend \/ SetRatio BY <1>2, <1>8 DEF Spend, SetRatio
  <1>9. CASE UNCHANGED vars BY <1>2, <1>9 DEF vars, payVars
  <1>10. QED BY <1>3, <1>4, <1>5, <1>6, <1>7, <1>8, <1>9 DEF Next, PaymentStep

\* No event that is late, repeated or overtaken by others undoes an outcome: a posted
\* purchase stays posted, a refunded payment refunded.
THEOREM OutcomesAlwaysStand == Spec => OutcomesStand
  <1>1. Covered /\ RowsAgree /\ [Next]_vars
            => [ \A p \in Purchases :
                    /\ purchase[p] = "posted" => purchase'[p] = "posted"
                    /\ payment[p] \in {"refunded", "partially_refunded"}
                          => payment'[p] \in {"refunded", "partially_refunded"}
                    /\ payment[p] = "refunded" => payment'[p] = "refunded" ]_vars
    BY OutcomesStep DEF OutcomeStands
  <1>2. QED BY <1>1, AlwaysCovered, AlwaysRowsAgree, PTL DEF Spec, OutcomesStand
=============================================================================
