------------------------------ MODULE Payments ------------------------------
(***************************************************************************)
(* Buying credits and refunding them (httpapi/handlers.go, purchaseCredits *)
(* to postStripeCreditPurchase; httpapi/advanced.go, refundPayment and     *)
(* createStripeRefund).                                                    *)
(*                                                                         *)
(* A purchase is paid at once (mock mode) or through a Stripe Checkout     *)
(* session, whose outcome arrives by webhook: Stripe sends an event until  *)
(* it is answered 200, so every event may arrive at any time after it      *)
(* happened, any number of times, in any order, to handlers that run       *)
(* concurrently.  Nothing is assumed about which outcomes of a session     *)
(* exclude each other: one that is paid may be announced as expired or     *)
(* failed, before or after.  A refund locks the payment row, asks Stripe,  *)
(* and then takes the credits back.                                        *)
(*                                                                         *)
(* All purchases here pay into one wallet.  A transaction is one step      *)
(* where its effects are committed, preceded by the steps at which it      *)
(* waits for a connection, a row lock or Stripe.                           *)
(***************************************************************************)
EXTENDS Integers, FiniteSets, FiniteSetsExt

CONSTANTS
    Purchases,      \* the credit purchases
    Stripe,         \* those made while payment_provider_mode is stripe
    Amounts,        \* amounts in cents a purchase may have
    RefundCents,    \* amounts in cents an administrator may refund
    Ratios,         \* the whole numbers usd_to_credit_ratio may be
    RoundedLow,     \* the <<cents, ratio>> whose floating-point product is below a whole
                    \* number of credits that the exact product reaches
    Spends,         \* what inference may take at once or, negative, give back
    Deliveries,     \* webhook handlers that run at the same time
    Refunders,      \* refund handlers that run at the same time
    Conns,          \* the size of the database connection pool
    InitPaid,       \* the wallet at the start
    InitPromo,
    None            \* no handler, no purchase

ASSUME PaymentsAssumption ==
    /\ IsFiniteSet(Purchases)
    /\ Stripe \subseteq Purchases
    /\ Amounts \subseteq Nat \ {0}
    /\ RefundCents \subseteq Nat \ {0}
    /\ Ratios \subseteq Nat \ {0}
    /\ \E highest \in Ratios : \A r \in Ratios : r <= highest
    /\ RoundedLow \subseteq Nat \X Nat
    /\ \A x \in RoundedLow : x[1] * x[2] > 0 /\ (x[1] * x[2]) % 100 = 0
    /\ Spends \subseteq Int
    /\ Conns \in Nat \ {0}
    /\ InitPaid \in Nat
    /\ InitPromo \in Nat
    /\ None \notin Purchases \cup Deliveries \cup Refunders

VARIABLES
    wallet,     \* the user_wallets row: paid_credits, promotional_credits
    lock,       \* who holds the lock of that row (other modules), or None
    spent,      \* paid credits that inference has taken and not given back
    ratio,      \* sys_config, usd_to_credit_ratio
    amount,     \* amount_cents of each purchase and payment
    grant,      \* the credits of each purchase, fixed when it is made
    purchase,   \* user_credit_purchases.status, "none" before the row exists
    payment,    \* user_payments.status
    paymentId,  \* what user_payments.provider_payment_id names
    refunded,   \* user_payments.refunded_amount_cents
    payLock,    \* the refund that holds the lock of the payment row, or None
    posted,     \* the credits of its purchase rows in the ledger: stripe_checkout_<session>,
                \* or the mock purchase's
    reversals,  \* the ledger rows refund_<payment>_<refunded before>_<cents>
    session,    \* at Stripe: the Checkout session, and whether it was paid
    returned,   \* at Stripe: cents refunded
    keys,       \* at Stripe: the idempotency keys of accepted refunds
    hook,       \* the webhook handlers
    refund      \* the refund handlers

walletVars == <<wallet, lock>>
purchaseVars == <<amount, grant, purchase, payment, paymentId, refunded, posted, reversals>>
stripeVars == <<session, returned, keys>>
payVars == <<spent, ratio, purchaseVars, payLock, stripeVars, hook, refund>>
vars == <<walletVars, payVars>>

Keys == [before : Nat, cents : Nat]
Reversals == [before : Nat, cents : Nat, credits : Nat]
NoHook == [at |-> "idle", of |-> None]
Hooks == {NoHook} \cup [at : {"checked", "posting"}, of : Purchases]
NoRefund == [at |-> "idle", of |-> None, cents |-> 0, before |-> 0]
Refunds == {NoRefund} \cup [at : {"begun", "calling", "settling"}, of : Purchases,
                            cents : Nat, before : Nat]

TypeOK ==
    /\ wallet \in [paid : Int, promo : Int]
    /\ spent \in Nat
    /\ ratio \in Ratios
    /\ amount \in [Purchases -> Nat]
    /\ grant \in [Purchases -> Nat]
    /\ purchase \in [Purchases -> {"none", "pending", "posted", "expired", "failed"}]
    /\ payment \in [Purchases -> {"none", "pending", "succeeded", "expired", "failed",
                                  "partially_refunded", "refunded"}]
    /\ paymentId \in [Purchases -> {"none", "fake", "session", "intent"}]
    /\ refunded \in [Purchases -> Nat]
    /\ payLock \in [Purchases -> Refunders \cup {None}]
    /\ posted \in [Purchases -> Nat]
    /\ reversals \in [Purchases -> SUBSET Reversals]
    /\ session \in [Purchases -> {"none", "open", "paid"}]
    /\ returned \in [Purchases -> Nat]
    /\ keys \in [Purchases -> SUBSET Keys]
    /\ hook \in [Deliveries -> Hooks]
    /\ refund \in [Refunders -> Refunds]

Init ==
    /\ wallet = [paid |-> InitPaid, promo |-> InitPromo]
    /\ lock = None
    /\ spent = 0
    /\ ratio \in Ratios
    /\ amount = [p \in Purchases |-> 0]
    /\ grant = [p \in Purchases |-> 0]
    /\ purchase = [p \in Purchases |-> "none"]
    /\ payment = [p \in Purchases |-> "none"]
    /\ paymentId = [p \in Purchases |-> "none"]
    /\ refunded = [p \in Purchases |-> 0]
    /\ payLock = [p \in Purchases |-> None]
    /\ posted = [p \in Purchases |-> 0]
    /\ reversals = [p \in Purchases |-> {}]
    /\ session = [p \in Purchases |-> "none"]
    /\ returned = [p \in Purchases |-> 0]
    /\ keys = [p \in Purchases |-> {}]
    /\ hook = [d \in Deliveries |-> NoHook]
    /\ refund = [f \in Refunders |-> NoRefund]

-----------------------------------------------------------------------------
(* Shared resources *)

WalletFree == lock = None

\* The connections that open transactions hold.
InUse == Cardinality({d \in Deliveries : hook[d].at = "posting"})
            + Cardinality({f \in Refunders : refund[f].at # "idle"})
ConnectionFree == InUse < Conns

\* What cents are worth, exactly.
Worth(cents, r) == (cents * r) \div 100

(***************************************************************************)
(* int64(float64(cents) / 100 * ratio): two roundings, then truncation.    *)
(* Where the exact product is a whole number of credits the result may be  *)
(* one less: 115 cents are 114 credits at ratio 100, and 50 cents with 65  *)
(* cents are 115.                                                          *)
(***************************************************************************)
CreditsFor(cents, r) == IF <<cents, r>> \in RoundedLow THEN Worth(cents, r) - 1 ELSE Worth(cents, r)

AddPaid(n) == wallet' = [wallet EXCEPT !.paid = @ + n]

-----------------------------------------------------------------------------
(* purchaseCredits *)

\* purchaseCredits' amounts: a purchase that would buy no credit is refused.
Offer(p, cents) ==
    /\ session[p] = "none"
    /\ purchase[p] = "none"
    /\ CreditsFor(cents, ratio) > 0
    /\ amount' = [amount EXCEPT ![p] = cents]
    /\ grant' = [grant EXCEPT ![p] = CreditsFor(cents, ratio)]

\* Mock mode: purchase, payment, ledger row and wallet in one transaction.
MockPurchase(p) ==
    /\ p \notin Stripe
    /\ ConnectionFree /\ WalletFree
    /\ \E cents \in Amounts :
          /\ Offer(p, cents)
          /\ posted' = [posted EXCEPT ![p] = CreditsFor(cents, ratio)]
          /\ AddPaid(CreditsFor(cents, ratio))
    /\ purchase' = [purchase EXCEPT ![p] = "posted"]
    /\ payment' = [payment EXCEPT ![p] = "succeeded"]
    /\ paymentId' = [paymentId EXCEPT ![p] = "fake"]
    /\ UNCHANGED <<lock, spent, ratio, refunded, payLock, reversals, stripeVars, hook, refund>>

\* createStripeCheckoutSession; the session carries the purchase in its metadata.
CreateSession(p) ==
    /\ p \in Stripe
    /\ \E cents \in Amounts : Offer(p, cents)
    /\ session' = [session EXCEPT ![p] = "open"]
    /\ UNCHANGED <<walletVars, spent, ratio, purchase, payment, paymentId, refunded, posted,
                   reversals, payLock, returned, keys, hook, refund>>

\* The pending rows.  If this transaction fails the buyer never learns the
\* session's URL, and nothing follows but the session's expiry.
StorePending(p) ==
    /\ session[p] = "open"
    /\ purchase[p] = "none"
    /\ ConnectionFree
    /\ purchase' = [purchase EXCEPT ![p] = "pending"]
    /\ payment' = [payment EXCEPT ![p] = "pending"]
    /\ paymentId' = [paymentId EXCEPT ![p] = "session"]
    /\ UNCHANGED <<walletVars, spent, ratio, amount, grant, refunded, posted, reversals,
                   payLock, stripeVars, hook, refund>>

-----------------------------------------------------------------------------
(* Stripe and the buyer *)

\* Only a buyer who was given the URL can pay.
SessionPaid(p) ==
    /\ session[p] = "open"
    /\ purchase[p] # "none"
    /\ session' = [session EXCEPT ![p] = "paid"]
    /\ UNCHANGED <<walletVars, spent, ratio, purchaseVars, payLock, returned, keys, hook, refund>>

\* Stripe forgets an idempotency key some time after the refund.
KeysExpire(p) ==
    /\ keys[p] # {}
    /\ keys' = [keys EXCEPT ![p] = {}]
    /\ UNCHANGED <<walletVars, spent, ratio, purchaseVars, payLock, session, returned, hook, refund>>

-----------------------------------------------------------------------------
(* stripeWebhook.  An event that is ignored changes nothing and is no action:   *)
(* a completed session that is not paid, async_payment_succeeded, all others.   *)

\* Mutant: the event's name is stored for the status.
MarkFailedByEvent(p) ==
    /\ session[p] # "none"
    /\ ConnectionFree
    /\ payment[p] = "pending" /\ payLock[p] = None
    /\ payment' = [payment EXCEPT ![p] = "async_payment_failed"]
    /\ UNCHANGED <<walletVars, spent, ratio, amount, grant, purchase, paymentId, refunded,
                   posted, reversals, payLock, stripeVars, hook, refund>>

\* Mutant: the update's where clause does not name the status.
FailAnyRow(status, s) == IF status = "none" THEN status ELSE s

\* A row that is no longer pending, or does not exist, stays as it is.
FailPending(status, s) == IF status = "pending" THEN s ELSE status

\* checkout.session.expired and checkout.session.async_payment_failed, at any time once
\* there is a session; the payment is found by the session.
MarkFailed(p) ==
    /\ session[p] # "none"
    /\ ConnectionFree
    /\ payment[p] = "pending" => payLock[p] = None
    /\ \E s \in {"expired", "failed"} :
          /\ purchase' = [purchase EXCEPT ![p] = FailPending(@, s)]
          /\ payment' = [payment EXCEPT ![p] =
                IF paymentId[p] = "session" THEN FailPending(@, s) ELSE @]
    /\ UNCHANGED <<walletVars, spent, ratio, amount, grant, paymentId, refunded, posted,
                   reversals, payLock, stripeVars, hook, refund>>

\* checkout.session.completed, paid: the ledger is read for the session's row
\* outside any transaction; if it is there the answer is already_posted.
CheckPosted(d) ==
    /\ hook[d].at = "idle"
    /\ ConnectionFree
    /\ \E p \in Purchases :
          /\ session[p] = "paid"
          /\ posted[p] = 0
          /\ hook' = [hook EXCEPT ![d] = [at |-> "checked", of |-> p]]
    /\ UNCHANGED <<walletVars, spent, ratio, purchaseVars, payLock, stripeVars, refund>>

BeginPost(d) ==
    /\ hook[d].at = "checked"
    /\ ConnectionFree
    /\ hook' = [hook EXCEPT ![d].at = "posting"]
    /\ UNCHANGED <<walletVars, spent, ratio, purchaseVars, payLock, stripeVars, refund>>

\* The update of user_payments finds the row by the session, which it replaces.
PaymentRowReady(p) == paymentId[p] = "session" => payLock[p] = None

\* Mutant: the ledger has no unique key.
AlwaysPosts(p) == TRUE

NotYetPosted(p) == posted[p] = 0

PostPurchase(p) ==
    /\ PaymentRowReady(p)
    /\ WalletFree
    /\ NotYetPosted(p)
    /\ purchase' = [purchase EXCEPT ![p] = "posted"]
    /\ payment' = [payment EXCEPT ![p] = IF paymentId[p] = "session" THEN "succeeded" ELSE @]
    /\ paymentId' = [paymentId EXCEPT ![p] = IF @ = "session" THEN "intent" ELSE @]
    /\ posted' = [posted EXCEPT ![p] = @ + grant[p]]
    /\ AddPaid(grant[p])

PostCommit(d) ==
    /\ hook[d].at = "posting"
    /\ PostPurchase(hook[d].of)
    /\ hook' = [hook EXCEPT ![d] = NoHook]
    /\ UNCHANGED <<lock, spent, ratio, amount, grant, refunded, reversals, payLock, stripeVars,
                   refund>>

\* The ledger's unique key: the transaction rolls back, the answer is 500 and Stripe
\* sends the event again.
PostDuplicate(d) ==
    /\ hook[d].at = "posting"
    /\ PaymentRowReady(hook[d].of)
    /\ ~NotYetPosted(hook[d].of)
    /\ hook' = [hook EXCEPT ![d] = NoHook]
    /\ UNCHANGED <<walletVars, spent, ratio, purchaseVars, payLock, stripeVars, refund>>

\* Any error: the same.
PostFails(d) ==
    /\ hook[d].at # "idle"
    /\ hook' = [hook EXCEPT ![d] = NoHook]
    /\ UNCHANGED <<walletVars, spent, ratio, purchaseVars, payLock, stripeVars, refund>>

-----------------------------------------------------------------------------
(* refundPayment *)

RefundOnly == UNCHANGED <<walletVars, spent, ratio, purchaseVars, hook>>

\* The transaction begins, and keeps its connection to its end.
BeginRefund(f) ==
    /\ refund[f].at = "idle"
    /\ ConnectionFree
    /\ \E p \in Purchases, cents \in RefundCents :
          /\ payment[p] # "none"
          /\ refund' = [refund EXCEPT ![f] =
                [at |-> "begun", of |-> p, cents |-> cents, before |-> 0]]
    /\ RefundOnly /\ UNCHANGED <<payLock, stripeVars>>

\* Mutant: Stripe is asked after the refund is settled here.
LockPaymentWithoutStripe(f) ==
    LET p == refund[f].of
    IN  /\ refund[f].at = "begun"
        /\ payLock[p] = None
        /\ refund[f].cents <= amount[p] - refunded[p]
        /\ payLock' = [payLock EXCEPT ![p] = f]
        /\ refund' = [refund EXCEPT ![f].before = refunded[p], ![f].at = "settling"]
        /\ RefundOnly /\ UNCHANGED stripeVars

\* Mutant: the payment row is read without "for update".
ReadPaymentUnlocked(f) ==
    LET p == refund[f].of
    IN  /\ refund[f].at = "begun"
        /\ refund[f].cents <= amount[p] - refunded[p]
        /\ refund' = [refund EXCEPT ![f].before = refunded[p],
                                    ![f].at = IF p \in Stripe THEN "calling" ELSE "settling"]
        /\ RefundOnly /\ UNCHANGED <<payLock, stripeVars>>

\* The payment row, locked and read; its status is read and not looked at.
LockPayment(f) ==
    LET p == refund[f].of
    IN  /\ refund[f].at = "begun"
        /\ payLock[p] = None
        /\ refund[f].cents <= amount[p] - refunded[p]
        /\ payLock' = [payLock EXCEPT ![p] = f]
        /\ refund' = [refund EXCEPT ![f].before = refunded[p],
                                    ![f].at = IF p \in Stripe THEN "calling" ELSE "settling"]
        /\ RefundOnly /\ UNCHANGED stripeVars

\* refund_exceeds_payment
RefuseRefund(f) ==
    LET p == refund[f].of
    IN  /\ refund[f].at = "begun"
        /\ payLock[p] = None
        /\ refund[f].cents > amount[p] - refunded[p]
        /\ refund' = [refund EXCEPT ![f] = NoRefund]
        /\ RefundOnly /\ UNCHANGED <<payLock, stripeVars>>

\* Mutant: a return without Rollback.
AbandonLocked(f) ==
    /\ refund' = [refund EXCEPT ![f] = NoRefund]
    /\ UNCHANGED payLock
    /\ RefundOnly

\* The transaction ends without effect.
Abandon(f) ==
    /\ refund' = [refund EXCEPT ![f] = NoRefund]
    /\ payLock' = [p \in Purchases |-> IF payLock[p] = f THEN None ELSE payLock[p]]
    /\ RefundOnly

RefundKey(f) == [before |-> refund[f].before, cents |-> refund[f].cents]

\* At Stripe: a refund with a key it knows is the same refund; a new one must leave
\* no more than was paid, and name a payment, not a session.
StripeRefunds(f) ==
    LET p == refund[f].of
    IN  /\ refund[f].at = "calling"
        /\ paymentId[p] = "intent"
        /\ IF RefundKey(f) \in keys[p]
           THEN UNCHANGED returned
           ELSE /\ returned[p] + refund[f].cents <= amount[p]
                /\ returned' = [returned EXCEPT ![p] = @ + refund[f].cents]
        /\ keys' = [keys EXCEPT ![p] = @ \cup {RefundKey(f)}]
        /\ UNCHANGED session

StripeAccepts(f) ==
    /\ StripeRefunds(f)
    /\ refund' = [refund EXCEPT ![f].at = "settling"]
    /\ RefundOnly /\ UNCHANGED payLock

\* Stripe refunded, and the answer is lost.
StripeUnheard(f) == StripeRefunds(f) /\ Abandon(f)

\* More than is left of the payment, or no payment at Stripe.
StripeRefuses(f) ==
    LET p == refund[f].of
    IN  /\ refund[f].at = "calling"
        /\ \/ paymentId[p] # "intent"
           \/ RefundKey(f) \notin keys[p] /\ returned[p] + refund[f].cents > amount[p]
        /\ Abandon(f) /\ UNCHANGED stripeVars

\* Anything else that ends the transaction: Stripe is not reached, a statement
\* fails, the client is gone.
RefundFails(f) ==
    /\ refund[f].at # "idle"
    /\ Abandon(f) /\ UNCHANGED stripeVars

\* The ratio is read on a second connection.
RatioReadable == ConnectionFree

\* Mutant: every refund takes back what all of them so far are worth.
TakenBackInTotal(f) == CreditsFor(refund[f].before + refund[f].cents, ratio)

\* The credits of the refunded cents, at the ratio of now.
TakenBack(f) == CreditsFor(refund[f].cents, ratio)

\* Mutant: the update of the wallet is unconditional.
WithoutCover(credits) == TRUE

\* The wallet has to have them.
WalletCovers(credits) == wallet.paid >= credits

SettleRefund(f) ==
    LET p == refund[f].of
        credits == TakenBack(f)
        total == refund[f].before + refund[f].cents
    IN  /\ refund[f].at = "settling"
        /\ RatioReadable /\ WalletFree
        /\ WalletCovers(credits)
        /\ AddPaid(-credits)
        /\ refunded' = [refunded EXCEPT ![p] = total]
        /\ payment' = [payment EXCEPT ![p] =
              IF total = amount[p] THEN "refunded" ELSE "partially_refunded"]
        /\ reversals' = [reversals EXCEPT ![p] = @ \cup
              {[before |-> refund[f].before, cents |-> refund[f].cents, credits |-> credits]}]
        /\ refund' = [refund EXCEPT ![f] = NoRefund]
        /\ payLock' = [payLock EXCEPT ![p] = None]
        /\ UNCHANGED <<lock, spent, ratio, amount, grant, purchase, paymentId, posted,
                       stripeVars, hook>>

\* insufficient_paid_credits_for_refund: Stripe has refunded, the wallet has not.
RefundUncovered(f) ==
    /\ refund[f].at = "settling"
    /\ RatioReadable /\ WalletFree
    /\ ~WalletCovers(TakenBack(f))
    /\ Abandon(f) /\ UNCHANGED stripeVars

-----------------------------------------------------------------------------
(* The rest of the system: an administrator sets the ratio, inference spends *)

SetRatio ==
    /\ \E r \in Ratios \ {ratio} : ratio' = r
    /\ UNCHANGED <<walletVars, spent, purchaseVars, payLock, stripeVars, hook, refund>>

\* Requests reserve paid credits and may give back what they took.
Spend ==
    /\ WalletFree
    /\ \E n \in (-spent .. wallet.paid) \cap Spends : AddPaid(-n) /\ spent' = spent + n
    /\ UNCHANGED <<lock, ratio, purchaseVars, payLock, stripeVars, hook, refund>>

Buy(p) == MockPurchase(p) \/ CreateSession(p) \/ StorePending(p)

PostProceeds(d) == BeginPost(d) \/ PostCommit(d) \/ PostDuplicate(d)

Deliver(d) == CheckPosted(d) \/ PostProceeds(d) \/ PostFails(d)

\* What a refund does when it can, and what it waits for, without a timeout, at Stripe.
RefundProceeds(f) ==
    \/ LockPayment(f) \/ RefuseRefund(f) \/ SettleRefund(f) \/ RefundUncovered(f)
StripeAnswers(f) == StripeAccepts(f) \/ StripeRefuses(f)

Refunding(f) ==
    \/ BeginRefund(f) \/ RefundProceeds(f) \/ StripeAnswers(f)
    \/ StripeUnheard(f) \/ RefundFails(f)

PaymentStep ==
    \/ \E p \in Purchases : Buy(p) \/ SessionPaid(p) \/ KeysExpire(p) \/ MarkFailed(p)
    \/ \E d \in Deliveries : Deliver(d)
    \/ \E f \in Refunders : Refunding(f)
    \/ SetRatio

Next == PaymentStep \/ Spend

Spec == Init /\ [][Next]_vars

\* What must happen again and again for a paid session to be credited: the fairness and
\* the liveness are stated where inference takes part, in WalletTraffic.
CheckPaid(p) == \E d \in Deliveries : CheckPosted(d) /\ hook'[d].of = p
DeliveryFails(p) == \E d \in Deliveries : hook[d].of = p /\ PostFails(d)
-----------------------------------------------------------------------------
(* What purchases and refunds must keep *)

\* Duplicated, reordered and concurrent webhook deliveries grant a purchase's credits
\* once: the ledger's rows of a purchase add up to them when it is marked posted, to
\* nothing before, and a Stripe purchase has none unless its session was paid.
GrantedOncePaid ==
    \A p \in Purchases :
        /\ purchase[p] = "posted" <=> posted[p] > 0
        /\ posted[p] \in {0, grant[p]}
        /\ p \in Stripe /\ posted[p] > 0 => session[p] = "paid"

Reversed(p) == SumFunction([x \in reversals[p] |-> x.credits])
Refunded(p) == SumFunction([x \in reversals[p] |-> x.cents])

\* The paid credits are the initial ones, plus what the ledger grants, less what it
\* reverses and inference spent; no refund makes them negative.
LedgerExplainsPaid ==
    /\ wallet.paid = InitPaid + SumFunction([p \in Purchases |-> posted[p] - Reversed(p)]) - spent
    /\ wallet.paid >= 0

\* However refunds of one payment interleave, the payment's refunded cents are those
\* its ledger rows account for, never more than was paid, and its status says which.
RefundsAddUp ==
    \A p \in Purchases :
        /\ refunded[p] = Refunded(p)
        /\ refunded[p] <= amount[p]
        /\ payment[p] = "refunded" <=> amount[p] > 0 /\ refunded[p] = amount[p]
        /\ payment[p] = "partially_refunded" <=> 0 < refunded[p] /\ refunded[p] < amount[p]

\* Credits are taken back only for cents Stripe has returned, also after lost
\* answers, retries and expired idempotency keys.
NeverAheadOfStripe == \A p \in Stripe : refunded[p] <= returned[p]

\* However the ratio changes between purchase and refunds, and however each computation
\* rounds, partial refunds together never take back more credits than the refunded cents
\* are worth at the highest ratio there is: of a purchase made at that ratio at most one
\* credit more than it granted, however many refunds there are.
ReversedWithinWorth ==
    \A p \in Purchases :
        /\ Reversed(p) <= Worth(refunded[p], Max(Ratios))
        /\ grant[p] = CreditsFor(amount[p], Max(Ratios)) => Reversed(p) <= grant[p] + 1

\* What a late or repeated event may not undo: a purchase stays posted, and a payment
\* that was refunded is never again succeeded, pending, expired or failed.
OutcomesStand ==
    [][ \A p \in Purchases :
          /\ purchase[p] = "posted" => purchase'[p] = "posted"
          /\ payment[p] \in {"refunded", "partially_refunded"}
                => payment'[p] \in {"refunded", "partially_refunded"}
          /\ payment[p] = "refunded" => payment'[p] = "refunded" ]_vars
=============================================================================
