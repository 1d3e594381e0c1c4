--------------------------- MODULE WalletTraffic ----------------------------
(***************************************************************************)
(* The two ways credits move, on one wallet row: inference requests        *)
(* (InferenceBilling) reserve, capture and release; purchases and refunds  *)
(* (Payments) add and take back paid credits.  They meet in user_wallets:  *)
(* a purchase or a refund is an update relative to the row's value, which  *)
(* waits while a reservation or a capture has the row locked.              *)
(***************************************************************************)
EXTENDS InferenceBilling

CONSTANTS Purchases, Stripe, Amounts, RefundCents, Ratios, RoundedLow, Deliveries, Refunders,
          Conns

ASSUME TrafficAssumption ==
    /\ IsFiniteSet(Purchases)
    /\ Stripe \subseteq Purchases
    /\ Amounts \subseteq Nat \ {0}
    /\ RefundCents \subseteq Nat \ {0}
    /\ Ratios \subseteq Nat \ {0}
    /\ \E highest \in Ratios : \A r \in Ratios : r <= highest
    /\ RoundedLow \subseteq Nat \X Nat
    /\ \A x \in RoundedLow : x[1] * x[2] > 0 /\ (x[1] * x[2]) % 100 = 0
    /\ Conns \in Nat \ {0}
    /\ None \notin Purchases \cup Deliveries \cup Refunders

VARIABLES ratio, amount, grant, purchase, payment, paymentId, refunded, payLock, posted,
          reversals, session, returned, keys, hook, refund

Spent == -SumFunction([r \in Requests |-> NetPaid(r)])

Pay == INSTANCE Payments WITH spent <- Spent, Spends <- Int

billingVars == <<ledger, stage, handlerVars>>
paymentVars == <<ratio, amount, grant, purchase, payment, paymentId, refunded, payLock,
                 posted, reversals, session, returned, keys, hook, refund>>
trafficVars == <<wallet, lock, billingVars, paymentVars>>

TrafficInit == Init /\ Pay!Init

Infer == Next /\ UNCHANGED paymentVars
BuyOrRefund == UNCHANGED billingVars /\ Pay!PaymentStep

TrafficNext == Infer \/ BuyOrRefund

TrafficSpec == TrafficInit /\ [][TrafficNext]_trafficVars

\* A request's goroutine goes on.  So does a webhook delivery or a refund that can go on
\* again and again: a row lock or a connection it waits for is given to one of those
\* that wait.  Stripe delivers an event again as long as it gets no 2xx.  Nothing makes
\* Stripe answer a refund: the call has no timeout, and a client may wait for ever.
TrafficFairness ==
    /\ \A r \in Requests : WF_trafficVars(UNCHANGED paymentVars /\ Proceed(r))
    /\ \A f \in Refunders : SF_trafficVars(UNCHANGED billingVars /\ Pay!RefundProceeds(f))
    /\ \A d \in Deliveries : SF_trafficVars(UNCHANGED billingVars /\ Pay!PostProceeds(d))
    /\ \A p \in Stripe : SF_trafficVars(UNCHANGED billingVars /\ Pay!CheckPaid(p))

TrafficFairSpec == TrafficSpec /\ TrafficFairness
-----------------------------------------------------------------------------
\* The ledger rows of requests, purchases and refunds together explain both kinds of
\* credits of the wallet.
WholeLedgerExplainsWallet ==
    /\ Pay!LedgerExplainsPaid
    /\ wallet.promo = InitPromo + SumFunction([r \in Requests |-> NetPromo(r)])

\* What Payments assumes of inference holds of inference: seen from purchases and
\* refunds, requests only take paid credits that are there, and give back no more
\* than they took.
Promised == INSTANCE Payments WITH
    spent <- Spent,
    Spends <- Int,
    lock <- None,
    wallet <- [paid |-> wallet.paid, promo |-> InitPromo]

InferenceIsSpending == Promised!Spec

\* Stripe answers every refund it is asked for, and the pool has a connection again and
\* again.  The code promises neither: refunds that each hold a connection and want a second
\* for the ratio, or the payment row of one that does, keep all connections for ever.
StripeAndPoolServe ==
    /\ \A f \in Refunders : []<>(refund[f].at # "calling")
    /\ []<>Pay!ConnectionFree

\* A paid session is credited in the end, if Stripe and the pool serve and its deliveries
\* do not fail for ever, whatever else goes on with the wallet.
PaidIsCredited ==
    \A p \in Stripe :
        StripeAndPoolServe /\ <>[][~Pay!DeliveryFails(p)]_trafficVars
            => (session[p] = "paid" ~> posted[p] > 0)

\* A refund that has begun ends, if Stripe and the pool serve: those that wait for a payment
\* row or for the wallet row, which requests lock too, do not wait for ever, and an
\* unanswered call or an exhausted pool are the only ways for one to hang.
RefundsEnd ==
    StripeAndPoolServe => \A f \in Refunders : refund[f].at # "idle" ~> refund[f].at = "idle"
=============================================================================
