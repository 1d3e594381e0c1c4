----------------------------- MODULE MCPayments -----------------------------
(* Handlers are interchangeable.  29 cents at the configured ratio are 28 credits, and  *)
(* 14 and 15 cents are 29: the smallest amount at which the code rounds a credit away.  *)
EXTENDS Payments, TLC

Symmetry == Permutations(Deliveries) \cup Permutations(Refunders)
LowAtHundred == {<<29, 100>>}
OnePurchase == {-28, 28}
=============================================================================
