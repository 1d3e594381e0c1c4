---------------------------- MODULE GatewayProofs ----------------------------
(***************************************************************************)
(* Proofs about Gateway for any number of keys, rotations and requests,    *)
(* any expiries, budgets and limits, and any routes and prices: what a     *)
(* dead secret, the limiter, a budget and a reservation promise; first,    *)
(* what summing, rounding and splitting a charge (Charging) promise for    *)
(* all price rules and usage.                                              *)
(***************************************************************************)
EXTENDS Gateway, SumProofs

-----------------------------------------------------------------------------
(* Charges *)

LEMMA PositiveProduct ==
    ASSUME NEW a \in Nat \ {0}, NEW b \in Nat \ {0}
    PROVE  a * b \in Nat \ {0}
  OBVIOUS

LEMMA ScaleIsPositive == Scale \in Nat \ {0} /\ Slack < Scale /\ Slack \in Nat
  <1>1. PriceUnit * Tokens \in Nat \ {0} BY PositiveProduct, ChargingAssumption
  <1>2. (PriceUnit * Tokens) * Minute \in Nat \ {0}
    BY <1>1, PositiveProduct, ChargingAssumption
  <1>3. QED BY <1>2, ChargingAssumption DEF Scale

\* Division by a positive number, and what it leaves.
LEMMA Division ==
    ASSUME NEW a \in Int, NEW b \in Nat \ {0}
    PROVE  /\ a \div b \in Int /\ a % b \in Int
           /\ 0 <= a % b /\ a % b < b
           /\ a = b * (a \div b) + (a % b)
  OBVIOUS

\* The quotient's sign, and its order, are the dividend's.
LEMMA QuotientIsNatural ==
    ASSUME NEW b \in Nat \ {0}, NEW q \in Int, NEW r \in Int, r < b, b * q + r >= 0
    PROVE  q >= 0
  <1>1. CASE q >= 0 BY <1>1
  <1>2. CASE q <= -1
    <2>1. b * q <= b * (-1) BY <1>2
    <2>2. QED BY <2>1
  <1>3. QED BY <1>1, <1>2

\* The parts of a charge that a request's artifacts are marked with (splitCredits, in
\* createMockGeneratedArtifacts) add up to the charge, however many there are: every part
\* but the first is the same, and the first has the remainder.  No part is negative.
THEOREM SplitAddsUp ==
    ASSUME NEW total \in Nat, NEW count \in Nat \ {0}
    PROVE  /\ \A i \in 1..(count - 1) : Split(total, count, i) = Split(total, count, 1)
           /\ Split(total, count, 0) + (count - 1) * Split(total, count, 1) = total
           /\ \A i \in 0..(count - 1) : Split(total, count, i) \in Nat
  <1>1. CASE count = 1 BY <1>1 DEF Split
  <1>2. CASE count > 1
    <2> DEFINE q == total \div count
               r == total % count
    <2>1. q \in Int /\ r \in Int /\ 0 <= r /\ r < count /\ total = count * q + r BY Division
    <2>2. Split(total, count, 0) = q + r BY <1>2 DEF Split
    <2>3. \A i \in 1..(count - 1) : Split(total, count, i) = q
      <3> TAKE i \in 1..(count - 1)
      <3>1. ~(count <= 1) /\ i # 0 BY <1>2
      <3>2. Split(total, count, i) = q + 0 BY <3>1 DEF Split
      <3> HIDE DEF q
      <3>3. QED BY <2>1, <3>2
    <2> HIDE DEF q, r
    <2>4. q >= 0 BY <2>1, QuotientIsNatural
    <2>5. Split(total, count, 1) = q BY <1>2, <2>3
    <2>6. (q + r) + (count - 1) * q = total BY <2>1
    <2>7. QED BY <2>1, <2>2, <2>3, <2>4, <2>5, <2>6
  <1>3. QED BY <1>1, <1>2

\* A charge (ceilCredits) is never below its total less the code's tolerance, and less than
\* one credit above: no work is billed short by a fraction, none a whole credit too much.
THEOREM RoundsUpByLessThanACredit ==
    ASSUME NEW total \in Nat \ {0}
    PROVE  /\ CeilCredits(total) \in Nat
           /\ Scale * CeilCredits(total) >= total - Slack
           /\ Scale * CeilCredits(total) < total - Slack + Scale
  <1> DEFINE q == (Slack - total) \div Scale
             r == (Slack - total) % Scale
  <1>1. q \in Int /\ r \in Int /\ 0 <= r /\ r < Scale /\ Slack - total = Scale * q + r
    BY Division, ScaleIsPositive
  <1>2. CeilCredits(total) = -q BY DEF CeilCredits
  <1> HIDE DEF q, r
  <1>3. Scale * (-q) = total - Slack + r BY <1>1, ScaleIsPositive
  <1>4. q <= 0
    <2>1. CASE q <= 0 BY <2>1
    <2>2. CASE q >= 1
      <3>1. Scale * q >= Scale * 1 BY <2>2, <1>1, ScaleIsPositive
      <3>2. QED BY <3>1, <1>1, ScaleIsPositive
    <2>3. QED BY <1>1, <2>1, <2>2
  <1>5. QED BY <1>1, <1>2, <1>3, <1>4, ScaleIsPositive

\* A larger total is never charged less: what ReservationCovers rests on, where an answer
\* counts no more tokens than the reservation's estimate.
THEOREM ChargesAreMonotone ==
    ASSUME NEW a \in Int, NEW b \in Int, a <= b
    PROVE  CeilCredits(a) <= CeilCredits(b)
  <1>1. CASE a <= 0 /\ b <= 0 BY <1>1 DEF CeilCredits
  <1>2. CASE a <= 0 /\ b > 0
    <2>1. CeilCredits(b) \in Nat BY <1>2, RoundsUpByLessThanACredit
    <2>2. QED BY <1>2, <2>1 DEF CeilCredits
  <1>3. CASE a > 0
    <2>1. a \in Nat \ {0} /\ b \in Nat \ {0} BY <1>3
    <2> DEFINE x == CeilCredits(a)
               y == CeilCredits(b)
    <2>2. x \in Nat /\ Scale * x < a - Slack + Scale BY <2>1, RoundsUpByLessThanACredit
    <2>3. y \in Nat /\ Scale * y >= b - Slack BY <2>1, RoundsUpByLessThanACredit
    <2> HIDE DEF x, y
    <2>4. Scale * x < Scale * y + Scale BY <2>2, <2>3, ScaleIsPositive
    <2>5. ASSUME x >= y + 1 PROVE FALSE
      <3>1. Scale * x >= Scale * (y + 1) BY <2>2, <2>3, <2>5, ScaleIsPositive
      <3>2. Scale * (y + 1) = Scale * y + Scale BY <2>3, ScaleIsPositive
      <3>3. Scale * x \in Int /\ Scale * y \in Int BY <2>2, <2>3, ScaleIsPositive
      <3>4. QED BY <2>4, <3>1, <3>2, <3>3, ScaleIsPositive
    <2>6. x <= y BY <2>2, <2>3, <2>5
    <2>7. QED BY <2>6 DEF x, y
  <1>4. QED BY <1>1, <1>2, <1>3

-----------------------------------------------------------------------------
(* The whole charge: a sum over price rules *)

LEMMA Product ==
    ASSUME NEW a \in Int, NEW b \in Int
    PROVE  a * b \in Int
  OBVIOUS

LEMMA ProductIsMonotone ==
    ASSUME NEW p \in Nat, NEW a \in Int, NEW b \in Int, a <= b
    PROVE  p * a <= p * b
  <1>1. PICK more \in Nat : b = a + more
    <2>1. b - a \in Nat /\ b = a + (b - a) OBVIOUS
    <2>2. QED BY <2>1
  <1>2. p * b = p * a + p * more BY <1>1
  <1>3. p * more \in Nat OBVIOUS
  <1>4. QED BY <1>2, <1>3

LEMMA UnitsInt ==
    ASSUME NEW rule \in PriceRules, NEW ask \in AskRows, NEW used \in Usages
    PROVE  Units(rule, ask, used) \in Int
  <1>1. Tokens \in Int /\ Minute \in Int /\ Tokens * Minute \in Int
    BY Product, ChargingAssumption
  <1>2. used.prompt \in Int /\ used.completion \in Int BY DEF Usages
  <1>3. PICK outputs \in Int : outputs = Parameter(ask.outputs, 1)
    BY DEF AskRows, Parameter
  <1>4. PICK seconds \in Int : seconds = Parameter(ask.seconds, 1)
    BY DEF AskRows, Parameter
  <1>5. PICK minutes \in Int : minutes = Parameter(ask.seconds, Minute)
    BY <1>1 DEF AskRows, Parameter
  <1>6. /\ Minute * used.prompt \in Int /\ Minute * used.completion \in Int
        /\ outputs * Tokens * Minute \in Int /\ seconds * Tokens * Minute \in Int
        /\ minutes * Tokens \in Int
    BY <1>1, <1>2, Product
  <1>7. CASE rule.unit = "1k_tokens" BY <1>6, <1>7 DEF Units
  <1>8. CASE rule.unit = "image" BY <1>3, <1>6, <1>8 DEF Units
  <1>9. CASE rule.unit = "second" BY <1>4, <1>6, <1>9 DEF Units
  <1>10. CASE rule.unit = "minute_audio" BY <1>5, <1>6, <1>10 DEF Units
  <1>11. CASE rule.unit \notin {"1k_tokens", "image", "second", "minute_audio"}
    BY <1>1, <1>11 DEF Units
  <1>12. QED BY <1>7, <1>8, <1>9, <1>10, <1>11

\* What one rule adds to the total, billed or not.
Priced(ask, used) ==
    [rule \in PriceRules |->
        IF Units(rule, ask, used) > 0 THEN rule.price * Units(rule, ask, used) ELSE 0]

LEMMA PricedInt ==
    ASSUME NEW rule \in PriceRules, NEW ask \in AskRows, NEW used \in Usages
    PROVE  Priced(ask, used)[rule] \in Int
  <1>1. PICK u \in Int : u = Units(rule, ask, used) BY UnitsInt
  <1>2. rule.price \in Int BY DEF PriceRules
  <1>3. rule.price * u \in Int BY <1>2, Product
  <1>4. QED BY <1>1, <1>3 DEF Priced

\* The total is the sum over all the rules: one that is skipped adds nothing.
LEMMA TotalIsSum ==
    ASSUME NEW rules \in SUBSET PriceRules, IsFiniteSet(rules),
           NEW ask \in AskRows, NEW used \in Usages
    PROVE  /\ Total(rules, ask, used) = SumFunctionOnSet(Priced(ask, used), rules)
           /\ Total(rules, ask, used) \in Int
  <1> DEFINE billed == Billed(rules, ask, used)
             f == [rule \in billed |-> rule.price * Units(rule, ask, used)]
             g == Priced(ask, used)
  <1>1. Total(rules, ask, used) = SumFunctionOnSet(f, billed) BY DEF Total, SumFunction
  <1>2. \A rule \in rules : g[rule] \in Int BY PricedInt
  <1>3. \A rule \in billed : f[rule] = g[rule] BY DEF Billed, Priced
  <1>4. \A rule \in rules \ billed : g[rule] = 0 BY DEF Billed, Priced
  <1>5. billed \in SUBSET rules BY DEF Billed
  <1> HIDE DEF billed, f, g
  <1>6. IsFiniteSet(billed) BY <1>5, FS_Subset
  <1>7. SumFunctionOnSet(f, billed) = SumFunctionOnSet(g, billed) BY <1>3, <1>6, SumSame
  <1>8. SumFunctionOnSet(g, billed) = SumFunctionOnSet(g, rules)
    BY <1>2, <1>4, <1>5, SumExtends
  <1>9. SumFunctionOnSet(g, rules) \in Int BY <1>2, SumInt
  <1>10. QED BY <1>1, <1>7, <1>8, <1>9 DEF g

LEMMA ChargeIsNatural ==
    ASSUME NEW rules \in SUBSET PriceRules, IsFiniteSet(rules),
           NEW ask \in AskRows, NEW used \in Usages
    PROVE  Charge(rules, ask, used) \in Nat
  <1>1. PICK total \in Int : total = Total(rules, ask, used) BY TotalIsSum
  <1>2. CeilCredits(total) \in Nat
    <2>1. CASE total <= 0 BY <2>1 DEF CeilCredits
    <2>2. CASE total > 0 BY <2>2, RoundsUpByLessThanACredit
    <2>3. QED BY <2>1, <2>2
  <1>3. QED BY <1>1, <1>2 DEF Charge

\* A rule counts no fewer units of a usage with more tokens.
LEMMA UnitsAreMonotone ==
    ASSUME NEW rule \in PriceRules, NEW ask \in AskRows, NEW less \in Usages, NEW more \in Usages,
           less.prompt <= more.prompt, less.completion <= more.completion
    PROVE  Units(rule, ask, less) <= Units(rule, ask, more)
  <1>1. Units(rule, ask, less) \in Int /\ Units(rule, ask, more) \in Int BY UnitsInt
  <1>2. /\ less.prompt \in Int /\ less.completion \in Int
        /\ more.prompt \in Int /\ more.completion \in Int
    BY DEF Usages
  <1>3. Minute \in Nat BY ChargingAssumption
  <1>4. Minute * less.prompt <= Minute * more.prompt
    BY <1>2, <1>3, ProductIsMonotone
  <1>5. Minute * less.completion <= Minute * more.completion
    BY <1>2, <1>3, ProductIsMonotone
  <1>6. CASE rule.unit = "1k_tokens" BY <1>4, <1>5, <1>6 DEF Units
  <1>7. CASE rule.unit # "1k_tokens"
    <2>1. Units(rule, ask, less) = Units(rule, ask, more) BY <1>7 DEF Units
    <2>2. QED BY <1>1, <2>1
  <1>8. QED BY <1>6, <1>7

\* Where no price is negative, a usage with no more tokens is never charged more: what a
\* reservation rests on (chatCompletions reserves the charge of the estimated usage).
THEOREM MoreUsageIsChargedNoLess ==
    ASSUME NEW rules \in SUBSET PriceRules, IsFiniteSet(rules),
           \A rule \in rules : rule.price >= 0,
           NEW ask \in AskRows, NEW less \in Usages, NEW more \in Usages,
           less.prompt <= more.prompt, less.completion <= more.completion
    PROVE  Charge(rules, ask, less) <= Charge(rules, ask, more)
  <1> DEFINE f == Priced(ask, less)
             g == Priced(ask, more)
  <1>1. ASSUME NEW rule \in rules PROVE f[rule] <= g[rule]
    <2>1. PICK u \in Int : u = Units(rule, ask, less) BY UnitsInt
    <2>2. PICK v \in Int : v = Units(rule, ask, more) BY UnitsInt
    <2>3. u <= v BY <2>1, <2>2, UnitsAreMonotone
    <2>4. rule.price \in Nat BY DEF PriceRules
    <2>5. rule.price * u <= rule.price * v BY <2>3, <2>4, ProductIsMonotone
    <2>6. f[rule] = IF u > 0 THEN rule.price * u ELSE 0 BY <2>1 DEF Priced
    <2>7. g[rule] = IF v > 0 THEN rule.price * v ELSE 0 BY <2>2 DEF Priced
    <2>8. v > 0 => rule.price * v >= 0 BY <2>4
    <2> HIDE DEF f, g
    <2>9. QED BY <2>3, <2>5, <2>6, <2>7, <2>8
  <1>2. \A rule \in rules : f[rule] \in Int /\ g[rule] \in Int BY PricedInt
  <1> HIDE DEF f, g
  <1>3. SumFunctionOnSet(f, rules) <= SumFunctionOnSet(g, rules) BY <1>1, <1>2, SumMonotone
  <1>4. PICK a \in Int : a = Total(rules, ask, less) /\ a = SumFunctionOnSet(f, rules)
    BY TotalIsSum DEF f
  <1>5. PICK b \in Int : b = Total(rules, ask, more) /\ b = SumFunctionOnSet(g, rules)
    BY TotalIsSum DEF g
  <1>6. CeilCredits(a) <= CeilCredits(b) BY <1>3, <1>4, <1>5, ChargesAreMonotone
  <1>7. CASE rules = {} BY <1>7 DEF Charge
  <1>8. CASE rules # {} BY <1>4, <1>5, <1>6, <1>8 DEF Charge
  <1>9. QED BY <1>7, <1>8
-----------------------------------------------------------------------------
(* Types *)

LEMMA Numbers ==
    /\ Rotations \in Nat /\ MaxNow \in Nat /\ Limit \in Nat \ {0} /\ Window \in Nat \ {0}
    /\ Expiries \subseteq Nat \cup {None}
    /\ None \notin Nat
  BY GatewayAssumption, ChargingAssumption

LEMMA RulesForRoute ==
    ASSUME NEW r \in Routes
    PROVE  RulesFor(r) \in SUBSET PriceRules /\ IsFiniteSet(RulesFor(r))
           /\ RulesFor(r) \subseteq Rules
  <1>1. RulesFor(r) \subseteq Rules BY DEF RulesFor
  <1>2. IsFiniteSet(RulesFor(r)) BY <1>1, FS_Subset, GatewayAssumption
  <1>3. QED BY <1>1, <1>2, GatewayAssumption

LEMMA EstimateIsUsage ==
    ASSUME NEW ask \in Asks, NEW modality
    PROVE  EstimatedUsage(modality, ask) \in Usages
  BY GatewayAssumption, ChargingAssumption DEF EstimatedUsage, Usages, AskRows, Parameter

LEMMA ChargesNatural ==
    ASSUME NEW r \in Routes, NEW ask \in Asks
    PROVE  /\ EstimatedCharge(r, ask) \in Nat
           /\ \A given \in Answers : Charge(RulesFor(r), ask, given) \in Nat
  <1>1. ask \in AskRows /\ Answers \subseteq Usages BY GatewayAssumption
  <1>2. EstimatedUsage(Catalog[r].modality, ask) \in Usages BY EstimateIsUsage
  <1>3. RulesFor(r) \in SUBSET PriceRules /\ IsFiniteSet(RulesFor(r)) BY RulesForRoute
  <1>4. \A usage_ \in Usages : Charge(RulesFor(r), ask, usage_) \in Nat
    BY <1>1, <1>3, ChargeIsNatural
  <1>5. QED BY <1>1, <1>2, <1>4 DEF EstimatedCharge

\* What a request has come by at each stage: a key and what it asks for, a route and, as
\* long as it is the first, the charge estimated for it, an answer.
Fits(me) ==
    /\ me.at # "idle" => me.key \in Keys /\ me.ask \in Asks
    /\ me.at \in {"calling", "served"} =>
          /\ me.route \in Routes
          /\ me.failed = None => me.reserved = EstimatedCharge(me.route, me.ask)
    /\ me.at = "served" => me.given \in Answers

Shaped == TypeOK /\ \A s \in Slots : Fits(slot[s])

LEMMA IdleIsShaped == Idle \in SlotStates /\ Idle.at = "idle" /\ Fits(Idle)
  <1>1. 0 \in 0..Rotations BY Numbers
  <1>2. QED BY <1>1 DEF Idle, SlotStates, Fits

LEMMA ShapedInit == Init => Shaped
  <1>1. NoKey \in KeyRows BY Numbers DEF NoKey, KeyRows
  <1>2. 0 \in 0..MaxNow BY Numbers
  <1>3. NoWindow \in Windows BY <1>2 DEF NoWindow, Windows
  <1>4. NothingLet \in [Keys -> [0..MaxNow -> Nat]] BY DEF NothingLet
  <1>5. QED BY <1>1, <1>2, <1>3, <1>4, IdleIsShaped DEF Init, Shaped, TypeOK

\* A step of one request leaves it where it fits.
LEMMA RequestFits ==
    ASSUME Shaped, NEW s \in Slots, Request(s)
    PROVE  \E state \in SlotStates : Fits(state) /\ Become(s, state)
  <1> DEFINE me == slot[s]
  <1>0. me \in SlotStates /\ Fits(me) BY DEF Shaped, TypeOK
  <1>n. None \notin Routes BY GatewayAssumption, Numbers
  <1>1. CASE FindKey(s)
    <2>1. PICK k \in Keys, n \in 0..Rotations, ask \in Asks :
             Become(s, [Idle EXCEPT !.at = "found", !.key = k, !.secret = n, !.ask = ask])
      BY <1>1 DEF FindKey
    <2> DEFINE state == [Idle EXCEPT !.at = "found", !.key = k, !.secret = n, !.ask = ask]
    <2>2. state \in SlotStates /\ Fits(state) BY IdleIsShaped DEF Idle, SlotStates, Fits
    <2> HIDE DEF state
    <2>3. QED BY <2>1, <2>2 DEF state
  <1>2. CASE ReadBudget(s)
    <2>1. [me EXCEPT !.at = "within"] \in SlotStates BY <1>0 DEF SlotStates
    <2>2. Fits([me EXCEPT !.at = "within"]) BY <1>0, <1>2 DEF ReadBudget, SlotStates, Fits
    <2>3. QED BY <1>2, <2>1, <2>2 DEF ReadBudget
  <1>3. CASE PassLimiter(s)
    <2>0. 0 \in 0..Rotations BY Numbers
    <2>1. [me EXCEPT !.at = "admitted", !.secret = 0] \in SlotStates
      BY <1>0, <2>0 DEF SlotStates
    <2>2. Fits([me EXCEPT !.at = "admitted", !.secret = 0])
      BY <1>0, <1>3 DEF PassLimiter, SlotStates, Fits
    <2>3. QED BY <1>3, <2>1, <2>2 DEF PassLimiter
  <1>4. CASE SelectRoute(s)
    <2>1. PICK r \in Named(me.ask) :
             Become(s, [me EXCEPT !.at = "calling", !.route = r,
                                  !.reserved = EstimatedCharge(r, me.ask)])
      BY <1>4 DEF SelectRoute, TopPriority
    <2>2. r \in Routes /\ me.ask \in Asks /\ me.key \in Keys
      BY <1>0, <1>4 DEF Named, SelectRoute, Fits
    <2>3. PICK amount : amount = EstimatedCharge(r, me.ask) OBVIOUS
    <2>4. amount \in Nat BY <2>2, <2>3, ChargesNatural
    <2> DEFINE state == [me EXCEPT !.at = "calling", !.route = r, !.reserved = amount]
    <2>5. /\ state \in SlotStates
          /\ state.at = "calling" /\ state.route = r /\ state.reserved = amount
          /\ state.ask = me.ask /\ state.key = me.key
      BY <1>0, <2>2, <2>4 DEF SlotStates
    <2>6. Become(s, state) BY <2>1, <2>3
    <2> HIDE DEF state, me
    <2>7. Fits(state) BY <2>2, <2>3, <2>5 DEF Fits
    <2>8. QED BY <2>5, <2>6, <2>7
  <1>5. CASE FallBack(s)
    <2>1. PICK r \in Routes : Become(s, [me EXCEPT !.route = r, !.failed = me.route])
      BY <1>5 DEF FallBack, Fallbacks, Others, Named
    <2>2. me.at = "calling" BY <1>5 DEF FallBack
    <2> DEFINE state == [me EXCEPT !.route = r, !.failed = me.route]
    <2>3. /\ state \in SlotStates
          /\ state.at = "calling" /\ state.route = r /\ state.failed = me.route
          /\ state.ask = me.ask /\ state.key = me.key
      BY <1>0, <2>2 DEF SlotStates
    <2> HIDE DEF state, me
    <2>4. Fits(state) BY <1>0, <1>n, <2>2, <2>3 DEF Fits
    <2>5. QED BY <2>1, <2>3, <2>4 DEF state
  <1>6. CASE Answer(s)
    <2>1. PICK given \in Answers : Become(s, [me EXCEPT !.at = "served", !.given = given])
      BY <1>6 DEF Answer
    <2>2. me.at = "calling" BY <1>6 DEF Answer
    <2> DEFINE state == [me EXCEPT !.at = "served", !.given = given]
    <2>3. /\ state \in SlotStates
          /\ state.at = "served" /\ state.given = given /\ state.route = me.route
          /\ state.failed = me.failed /\ state.reserved = me.reserved
          /\ state.ask = me.ask /\ state.key = me.key
      BY <1>0 DEF SlotStates
    <2> HIDE DEF state, me
    <2>4. Fits(state) BY <1>0, <2>2, <2>3 DEF Fits
    <2>5. QED BY <2>1, <2>3, <2>4 DEF state
  <1>7. CASE RecordUsage(s) \/ Abandon(s)
    BY <1>7, IdleIsShaped DEF RecordUsage, Abandon
  <1>8. QED BY <1>1, <1>2, <1>3, <1>4, <1>5, <1>6, <1>7 DEF Request

\* What is recorded is one of the charges there may be.
LEMMA FinalChargeNatural ==
    ASSUME Shaped, NEW s \in Slots, slot[s].at = "served"
    PROVE  FinalCharge(s) \in Charges /\ FinalCharge(s) \in Nat
  <1>1. slot[s].route \in Routes /\ slot[s].ask \in Asks /\ slot[s].given \in Answers
    BY DEF Shaped, Fits
  <1>2. QED BY <1>1, ChargesNatural DEF FinalCharge, Charges

\* The limiter's window, as it is or as a new one, and what is let through in it.
LEMMA CurrentType ==
    ASSUME Shaped, NEW k \in Keys
    PROVE  Current(k) \in Windows
  BY DEF Shaped, TypeOK, Current, Windows

LEMMA ShapedRequest ==
    ASSUME Shaped, NEW s \in Slots, Request(s)
    PROVE  Shaped'
  <1>1. PICK state \in SlotStates : Fits(state) /\ Become(s, state) BY RequestFits
  <1>2. slot' \in [Slots -> SlotStates] /\ \A t \in Slots : Fits(slot'[t])
    BY <1>1 DEF Shaped, TypeOK, Become
  <1>3. CASE RecordUsage(s)
    <2>1. PICK c \in Nat : c = FinalCharge(s) BY <1>3, FinalChargeNatural DEF RecordUsage
    <2>2. usage' = [usage EXCEPT ![slot[s].key] = @ + c] BY <1>3, <2>1 DEF RecordUsage
    <2>k. PICK k \in Keys : k = slot[s].key BY <1>3 DEF RecordUsage, Shaped, Fits
    <2>u. usage \in [Keys -> Nat] /\ usage[k] \in Nat BY DEF Shaped, TypeOK
    <2>3. usage' \in [Keys -> Nat] BY <2>2, <2>k, <2>u
    <2>4. QED BY <1>2, <1>3, <2>3 DEF RecordUsage, Shaped, TypeOK
  <1>4. CASE PassLimiter(s)
    <2>1. PICK k \in Keys : k = slot[s].key BY <1>4 DEF PassLimiter, Shaped, Fits
    <2>2. PICK c \in Windows : c = Current(k) BY CurrentType
    <2>3. /\ window' = [window EXCEPT ![k] = [c EXCEPT !.count = @ + 1]]
          /\ let' = [let EXCEPT ![k][now] = @ + 1]
          /\ UNCHANGED <<row, usage, now>>
      BY <1>4, <2>1, <2>2 DEF PassLimiter
    <2>4. [c EXCEPT !.count = @ + 1] \in Windows BY DEF Windows
    <2>5. window' \in [Keys -> Windows] BY <2>3, <2>4 DEF Shaped, TypeOK
    <2>6. let[k] \in [0..MaxNow -> Nat] /\ now \in 0..MaxNow BY DEF Shaped, TypeOK
    <2>7. [let[k] EXCEPT ![now] = @ + 1] \in [0..MaxNow -> Nat]
      <3>1. PICK f \in [0..MaxNow -> Nat] : f = let[k] BY <2>6
      <3>2. [f EXCEPT ![now] = @ + 1] \in [0..MaxNow -> Nat] BY <2>6
      <3>3. QED BY <3>1, <3>2
    <2>8. let' \in [Keys -> [0..MaxNow -> Nat]] BY <2>3, <2>7 DEF Shaped, TypeOK
    <2>9. QED BY <1>2, <2>3, <2>5, <2>8 DEF Shaped, TypeOK
  <1>5. CASE ~RecordUsage(s) /\ ~PassLimiter(s)
    <2>1. UNCHANGED <<row, window, usage, now, let>>
      BY <1>5 DEF Request, FindKey, ReadBudget, SelectRoute, FallBack, Answer, Abandon
    <2>2. QED BY <1>2, <2>1 DEF Shaped, TypeOK
  <1>6. QED BY <1>3, <1>4, <1>5

LEMMA ShapedKey ==
    ASSUME Shaped, NEW k \in Keys, Key(k)
    PROVE  Shaped'
  <1>1. CASE CreateKey(k)
    <2>1. PICK e \in Expiries, b \in Budgets :
             row' = [row EXCEPT ![k] = [status |-> "active", expiry |-> e, secret |-> 0, budget |-> b]]
      BY <1>1 DEF CreateKey
    <2>2. [status |-> "active", expiry |-> e, secret |-> 0, budget |-> b] \in KeyRows
      BY Numbers DEF KeyRows
    <2>3. QED BY <1>1, <2>1, <2>2 DEF CreateKey, Shaped, TypeOK
  <1>2. CASE RotateKey(k)
    <2>1. PICK old \in KeyRows : old = row[k] BY DEF Shaped, TypeOK
    <2>2. old.secret < Rotations /\ row' = [row EXCEPT ![k] = [old EXCEPT !.secret = @ + 1]]
      BY <1>2, <2>1 DEF RotateKey
    <2>3. [old EXCEPT !.secret = @ + 1] \in KeyRows BY <2>2, Numbers DEF KeyRows
    <2>4. row' \in [Keys -> KeyRows] BY <2>2, <2>3 DEF Shaped, TypeOK
    <2>5. QED BY <1>2, <2>4 DEF RotateKey, Shaped, TypeOK
  <1>3. CASE RevokeKey(k)
    <2>1. PICK old \in KeyRows : old = row[k] BY DEF Shaped, TypeOK
    <2>2. row' = [row EXCEPT ![k] = [old EXCEPT !.status = "revoked"]]
      BY <1>3, <2>1 DEF RevokeKey
    <2>3. [old EXCEPT !.status = "revoked"] \in KeyRows BY DEF KeyRows
    <2>4. row' \in [Keys -> KeyRows] BY <2>2, <2>3 DEF Shaped, TypeOK
    <2>5. QED BY <1>3, <2>4 DEF RevokeKey, Shaped, TypeOK
  <1>4. QED BY <1>1, <1>2, <1>3 DEF Key

LEMMA ShapedStep == Shaped /\ [Next]_vars => Shaped'
  <1> SUFFICES ASSUME Shaped, [Next]_vars PROVE Shaped'
    OBVIOUS
  <1>1. CASE Tick BY <1>1, Numbers DEF Tick, Shaped, TypeOK
  <1>2. CASE NewMonth BY <1>2 DEF NewMonth, Shaped, TypeOK
  <1>3. CASE Restart
    <2>1. NoWindow \in Windows BY Numbers DEF NoWindow, Windows
    <2>2. NothingLet \in [Keys -> [0..MaxNow -> Nat]] BY DEF NothingLet
    <2>3. QED BY <1>3, <2>1, <2>2, IdleIsShaped DEF Restart, Shaped, TypeOK
  <1>4. CASE UNCHANGED vars BY <1>4 DEF vars, Shaped, TypeOK
  <1>5. QED BY <1>1, <1>2, <1>3, <1>4, ShapedKey, ShapedRequest DEF Next

LEMMA AlwaysShaped == Spec => []Shaped
  BY ShapedInit, ShapedStep, PTL DEF Spec

\* Every variable keeps its type: a request at every stage has a key, a route and a
\* reserved charge it could have.
THEOREM GatewayTypeCorrect == Spec => []TypeOK
  <1>1. Shaped => TypeOK BY DEF Shaped
  <1>2. QED BY <1>1, AlwaysShaped, PTL

\* Where no price is negative: a request served by the route its reservation was made for,
\* with no more tokens counted than were estimated, is charged no more than it reserved.
THEOREM ReservationsCover ==
    ASSUME \A rule \in Rules : rule.price >= 0
    PROVE  Spec => []ReservationCovers
  <1>1. ASSUME Shaped PROVE ReservationCovers
    <2> SUFFICES ASSUME NEW s \in Slots, NEW r, r = slot[s].route, NEW ask, ask = slot[s].ask,
                        slot[s].at = "served", slot[s].failed = None,
                        AtMost(slot[s].given, EstimatedUsage(Catalog[r].modality, ask))
                 PROVE  FinalCharge(s) <= slot[s].reserved
      BY DEF ReservationCovers
    <2>1. /\ r \in Routes /\ ask \in Asks /\ slot[s].given \in Answers
          /\ slot[s].reserved = EstimatedCharge(r, ask)
      BY <1>1 DEF Shaped, Fits
    <2>2. PICK given \in Usages : given = slot[s].given BY <2>1, GatewayAssumption
    <2>3. PICK estimated \in Usages : estimated = EstimatedUsage(Catalog[r].modality, ask)
      BY <2>1, EstimateIsUsage
    <2>4. given.prompt <= estimated.prompt /\ given.completion <= estimated.completion
      BY <2>2, <2>3 DEF AtMost
    <2>5. /\ RulesFor(r) \in SUBSET PriceRules /\ IsFiniteSet(RulesFor(r))
          /\ \A rule \in RulesFor(r) : rule.price >= 0
      BY <2>1, RulesForRoute
    <2>6. ask \in AskRows BY <2>1, GatewayAssumption
    <2>7. Charge(RulesFor(r), ask, given) <= Charge(RulesFor(r), ask, estimated)
      BY <2>4, <2>5, <2>6, MoreUsageIsChargedNoLess
    <2>8. QED BY <2>1, <2>2, <2>3, <2>7 DEF FinalCharge, EstimatedCharge
  <1>2. QED BY <1>1, AlwaysShaped, PTL

-----------------------------------------------------------------------------
(* Keys only get older *)

\* What no step takes back of a key.
Ages(k) ==
    /\ row[k].status # "absent" => row'[k].status # "absent" /\ row'[k].expiry = row[k].expiry
    /\ row[k].status = "revoked" => row'[k].status = "revoked"
    /\ row[k].status # "absent" => row[k].secret <= row'[k].secret
    /\ now <= now'

LEMMA KeysAge ==
    ASSUME Shaped, [Next]_vars, NEW k \in Keys
    PROVE  Ages(k)
  <1>0. row \in [Keys -> KeyRows] /\ row[k].secret \in Nat /\ now \in Nat
    BY DEF Shaped, TypeOK, KeyRows
  <1>1. ASSUME NEW q \in Keys, Key(q) PROVE Ages(k)
    <2>1. CASE CreateKey(q) BY <1>0, <2>1 DEF CreateKey, Ages
    <2>2. CASE RotateKey(q) BY <1>0, <2>2 DEF RotateKey, Ages, KeyRows
    <2>3. CASE RevokeKey(q) BY <1>0, <2>3 DEF RevokeKey, Ages, KeyRows
    <2>4. QED BY <1>1, <2>1, <2>2, <2>3 DEF Key
  <1>2. ASSUME NEW s \in Slots, Request(s) PROVE Ages(k)
    <2>1. UNCHANGED <<row, now>>
      BY <1>2 DEF Request, FindKey, ReadBudget, PassLimiter, SelectRoute, FallBack, Answer,
                  RecordUsage, Abandon
    <2>2. QED BY <1>0, <2>1 DEF Ages
  <1>3. CASE Tick \/ NewMonth \/ Restart \/ UNCHANGED vars
    BY <1>0, <1>3 DEF Tick, NewMonth, Restart, vars, Ages
  <1>4. QED BY <1>1, <1>2, <1>3 DEF Next

LEMMA DeadStaysDead ==
    ASSUME Shaped, Shaped', [Next]_vars, NEW k \in Keys, NEW n \in 0..Rotations, Dead(k, n)
    PROVE  Dead(k, n)' /\ ~Opens(k, n) /\ ~Opens(k, n)'
  <1>1. /\ row[k] \in KeyRows /\ row'[k] \in KeyRows /\ now \in Nat /\ now' \in Nat
        /\ row[k].expiry = None \/ row[k].expiry \in Nat
    <2>1. row[k] \in KeyRows /\ row'[k] \in KeyRows BY DEF Shaped, TypeOK
    <2>2. now \in Nat /\ now' \in Nat BY Numbers DEF Shaped, TypeOK
    <2>3. row[k].expiry = None \/ row[k].expiry \in Nat BY <2>1, Numbers DEF KeyRows
    <2>4. QED BY <2>1, <2>2, <2>3
  <1>2. Dead(k, n)' BY <1>1, KeysAge DEF Dead, Ages, Expired, KeyRows
  <1>3. QED BY <1>1, <1>2 DEF Dead, Opens, Expired, KeyRows

\* Only FindKey gives a request a key, and it finds none that is dead.
LEMMA CarriersOnlyLeave ==
    ASSUME Shaped, [Next]_vars, NEW k \in Keys, NEW n \in 0..Rotations, ~Opens(k, n)
    PROVE  Carriers(k, n)' \subseteq Carriers(k, n)
  <1>0. slot \in [Slots -> SlotStates] BY DEF Shaped, TypeOK
  <1>1. ASSUME NEW s \in Slots, NEW state, Become(s, state), UNCHANGED <<row, now>>,
               state.at \in {"found", "within"} /\ state.key = k /\ state.secret = n
                  => s \in Carriers(k, n)
        PROVE  Carriers(k, n)' \subseteq Carriers(k, n)
    BY <1>0, <1>1 DEF Carriers, Become
  <1>2. ASSUME NEW s \in Slots, Request(s) PROVE Carriers(k, n)' \subseteq Carriers(k, n)
    <2> DEFINE me == slot[s]
    <2>0. me \in SlotStates BY <1>0
    <2>1. CASE FindKey(s)
      <3>1. PICK q \in Keys, m \in 0..Rotations, ask \in Asks :
               /\ Opens(q, m)
               /\ Become(s, [Idle EXCEPT !.at = "found", !.key = q, !.secret = m, !.ask = ask])
        BY <2>1 DEF FindKey
      <3> DEFINE state == [Idle EXCEPT !.at = "found", !.key = q, !.secret = m, !.ask = ask]
      <3>2. state.key = q /\ state.secret = m BY DEF Idle
      <3>3. Become(s, state) BY <3>1
      <3> HIDE DEF state
      <3>4. ~(state.key = k /\ state.secret = n) BY <3>1, <3>2
      <3>5. QED BY <1>1, <2>1, <3>3, <3>4 DEF FindKey
    <2>2. CASE ReadBudget(s)
      <3>1. me.at = "found" BY <2>2 DEF ReadBudget
      <3> DEFINE state == [me EXCEPT !.at = "within"]
      <3>2. state.key = me.key /\ state.secret = me.secret BY <2>0 DEF SlotStates
      <3>3. Become(s, state) BY <2>2 DEF ReadBudget
      <3>4. me.key = k /\ me.secret = n => s \in Carriers(k, n) BY <3>1 DEF Carriers
      <3> HIDE DEF state, me
      <3>5. QED BY <1>1, <2>2, <3>2, <3>3, <3>4 DEF ReadBudget
    <2>3. CASE PassLimiter(s) \/ SelectRoute(s) \/ FallBack(s) \/ Answer(s) \/ RecordUsage(s) \/ Abandon(s)
      <3>1. PICK state : Become(s, state) /\ state.at \notin {"found", "within"}
        <4>1. CASE PassLimiter(s)
          <5>1. [me EXCEPT !.at = "admitted", !.secret = 0].at = "admitted" BY <2>0 DEF SlotStates
          <5>2. QED BY <4>1, <5>1 DEF PassLimiter
        <4>2. CASE SelectRoute(s)
          <5>1. PICK r : Become(s, [me EXCEPT !.at = "calling", !.route = r,
                                              !.reserved = EstimatedCharge(r, me.ask)])
            BY <4>2 DEF SelectRoute
          <5> DEFINE amount == EstimatedCharge(r, me.ask)
          <5> HIDE DEF amount
          <5>2. [me EXCEPT !.at = "calling", !.route = r, !.reserved = amount].at = "calling"
            BY <2>0 DEF SlotStates
          <5>3. Become(s, [me EXCEPT !.at = "calling", !.route = r, !.reserved = amount])
            BY <5>1 DEF amount
          <5>4. QED BY <5>2, <5>3
        <4>3. CASE FallBack(s)
          <5>1. PICK r : Become(s, [me EXCEPT !.route = r, !.failed = me.route])
            BY <4>3 DEF FallBack
          <5>2. me.at = "calling" BY <4>3 DEF FallBack
          <5>3. [me EXCEPT !.route = r, !.failed = me.route].at = "calling"
            BY <2>0, <5>2 DEF SlotStates
          <5>4. QED BY <5>1, <5>3
        <4>4. CASE Answer(s)
          <5>1. PICK given : Become(s, [me EXCEPT !.at = "served", !.given = given])
            BY <4>4 DEF Answer
          <5>2. [me EXCEPT !.at = "served", !.given = given].at = "served" BY <2>0 DEF SlotStates
          <5>3. QED BY <5>1, <5>2
        <4>5. CASE RecordUsage(s) \/ Abandon(s) BY <4>5, IdleIsShaped DEF RecordUsage, Abandon
        <4>6. QED BY <2>3, <4>1, <4>2, <4>3, <4>4, <4>5
      <3>2. UNCHANGED <<row, now>>
        BY <2>3 DEF PassLimiter, SelectRoute, FallBack, Answer, RecordUsage, Abandon
      <3>3. QED BY <1>1, <3>1, <3>2
    <2>4. QED BY <1>2, <2>1, <2>2, <2>3 DEF Request
  <1>3. CASE Restart BY <1>3, IdleIsShaped DEF Restart, Carriers
  <1>4. ASSUME UNCHANGED slot PROVE Carriers(k, n)' \subseteq Carriers(k, n)
    BY <1>4 DEF Carriers
  <1>5. QED
    BY <1>2, <1>3, <1>4 DEF Next, Tick, NewMonth, vars, Key, CreateKey, RotateKey, RevokeKey

-----------------------------------------------------------------------------
\* A secret that was replaced, or whose key was revoked or has expired, opens nothing ever
\* again, and only requests that had found their key before still carry it to the limiter
\* (authenticateAPIKey, rotateAPIKey, revokeAPIKey): DeadSecretsDrain, for any number of
\* keys, rotations, expiries and requests.
THEOREM DeadSecretsStayDead == Spec => DeadSecretsDrain
  <1>1. Shaped /\ Shaped' /\ [Next]_vars =>
           [\A k \in Keys, n \in 0..Rotations :
               Dead(k, n) => Dead(k, n)' /\ ~Opens(k, n)' /\ Carriers(k, n)' \subseteq Carriers(k, n)]_vars
    BY DeadStaysDead, CarriersOnlyLeave
  <1>2. QED BY <1>1, ShapedInit, ShapedStep, PTL DEF Spec, DeadSecretsDrain

-----------------------------------------------------------------------------
(***************************************************************************)
(* The budget: a key's usage, with the highest charge for every request    *)
(* that has passed the check of its budget, stays within the bound.        *)
(***************************************************************************)
MostCharged == Max({0} \cup Charges)

LEMMA MostIsHighest == MostCharged \in Nat /\ \A c \in Charges : c <= MostCharged
  <1> DEFINE P == (Routes \X Asks) \X Answers
             f == [t \in P |-> Charge(RulesFor(t[1][1]), t[1][2], t[2])]
             C == {0} \cup Charges
  <1>1. \A t \in P : f[t] \in Nat BY ChargesNatural
  <1>2. IsFiniteSet(Routes \X Asks) BY FS_Product, GatewayAssumption
  <1>3. IsFiniteSet(P) BY <1>2, FS_Product, GatewayAssumption
  <1>4. \A t \in P : f[t] \in Charges BY DEF Charges
  <1>5. \A c \in Charges : \E t \in P : c = f[t]
    <2> SUFFICES ASSUME NEW r \in Routes, NEW ask \in Asks, NEW given \in Answers
                 PROVE  \E t \in P : Charge(RulesFor(r), ask, given) = f[t]
      BY DEF Charges
    <2>1. <<<<r, ask>>, given>> \in P OBVIOUS
    <2>2. f[<<<<r, ask>>, given>>] = Charge(RulesFor(r), ask, given) BY <2>1
    <2>3. QED BY <2>1, <2>2
  <1> HIDE DEF P, f
  <1>6. \E m \in C : m \in Nat /\ \A c \in C : c \in Nat /\ c <= m
    <2>1. CASE P = {}
      <3>1. \A c \in C : c = 0 BY <1>5, <2>1
      <3>2. 0 \in C OBVIOUS
      <3>3. QED BY <3>1, <3>2
    <2>2. CASE P # {}
      <3>1. \A t \in P : f[t] \in Int BY <1>1
      <3>2. PICK t \in P : \A u \in P : f[u] <= f[t] BY <1>3, <2>2, <3>1, HighestOf
      <3>3. f[t] \in C /\ f[t] \in Nat BY <1>1, <1>4
      <3>4. \A c \in C : c \in Nat /\ c <= f[t] BY <1>1, <1>5, <3>2, <3>3
      <3>5. QED BY <3>3, <3>4
    <2>3. QED BY <2>1, <2>2
  <1>7. PICK m : m = Max(C) OBVIOUS
  <1>8. m \in C /\ \A c \in C : m >= c
    <2>1. \E n \in C : \A c \in C : n >= c BY <1>6
    <2> HIDE DEF C
    <2>2. QED BY <1>7, <2>1 DEF Max
  <1>9. m \in Nat /\ \A c \in C : c <= m BY <1>6, <1>8
  <1>10. QED BY <1>7, <1>9 DEF MostCharged

Checked == {"within", "admitted", "calling", "served"}
Under(k) == {s \in Slots : slot[s].at \in Checked /\ slot[s].key = k}

\* A key that does not exist yet has no request and no usage.
Unknown(k) ==
    row[k].status = "absent" =>
        usage[k] = 0 /\ \A s \in Slots : slot[s].at # "idle" => slot[s].key # k

InBudget(k) ==
    row[k].status # "absent" /\ row[k].budget # None /\ (usage[k] > 0 \/ Under(k) # {})
        => usage[k] + Cardinality(Under(k)) * MostCharged
              <= row[k].budget - 1 + Cardinality(Slots) * MostCharged

Budgeted == Shaped /\ \A k \in Keys : Unknown(k) /\ InBudget(k)

LEMMA BudgetedInit == Init => Budgeted
  <1> SUFFICES ASSUME Init PROVE Budgeted OBVIOUS
  <1>1. ASSUME NEW k \in Keys PROVE Unknown(k) /\ InBudget(k)
    BY DEF Init, Unknown, InBudget, NoKey, Idle
  <1>2. QED BY <1>1, ShapedInit DEF Budgeted

\* So many requests, times the highest charge.
LEMMA UnderCounts ==
    ASSUME NEW S \in SUBSET Slots, NEW T \in SUBSET S
    PROVE  /\ Cardinality(S) \in Nat /\ Cardinality(T) \in Nat /\ Cardinality(T) <= Cardinality(S)
           /\ Cardinality(S) * MostCharged \in Nat /\ Cardinality(T) * MostCharged \in Nat
           /\ Cardinality(T) * MostCharged <= Cardinality(S) * MostCharged
  <1>1. IsFiniteSet(S) /\ IsFiniteSet(T) BY FS_Subset, GatewayAssumption
  <1>2. PICK a \in Nat : a = Cardinality(S) BY <1>1, FS_CardinalityType
  <1>3. PICK b \in Nat : b = Cardinality(T) BY <1>1, FS_CardinalityType
  <1>4. b <= a BY <1>1, <1>2, <1>3, FS_Subset
  <1>5. PICK m \in Nat : m = MostCharged BY MostIsHighest
  <1>6. m * b <= m * a BY <1>4, ProductIsMonotone
  <1>7. a * m = m * a /\ b * m = m * b /\ a * m \in Nat /\ b * m \in Nat OBVIOUS
  <1>8. b * m <= a * m BY <1>6, <1>7
  <1>9. QED BY <1>2, <1>3, <1>4, <1>5, <1>7, <1>8

\* A key whose usage and requests grow no more.
LEMMA BudgetKept ==
    ASSUME Shaped, Shaped', NEW k \in Keys, InBudget(k), row[k].status # "absent",
           row'[k].budget = row[k].budget, usage'[k] <= usage[k], Under(k)' \subseteq Under(k)
    PROVE  InBudget(k)'
  <1>1. PICK S \in SUBSET Slots : S = Under(k) BY DEF Under
  <1>2. PICK T \in SUBSET S : T = Under(k)' BY <1>1
  <1>3. /\ Cardinality(S) * MostCharged \in Nat /\ Cardinality(T) * MostCharged \in Nat
        /\ Cardinality(T) * MostCharged <= Cardinality(S) * MostCharged
        /\ Cardinality(Slots) * MostCharged \in Nat
    BY UnderCounts
  <1>4. /\ usage[k] \in Nat /\ usage'[k] \in Nat
        /\ row[k].budget \in Budgets \cup {None}
    BY DEF Shaped, TypeOK, KeyRows
  <1>5. row[k].budget # None => row[k].budget \in Int BY <1>4, GatewayAssumption
  <1>6. QED BY <1>1, <1>2, <1>3, <1>4, <1>5 DEF InBudget

\* What a step of a request does to the key it came with.
LEMMA RequestMoves ==
    ASSUME Shaped, NEW s \in Slots, Request(s)
    PROVE  /\ \A t \in Slots \ {s} : slot'[t] = slot[t]
           /\ slot[s].at # "idle" /\ slot'[s].at # "idle" => slot'[s].key = slot[s].key
           /\ slot[s].at = "idle" =>
                 slot'[s].at = "found" /\ row[slot'[s].key].status = "active"
           /\ slot'[s].at \in Checked => slot[s].at \in Checked \/ ReadBudget(s)
  <1> DEFINE me == slot[s]
  <1>0. me \in SlotStates /\ slot \in [Slots -> SlotStates] BY DEF Shaped, TypeOK
  <1>b. ASSUME NEW state, Become(s, state)
        PROVE  slot'[s] = state /\ \A t \in Slots \ {s} : slot'[t] = slot[t]
    BY <1>0, <1>b DEF Become
  <1>1. CASE FindKey(s)
    <2>1. PICK k \in Keys, n \in 0..Rotations, ask \in Asks :
             /\ Opens(k, n)
             /\ Become(s, [Idle EXCEPT !.at = "found", !.key = k, !.secret = n, !.ask = ask])
      BY <1>1 DEF FindKey
    <2> DEFINE state == [Idle EXCEPT !.at = "found", !.key = k, !.secret = n, !.ask = ask]
    <2>2. state.at = "found" /\ state.key = k BY DEF Idle
    <2>3. me.at = "idle" BY <1>1 DEF FindKey
    <2> HIDE DEF state, me
    <2>4. slot'[s] = state /\ \A t \in Slots \ {s} : slot'[t] = slot[t] BY <1>b, <2>1 DEF state
    <2>5. QED BY <2>1, <2>2, <2>3, <2>4 DEF Opens, Checked, me
  <1>2. CASE ReadBudget(s)
    <2> DEFINE state == [me EXCEPT !.at = "within"]
    <2>1. Become(s, state) /\ me.at = "found" BY <1>2 DEF ReadBudget
    <2>2. state.key = me.key BY <1>0 DEF SlotStates
    <2>3. slot'[s] = state /\ \A t \in Slots \ {s} : slot'[t] = slot[t] BY <1>b, <2>1
    <2> HIDE DEF state
    <2>4. QED BY <1>2, <2>1, <2>2, <2>3
  <1>3. CASE PassLimiter(s)
    <2> DEFINE state == [me EXCEPT !.at = "admitted", !.secret = 0]
    <2>1. Become(s, state) /\ me.at = "within" BY <1>3 DEF PassLimiter
    <2>2. state.key = me.key BY <1>0 DEF SlotStates
    <2>3. slot'[s] = state /\ \A t \in Slots \ {s} : slot'[t] = slot[t] BY <1>b, <2>1
    <2> HIDE DEF state
    <2>4. QED BY <2>1, <2>2, <2>3 DEF Checked
  <1>4. CASE SelectRoute(s)
    <2>1. PICK r, amount : Become(s, [me EXCEPT !.at = "calling", !.route = r,
                                                !.reserved = amount])
      BY <1>4 DEF SelectRoute
    <2> DEFINE state == [me EXCEPT !.at = "calling", !.route = r, !.reserved = amount]
    <2>2. state.key = me.key BY <1>0 DEF SlotStates
    <2>3. slot'[s] = state /\ \A t \in Slots \ {s} : slot'[t] = slot[t] BY <1>b, <2>1
    <2>4. me.at = "admitted" BY <1>4 DEF SelectRoute
    <2> HIDE DEF state
    <2>5. QED BY <2>2, <2>3, <2>4 DEF Checked
  <1>5. CASE FallBack(s)
    <2>1. PICK r : Become(s, [me EXCEPT !.route = r, !.failed = me.route]) BY <1>5 DEF FallBack
    <2> DEFINE state == [me EXCEPT !.route = r, !.failed = me.route]
    <2>2. state.key = me.key BY <1>0 DEF SlotStates
    <2>3. slot'[s] = state /\ \A t \in Slots \ {s} : slot'[t] = slot[t] BY <1>b, <2>1
    <2>4. me.at = "calling" BY <1>5 DEF FallBack
    <2> HIDE DEF state
    <2>5. QED BY <2>2, <2>3, <2>4 DEF Checked
  <1>6. CASE Answer(s)
    <2>1. PICK given : Become(s, [me EXCEPT !.at = "served", !.given = given]) BY <1>6 DEF Answer
    <2> DEFINE state == [me EXCEPT !.at = "served", !.given = given]
    <2>2. state.key = me.key BY <1>0 DEF SlotStates
    <2>3. slot'[s] = state /\ \A t \in Slots \ {s} : slot'[t] = slot[t] BY <1>b, <2>1
    <2>4. me.at = "calling" BY <1>6 DEF Answer
    <2> HIDE DEF state
    <2>5. QED BY <2>2, <2>3, <2>4 DEF Checked
  <1>7. CASE RecordUsage(s) \/ Abandon(s)
    <2>1. Become(s, Idle) /\ me.at # "idle" BY <1>7 DEF RecordUsage, Abandon
    <2>2. slot'[s] = Idle /\ \A t \in Slots \ {s} : slot'[t] = slot[t] BY <1>b, <2>1
    <2>3. QED BY <2>1, <2>2, IdleIsShaped DEF Checked
  <1>8. QED BY <1>1, <1>2, <1>3, <1>4, <1>5, <1>6, <1>7 DEF Request

LEMMA UnknownRequest ==
    ASSUME Budgeted, Shaped', NEW s \in Slots, Request(s), NEW k \in Keys
    PROVE  Unknown(k)'
  <1>1. row' = row
    BY DEF Request, FindKey, ReadBudget, PassLimiter, SelectRoute, FallBack, Answer,
           RecordUsage, Abandon
  <1>2. SUFFICES ASSUME row[k].status = "absent"
                 PROVE  usage'[k] = 0 /\ \A t \in Slots : slot'[t].at # "idle" => slot'[t].key # k
    BY <1>1 DEF Unknown
  <1>3. usage[k] = 0 /\ \A t \in Slots : slot[t].at # "idle" => slot[t].key # k
    BY <1>2 DEF Budgeted, Unknown
  <1>4. \A t \in Slots : slot'[t].at # "idle" => slot'[t].key # k
    BY <1>2, <1>3, RequestMoves DEF Budgeted
  <1>5. usage'[k] = 0
    <2>1. CASE RecordUsage(s)
      <3>1. PICK c : usage' = [usage EXCEPT ![slot[s].key] = @ + c] BY <2>1 DEF RecordUsage
      <3>2. slot[s].key # k BY <1>3, <2>1 DEF RecordUsage
      <3>3. QED BY <1>3, <3>1, <3>2 DEF Budgeted, Shaped, TypeOK
    <2>2. CASE ~RecordUsage(s)
      BY <1>3, <2>2 DEF Request, FindKey, ReadBudget, PassLimiter, SelectRoute, FallBack,
                        Answer, Abandon
    <2>3. QED BY <2>1, <2>2
  <1>6. QED BY <1>4, <1>5

\* A request whose budget is checked while others are under way.
LEMMA BudgetChecked ==
    ASSUME Budgeted, Shaped', NEW s \in Slots, ReadBudget(s), NEW k \in Keys, slot[s].key = k
    PROVE  InBudget(k)'
  <1>1. row' = row /\ usage' = usage BY DEF ReadBudget
  <1>2. CASE row[k].budget = None BY <1>1, <1>2 DEF InBudget
  <1>3. CASE row[k].budget # None
    <2>1. SumFunctionOnSet(usage, Keys) < row[k].budget
      <3>1. DOMAIN usage = Keys BY DEF Budgeted, Shaped, TypeOK
      <3>2. QED BY <1>3, <3>1 DEF ReadBudget, Within, Used, SumFunction
    <2>2. \A q \in Keys : usage[q] \in Nat BY DEF Budgeted, Shaped, TypeOK
    <2>3. usage[k] <= SumFunctionOnSet(usage, Keys) BY <2>2, SumCovers, GatewayAssumption
    <2>4. SumFunctionOnSet(usage, Keys) \in Nat BY <2>2, SumNat, GatewayAssumption
    <2>5. row[k].budget \in Int
      BY <1>3, GatewayAssumption DEF Budgeted, Shaped, TypeOK, KeyRows
    <2>6. PICK T \in SUBSET Slots : T = Under(k)' BY DEF Under
    <2>7. /\ Cardinality(T) * MostCharged \in Nat /\ Cardinality(Slots) * MostCharged \in Nat
          /\ Cardinality(T) * MostCharged <= Cardinality(Slots) * MostCharged
      BY UnderCounts
    <2>8. usage[k] <= row[k].budget - 1 BY <2>1, <2>2, <2>3, <2>4, <2>5
    <2>9. usage[k] + Cardinality(T) * MostCharged
              <= row[k].budget - 1 + Cardinality(Slots) * MostCharged
      BY <2>2, <2>5, <2>7, <2>8
    <2>10. QED BY <1>1, <2>6, <2>9 DEF InBudget
  <1>4. QED BY <1>2, <1>3

\* A request that records its charge is no longer under way.
LEMMA BudgetUsed ==
    ASSUME Budgeted, Shaped', NEW s \in Slots, RecordUsage(s), NEW k \in Keys, slot[s].key = k
    PROVE  InBudget(k)'
  <1>1. PICK c \in Nat : c = FinalCharge(s) /\ c <= MostCharged
    BY FinalChargeNatural, MostIsHighest DEF Budgeted, RecordUsage
  <1>2. /\ usage' = [usage EXCEPT ![k] = @ + c] /\ row' = row
        /\ slot' = [slot EXCEPT ![s] = Idle] /\ slot[s].at = "served"
    BY <1>1 DEF RecordUsage, Become
  <1>3. usage'[k] = usage[k] + c /\ usage[k] \in Nat BY <1>2 DEF Budgeted, Shaped, TypeOK
  <1>4. PICK S \in SUBSET Slots : S = Under(k) BY DEF Under
  <1>5. PICK T \in SUBSET S : T = S \ {s} OBVIOUS
  <1>6. s \in S BY <1>2, <1>4 DEF Under, Checked
  <1>7. Under(k)' = T BY <1>2, <1>4, <1>5, IdleIsShaped DEF Under, Checked, Budgeted, Shaped, TypeOK
  <1>8. CASE row[k].status = "absent" \/ row[k].budget = None BY <1>2, <1>8 DEF InBudget
  <1>9. CASE row[k].status # "absent" /\ row[k].budget # None
    <2>1. usage[k] + Cardinality(S) * MostCharged
              <= row[k].budget - 1 + Cardinality(Slots) * MostCharged
      BY <1>4, <1>6, <1>9 DEF Budgeted, InBudget
    <2>2. IsFiniteSet(S) BY FS_Subset, GatewayAssumption
    <2>3. PICK a \in Nat : a = Cardinality(S) BY <2>2, FS_CardinalityType
    <2>4. Cardinality(T) = a - 1 BY <1>5, <1>6, <2>2, <2>3, FS_RemoveElement
    <2>5. PICK m \in Nat : m = MostCharged BY MostIsHighest
    <2>6. (a - 1) * m + m = a * m BY <2>3, <2>5
    <2>7. a * m \in Nat /\ (a - 1) * m \in Int BY Product
    <2>8. Cardinality(Slots) * m \in Nat BY <2>5, UnderCounts
    <2>9. row[k].budget \in Int
      BY <1>9, GatewayAssumption DEF Budgeted, Shaped, TypeOK, KeyRows
    <2>10. usage[k] + a * m <= row[k].budget - 1 + Cardinality(Slots) * m
      BY <2>1, <2>3, <2>5
    <2>11. (usage[k] + c) + (a - 1) * m <= row[k].budget - 1 + Cardinality(Slots) * m
      BY <1>1, <1>3, <2>5, <2>6, <2>7, <2>8, <2>9, <2>10
    <2>12. QED BY <1>2, <1>3, <1>7, <2>4, <2>5, <2>11 DEF InBudget
  <1>10. QED BY <1>8, <1>9

LEMMA BudgetRequest ==
    ASSUME Budgeted, Shaped', NEW s \in Slots, Request(s), NEW k \in Keys
    PROVE  InBudget(k)'
  <1>1. row' = row
    BY DEF Request, FindKey, ReadBudget, PassLimiter, SelectRoute, FallBack, Answer,
           RecordUsage, Abandon
  <1>2. CASE row[k].status = "absent" BY <1>1, <1>2 DEF InBudget
  <1>3. CASE ReadBudget(s) /\ slot[s].key = k BY <1>3, BudgetChecked
  <1>4. CASE RecordUsage(s) /\ slot[s].key = k BY <1>4, BudgetUsed
  <1>5. CASE /\ row[k].status # "absent"
             /\ ~(ReadBudget(s) /\ slot[s].key = k) /\ ~(RecordUsage(s) /\ slot[s].key = k)
    <2>1. usage'[k] = usage[k]
      <3>1. CASE RecordUsage(s)
        <4>1. PICK c : usage' = [usage EXCEPT ![slot[s].key] = @ + c] BY <3>1 DEF RecordUsage
        <4>2. QED BY <1>5, <3>1, <4>1 DEF Budgeted, Shaped, TypeOK
      <3>2. CASE ~RecordUsage(s)
        BY <3>2 DEF Request, FindKey, ReadBudget, PassLimiter, SelectRoute, FallBack,
                    Answer, Abandon
      <3>3. QED BY <3>1, <3>2
    <2>2. ASSUME NEW t \in Slots, slot'[t].at \in Checked, slot'[t].key = k
          PROVE  slot[t].at \in Checked /\ slot[t].key = k
      <3>1. CASE t # s BY <2>2, <3>1, RequestMoves DEF Budgeted
      <3>2. CASE t = s
        <4>1. slot[s].at # "idle" BY <2>2, <3>2, RequestMoves DEF Budgeted, Checked
        <4>2. slot[s].key = k BY <2>2, <3>2, <4>1, RequestMoves DEF Budgeted, Checked
        <4>3. slot[s].at \in Checked BY <1>5, <2>2, <3>2, <4>2, RequestMoves DEF Budgeted
        <4>4. QED BY <3>2, <4>2, <4>3
      <3>3. QED BY <3>1, <3>2
    <2>3. Under(k)' \subseteq Under(k) BY <2>2 DEF Under
    <2>4. usage'[k] <= usage[k] BY <2>1 DEF Budgeted, Shaped, TypeOK
    <2>5. QED BY <1>1, <1>5, <2>3, <2>4, BudgetKept DEF Budgeted
  <1>6. QED BY <1>2, <1>3, <1>4, <1>5

LEMMA BudgetedKey ==
    ASSUME Budgeted, Shaped', NEW q \in Keys, Key(q), NEW k \in Keys
    PROVE  Unknown(k)' /\ InBudget(k)'
  <1>1. usage' = usage /\ slot' = slot BY DEF Key, CreateKey, RotateKey, RevokeKey
  <1>2. Under(k)' = Under(k) BY <1>1 DEF Under
  <1>3. usage[k] \in Nat BY DEF Budgeted, Shaped, TypeOK
  <1>4. CASE row[k].status = "absent"
    <2>1. usage[k] = 0 /\ \A s \in Slots : slot[s].at # "idle" => slot[s].key # k
      BY <1>4 DEF Budgeted, Unknown
    <2>2. Under(k) = {} BY <2>1 DEF Under, Checked
    <2>3. QED BY <1>1, <1>2, <2>1, <2>2 DEF Unknown, InBudget
  <1>5. CASE row[k].status # "absent"
    <2>1. row'[k].status # "absent" /\ row'[k].budget = row[k].budget
      <3>1. CASE q = k
        BY <1>5, <3>1 DEF Key, CreateKey, RotateKey, RevokeKey, Budgeted, Shaped, TypeOK, KeyRows
      <3>2. CASE q # k
        BY <1>5, <3>2 DEF Key, CreateKey, RotateKey, RevokeKey, Budgeted, Shaped, TypeOK
      <3>3. QED BY <3>1, <3>2
    <2>2. Unknown(k)' BY <2>1 DEF Unknown
    <2>3. InBudget(k)'
      BY <1>1, <1>2, <1>3, <1>5, <2>1, BudgetKept DEF Budgeted
    <2>4. QED BY <2>2, <2>3
  <1>6. QED BY <1>4, <1>5

LEMMA BudgetedStep ==
    ASSUME Budgeted, Shaped', [Next]_vars
    PROVE  Budgeted'
  <1>1. ASSUME NEW k \in Keys, row' = row, usage'[k] = usage[k] \/ usage'[k] = 0,
               \A s \in Slots : slot'[s] = slot[s] \/ slot'[s] = Idle
        PROVE  Unknown(k)' /\ InBudget(k)'
    <2>1. Under(k)' \subseteq Under(k) BY <1>1, IdleIsShaped DEF Under, Checked
    <2>2. usage'[k] <= usage[k] BY <1>1 DEF Budgeted, Shaped, TypeOK
    <2>3. Unknown(k)' BY <1>1, IdleIsShaped DEF Budgeted, Unknown
    <2>4. CASE row[k].status = "absent" BY <1>1, <2>3, <2>4 DEF InBudget
    <2>5. CASE row[k].status # "absent" BY <1>1, <2>1, <2>2, <2>3, <2>5, BudgetKept DEF Budgeted
    <2>6. QED BY <2>4, <2>5
  <1>2. CASE Tick BY <1>1, <1>2 DEF Tick, Budgeted
  <1>3. CASE NewMonth BY <1>1, <1>3 DEF NewMonth, Budgeted
  <1>4. CASE Restart BY <1>1, <1>4 DEF Restart, Budgeted
  <1>5. CASE UNCHANGED vars BY <1>1, <1>5 DEF vars, Budgeted
  <1>6. ASSUME NEW q \in Keys, Key(q) PROVE Budgeted' BY <1>6, BudgetedKey DEF Budgeted
  <1>7. ASSUME NEW s \in Slots, Request(s) PROVE Budgeted'
    BY <1>7, UnknownRequest, BudgetRequest DEF Budgeted
  <1>8. QED BY <1>2, <1>3, <1>4, <1>5, <1>6, <1>7 DEF Next

\* A key's usage of a month passes its budget by no more than the highest charge for each
\* request that may be under way at the same time: whatever the requests, the prices, the
\* other keys of the project, rotations and restarts.
THEOREM BudgetsAreKeptButForThoseUnderWay == Spec => []OverBudgetByThoseUnderWay
  <1>1. ASSUME Budgeted PROVE OverBudgetByThoseUnderWay
    <2> SUFFICES ASSUME NEW k \in Keys, row[k].status # "absent", row[k].budget # None,
                        usage[k] > 0
                 PROVE  usage[k] <= row[k].budget - 1 + Cardinality(Slots) * MostCharged
      BY DEF OverBudgetByThoseUnderWay, MostCharged
    <2>1. usage[k] + Cardinality(Under(k)) * MostCharged
              <= row[k].budget - 1 + Cardinality(Slots) * MostCharged
      BY <1>1 DEF Budgeted, InBudget
    <2>2. PICK S \in SUBSET Slots : S = Under(k) BY DEF Under
    <2>3. Cardinality(S) * MostCharged \in Nat /\ Cardinality(Slots) * MostCharged \in Nat
      BY UnderCounts
    <2>4. usage[k] \in Nat /\ row[k].budget \in Int
      BY <1>1, GatewayAssumption DEF Budgeted, Shaped, TypeOK, KeyRows
    <2>5. QED BY <2>1, <2>2, <2>3, <2>4
  <1>2. Budgeted /\ Shaped' /\ [Next]_vars => Budgeted' BY BudgetedStep
  <1>3. QED BY <1>1, <1>2, BudgetedInit, AlwaysShaped, PTL DEF Spec

-----------------------------------------------------------------------------
(***************************************************************************)
(* The limiter: what a key's window counts is what passed since it         *)
(* started, and a minute that reaches back before the window saw fewer     *)
(* than the limit pass there, since the window before it began with a      *)
(* request of its own.                                                     *)
(***************************************************************************)
Times == 0..MaxNow
Span(from, to) == {t \in Times : from <= t /\ t < to}
Since(from) == {t \in Times : from <= t}
Passed(f, times) == SumFunctionOnSet(f, times)

\* w is a key's window at the time n, f what was let through for the key.
Counts(f, w, n) ==
    /\ w.started <= n /\ w.count <= Limit
    /\ f[w.started] > 0
    /\ Passed(f, Since(w.started)) = w.count
    /\ \A t \in Times : w.started + Window <= t => f[t] = 0
    /\ \A from \in Times : from <= w.started /\ w.started < from + Window
                              => Passed(f, Span(from, w.started)) < Limit

Limited(f, w, n) ==
    /\ \A t \in Times : n < t => f[t] = 0
    /\ w.count = 0 => \A t \in Times : f[t] = 0
    /\ w.count > 0 => Counts(f, w, n)
    /\ \A from \in Times : Passed(f, Span(from, from + Window)) < 2 * Limit

EveryKeyLimited == Shaped /\ \A k \in Keys : Limited(let[k], window[k], now)

LEMMA TimesFinite == \A S \in SUBSET Times : IsFiniteSet(S)
  <1>1. IsFiniteSet(Times) BY Numbers, FS_Interval DEF Times
  <1>2. QED BY <1>1, FS_Subset

LEMMA PassedNat ==
    ASSUME NEW f \in [Times -> Nat], NEW S \in SUBSET Times
    PROVE  Passed(f, S) \in Nat
  BY TimesFinite, SumNat DEF Passed

\* Of fewer times no more passed.
LEMMA PassedOfFewer ==
    ASSUME NEW f \in [Times -> Nat], NEW S \in SUBSET Times, NEW R \in SUBSET S
    PROVE  Passed(f, R) <= Passed(f, S)
  BY TimesFinite, SumSubset DEF Passed

LEMMA NothingPassed ==
    ASSUME NEW f \in [Times -> Nat], NEW S \in SUBSET Times, \A t \in S : f[t] = 0
    PROVE  Passed(f, S) = 0
  BY TimesFinite, SumZero DEF Passed

\* A request more at the time n.
OneMore(f, n) == [f EXCEPT ![n] = @ + 1]

LEMMA PassedMore ==
    ASSUME NEW f \in [Times -> Nat], NEW n \in Times, NEW S \in SUBSET Times
    PROVE  /\ n \in S => Passed(OneMore(f, n), S) = Passed(f, S) + 1
           /\ n \notin S => Passed(OneMore(f, n), S) = Passed(f, S)
  <1>g. PICK g : g = OneMore(f, n) OBVIOUS
  <1>1. IsFiniteSet(S) BY TimesFinite
  <1>2. /\ g \in [Times -> Nat] /\ g[n] = f[n] + 1
        /\ \A t \in Times \ {n} : g[t] = f[t]
    BY <1>g DEF OneMore
  <1>n. \A t \in S : f[t] \in Int /\ g[t] \in Int BY <1>2
  <1>3. CASE n \in S
    <2>0. \A t \in S \ {n} : f[t] = g[t] BY <1>2
    <2>1. Passed(g, S) = Passed(f, S) + (g[n] - f[n])
      <3>1. SumFunctionOnSet(g, S) = SumFunctionOnSet(f, S) + (g[n] - f[n])
        BY ONLY <1>1, <1>n, <1>3, <2>0, SumChange
      <3>2. QED BY <3>1 DEF Passed
    <2>2. Passed(f, S) \in Nat /\ f[n] \in Nat BY PassedNat
    <2>3. QED BY <1>g, <1>2, <1>3, <2>1, <2>2
  <1>4. CASE n \notin S
    <2>1. \A t \in S : f[t] = g[t] BY <1>2, <1>4
    <2>2. Passed(f, S) = Passed(g, S) BY <1>1, <2>1, SumSame DEF Passed
    <2>3. QED BY <1>g, <1>2, <1>4, <2>2
  <1>5. QED BY <1>g, <1>3, <1>4

\* A span that contains a time is what comes before that time and what comes from it on.
LEMMA SpanParts ==
    ASSUME NEW f \in [Times -> Nat], NEW from \in Times, NEW mid \in Times, from <= mid, NEW to \in Nat
    PROVE  Passed(f, Span(from, to)) <= Passed(f, Span(from, mid)) + Passed(f, Since(mid))
  <1> DEFINE R == Span(from, mid)
             S == Since(mid)
             U == R \cup S
  <1>1. R \in SUBSET Times /\ S \in SUBSET Times /\ U \in SUBSET Times BY DEF Span, Since
  <1>2. \A t \in Times : t \in Int BY DEF Times
  <1>3. R \cap S = {} BY <1>2 DEF Span, Since
  <1>4. Span(from, to) \in SUBSET U BY <1>2 DEF Span, Since
  <1> HIDE DEF R, S
  <1>5. Passed(f, Span(from, to)) <= Passed(f, U) BY <1>1, <1>4, PassedOfFewer
  <1>6. IsFiniteSet(R) /\ IsFiniteSet(S) BY <1>1, TimesFinite
  <1>7. \A t \in R \cup S : f[t] \in Int BY <1>1
  <1>r. Passed(f, R) \in Nat /\ Passed(f, S) \in Nat BY <1>1, PassedNat
  <1>u. Passed(f, U) \in Nat /\ Passed(f, Span(from, to)) \in Nat
    BY <1>1, <1>4, PassedNat
  <1>8. Passed(f, U) = Passed(f, R) + Passed(f, S) BY <1>3, <1>6, <1>7, SumUnion DEF Passed
  <1>9. QED BY <1>5, <1>8, <1>r, <1>u DEF R, S

\* After the first request of a window fewer than the limit passed.
LEMMA AfterTheFirst ==
    ASSUME NEW f \in [Times -> Nat], NEW w \in Windows, NEW n \in Times, Counts(f, w, n),
           NEW S \in SUBSET Since(w.started + 1)
    PROVE  Passed(f, S) < Limit
  <1> DEFINE A == Since(w.started)
  <1>0. w.started \in Times /\ w.count \in Nat /\ Limit \in Nat
    BY Numbers DEF Windows, Times
  <1>1. \A t \in Times : t \in Int BY DEF Times
  <1>2. A \in SUBSET Times /\ w.started \in A /\ S \in SUBSET (A \ {w.started})
    BY <1>0, <1>1 DEF Since
  <1>3. IsFiniteSet(A) /\ \A t \in A : f[t] \in Int BY <1>2, TimesFinite
  <1>4. Passed(f, A) = w.count /\ w.count <= Limit /\ f[w.started] > 0 BY DEF Counts
  <1> HIDE DEF A
  <1>5. Passed(f, A) = f[w.started] + Passed(f, A \ {w.started}) BY <1>2, <1>3, SumTake DEF Passed
  <1>6. Passed(f, S) <= Passed(f, A \ {w.started}) BY <1>2, PassedOfFewer
  <1>7. Passed(f, S) \in Nat /\ Passed(f, A \ {w.started}) \in Nat BY <1>2, PassedNat
  <1>8. f[w.started] \in Nat BY <1>0
  <1>9. QED BY <1>0, <1>4, <1>5, <1>6, <1>7, <1>8

\* A request the limiter lets through in the window of the one before it.
LEMMA SameWindow ==
    ASSUME NEW f \in [Times -> Nat], NEW w \in Windows, NEW n \in Times, Limited(f, w, n),
           w.count > 0, w.count < Limit, n - w.started < Window,
           NEW g, g = OneMore(f, n),
           NEW v \in Windows, v.started = w.started, v.count = w.count + 1
    PROVE  Limited(g, v, n)
  <1> DEFINE a == w.started
  <1>0. /\ a \in Times /\ w.count \in Nat /\ Limit \in Nat /\ Window \in Nat
        /\ \A t \in Times : t \in Nat
    BY Numbers DEF Windows, Times
  <1>1. Counts(f, w, n) /\ a <= n BY DEF Limited, Counts
  <1>m. \A S \in SUBSET Times : /\ n \in S => Passed(g, S) = Passed(f, S) + 1
                                /\ n \notin S => Passed(g, S) = Passed(f, S)
    BY PassedMore
  <1>2. g \in [Times -> Nat] /\ g[n] = f[n] + 1 /\ \A t \in Times \ {n} : g[t] = f[t]
    BY DEF OneMore
  <1>3. \A t \in Times : n < t \/ a + Window <= t => g[t] = 0
    <2>1. ~(n < n) /\ ~(a + Window <= n) BY <1>0
    <2>2. \A t \in Times : n < t \/ a + Window <= t => f[t] = 0 BY DEF Limited, Counts
    <2>3. QED BY <1>2, <2>1, <2>2
  <1>4. g[a] > 0
    <2>1. f[a] > 0 /\ f[a] \in Nat BY <1>0, <1>1 DEF Counts
    <2>2. QED BY <1>0, <1>2, <2>1
  <1>5. Passed(g, Since(a)) = v.count
    <2>1. Since(a) \in SUBSET Times /\ n \in Since(a) BY <1>1 DEF Since
    <2>2. QED BY <1>1, <2>1, <1>m DEF Counts
  <1>6. \A from \in Times : from <= a /\ a < from + Window => Passed(g, Span(from, a)) < Limit
    <2> SUFFICES ASSUME NEW from \in Times, from <= a, a < from + Window
                 PROVE  Passed(g, Span(from, a)) < Limit
      OBVIOUS
    <2>1. Span(from, a) \in SUBSET Times /\ n \notin Span(from, a) BY <1>0, <1>1 DEF Span
    <2>2. Passed(f, Span(from, a)) < Limit BY <1>1 DEF Counts
    <2>3. QED BY <2>1, <2>2, <1>m
  <1>7. \A from \in Times : Passed(g, Span(from, from + Window)) < 2 * Limit
    <2> SUFFICES ASSUME NEW from \in Times
                 PROVE  Passed(g, Span(from, from + Window)) < 2 * Limit
      OBVIOUS
    <2> DEFINE S == Span(from, from + Window)
    <2>1. S \in SUBSET Times BY DEF Span
    <2>2. from + Window \in Nat BY <1>0
    <2>3. Passed(g, Since(a)) \in Nat /\ Passed(g, Since(a)) <= Limit /\ Limit > 0
      BY <1>0, <1>5, Numbers
    <2>4. Passed(g, S) \in Nat BY <1>2, <2>1, PassedNat
    <2>5. CASE n \notin S
      <3>1. Passed(f, S) < 2 * Limit BY DEF Limited
      <3>2. Passed(g, S) = Passed(f, S) BY <1>m, <2>1, <2>5
      <3>3. QED BY <3>1, <3>2
    <2>6. CASE n \in S /\ from <= a
      <3>1. a < from + Window BY <1>0, <1>1, <2>6 DEF Span
      <3>2. Passed(g, Span(from, a)) < Limit BY <1>6, <2>6, <3>1
      <3>3. Passed(g, S) <= Passed(g, Span(from, a)) + Passed(g, Since(a))
        BY <1>0, <1>2, <2>2, <2>6, SpanParts
      <3>4. Passed(g, Span(from, a)) \in Nat
        <4>1. Span(from, a) \in SUBSET Times BY DEF Span
        <4>2. QED BY <1>2, <4>1, PassedNat
      <3>5. QED BY <1>0, <2>3, <2>4, <3>2, <3>3, <3>4
    <2>7. CASE a < from
      <3>1. Since(a) \in SUBSET Times /\ S \in SUBSET Since(a) BY <1>0, <2>7 DEF Since, Span
      <3>2. Passed(g, S) <= Passed(g, Since(a)) BY <1>2, <3>1, PassedOfFewer
      <3>3. QED BY <1>0, <2>3, <2>4, <3>2
    <2>8. QED BY <1>0, <2>5, <2>6, <2>7
  <1>8. Counts(g, v, n)
    <2>1. a <= n /\ v.count <= Limit BY <1>0, <1>1
    <2>2. \A t \in Times : a + Window <= t => g[t] = 0 BY <1>3
    <2>3. QED BY <1>4, <1>5, <1>6, <2>1, <2>2, Zenon DEF Counts
  <1>9. \A t \in Times : n < t => g[t] = 0 BY <1>3
  <1>10. v.count # 0 BY <1>0
  <1>11. QED BY <1>7, <1>8, <1>9, <1>10, Zenon DEF Limited

\* A request that is the first of a window of its own: the one before it is over, or
\* there was none.
LEMMA FirstOfWindow ==
    ASSUME NEW f \in [Times -> Nat], NEW w \in Windows, NEW n \in Times, Limited(f, w, n),
           w.count = 0 \/ Window <= n - w.started,
           NEW g, g = OneMore(f, n),
           NEW v \in Windows, v.started = n, v.count = 1
    PROVE  Limited(g, v, n)
  <1>0. /\ Limit \in Nat /\ Limit > 0 /\ Window \in Nat /\ Window > 0
        /\ \A t \in Times : t \in Nat /\ t + Window \in Nat
        /\ w.started \in Times /\ w.count \in Nat
    BY Numbers DEF Windows, Times
  <1>1. g \in [Times -> Nat] /\ g[n] = f[n] + 1 /\ \A t \in Times \ {n} : g[t] = f[t]
    BY DEF OneMore
  <1>m. \A S \in SUBSET Times : /\ n \in S => Passed(g, S) = Passed(f, S) + 1
                                /\ n \notin S => Passed(g, S) = Passed(f, S)
    BY PassedMore
  <1>2. \A t \in Times : n <= t => f[t] = 0
    <2>1. CASE w.count = 0 BY <2>1 DEF Limited
    <2>2. CASE w.count > 0 /\ Window <= n - w.started
      <3>1. \A t \in Times : w.started + Window <= t => f[t] = 0
        BY <2>2 DEF Limited, Counts
      <3>2. QED BY <1>0, <2>2, <3>1
    <2>3. QED BY <1>0, <2>1, <2>2
  <1>3. \A t \in Times : n < t => g[t] = 0 BY <1>0, <1>1, <1>2
  <1>4. ASSUME NEW S \in SUBSET Times, \A t \in S : n < t + Window
        PROVE  Passed(f, S) < Limit
    <2>1. CASE w.count = 0
      <3>1. \A t \in S : f[t] = 0 BY <2>1 DEF Limited
      <3>2. QED BY <1>0, <3>1, NothingPassed
    <2>2. CASE w.count > 0 /\ Window <= n - w.started
      <3>1. Counts(f, w, n) BY <2>2 DEF Limited
      <3>2. \A t \in S : w.started + 1 <= t BY <1>0, <1>4, <2>2
      <3>3. S \in SUBSET Since(w.started + 1) BY <3>2 DEF Since
      <3>4. QED BY <3>1, <3>3, AfterTheFirst
    <2>3. QED BY <1>0, <2>1, <2>2
  <1>5. Passed(g, Since(n)) = 1
    <2>1. Since(n) \in SUBSET Times /\ n \in Since(n) BY <1>0 DEF Since
    <2>2. Passed(f, Since(n)) = 0
      <3>1. \A t \in Since(n) : f[t] = 0 BY <1>2 DEF Since
      <3>2. QED BY <2>1, <3>1, NothingPassed
    <2>3. QED BY <2>1, <2>2, <1>m
  <1>6. \A from \in Times : from <= n /\ n < from + Window => Passed(g, Span(from, n)) < Limit
    <2> SUFFICES ASSUME NEW from \in Times, from <= n, n < from + Window
                 PROVE  Passed(g, Span(from, n)) < Limit
      OBVIOUS
    <2> DEFINE S == Span(from, n)
    <2>1. S \in SUBSET Times /\ n \notin S /\ \A t \in S : n < t + Window
      BY <1>0 DEF Span
    <2> HIDE DEF S
    <2>2. Passed(f, S) < Limit BY <1>4, <2>1
    <2>3. QED BY <2>1, <2>2, <1>m DEF S
  <1>7. \A from \in Times : Passed(g, Span(from, from + Window)) < 2 * Limit
    <2> SUFFICES ASSUME NEW from \in Times
                 PROVE  Passed(g, Span(from, from + Window)) < 2 * Limit
      OBVIOUS
    <2> DEFINE S == Span(from, from + Window)
    <2>1. S \in SUBSET Times BY DEF Span
    <2>2. CASE n \notin S
      <3>1. Passed(f, S) < 2 * Limit BY DEF Limited
      <3>2. Passed(g, S) = Passed(f, S) BY <1>m, <2>1, <2>2
      <3>3. QED BY <3>1, <3>2
    <2>3. CASE n \in S
      <3>1. \A t \in S : n < t + Window BY <1>0, <2>3 DEF Span
      <3> HIDE DEF S
      <3>2. Passed(f, S) < Limit BY <1>4, <2>1, <3>1
      <3>3. Passed(g, S) = Passed(f, S) + 1 BY <1>m, <2>1, <2>3
      <3>4. Passed(f, S) \in Nat BY <2>1, PassedNat
      <3>5. QED BY <1>0, <3>2, <3>3, <3>4 DEF S
    <2>4. QED BY <2>2, <2>3
  <1>8. \A t \in Times : n + Window <= t => g[t] = 0 BY <1>0, <1>3
  <1>9. g[n] > 0 BY <1>0, <1>1
  <1>10. Counts(g, v, n)
    <2>1. n <= n /\ v.count <= Limit BY <1>0
    <2>2. QED BY <1>5, <1>6, <1>8, <1>9, <2>1, Zenon DEF Counts
  <1>11. v.count # 0 OBVIOUS
  <1>12. QED BY <1>3, <1>7, <1>10, <1>11, Zenon DEF Limited

LEMMA NothingIsLimited ==
    ASSUME NEW f \in [Times -> Nat], \A t \in Times : f[t] = 0, NEW w, w.count = 0, NEW n
    PROVE  Limited(f, w, n)
  <1>1. \A from \in Times : Passed(f, Span(from, from + Window)) < 2 * Limit
    <2> SUFFICES ASSUME NEW from \in Times
                 PROVE  Passed(f, Span(from, from + Window)) < 2 * Limit
      OBVIOUS
    <2>1. Span(from, from + Window) \in SUBSET Times BY DEF Span
    <2>2. Passed(f, Span(from, from + Window)) = 0 BY <2>1, NothingPassed
    <2>3. QED BY <2>2, Numbers
  <1>2. \A t \in Times : n < t => f[t] = 0 OBVIOUS
  <1>3. ~(w.count > 0) OBVIOUS
  <1>4. QED BY <1>1, <1>2, <1>3, Zenon DEF Limited

LEMMA LimitedLater ==
    ASSUME NEW f \in [Times -> Nat], NEW w \in Windows, NEW n \in Times, Limited(f, w, n),
           NEW m \in Times, n <= m
    PROVE  Limited(f, w, m)
  <1>0. w.started \in Nat /\ \A t \in Times : t \in Nat BY DEF Windows, Times
  <1>1. \A t \in Times : m < t => f[t] = 0 BY <1>0 DEF Limited
  <1>2. Counts(f, w, n) => w.started <= m BY <1>0 DEF Counts
  <1>3. Counts(f, w, n) => Counts(f, w, m) BY <1>2, Zenon DEF Counts
  <1>4. QED BY <1>1, <1>3, Zenon DEF Limited

LEMMA EveryKeyLimitedInit == Init => EveryKeyLimited
  <1> SUFFICES ASSUME Init, NEW k \in Keys PROVE Limited(let[k], window[k], now)
    BY ShapedInit DEF EveryKeyLimited
  <1>1. PICK f : f = let[k] OBVIOUS
  <1>2. f \in [Times -> Nat] /\ \A t \in Times : f[t] = 0
    BY <1>1 DEF Init, NothingLet, Times
  <1>3. window[k].count = 0 BY DEF Init, NoWindow
  <1>4. QED BY <1>1, <1>2, <1>3, NothingIsLimited

LEMMA LimitedPass ==
    ASSUME EveryKeyLimited, Shaped', NEW s \in Slots, PassLimiter(s), NEW k \in Keys,
           slot[s].key = k
    PROVE  Limited(let'[k], window'[k], now')
  <1>1. PICK f \in [Times -> Nat] : f = let[k] BY DEF EveryKeyLimited, Shaped, TypeOK, Times
  <1>2. PICK w \in Windows : w = window[k] BY DEF EveryKeyLimited, Shaped, TypeOK
  <1>3. PICK n \in Times : n = now BY DEF EveryKeyLimited, Shaped, TypeOK, Times
  <1>4. PICK v \in Windows : v = window'[k] BY DEF Shaped, TypeOK
  <1>5. Limited(f, w, n) BY <1>1, <1>2, <1>3 DEF EveryKeyLimited
  <1>6. PICK c \in Windows : c = Current(k) /\ c.count < Limit
    BY CurrentType DEF EveryKeyLimited, PassLimiter, BelowLimit
  <1>7. v = [c EXCEPT !.count = @ + 1]
    BY <1>4, <1>6 DEF PassLimiter, EveryKeyLimited, Shaped, TypeOK
  <1>8. v.started = c.started /\ v.count = c.count + 1 BY <1>7 DEF Windows
  <1>9. let'[k] = OneMore(f, n) /\ now' = n
    BY <1>1, <1>3 DEF PassLimiter, EveryKeyLimited, Shaped, TypeOK, OneMore
  <1>10. w.count \in Nat /\ w.started \in Nat /\ n \in Nat /\ Window \in Nat
    BY Numbers DEF Windows, Times
  <1>11. CASE w.count = 0 \/ n - w.started >= Window
    <2>1. c.started = n /\ c.count = 0 BY <1>2, <1>3, <1>6, <1>11 DEF Current
    <2>2. v.started = n /\ v.count = 1 BY <1>8, <2>1
    <2>3. w.count = 0 \/ Window <= n - w.started BY <1>10, <1>11
    <2>4. Limited(OneMore(f, n), v, n) BY <1>5, <2>2, <2>3, FirstOfWindow
    <2>5. QED BY <1>4, <1>9, <2>4
  <1>12. CASE ~(w.count = 0 \/ n - w.started >= Window)
    <2>1. c = w BY <1>2, <1>3, <1>6, <1>12 DEF Current
    <2>2. w.count > 0 /\ w.count < Limit /\ n - w.started < Window
      BY <1>6, <1>10, <1>12, <2>1, Numbers
    <2>3. v.started = w.started /\ v.count = w.count + 1 BY <1>8, <2>1
    <2>4. Limited(OneMore(f, n), v, n) BY <1>5, <2>2, <2>3, SameWindow
    <2>5. QED BY <1>4, <1>9, <2>4
  <1>13. QED BY <1>11, <1>12

LEMMA EveryKeyLimitedStep ==
    ASSUME EveryKeyLimited, Shaped', [Next]_vars
    PROVE  EveryKeyLimited'
  <1> SUFFICES ASSUME NEW k \in Keys PROVE Limited(let'[k], window'[k], now')
    BY DEF EveryKeyLimited
  <1>1. /\ let[k] \in [Times -> Nat] /\ window[k] \in Windows /\ now \in Times
        /\ now' \in Times /\ Limited(let[k], window[k], now)
        /\ let'[k] \in [Times -> Nat]
    BY DEF EveryKeyLimited, Shaped, TypeOK, Times
  <1>2. ASSUME let'[k] = let[k], window'[k] = window[k], now <= now'
        PROVE  Limited(let'[k], window'[k], now')
    BY <1>1, <1>2, LimitedLater
  <1>3. CASE Restart
    <2>1. \A t \in Times : let'[k][t] = 0 BY <1>3 DEF Restart, NothingLet, Times
    <2>2. window'[k].count = 0 BY <1>3 DEF Restart, NoWindow
    <2>3. QED BY <1>1, <2>1, <2>2, NothingIsLimited
  <1>4. ASSUME NEW s \in Slots, PassLimiter(s) PROVE Limited(let'[k], window'[k], now')
    <2>1. CASE slot[s].key = k BY <1>4, <2>1, LimitedPass
    <2>2. CASE slot[s].key # k
      <3>1. let'[k] = let[k] /\ window'[k] = window[k] /\ now' = now
        BY <1>4, <2>2 DEF PassLimiter, EveryKeyLimited, Shaped, TypeOK
      <3>2. QED BY <1>1, <1>2, <3>1 DEF Times
    <2>3. QED BY <2>1, <2>2
  <1>5. CASE Tick BY <1>1, <1>2, <1>5 DEF Tick, Times
  <1>6. ASSUME UNCHANGED <<window, now, let>> PROVE Limited(let'[k], window'[k], now')
    BY <1>1, <1>6
  <1>7. ASSUME NEW q \in Keys, Key(q) PROVE UNCHANGED <<window, now, let>>
    BY <1>7 DEF Key, CreateKey, RotateKey, RevokeKey
  <1>8. ASSUME NEW s \in Slots, Request(s), ~PassLimiter(s) PROVE UNCHANGED <<window, now, let>>
    BY <1>8 DEF Request, FindKey, ReadBudget, SelectRoute, FallBack, Answer, RecordUsage, Abandon
  <1>9. CASE NewMonth \/ UNCHANGED vars BY <1>6, <1>9 DEF NewMonth, vars
  <1>10. QED BY <1>3, <1>4, <1>5, <1>6, <1>7, <1>8, <1>9 DEF Next

\* In no minute does a key's limiter let through twice its limit, wherever the minute
\* starts and however its windows fall (enforceRequestLimit): for any limit and window.
THEOREM NoMinuteSeesTwiceTheLimit == Spec => []TwoWindowsAtMost
  <1>1. ASSUME EveryKeyLimited PROVE TwoWindowsAtMost
    <2> SUFFICES ASSUME NEW k \in Keys, NEW from \in 0..MaxNow
                 PROVE  Let(k, from) < 2 * Limit
      BY DEF TwoWindowsAtMost
    <2>1. Let(k, from) = Passed(let[k], Span(from, from + Window)) BY DEF Let, Passed, Span, Times
    <2>2. Limited(let[k], window[k], now) /\ from \in Times BY <1>1 DEF EveryKeyLimited, Times
    <2>3. Passed(let[k], Span(from, from + Window)) < 2 * Limit BY <2>2 DEF Limited
    <2>4. QED BY <2>1, <2>3
  <1>2. EveryKeyLimited /\ Shaped' /\ [Next]_vars => EveryKeyLimited'
    BY EveryKeyLimitedStep
  <1>3. QED BY <1>1, <1>2, EveryKeyLimitedInit, AlwaysShaped, PTL DEF Spec
=============================================================================
