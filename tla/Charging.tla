------------------------------ MODULE Charging ------------------------------
(***************************************************************************)
(* What a request is charged (httpapi/handlers.go, estimateChatUsage and   *)
(* calculateRequestCharge): the sum of its price rules, each for the units *)
(* it prices, rounded up to whole credits.                                 *)
(*                                                                         *)
(* The code multiplies floating-point numbers.  Here prices are whole      *)
(* numbers of PriceUnit parts of a credit (numeric(18,8) in the schema)    *)
(* and units whole numbers of Tokens * Minute parts of a unit, so a total  *)
(* is a whole number of Scale parts of a credit; the code's tolerance of   *)
(* 1e-9 credits is Slack of them.                                          *)
(***************************************************************************)
EXTENDS Integers, FiniteSetsExt

CONSTANTS
    Tokens,        \* "1k_tokens" prices so many: 1000
    Minute,        \* seconds of "minute_audio": 60
    PriceUnit,     \* parts of a credit a price counts: 10^8
    Slack,         \* the total that is rounded down to the credits below it
    DefaultTokens, \* completion tokens reserved when the request names none: 512
    None           \* a parameter the request does not have

Scale == PriceUnit * Tokens * Minute

ASSUME ChargingAssumption ==
    /\ Tokens \in Nat \ {0}
    /\ Minute \in Nat \ {0}
    /\ PriceUnit \in Nat \ {0}
    /\ Slack \in Nat
    /\ Slack < Scale
    /\ DefaultTokens \in Nat
    /\ None \notin Int

Usages == [prompt : Int, completion : Int]

\* What a request may ask for, and a price rule.
AskRows == [name : STRING, prompt : Nat, maxTokens : Int \cup {None},
            outputs : Int \cup {None}, seconds : Int \cup {None}]
PriceRules == [id : Nat, model : STRING, profile : STRING, type : STRING, unit : STRING,
               price : Int]

\* intParameter: a parameter that is missing, or no number, has its default.
Parameter(value, default) == IF value = None THEN default ELSE value

\* The usage a charge is reserved for.  Only of a chat it is estimated; ask.prompt is
\* the estimate of its messages, a quarter of their characters and one at least.
EstimatedUsage(modality, ask) ==
    IF modality = "chat"
    THEN [prompt |-> ask.prompt, completion |-> Parameter(ask.maxTokens, DefaultTokens)]
    ELSE [prompt |-> 0, completion |-> 0]

\* billingUnits, in parts.
Units(rule, ask, usage) ==
    CASE rule.unit = "1k_tokens" ->
            Minute * (IF rule.type = "input" THEN usage.prompt ELSE usage.completion)
      [] rule.unit = "image" -> Parameter(ask.outputs, 1) * Tokens * Minute
      [] rule.unit = "second" -> Parameter(ask.seconds, 1) * Tokens * Minute
      [] rule.unit = "minute_audio" -> Parameter(ask.seconds, Minute) * Tokens
      [] OTHER -> Tokens * Minute

\* A rule for no units, or for a negative number of them, is skipped.
Billed(rules, ask, usage) == {rule \in rules : Units(rule, ask, usage) > 0}

Total(rules, ask, usage) ==
    SumFunction([rule \in Billed(rules, ask, usage) |-> rule.price * Units(rule, ask, usage)])

CeilCredits(total) ==
    IF total <= 0 THEN 0 ELSE -((Slack - total) \div Scale)

\* Where no rule prices the route a request costs one credit.
Charge(rules, ask, usage) ==
    IF rules = {} THEN 1 ELSE CeilCredits(Total(rules, ask, usage))

\* splitCredits: the part of a charge that artifact number index, from 0, is marked with.
Split(total, count, index) ==
    IF count <= 1 THEN total
    ELSE total \div count + (IF index = 0 THEN total % count ELSE 0)
=============================================================================
