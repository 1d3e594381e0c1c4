------------------------------- MODULE Gateway -------------------------------
(***************************************************************************)
(* The way of a request to a provider (httpapi/handlers.go,                *)
(* authenticateAPIKey, selectModelRoute, selectFallbackModelRoute,         *)
(* chatCompletions, recordUsageEvent) and the API keys it is let in by     *)
(* (createAPIKey, revokeAPIKey; advanced.go, rotateAPIKey,                 *)
(* enforceRequestLimit).                                                   *)
(*                                                                         *)
(* A slot is a goroutine that serves one request after another.  The       *)
(* statements of authenticateAPIKey are steps of their own: the key's row, *)
(* the usage of its project, and the limiter's map under its mutex.  The   *)
(* catalog of routes and prices has no writer in the program.              *)
(*                                                                         *)
(* One project is modelled.  What happens to the credits is                *)
(* InferenceBilling's; a request it refuses is Abandoned here.             *)
(***************************************************************************)
EXTENDS Charging, FiniteSets

CONSTANTS
    Slots,     \* as many requests as are served at the same time
    Keys,      \* ids of the project's API keys
    Rotations, \* a key is rotated at most so often
    Expiries,  \* when a key may expire, or None
    Budgets,   \* the monthly budgets keys may have, or None
    Limit,     \* rate_limit_per_minute
    Window,    \* a minute, in ticks
    MaxNow,    \* the clock stops here
    Routes,    \* the ids of the enabled and active routes
    Catalog,   \* sys_channel_model_routes with channel, model and profile
    Rules,     \* the active sys_price_rules
    Asks,      \* what requests may ask for
    Answers    \* the usage providers may report

CatalogRow == [model : STRING, profile : STRING, modality : STRING,
               priority : Int, weight : Int, latency : Nat \cup {None}]

ASSUME GatewayAssumption ==
    /\ Rotations \in Nat /\ Limit \in Nat \ {0} /\ Window \in Nat \ {0} /\ MaxNow \in Nat
    /\ Expiries \subseteq Nat \cup {None}
    /\ Budgets \subseteq Int \cup {None}
    /\ IsFiniteSet(Slots) /\ IsFiniteSet(Keys)
    /\ Routes \subseteq Nat /\ IsFiniteSet(Routes)
    /\ Catalog \in [Routes -> CatalogRow]
    /\ Rules \subseteq PriceRules /\ IsFiniteSet(Rules)
    /\ Asks \subseteq AskRows /\ IsFiniteSet(Asks)
    /\ Answers \subseteq Usages /\ IsFiniteSet(Answers)
    /\ None \notin Keys \cup Asks

VARIABLES
    row,    \* user_api_keys: status and expiry, and how often the key was rotated
    window, \* the limiter's map
    usage,  \* the charges of user_usage_events of this month, by the key they came with
    now,    \* the clock
    let,    \* when requests passed the limiter since the process started
    slot    \* the requests

vars == <<row, window, usage, now, let, slot>>

NoKey == [status |-> "absent", expiry |-> None, secret |-> 0, budget |-> None]
KeyRows == [status : {"absent", "active", "revoked"}, expiry : Expiries \cup {None},
            secret : 0..Rotations, budget : Budgets \cup {None}]
NoWindow == [started |-> 0, count |-> 0]
Windows == [started : 0..MaxNow, count : Nat]
Idle == [at |-> "idle", key |-> None, secret |-> 0, ask |-> None, route |-> None,
         failed |-> None, reserved |-> 0, given |-> None]
SlotStates == [at : {"idle", "found", "within", "admitted", "calling", "served"},
               key : Keys \cup {None}, secret : 0..Rotations, ask : Asks \cup {None},
               route : Routes \cup {None}, failed : Routes \cup {None},
               reserved : Nat, given : Answers \cup {None}]

TypeOK ==
    /\ row \in [Keys -> KeyRows]
    /\ window \in [Keys -> Windows]
    /\ usage \in [Keys -> Nat]
    /\ now \in 0..MaxNow
    /\ let \in [Keys -> [0..MaxNow -> Nat]]
    /\ slot \in [Slots -> SlotStates]

NothingLet == [k \in Keys |-> [t \in 0..MaxNow |-> 0]]

Init ==
    /\ row = [k \in Keys |-> NoKey]
    /\ window = [k \in Keys |-> NoWindow]
    /\ usage = [k \in Keys |-> 0]
    /\ now = 0
    /\ let = NothingLet
    /\ slot = [s \in Slots |-> Idle]

Become(s, state) == slot' = [slot EXCEPT ![s] = state]
-----------------------------------------------------------------------------
(* The keys *)

CreateKey(k) ==
    /\ row[k].status = "absent"
    /\ \E e \in Expiries, b \in Budgets :
          /\ e # None => e > now
          /\ row' = [row EXCEPT ![k] = [status |-> "active", expiry |-> e,
                                        secret |-> 0, budget |-> b]]
    /\ UNCHANGED <<window, usage, now, let, slot>>

\* Mutant: a rotation makes the key active again.
RotateAnyKey(k) ==
    /\ row[k].status # "absent"
    /\ row[k].secret < Rotations
    /\ row' = [row EXCEPT ![k].secret = @ + 1, ![k].status = "active"]
    /\ UNCHANGED <<window, usage, now, let, slot>>

\* The key keeps its id, and with it its limits.
RotateKey(k) ==
    /\ row[k].status = "active"
    /\ row[k].secret < Rotations
    /\ row' = [row EXCEPT ![k].secret = @ + 1]
    /\ UNCHANGED <<window, usage, now, let, slot>>

\* Mutant: a revoked key is marked deleted.
DeleteKey(k) ==
    /\ row[k].status # "absent"
    /\ row' = [row EXCEPT ![k].status = "deleted"]
    /\ UNCHANGED <<window, usage, now, let, slot>>

RevokeKey(k) ==
    /\ row[k].status # "absent"
    /\ row' = [row EXCEPT ![k].status = "revoked"]
    /\ UNCHANGED <<window, usage, now, let, slot>>
-----------------------------------------------------------------------------
(* authenticateAPIKey *)

Expired(k) == row[k].expiry # None /\ row[k].expiry <= now

Opens(k, n) == row[k].status = "active" /\ row[k].secret = n /\ ~Expired(k)

\* The request also fits the key's environment, scopes and addresses; one that does
\* not is refused and leaves nothing behind.
FindKey(s) ==
    /\ slot[s].at = "idle"
    /\ \E k \in Keys, n \in 0..Rotations, ask \in Asks :
          /\ Opens(k, n)
          /\ Become(s, [Idle EXCEPT !.at = "found", !.key = k, !.secret = n, !.ask = ask])
    /\ UNCHANGED <<row, window, usage, now, let>>

\* What the key's project has used, whichever key it was used with.
Used == SumFunction(usage)

\* Mutant: the budget must be exceeded to refuse a request.
WithinInclusive(k) == row[k].budget = None \/ Used <= row[k].budget

Within(k) == row[k].budget = None \/ Used < row[k].budget

ReadBudget(s) ==
    /\ slot[s].at = "found"
    /\ Within(slot[s].key)
    /\ Become(s, [slot[s] EXCEPT !.at = "within"])
    /\ UNCHANGED <<row, window, usage, now, let>>

\* A key has no window before its first request.
Current(k) ==
    IF window[k].count = 0 \/ now - window[k].started >= Window
    THEN [started |-> now, count |-> 0] ELSE window[k]

\* Mutant: one request too many.
BelowLimitInclusive(n) == n <= Limit

BelowLimit(n) == n < Limit

PassLimiter(s) ==
    LET k == slot[s].key IN
    /\ slot[s].at = "within"
    /\ BelowLimit(Current(k).count)
    /\ window' = [window EXCEPT ![k] = [Current(k) EXCEPT !.count = @ + 1]]
    /\ let' = [let EXCEPT ![k][now] = @ + 1]
    /\ Become(s, [slot[s] EXCEPT !.at = "admitted", !.secret = 0])
    /\ UNCHANGED <<row, usage, now>>
-----------------------------------------------------------------------------
(* Routes *)

\* The model's slug or a profile's is what a request may name.
Named(ask) == {r \in Routes : ask.name \in {Catalog[r].model, Catalog[r].profile}}

TopPriority(routes) ==
    {r \in routes : \A q \in routes : Catalog[q].priority <= Catalog[r].priority}

Share(r) == IF Catalog[r].weight <= 0 THEN 1 ELSE Catalog[r].weight

\* order by weight desc, id asc
Ahead(q, r) ==
    \/ Catalog[q].weight > Catalog[r].weight
    \/ Catalog[q].weight = Catalog[r].weight /\ q < r

\* The candidates take turns at the clock's nanoseconds, each as long as its share.
Picked(r, pick, candidates) ==
    LET before == MapThenSumSet(Share, {q \in candidates : Ahead(q, r)})
    IN  before <= pick /\ pick < before + Share(r)

\* order by priority desc, response_time_ms asc nulls last, weight desc, id asc
Sooner(q, r) ==
    LET p == Catalog[q].priority
        l == Catalog[q].latency
        m == Catalog[r].latency
    IN  \/ p > Catalog[r].priority
        \/ /\ p = Catalog[r].priority
           /\ \/ l # None /\ m = None
              \/ l # None /\ m # None /\ l < m
              \/ l = m /\ Ahead(q, r)

Others(ask, failed) == Named(ask) \ {failed}

\* One at most.
Fallbacks(ask, failed) ==
    {r \in Others(ask, failed) : \A q \in Others(ask, failed) \ {r} : Sooner(r, q)}

\* priceRulesForRoute: those of the model, and those of the route's profile.
RulesFor(r) ==
    {rule \in Rules : /\ rule.model = Catalog[r].model
                      /\ rule.profile \in {"", Catalog[r].profile}}

\* Mutant: the estimate leaves out the prices of the route's profile.
EstimatedForModel(r, ask) ==
    Charge({rule \in RulesFor(r) : rule.profile = ""}, ask, EstimatedUsage(Catalog[r].modality, ask))

EstimatedCharge(r, ask) == Charge(RulesFor(r), ask, EstimatedUsage(Catalog[r].modality, ask))
FinalCharge(s) == Charge(RulesFor(slot[s].route), slot[s].ask, slot[s].given)
-----------------------------------------------------------------------------
(* chatCompletions *)

\* The route is chosen, and the estimate reserved for it.
SelectRoute(s) ==
    LET candidates == TopPriority(Named(slot[s].ask)) IN
    /\ slot[s].at = "admitted"
    /\ \E pick \in 0..MapThenSumSet(Share, candidates) - 1, r \in candidates :
          /\ Picked(r, pick, candidates)
          /\ Become(s, [slot[s] EXCEPT !.at = "calling", !.route = r,
                                       !.reserved = EstimatedCharge(r, slot[s].ask)])
    /\ UNCHANGED <<row, window, usage, now, let>>

\* The first route failed.
FallBack(s) ==
    /\ slot[s].at = "calling"
    /\ slot[s].failed = None
    /\ \E r \in Fallbacks(slot[s].ask, slot[s].route) :
          Become(s, [slot[s] EXCEPT !.route = r, !.failed = slot[s].route])
    /\ UNCHANGED <<row, window, usage, now, let>>

Answer(s) ==
    /\ slot[s].at = "calling"
    /\ \E given \in Answers : Become(s, [slot[s] EXCEPT !.at = "served", !.given = given])
    /\ UNCHANGED <<row, window, usage, now, let>>

\* The final charge is captured and then recorded.
RecordUsage(s) ==
    /\ slot[s].at = "served"
    /\ usage' = [usage EXCEPT ![slot[s].key] = @ + FinalCharge(s)]
    /\ Become(s, Idle)
    /\ UNCHANGED <<row, window, now, let>>

\* A refusal, a failing statement, or a second route that fails; after the capture it
\* leaves a charge that no usage event tells of.
Abandon(s) ==
    /\ slot[s].at # "idle"
    /\ Become(s, Idle)
    /\ UNCHANGED <<row, window, usage, now, let>>
-----------------------------------------------------------------------------
Tick ==
    /\ now < MaxNow
    /\ now' = now + 1
    /\ UNCHANGED <<row, window, usage, let, slot>>

\* date_trunc('month', current_timestamp) moves on.
NewMonth ==
    /\ usage' = [k \in Keys |-> 0]
    /\ UNCHANGED <<row, window, now, let, slot>>

\* The limiter's map and the requests are the process's.
Restart ==
    /\ window' = [k \in Keys |-> NoWindow]
    /\ let' = NothingLet
    /\ slot' = [s \in Slots |-> Idle]
    /\ UNCHANGED <<row, usage, now>>

Key(k) == CreateKey(k) \/ RotateKey(k) \/ RevokeKey(k)

Request(s) ==
    \/ FindKey(s) \/ ReadBudget(s) \/ PassLimiter(s)
    \/ SelectRoute(s) \/ FallBack(s) \/ Answer(s) \/ RecordUsage(s) \/ Abandon(s)

Next ==
    \/ Tick \/ NewMonth \/ Restart
    \/ \E k \in Keys : Key(k)
    \/ \E s \in Slots : Request(s)

Spec == Init /\ [][Next]_vars
-----------------------------------------------------------------------------
Dead(k, n) ==
    /\ row[k].status # "absent"
    /\ n < row[k].secret \/ row[k].status # "active" \/ Expired(k)

Carriers(k, n) ==
    {s \in Slots : slot[s].at \in {"found", "within"} /\ slot[s].key = k /\ slot[s].secret = n}

\* A secret that was replaced, and every secret of a key that was revoked or expired,
\* opens nothing ever again, whatever rotations and revocations follow; the requests
\* that carry it to the limiter are some of those that had found their key before.
DeadSecretsDrain ==
    [][\A k \in Keys, n \in 0..Rotations :
          Dead(k, n) => Dead(k, n)' /\ ~Opens(k, n)' /\ Carriers(k, n)' \subseteq Carriers(k, n)]_vars

\* The limiter's windows start at a request, not at the full minute: any minute meets
\* at most two of them, so it sees fewer than twice the limit.
Let(k, from) == SumFunctionOnSet(let[k], {t \in 0..MaxNow : from <= t /\ t < from + Window})

TwoWindowsAtMost == \A k \in Keys, from \in 0..MaxNow : Let(k, from) < 2 * Limit

\* A key's budget is read before a request and its usage recorded after: the requests
\* under way together exceed it, by no more than one charge each.
Charges == {Charge(RulesFor(r), ask, given) : r \in Routes, ask \in Asks, given \in Answers}

OverBudgetByThoseUnderWay ==
    \A k \in Keys :
        row[k].status # "absent" /\ row[k].budget # None /\ usage[k] > 0
            => usage[k] <= row[k].budget - 1 + Cardinality(Slots) * Max({0} \cup Charges)

\* What is reserved for a request covers its final charge, if the first route served it
\* and the provider counts no more than was estimated.
AtMost(given, estimated) ==
    given.prompt <= estimated.prompt /\ given.completion <= estimated.completion

ReservationCovers ==
    \A s \in Slots :
        LET r == slot[s].route
            ask == slot[s].ask
        IN  /\ slot[s].at = "served"
            /\ slot[s].failed = None
            /\ AtMost(slot[s].given, EstimatedUsage(Catalog[r].modality, ask))
            => FinalCharge(s) <= slot[s].reserved
=============================================================================
