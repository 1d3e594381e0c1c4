# Model Market in TLA+

A verification project for the backend of Model Market (`src/backend`, Go,
PostgreSQL): TLA+ modules translated from the handlers, TLC configurations that
check them on small instances, and TLAPS proofs for the properties that have to
hold for every instance.

    tlc -workers 2 -config InferenceBilling.cfg InferenceBilling.tla
    tlapm InferenceBillingProofs.tla

`PROJECT.json` lists every run with its module, every mapped definition with the
source lines it stands for, the hazards of the code, and for each checked property
a mutant: an alternative of one definition (in the modules, marked "Mutant:") under
which TLC finds the property violated.

## The system

One Go process serves an HTTP interface over one PostgreSQL database (a pool of 20
connections, `cmd/server/main.go:30`), calls model providers and Stripe, and keeps
three tables of its own in memory (rate limits, login limits, credential rotation).
Every request is a goroutine; goroutines meet only in the database, in those three
tables, and at Stripe. Statements run in READ COMMITTED. A second program,
`cmd/retention-cleanup`, works on the same database.

| Component | State | Operations | Interacts with | What makes it correct |
|---|---|---|---|---|
| Inference billing (`chatCompletions`; `reserve-`, `capture-`, `releaseProjectCredits`) | `user_wallets`, `user_ledger_transactions`, request records; per request: reservation, captured flag | reserve before the provider call, capture the final charge, release on every other way out, insert records | routing, charging, providers, wallet | no overdraft; a request costs its charge once or nothing; ledger explains wallet; charged work is recorded |
| Purchases (`purchaseCredits`, `stripeWebhook`, `postStripeCreditPurchase`) | `user_credit_purchases`, `user_payments`, ledger, wallet; at Stripe: sessions | buy (mock or Checkout), webhook deliveries | Stripe, wallet | credits granted once per paid session, late events undo nothing, paid sessions eventually credited |
| Refunds (`refundPayment`, `createStripeRefund`) | payment row, ledger, wallet; at Stripe: refunds and keys | refund part of a payment | Stripe, wallet, configuration | refunds add up, never ahead of Stripe, no two overwrite each other, all end |
| Charging (`calculateRequestCharge`, `billingUnits`, `splitCredits`) | price rules | pure | billing | reserved estimate covers usage, parts add up |
| Routing, providers, credentials | routes, health, rotation counter | choose route, fallback, hand out credential | billing | fallback differs from the failed route, fair rotation |
| API keys | `user_api_keys`, rate windows | create, rotate, revoke, authenticate | billing (budget counts its usage events) | revoked stays revoked, window and budget limits |
| Login limiter | `loginLimits` map | check, record failure, clear | sessions | a lock lasts; attempts are bounded |
| Accounts and sessions, OAuth | `sys_users`, `sys_sessions`, `sys_oauth_*` | login, logout, password change and reset, suspend, link identity, exchange code | limiter | a suspended or changed account has no old session; codes are used once |
| Organizations | memberships, invitations | invite, accept, change role, remove | accounts | an invitation is accepted once; nobody is in a workspace uninvited |
| Conversations, branches, assets, projects | conversation, message, asset rows; objects in S3 or a directory | create, branch, save turn, upload, delete | billing, retention | no rows without parents, no listed asset without object, a branch has a prefix and an answered one all that was read |
| Retention | none | list expired, delete | conversations | deletes whole conversations or nothing of them |
| Presets, reports, metrics, configuration, frontend | - | - | - | not modelled, see the end |

Hard behaviours: interleavings of handlers on one wallet row and on one payment
row; transactions whose COMMIT is applied but reported as failed; a deferred release
that may fail; crashes with credits reserved; at-least-once, unordered webhook
delivery; calls to Stripe inside a transaction; a nested use of the connection
pool; checks made before, and acted on after, another statement.

## Modules

| Module | Models | Size of state |
|---|---|---|
| `CreditAccount` | abstract: an account from which each request takes one hold that is cancelled or settled once | available, hold, phase |
| `InferenceBilling` | `POST /v1/chat/completions` and the three credit functions | wallet row and lock, ledger rows per request, handler position and locals |
| `MCInferenceBilling` | symmetry for TLC | |
| `InferenceBillingProofs` | theorems about `InferenceBilling` | |
| `Payments` | purchases, webhook, refunds; Stripe as the environment | wallet, purchase and payment rows, payment row lock, ledger rows, sessions, refunds and keys at Stripe, handlers |
| `MCPayments` | symmetry for TLC | |
| `PaymentsProofs` | theorems about `Payments` | |
| `WalletTraffic` | both on one wallet row | all of the above |
| `WalletTrafficProofs` | theorems about `WalletTraffic` | |
| `Charging` | estimated usage, units, rounding to credits, splits | none: operators |
| `SumProofs` | lemmas about sums over finite sets, for the other proofs | |
| `Gateway` | API keys, budgets, the per-minute limiter, choice of route and fallback, recorded usage | key rows, limiter windows and clock, usage of the month, requests |
| `MCGateway` | a catalog, price rules, requests and answers for TLC | |
| `GatewayProofs` | theorems about `Charging` and `Gateway` | |
| `Content` | conversations, branches, messages, assets, stored objects, retention | rows, objects, requests and jobs |
| `MCContent` | symmetry for TLC | |
| `ContentProofs` | theorems about `Content` | |
| `Tenants` | first logins through a provider, signup, appointment, members, invitations | user, identity, membership and invitation rows, transactions under way |
| `MCTenants` | spellings of an address and identities for TLC | |
| `TenantsProofs` | theorems about `Tenants` | |
| `Accounts` | password login, change and reset, suspension, OAuth code exchange, sessions and the login limiter of one account | user row and its lock, sessions, codes, limiter windows and clock, handlers |
| `MCAccounts` | symmetry for TLC | |
| `AccountsProofs` | theorems about `Accounts` | |

### InferenceBilling

A request is a goroutine whose position is `stage`:

    idle -> estimated -> reserving -> dispatched -> priced -> capturing -> recording -> done
                                        \------------\----------\-> unwinding -> done

- A transaction that reads the wallet `for update` and later writes it
  (`reserveProjectCredits`, `captureProjectCredits`) is two steps, `ReserveLock` /
  `ReserveCommit` and `CaptureLock` / `CaptureCommit`; `lock` names the request that
  has the row, `seen` what it read. The commit computes with `seen` and applies a
  relative update to `wallet`, as the SQL does, so a lost lock would show.
- `releaseProjectCredits` is one relative update: one step that waits for the row.
- `captured` is the handler's `reservationCaptured`. `Unwind` is a return after the
  release was deferred, `Finish` one before, or after the capture.
- A statement may fail at any position (`ReserveFails`, `CaptureFails`,
  `InsertFails`, `PricingFails`): its transaction rolls back and the handler takes
  the code's error path. These are always possible. Three more kinds of trouble are
  switched by the constant `Faults`: "ack" (a COMMIT that is applied and reported as
  an error), "release" (the deferred release fails; its error is discarded) and
  "crash".
- `ledger` keeps the posted rows of a request by the prefix of their unique
  idempotency key, with the amount added to the wallet.
- The charge is any member of `Charges`, for the estimate and again for the final
  one: which charge a route and its usage give is `Charging`'s and `Gateway`'s.
- Not in it: payloads, streaming (the answer is written after everything else),
  `rehostExternalFilesInContent` (best effort, changes no credits), the inner
  statements of `saveConversationTurn` and `createMockGeneratedArtifacts` (each is
  one row of `rows`, which succeeds or fails as a whole).

### Payments

- A purchase in mock mode is one transaction and one step. With Stripe the session
  is created first, the pending rows are stored after it, and its outcome (paid,
  expired, processing then settled or failed) is the environment's.
- Webhook events are not stored as messages: an event of a session may be delivered
  at any time after it happened, any number of times, which is what at-least-once
  and unordered delivery allow. `CheckPosted` is the lookup before the transaction,
  `BeginPost` takes a connection, `PostCommit` is the transaction, `PostDuplicate`
  the violated unique key.
- A refund holds its connection from `BeginRefund` on; `LockPayment` takes the
  payment row, `StripeAccepts`, `StripeUnheard`, `StripeRefuses` are the outcomes of
  the call, `SettleRefund` needs a second connection for the ratio and the wallet
  row. `keys` are the idempotency keys Stripe remembers; they may expire.
- The ratio is configuration; that it changes at any time (`SetRatio`) is the
  environment's.
- `spent` stands for inference in this module alone: it takes paid credits that are
  there and gives back no more than it took. `WalletTraffic` checks that
  `InferenceBilling` does just that (`InferenceIsSpending`).
- `CreditsFor` is the Go expression `int64(float64(cents) / 100 * ratio)`: the floor of
  cents * ratio / 100, less one credit for the pairs in `RoundedLow`. The expression
  rounds twice before it truncates, each time by a factor within 2^-53 of 1, so it comes
  out below a whole number of credits only where the exact product is one, and then by one
  credit. At the configured ratio of 100, 115 cents are 114 credits while 50 and 65 cents
  are 50 and 65. This holds for products far below 2^53; the code has no upper bound on
  amounts, and larger ones are not modelled. Ratios are whole numbers.
- Stripe's events come at any time and in any order: `MarkFailed` (expired or failed)
  also for a session that is paid or not paid yet, before or after its success is
  posted; events that the code ignores are no action.
- Not in it: a mock purchase whose `payment_method` is the word "stripe", and
  signature verification.

### WalletTraffic

`InferenceBilling` and `Payments` share `wallet` and `lock`; a step is one of
theirs. `Payments!spent` is what the ledger rows of the requests took. The pool of the
run has as many connections as there are refunds, so refunds that each hold one and want
another for the ratio can exhaust it, as they can in the code, which bounds concurrent
refunds nowhere.

### Accounts

One account in production mode (`DevMode` keeps no sessions), with a membership.
A request is a goroutine whose position is `stage`:

    login     idle -> looking -> (rehashing ->) entering -> issuing -> clearing -> done
    change    idle -> looking -> replacing -> changing -> done        (a reset has no looking)
    suspend   idle -> evicting -> done
    exchange  idle -> redeeming -> entering -> issuing -> done

- A login is a slot that serves one attempt after another (`NextAttempt`), so
  `Logins` bounds the attempts at the same time and not their number. A slot with a
  session waits for the session to end, because a session is named by its slot.
- A single statement is one step. The two transactions that lock the user row, of a
  change or reset and of an exchange (`select ... for update` on the code joined
  with its user), are a step that takes `row` and a step that commits. Statements
  that write the row wait for it (`RowFree`). `doomed` are the sessions the
  transaction of a change has deleted: those committed when its delete ran.
- `updateAdminUser` is two statements that are not one transaction (`SetStatus`,
  `Evict`), and the error of the second is ignored (`EvictFails`). So is the error
  of the rehash (`RehashFails`).
- A hash is the password it is of and whether it is an old, unsalted one. bcrypt
  refuses passwords of more than 72 bytes (`Long`); `passwordHash` then falls back
  to the old form, which is how an old hash can be written in production too.
- The limiter's functions run under a mutex and are one step each. Its map has an
  entry per username and address: modelled are the two of one address, for logins
  and for changes. Those of other addresses do not touch it.
- The clock is the limiter's. The 24 hours of a session and the two minutes of a
  code are far apart from it, so that their ends (`SessionEnds`, `CodeExpires`) may
  come at any time.
- Not in it: what `Tenants` models; a code of another account.

### Charging and Gateway

- `Charging` counts in whole parts: a price is a number of 1/`PriceUnit` of a credit,
  a unit a number of 1/(`Tokens` * `Minute`), so that a total is exact where the code
  multiplies floating-point numbers. `ceilCredits` forgives 1e-9 credits; that is `Slack`.
- A request in `Gateway` is a goroutine at

      idle -> found -> within -> admitted -> calling -> served -> idle

  with the statements of `authenticateAPIKey` (the key's row, the project's usage of
  this month, the limiter's map) as steps of their own, because keys are rotated and
  revoked, and usage is recorded, in between. `secret` is the number of the rotation
  the request's secret came from; it is dropped once the limiter let the request pass.
- `window` is the limiter's map; a restart of the process (`Restart`) empties it.
  `let` counts what the limiter let pass, for the property.
- `Catalog` is the join that `selectModelRoute` reads, `Picked` the weighted choice at
  the clock's nanoseconds, `Fallbacks` the one other route that is tried. The final
  charge is computed with the route that answered, the reservation with the first.
- Not in it: environment, scopes and addresses of a key (a request that does not fit
  is refused without a trace), `last_used_at`, rotation of the providers' credentials,
  adapters. A request whose credits are refused, or that fails after its capture, is
  `Abandon`.

### Content

- Requests and the retention job are `slot`s that serve one thing after another; a
  statement is a step, and so is a transaction that deletes, because the foreign keys
  make it fail when rows came in between. Any of them may fail (`Fails`), and an insert
  may be applied and answered with an error (`ImportUnheard`).
- A branch copy reads the source, inserts the branch, reads the prefix and copies it
  message by message (`CopyMessage`). The loop over the rows does not ask `rows.Err()`
  (`handlers.go:1756-1763`), so a read that breaks midway goes on with its first rows:
  `ReadPrefix` reads any part of the prefix from the front. `copied` remembers what the
  prefix was and what was read.
- `HeldFromElsewhere` is a row of another conversation that names a branch of this one:
  `createUploadIntent` and chat requests take a branch id without asking whose it is, and the
  foreign key then keeps the conversation from being deleted.
- A PUT with a presigned URL, or to the mock store (`mockS3Object`), stores an object
  (`PutStored`). The mock store takes any key, of generated and deleted assets too, and
  removes the object when the body turns out too large on the way (`PutTooLarge`). `lost`
  are the assets whose object went that way, or by a rehosting whose insert was applied and
  answered with an error.
- `objects` are the assets whose object is stored. An object without a row is left by
  a deletion whose keys were listed before the row came, by a failing removal, and by a
  generation whose insert fails; the model does all that, and no property says otherwise.
- Not in it: attachments and extractions (deleted with their message or asset),
  titles, and times of change: the job may find anything expired.

### Tenants

- A transaction that waits for rows is several steps; what it has inserted and not yet
  committed is in its `slot` and others wait for it, as PostgreSQL makes them wait for
  a unique key or a `for update` (`HoldsEmail`, `HoldsUser`, `HoldsIdentity`,
  `HoldsInvite`). The lookup of a user by address has no limit and locks the row of every
  spelling, one after the other in no stated order (`SeekUser` finds them, `LockUser`
  locks one of those `left`, `held` are those it has). `Link` is the transaction of the three providers' link functions,
  which differ in names only. `Register` is signup (two statements, no transaction) and
  an administrator's appointment; `Manage` is authorisation and then a change of role, a
  removal or an invitation; `Accept` is the transaction of an acceptance.
- `authorizeTenantRequest` reads the organization from the query before the body, the
  handler acts on the one in the body: `Authorise` chooses the two separately.
- `Blocks` says who waits for whom, including the foreign key of a new membership,
  which waits for a user row locked `for update`.
- Emails are unique as they are spelled; the link functions and acceptances compare
  lower case (`AreSame`), signup stores lower case (`Lower`).
- `expired`, `uses` and `outcasts` are history, for the guards and properties.
- A user who logged in first with a provider founds an organization, project and wallet;
  they have the user's id. `Seeded` are the organizations of `db/init_db.sql`.
- Not in it: names, statuses, joining times; `createProject`.

## Runs

| Run | Instance | Checks | States |
|---|---|---|---|
| `InferenceBilling` | 2 requests (one in a conversation, one generating artifacts), charges 0, 1, 3, wallet 2 paid + 2 promotional, no faults, fairness | types, exact settlement, answers agree with charges, promotional credits first, holds are settled, implements `CreditAccount` | 93,250 |
| `InferenceFaults` | 2 requests, charges 0 to 3, all faults | no overdraft, ledger = wallet, only whole amounts leak | 466,000 |
| `Payments` | 1 Stripe and 1 mock purchase of 29 cents, refunds of 14 or 15 cents, a ratio that changes between 50 and 100, inference takes or gives back 28 credits, 2 deliveries, 2 refunds, pool of 3 | types, granted once, ledger = wallet, refunds add up, never ahead of Stripe, never more credits than the cents are worth, outcomes stand | 918,270 |
| `WalletTraffic` | 1 request with charges 1 and 3, wallet 2 promotional, one Stripe purchase of 200 cents, 1 delivery, 2 refunds of 150 cents, pool of 2, fairness | the whole ledger explains the wallet, inference is spending, paid sessions are credited, refunds end | 9,570 |
| `Accounts` | 2 login slots, 1 reset, 1 change of status, 2 exchanges of one code, 2 passwords, one too long for bcrypt; the clock stands still | types, a code opens one session, suspension and a replaced password only leave sessions that were about to be opened | 801,036 |
| `AccountsLimiter` | 2 login slots, 3 password changes, 1 password, lock after 2 failures, window of 2 ticks, 3 ticks | failures of a window are bounded, a lock is ended early only by an attempt let in before it | 473,148 |
| `Gateway` | 2 requests, 1 key rotated once, budget 2, limit 2 in a window of 2 ticks, 4 routes, 3 price rules | types, no minute sees twice the limit, a budget is exceeded by those under way only, reservations cover estimates kept, dead secrets drain | 221,871 |
| `Content` | 2 requests or jobs, 1 conversation, 2 branches, 3 messages, 1 asset | types, listed generated assets have their object, copies are prefixes, nothing outlives its conversation | 4,318,692 |
| `Tenants` | 2 requests, 2 users, 2 spellings of an address, 2 identities, 1 invitation | types, registrations are whole, an invitation admits once, circles of waits only between lookups of one address | 1,352,712 |

Three more runs end in a violation. Each checks one property that a document or
comment of the repository states and the code does not keep:

| Run | Property | What happens |
|---|---|---|
| `InferenceLostCapture` | `NoRequestMintsCredits` | The COMMIT of a capture is applied, its error is not nil, the deferred release returns the reservation on top: the wallet gains credits (`docs/security.md:212-216`). |
| `InferenceZeroEstimate` | `AffordableIsCapturable` | Estimate 0, final charge above 0: 402 from a full wallet (comment at `advanced.go:518-520`). |
| `AccountsRehash` | `ReplacedKnowingly` | A login has verified the old hash, a password change commits, the login then stores the bcrypt hash of the old password: the change is undone (`docs/security.md:141-142`, `handlers.go:138`). |

Deadlock is not checked in any run: requests, purchases and sessions are finite,
and a state in which all are done has no step. That nothing waits for ever before
is what `HoldsAreSettled`, `PaidIsCredited` and `RefundsEnd` check. In `Accounts` no
request waits but for a row that one short transaction holds. In `Tenants` two first
logins can each hold the row of one spelling of an address and wait for the other's;
PostgreSQL then fails one of them (`Fails`), and `NoCircleOfWaits` says that there is no
other circle. In `Gateway` and `Content` nothing waits.

### Bounds

- Two requests: the protocol's hazards are between one request's read and its
  write and one other transaction; the proofs cover any number.
- Charges {0, 1, 3} against a wallet of 2 + 2: an empty reservation, one that fits
  in promotional credits, one that needs both kinds, two that together do not fit,
  a final charge below, at and above the estimate, an overage that is and one that
  is not covered.
- 29 cents at ratio 100 is the smallest amount at which the code rounds a credit away: 28
  credits are granted, refunds of 14 and 15 cents take back 29. The refunds are partial, together
  full, refused, at another ratio than the purchase, and at ratio 50 rounded down (15
  cents are seven credits and a half). Inference takes the credits of one purchase, so that
  a refund may find them gone. Two refunds at once and two deliveries at once are enough
  for every pairwise race; a pool of 3 lets two refunds both go on, and in `WalletTraffic`
  a pool of 2 lets them block each other. Amounts in `WalletTraffic` are those of the
  composition: a refund takes back one of the two credits bought and competes with a
  request for the wallet; a second one waits for its row and is refused.
- Accounts: two logins, two exchanges and one of each other request (three changes, where their lock matters) give every
  race of two requests on the row, the sessions or the code. The limiter locks
  after 2 failures instead of 5 and its window is 2 ticks instead of 15 minutes: enough
  for a failure before the lock, the one that locks, and one of an attempt
  let in earlier. 3 ticks let the lock and a window that started before it end at
  different times. `GuessingIsBounded` is proved for every threshold, window and clock.
- Gateway: one key and two requests, a budget of 2 with charges of up to 5 credits, a
  limit of 2 per window of 2 ticks and 3 moments of the clock: two windows side by side,
  an expiry within the run, and a budget passed by both requests at once. The catalog
  has a tie in priority with weights 0 and 3, a dearer profile at lower priority
  (the fallback), and a route without a price.
- Content: one conversation, two branches (a source and its copy), three messages (two
  to copy and one saved meanwhile), one asset. A row that names another conversation's
  branch needs no second one: an asset or message may have no conversation, too.
- Tenants: two users, two spellings of one address, two identities, one invitation. A
  third user, or a second invitation, is a race of the same two transactions.
- Symmetry is used only in runs without liveness properties.

### Fairness

- `InferenceBilling`: weak fairness of each request's own steps. The provider
  clients have time limits (60 s and 180 s), a row lock lasts one transaction, and
  the deferred release runs under a context that cannot be cancelled. No fairness
  for arrivals or faults.
- `WalletTraffic`: weak fairness of the request, strong fairness of a refund's steps and of a delivery's (PostgreSQL
  grants row locks, `database/sql` grants connections, in order of arrival, so a waiting
  handler is not overtaken for ever), and of the delivery of a paid session's event
  (Stripe repeats it). `PaidIsCredited` assumes that deliveries of the session do not
  fail for ever, and leaves out sessions that settle asynchronously: the code
  ignores their event (`docs/payments.md`, "Ignores non-completed events").
- No fairness of Stripe's answer or of the pool: `createStripeRefund` falls back to
  `http.DefaultClient`, which waits without limit, and refunds that hold all connections
  wait for each other for ever (`advanced.go:334`, `362`). Both are premises of
  `PaidIsCredited` and `RefundsEnd` (`StripeAndPoolServe`): given that every call is answered and
  a connection is free again and again, nothing else, no row lock and no order of
  requests, purchases and refunds, keeps them from ending. The run reaches the states in
  which two refunds have exhausted the pool, and there the premise fails, as the code does.

## Proofs

The proof modules check from nothing with `tlapm` (SMT, Zenon, LS4).

`SumProofs`: what the ledgers, budgets, limits and charges are stated with, sums of a
function over a finite set (`SumFunctionOnSet` of the community modules). The sum is a
recursive function on the subsets of the set. That this function exists, and induction
over finite sets (`SubsetInduction`, `FirstInduction`), are proved from the
well-foundedness of the subsets of a finite set, which the library states without an
operator parameter; from them follow `SumInt`, `SumNat`, `SumTake` (the order does not
matter), `SumChange` (a change of one summand), `SumMore`, `SumMonotone`, `SumUnion`,
`SumSubset`, `SumZero`.

`InferenceBillingProofs`
- `TypeCorrect`: `Spec => []TypeOK`.
- `NeverOverspent`: `Spec => []NoOverspend`, with all faults. `NoOverspend` is not
  inductive: the commit subtracts what was computed from `seen`. The invariant
  `WalletSafe` adds `ReadIsCurrent` (between "for update" and COMMIT the request has
  the row and what it read is what the row holds) and `HeldIsNatural` (what is
  given back is not negative).
- `SettlesExactly`: `Spec => []SettledExactly`, assuming that no acknowledgement is
  lost and no release fails (crashes may happen). The invariant `BooksMatch` says
  of every position of the handler which ledger rows exist: up to the capture only
  the reservation, equal to what the handler holds.
- `MovesWholeAmounts`: `Spec => []NothingPartial`, with all faults. `Accounted` says for
  every position which rows a request may have posted, and that they are whole also where
  a lost acknowledgement has left the handler behind the ledger.
- `LedgerAlwaysExplains`: `Spec => []LedgerExplainsWallet`. Every action either leaves
  the wallet and all rows' sums alone (`Untouched`) or moves the wallet as one request's
  sum (`Posts`); with `SumChange` the wallet and the sum over all requests move alike.
- `PromotionalGoesFirst`: `Spec => PromotionalFirst`. Whoever commits took what it takes
  from the row it has locked, promotional credits first.
- `AnswersAreTrue`: `Spec => []AnswerMatchesCharge`, assuming that no acknowledgement is
  lost and no release fails. `AnsweredOnce` adds to `BooksMatch` what the
  client was told at each position.
- `RequestsMintNothing`: `Spec => []NoRequestMintsCredits`, assuming that no acknowledgement
  is lost. `Mintless` adds that whoever unwinds has posted only its reservation. With a lost
  acknowledgement the run `InferenceLostCapture` shows a request that adds credits.
- `AccountImplemented`: `Spec => ImplementsAccount`, assuming `Faults = {}`. The mapping
  (`HoldOf`, `PhaseOf`) shows a request's reservation as its hold from the commit of the
  reservation on; one lemma for each operation of `CreditAccount` says which step of the
  handler is that operation, all others stutter. With a fault the refinement does not
  hold, as the run `InferenceLostCapture` shows.

`PaymentsProofs`
- `PaymentsTypeCorrect`: `Spec => []TypeOK`.
- `NeverRefundsAhead`: `Spec => []NeverAheadOfStripe`. The invariant `Covered` adds
  `LockedIsCurrent` (a refund past the lock has the row, and what it read as
  refunded is still refunded), `KeysAreCovered` (a key Stripe knows stands for cents
  it returned, on top of those refunded before) and `SettlingIsCovered`. The case
  that needs thought is a known key: Stripe returns nothing new, and the invariant
  says it already returned enough.
- `GrantedExactlyOnce`, `RefundsAlwaysAddUp`: `Spec => []GrantedOncePaid` and
  `Spec => []RefundsAddUp`, from one invariant, `RowsAgree`: the purchase's status, its
  payment and the sum of its ledger rows (`posted`, which a second grant would
  double) say the same; the refunded cents are the sum of the reversals;
  and a refund past its lock computed from the row as it is.
- `LedgerAlwaysExplainsPaid`: `Spec => []LedgerExplainsPaid`. A step of a delivery or a
  refund moves the wallet as the rows of one purchase (`NetSum`, `PaidMoves`).
- `RefundsStayWithinWorth`: `Spec => []ReversedWithinWorth`. Each reversal is at most
  the floor at a ratio no higher than the highest, so their sum is at most the floor of
  all refunded cents (`FloorsAddUp`). The grant may be one credit below that floor
  (`RoundedLow`), so refunds of a purchase made at the highest ratio take back at most one
  credit more than it granted (`WithinGrant`); the run's 29 cents show that they do.
- `OutcomesAlwaysStand`: `Spec => OutcomesStand`.

`WalletTrafficProofs`, of the composition, assuming that no acknowledgement is lost
- `InferenceOnlySpends`: `TrafficSpec => InferenceIsSpending`. `TrafficInv` is what the
  requests keep among themselves (`WalletSafe`, `Accounted`, `Mintless`), without what
  fixes the wallet's value. A purchase or refund writes the row only while no request has
  it (`PaymentWallet`), so it keeps the invariant; a request's step moves the paid credits
  and `Spent` oppositely (`SumsMove`) and leaves `Spent` natural (`SpentNatural`), so it is
  a `Spend`.
- `WholeLedgerAlwaysExplains`: `TrafficSpec => []WholeLedgerExplainsWallet`. By the
  refinement `LedgerAlwaysExplainsPaid` of `PaymentsProofs` holds here; promotional credits
  are moved by requests alone.
- `NeverOverspentTogether`: `TrafficSpec => []NoOverspend`.

`AccountsProofs`
- `AccountsTypeCorrect`: `Spec => []TypeOK`. `Presented` adds that a request that has
  begun presents a password.
- `CodesOpenOnce`: `Spec => []OneSessionPerCode`, from `RowHeld` (who is redeeming or
  changing has the row) and `CodesOnce` (a redeemed code is gone, a code being
  redeemed is not).
- `SuspensionEffective`: `Spec => SuspensionDrains`.
- `ReplacementEffective`: `Spec => OldPasswordDrains`. `Opened` (a login whose session
  exists has left the steps before it) separates sessions from logins under way.
- `GuessingIsBounded`: `Spec => []FailuresBounded`. The count alone is not inductive:
  `Counted` relates it to `InFlight`, the attempts that may still fail. While the
  login is locked none joins them, so each failure uses one up.
- `LocksOutlastNewAttempts`: `Spec => LockOutlastsNewAttempts`. While a login is locked
  only attempts let in before write its window (`WindowWriters`).

`GatewayProofs`
- `SplitAddsUp`: the parts of a charge add up to it, for every charge and count.
- `RoundsUpByLessThanACredit` and `ChargesAreMonotone`: what `ceilCredits` does to a
  total, for all prices and units.
- `MoreUsageIsChargedNoLess`: where no price is negative, a usage with no more tokens is
  charged no more, for every set of rules. More tokens may bill rules that fewer do not:
  `TotalIsSum` takes the sum over all rules, with nothing for those not billed.
- `DeadSecretsStayDead`: `Spec => DeadSecretsDrain`. Every step only lets keys get older
  (`KeysAge`: a revoked key stays so, expiries stay, rotations and the clock go up), so
  what is dead stays dead, and only `FindKey` gives a request a key, one that opens.
- `GatewayTypeCorrect`: `Spec => []TypeOK`. `Fits` adds what a request has at each stage;
  that charges are natural numbers rests on the theorems about charges.
- `BudgetsAreKeptButForThoseUnderWay`: `Spec => []OverBudgetByThoseUnderWay`. `Budgeted`
  adds the highest charge for every request that has passed the check: the check gives
  it room, recording uses it up. Negative and zero budgets, which the code accepts,
  are among those it is proved for.
- `NoMinuteSeesTwiceTheLimit`: `Spec => []TwoWindowsAtMost`. `Limited` says that a
  window's count is what passed since it started, that a request passed when it
  started, and that any minute reaching back before it saw fewer than the limit pass
  there (`AfterTheFirst`: the window before began with a request, too).
- `ReservationsCover`: `Spec => []ReservationCovers` where no price is negative. The
  schema and the code do not forbid a negative price, and with one the property fails.

`TenantsProofs`
- `TenantsTypeCorrect`: `Spec => []TypeOK`, with `Carries`: what a request has at each of
  its positions.
- `CirclesAreOfLookups`: `Spec => []NoCircleOfWaits`. Who is about to commit waits for
  nobody, who inserts an identity waits only for those, and whoever else can be waited for
  in a circle is a lookup that holds a row and wants another. By `Locking` the rows it
  holds and wants are of its own address, so two neighbours in the circle have one address.
- `RegistrationsStayWhole`: `Spec => []RegistrationIsWhole`. Not inductive: two
  transactions may each have found an email or an identity free. `KeysHeld` adds that
  what a transaction has inserted is not taken and no other transaction has inserted it.
- `InvitationsAreUsedOnce`: `Spec => []InvitationsAdmitOnce`. `Offered` adds that whoever
  accepts has locked an invitation that is open and addressed to it, that no two have
  locked the same one, and that an id without an invitation was never used.

`ContentProofs`
- `ContentTypes`: `Spec => []TypeOK`. `Shaped` adds what each kind of request and job
  holds at each of its positions (`Fits`): which row it has read, and what it has made.
- `NothingOutlives`: `Spec => []NothingOutlivesItsConversation`. A transaction that inserts
  below a conversation waits for the conversation's row, and its deletion cascades in one
  step; so each table is followed through every step on its own (`TablesStep`).
- `GeneratedStored`: `Spec => []GeneratedAreStored`. `RowsKept` is not inductive alone: a
  handler uploads before it inserts, and a deletion removes the object after it has
  marked the row. `PendingKept` says an insertion under way has its object, `DeletingKept`
  that only rows no longer listed lose theirs, `Apart` that no two actors hold one object.
  A PUT may remove any object; what it removed is in `lost`, which the property excepts.
- `CopiesPrefixes`: `Spec => []CopiesArePrefixes`. While a branch is being copied its
  messages are those of the source up to the position of the copy (`CopierKept`), what was
  read is the front of them (`CopyKept`), and
  afterwards nothing is put in front (`RowBounds`, `BranchKept`). There is one copier of a
  branch (`OneCopier`), and the steps of all others leave what it reads as it was
  (`Undisturbed`).

The assumptions are the named `ASSUME`s on the constants (`BillingAssumption`,
`PaymentsAssumption`, `AccountsAssumption`, `ChargingAssumption`, `GatewayAssumption`,
`TenantsAssumption`, `ContentAssumption`; `TrafficAssumption` for `WalletTraffic`): sets
of natural numbers for amounts, `None` no member of the sets of actors, the kinds of
requests disjoint, finitely many requests, purchases, logins, keys, routes, price rules,
request parameters and answers, and a highest of the ratios ever configured. What a
theorem assumes beyond them (no lost acknowledgement, no negative price) is in its
statement.

Only model-checked: the liveness properties `HoldsAreSettled`, `PaidIsCredited` and
`RefundsEnd`, which need fairness, outside what the provers handle. What the
runs that expect a violation refute has no theorem, except `NoRequestMintsCredits`, which
is proved for the faults without a lost acknowledgement and refuted with one.
`AffordableIsCapturable` (ENABLED) is refuted by its run.

## Plan

Done: all the modules and theorems above. What is left, in the order of its worth:

1. The rotation of provider credentials, and `createProject`.
2. The ledger of `WalletTraffic` also where acknowledgements are lost.
3. `Gateway` and `InferenceBilling` composed on one wallet, so that budget, usage and ledger
   rows are of the same requests. Now the first leaves the credits to the second and
   the second takes any charge.

## Not modelled

`createProject` (an insert, and the insert of a wallet whose error is ignored);
the rotation of provider credentials (one step under a mutex);
requests that name a project, which are authorised by a column (`p.status`, `auth.go:106`) that
`db/init_db.sql` does not have; that registrations end (`NoCircleOfWaits` says what could
keep them from it). Not claimed, because the code does not keep it and nothing in the
repository says it does: that a request answered 500 is not charged, that the answer of a
fallback costs what was reserved, that a refund retried after a lost answer pays the buyer
once (Stripe may have forgotten the key, or an amount refunded meanwhile changes it), that
a refund Stripe has made is also made here (the wallet may no longer cover it), that
objects survive a PUT of their key, that a branch answered 201 has all messages of its
source up to the branch point, that the organization authorised is the one managed, usage rows for every charge (an insert may fail after the
capture), a wallet that still has the credits a Stripe refund takes back, objects without
rows, and that an organization keeps an owner (an owner's role may be changed, and an
acceptance overwrites it).

The frontend, scripts and mock data; configuration parsing and start-up; health,
metrics and logs; prompt presets (single statements); listings, exports and reports
(read-only); payload conversion for the providers and streaming; signature and
token cryptography. The Redis client is only pinged.
