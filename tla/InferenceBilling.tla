-------------------------- MODULE InferenceBilling --------------------------
(***************************************************************************)
(* POST /v1/chat/completions and the credit reservation it runs under      *)
(* (httpapi/handlers.go, chatCompletions; httpapi/advanced.go,             *)
(* reserveProjectCredits, captureProjectCredits, releaseProjectCredits).   *)
(*                                                                         *)
(* Each request is a goroutine.  It estimates its charge, reserves that    *)
(* amount in the wallet of its project, calls the provider (and once more  *)
(* through a fallback route), computes the final charge, captures it and   *)
(* then inserts its records.  Leaving the handler before the capture       *)
(* succeeded runs the deferred release.                                    *)
(*                                                                         *)
(* One wallet row is modelled, the one all Requests resolve to (a company  *)
(* wallet, or one project's): other wallets are other rows and share       *)
(* nothing with it.  A transaction that reads the row with "for update"    *)
(* and writes it later is two steps with the row locked in between; a      *)
(* transaction that is a single relative update is one step.               *)
(***************************************************************************)
EXTENDS Integers, FiniteSets, FiniteSetsExt

CONSTANTS
    Requests,       \* the inference requests of this run
    Conversational, \* those that name a conversation_id
    Generating,     \* those served by a mock model that generates assets
    Charges,        \* the charges calculateRequestCharge may compute
    InitPaid,       \* the wallet at the start
    InitPromo,
    Faults,         \* which faults may happen, see FaultKinds
    None            \* no request: the wallet row is not locked

(***************************************************************************)
(* "ack": a COMMIT is applied but the handler gets an error for it (the    *)
(*   connection breaks, or the client disconnects and cancels the request  *)
(*   context while COMMIT is under way).                                   *)
(* "release": a statement of the deferred release fails; its error is      *)
(*   discarded.                                                            *)
(* "crash": the server process stops; nothing resumes its requests.        *)
(* A statement that fails before its transaction commits is no fault of    *)
(* this list: it may always happen.                                        *)
(***************************************************************************)
FaultKinds == {"ack", "release", "crash"}

ASSUME BillingAssumption ==
    /\ IsFiniteSet(Requests)
    /\ Conversational \subseteq Requests
    /\ Generating \subseteq Requests
    /\ Charges \subseteq Nat
    /\ InitPaid \in Nat
    /\ InitPromo \in Nat
    /\ Faults \subseteq FaultKinds
    /\ None \notin Requests

VARIABLES
    wallet,   \* the user_wallets row: paid_credits, promotional_credits
    lock,     \* the request whose transaction holds the row lock, or None
    ledger,   \* user_ledger_transactions by request and idempotency key
    stage,    \* where each request's handler is
    seen,     \* the locals paid, promotional read under the row lock
    held,     \* the creditReservation the handler holds
    due,      \* the charge: the estimate, after the provider call the final
    failed,   \* len(failedRoutes)
    captured, \* the handler's reservationCaptured
    rows,     \* the records of the request that are inserted
    reply     \* what the handler answered

handlerVars == <<seen, held, due, failed, captured, rows, reply>>
vars == <<wallet, lock, ledger, stage, handlerVars>>

Credits == [paid : Int, promo : Int]
NoCredits == [paid |-> 0, promo |-> 0]
Total(c) == c.paid + c.promo
Plus(c, d) == [paid |-> c.paid + d.paid, promo |-> c.promo + d.promo]
Minus(c, d) == [paid |-> c.paid - d.paid, promo |-> c.promo - d.promo]

Stages == {"idle", "estimated", "reserving", "dispatched", "priced", "capturing",
           "recording", "unwinding", "done", "crashed"}
RowKinds == {"inference", "failed_attempt", "attempt", "turn", "usage", "artifacts"}
Replies == {"none", "refused", "402", "500", "502", "ok"}

(***************************************************************************)
(* The ledger rows one request can post, by the prefix of their unique     *)
(* idempotency key: the amount the row adds to the wallet, 0 when there is *)
(* no such row (rows are only inserted for amounts above 0).  The row      *)
(* capture_<id> has amount 0 and is kept as a flag.                        *)
(***************************************************************************)
Rows == [reserve : Credits, release : Credits, capture_release : Credits,
         capture_extra : Credits, capture : BOOLEAN]
NoRows == [reserve |-> NoCredits, release |-> NoCredits, capture_release |-> NoCredits,
           capture_extra |-> NoCredits, capture |-> FALSE]

Negated(c) == Minus(NoCredits, c)
NetPaid(r) == ledger[r].reserve.paid + ledger[r].release.paid
                + ledger[r].capture_release.paid + ledger[r].capture_extra.paid
NetPromo(r) == ledger[r].reserve.promo + ledger[r].release.promo
                + ledger[r].capture_release.promo + ledger[r].capture_extra.promo
Net(r) == NetPaid(r) + NetPromo(r)

TypeOK ==
    /\ wallet \in Credits
    /\ lock \in Requests \cup {None}
    /\ ledger \in [Requests -> Rows]
    /\ stage \in [Requests -> Stages]
    /\ seen \in [Requests -> Credits]
    /\ held \in [Requests -> Credits]
    /\ due \in [Requests -> Nat]
    /\ failed \in [Requests -> 0..1]
    /\ captured \in [Requests -> BOOLEAN]
    /\ rows \in [Requests -> SUBSET RowKinds]
    /\ reply \in [Requests -> Replies]

Init ==
    /\ wallet = [paid |-> InitPaid, promo |-> InitPromo]
    /\ lock = None
    /\ ledger = [r \in Requests |-> NoRows]
    /\ stage = [r \in Requests |-> "idle"]
    /\ seen = [r \in Requests |-> NoCredits]
    /\ held = [r \in Requests |-> NoCredits]
    /\ due = [r \in Requests |-> 0]
    /\ failed = [r \in Requests |-> 0]
    /\ captured = [r \in Requests |-> FALSE]
    /\ rows = [r \in Requests |-> {}]
    /\ reply = [r \in Requests |-> "none"]

-----------------------------------------------------------------------------
(* Splitting a charge over the two kinds of credits *)

Smaller(a, b) == IF a <= b THEN a ELSE b

\* Mutant: a charge split the other way round.
PaidSpentFirst(credits, available) ==
    LET paid == Smaller(credits, available.paid)
    IN  [paid |-> paid, promo |-> credits - paid]

\* Promotional credits are spent before paid ones.
PromoFirst(credits, available) ==
    LET promo == Smaller(credits, available.promo)
    IN  [paid |-> credits - promo, promo |-> promo]

\* Mutant: everything unused goes back as paid credits.
AllBackAsPaid(unused, reservation) == [paid |-> unused, promo |-> 0]

\* Of what a reservation did not need, paid credits go back before promotional ones.
PaidFirst(unused, reservation) ==
    LET paid == Smaller(unused, reservation.paid)
    IN  [paid |-> paid, promo |-> unused - paid]

-----------------------------------------------------------------------------
(* The handler's moves *)

Goto(r, s) == stage' = [stage EXCEPT ![r] = s]
Answer(r, code) == reply' = [reply EXCEPT ![r] = code]

\* A return before the release is deferred.
Finish(r, code) == Goto(r, "done") /\ Answer(r, code)

\* A return after it: the answer is written, then the deferred function runs.
Unwind(r, code) == Goto(r, "unwinding") /\ Answer(r, code)

\* Mutant: the row is read without "for update".
RowNeverWaits == TRUE

RowFree == lock = None

\* The transaction ends: the row is free, and the locals read from it are gone.
Unlock(r) ==
    /\ lock' = IF lock = r THEN None ELSE lock
    /\ seen' = [seen EXCEPT ![r] = NoCredits]

\* select ... for update: waits for the row, then reads it.
LockWallet(r) ==
    /\ RowFree
    /\ lock' = r
    /\ seen' = [seen EXCEPT ![r] = wallet]

\* Authentication, decoding and routing fail: no credits are touched yet.
Reject(r) ==
    /\ stage[r] = "idle"
    /\ Finish(r, "refused")
    /\ UNCHANGED <<wallet, lock, ledger, seen, held, due, failed, captured, rows>>

\* selectModelRoute and calculateRequestCharge on the estimated usage.
Estimate(r) ==
    /\ stage[r] = "idle"
    /\ \E c \in Charges : due' = [due EXCEPT ![r] = c]
    /\ Goto(r, "estimated")
    /\ UNCHANGED <<wallet, lock, ledger, seen, held, failed, captured, rows, reply>>

-----------------------------------------------------------------------------
(* reserveProjectCredits *)

\* No transaction for an estimate of 0: the reservation is empty, names no
\* wallet, and the handler goes on.
ReserveNothing(r) ==
    /\ stage[r] = "estimated"
    /\ due[r] = 0
    /\ Goto(r, "dispatched")
    /\ UNCHANGED <<wallet, lock, ledger, handlerVars>>

ReserveLock(r) ==
    /\ stage[r] = "estimated"
    /\ due[r] > 0
    /\ LockWallet(r)
    /\ Goto(r, "reserving")
    /\ UNCHANGED <<wallet, ledger, held, due, failed, captured, rows, reply>>

ReserveInsufficient(r) ==
    /\ stage[r] = "reserving"
    /\ Total(seen[r]) < due[r]
    /\ Unlock(r)
    /\ Finish(r, "402")
    /\ UNCHANGED <<wallet, ledger, held, due, failed, captured, rows>>

\* The wallet update and the reservation rows, committed together.
PostReservation(r) ==
    /\ stage[r] = "reserving"
    /\ Total(seen[r]) >= due[r]
    /\ LET h == PromoFirst(due[r], seen[r])
       IN  /\ wallet' = Minus(wallet, h)
           /\ ledger' = [ledger EXCEPT ![r].reserve = Negated(h)]
    /\ Unlock(r)

ReserveCommit(r) ==
    /\ PostReservation(r)
    /\ held' = [held EXCEPT ![r] = PromoFirst(due[r], seen[r])]
    /\ Goto(r, "dispatched")
    /\ UNCHANGED <<due, failed, captured, rows, reply>>

\* The handler takes a failed COMMIT for a failed reservation: it answers 402
\* and, the release not being deferred yet, returns.
ReserveCommitUnacked(r) ==
    /\ "ack" \in Faults
    /\ PostReservation(r)
    /\ Finish(r, "402")
    /\ UNCHANGED <<held, due, failed, captured, rows>>

ReserveFails(r) ==
    /\ \/ stage[r] = "estimated" /\ due[r] > 0
       \/ stage[r] = "reserving"
    /\ Unlock(r)
    /\ Finish(r, "402")
    /\ UNCHANGED <<wallet, ledger, held, due, failed, captured, rows>>

-----------------------------------------------------------------------------
(* The provider call, its one fallback, and the final charge *)

UpstreamSucceeds(r) ==
    /\ stage[r] = "dispatched"
    /\ \E c \in Charges : due' = [due EXCEPT ![r] = c]
    /\ Goto(r, "priced")
    /\ UNCHANGED <<wallet, lock, ledger, seen, held, failed, captured, rows, reply>>

\* Mutant: every failure is retried.
UpstreamKeepsFallingBack(r) ==
    /\ stage[r] = "dispatched"
    /\ failed' = [failed EXCEPT ![r] = @ + 1]
    /\ UNCHANGED <<wallet, lock, ledger, stage, seen, held, due, captured, rows, reply>>

\* selectFallbackModelRoute finds another route: one retry on it.
UpstreamFallsBack(r) ==
    /\ stage[r] = "dispatched"
    /\ failed[r] = 0
    /\ failed' = [failed EXCEPT ![r] = 1]
    /\ UNCHANGED <<wallet, lock, ledger, stage, seen, held, due, captured, rows, reply>>

\* Mutant: no release is deferred.
UpstreamFailsUnreleased(r) ==
    /\ stage[r] = "dispatched"
    /\ Finish(r, "502")
    /\ failed' = [failed EXCEPT ![r] = 1]
    /\ UNCHANGED <<wallet, lock, ledger, seen, held, due, captured, rows>>

\* No other route, or the fallback failed as well.
UpstreamFails(r) ==
    /\ stage[r] = "dispatched"
    /\ Unwind(r, "502")
    /\ failed' = [failed EXCEPT ![r] = 1]
    /\ UNCHANGED <<wallet, lock, ledger, seen, held, due, captured, rows>>

\* calculateRequestCharge fails after the provider answered.
PricingFails(r) ==
    /\ stage[r] = "dispatched"
    /\ Unwind(r, "500")
    /\ UNCHANGED <<wallet, lock, ledger, seen, held, due, failed, captured, rows>>

-----------------------------------------------------------------------------
(* captureProjectCredits *)

Captured(r) ==
    /\ captured' = [captured EXCEPT ![r] = TRUE]
    /\ Goto(r, "recording")

CaptureNothing(r) ==
    /\ stage[r] = "priced"
    /\ due[r] = 0
    /\ Total(held[r]) = 0
    /\ Captured(r)
    /\ UNCHANGED <<wallet, lock, ledger, seen, held, due, failed, rows, reply>>

\* An empty reservation has no WalletID, so no row is found to capture a charge from.
CaptureWithoutWallet(r) ==
    /\ stage[r] = "priced"
    /\ due[r] > 0
    /\ Total(held[r]) = 0
    /\ Unwind(r, "402")
    /\ UNCHANGED <<wallet, lock, ledger, seen, held, due, failed, captured, rows>>

CaptureLock(r) ==
    /\ stage[r] = "priced"
    /\ Total(held[r]) > 0
    /\ LockWallet(r)
    /\ Goto(r, "capturing")
    /\ UNCHANGED <<wallet, ledger, held, due, failed, captured, rows, reply>>

\* Mutant: the reservation counts as captured before the capture is known to succeed.
CaptureInsufficientUnreleased(r) ==
    /\ stage[r] = "capturing"
    /\ Total(seen[r]) < due[r] - Total(held[r])
    /\ Unlock(r)
    /\ Finish(r, "402")
    /\ UNCHANGED <<wallet, ledger, held, due, failed, captured, rows>>

\* The charge exceeds the reservation by more than the wallet has left.
CaptureInsufficient(r) ==
    /\ stage[r] = "capturing"
    /\ Total(seen[r]) < due[r] - Total(held[r])
    /\ Unlock(r)
    /\ Unwind(r, "402")
    /\ UNCHANGED <<wallet, ledger, held, due, failed, captured, rows>>

\* A smaller charge: what the reservation did not need returns.
ReturnUnused(r) ==
    /\ due[r] < Total(held[r])
    /\ LET back == PaidFirst(Total(held[r]) - due[r], held[r])
       IN  /\ wallet' = Plus(wallet, back)
           /\ ledger' = [ledger EXCEPT ![r].capture_release = back, ![r].capture = TRUE]

ChargeAsReserved(r) ==
    /\ due[r] = Total(held[r])
    /\ ledger' = [ledger EXCEPT ![r].capture = TRUE]
    /\ UNCHANGED wallet

\* A larger charge: the difference is drawn from the wallet.
DrawExtra(r) ==
    /\ due[r] > Total(held[r])
    /\ Total(seen[r]) >= due[r] - Total(held[r])
    /\ LET extra == PromoFirst(due[r] - Total(held[r]), seen[r])
       IN  /\ wallet' = Minus(wallet, extra)
           /\ ledger' = [ledger EXCEPT ![r].capture_extra = Negated(extra),
                                       ![r].capture = TRUE]

PostCapture(r) ==
    /\ stage[r] = "capturing"
    /\ \/ ReturnUnused(r)
       \/ ChargeAsReserved(r)
       \/ DrawExtra(r)
    /\ Unlock(r)

CaptureCommit(r) ==
    /\ PostCapture(r)
    /\ Captured(r)
    /\ UNCHANGED <<held, due, failed, rows, reply>>

\* The handler takes a failed COMMIT for a failed capture, and unwinds.
CaptureCommitUnacked(r) ==
    /\ "ack" \in Faults
    /\ PostCapture(r)
    /\ Unwind(r, "402")
    /\ UNCHANGED <<held, due, failed, captured, rows>>

\* Mutant: an error of the capture returns without a release.
CaptureFailsUnreleased(r) ==
    /\ \/ stage[r] = "priced" /\ (due[r] > 0 \/ Total(held[r]) > 0)
       \/ stage[r] = "capturing"
    /\ Unlock(r)
    /\ Finish(r, "402")
    /\ UNCHANGED <<wallet, ledger, held, due, failed, captured, rows>>

CaptureFails(r) ==
    /\ \/ stage[r] = "priced" /\ (due[r] > 0 \/ Total(held[r]) > 0)
       \/ stage[r] = "capturing"
    /\ Unlock(r)
    /\ Unwind(r, "402")
    /\ UNCHANGED <<wallet, ledger, held, due, failed, captured, rows>>

-----------------------------------------------------------------------------
(* The deferred releaseProjectCredits *)

\* An empty reservation needs no release.
ReleaseNothing(r) ==
    /\ stage[r] = "unwinding"
    /\ Total(held[r]) = 0
    /\ Goto(r, "done")
    /\ UNCHANGED <<wallet, lock, ledger, handlerVars>>

\* Mutant: only the paid part of the reservation is released.
ReleasePaidOnly(r) ==
    /\ stage[r] = "unwinding"
    /\ Total(held[r]) > 0
    /\ RowFree
    /\ wallet' = [wallet EXCEPT !.paid = @ + held[r].paid]
    /\ ledger' = [ledger EXCEPT ![r].release = [paid |-> held[r].paid, promo |-> 0]]
    /\ Goto(r, "done")
    /\ UNCHANGED <<lock, handlerVars>>

\* Mutant: the release is not posted.
ReleaseUnposted(r) ==
    /\ stage[r] = "unwinding"
    /\ Total(held[r]) > 0
    /\ RowFree
    /\ wallet' = Plus(wallet, held[r])
    /\ Goto(r, "done")
    /\ UNCHANGED <<lock, ledger, handlerVars>>

\* A relative update: it waits for the row, and needs no read of it.
Release(r) ==
    /\ stage[r] = "unwinding"
    /\ Total(held[r]) > 0
    /\ RowFree
    /\ wallet' = Plus(wallet, held[r])
    /\ ledger' = [ledger EXCEPT ![r].release = held[r]]
    /\ Goto(r, "done")
    /\ UNCHANGED <<lock, handlerVars>>

ReleaseFails(r) ==
    /\ "release" \in Faults
    /\ stage[r] = "unwinding"
    /\ Total(held[r]) > 0
    /\ Goto(r, "done")
    /\ UNCHANGED <<wallet, lock, ledger, handlerVars>>

-----------------------------------------------------------------------------
(* The records of a charged request, inserted one statement after another *)

RowsNeeded(r) ==
    {"inference", "attempt", "usage"}
        \cup (IF failed[r] = 1 THEN {"failed_attempt"} ELSE {})
        \cup (IF r \in Conversational THEN {"turn"} ELSE {})
        \cup (IF r \in Generating THEN {"artifacts"} ELSE {})

\* user_inference_requests, the failed and the successful user_provider_attempts,
\* saveConversationTurn, recordUsageEvent, createMockGeneratedArtifacts.  (What
\* rehostExternalFilesInContent stores in between is best effort and fails nothing.)
Position == [inference |-> 1, failed_attempt |-> 2, attempt |-> 3, turn |-> 4, usage |-> 5,
             artifacts |-> 6]

IsNextRow(r, k) ==
    /\ k \in RowsNeeded(r) \ rows[r]
    /\ \A j \in RowsNeeded(r) \ rows[r] : Position[k] <= Position[j]

InsertRow(r) ==
    /\ stage[r] = "recording"
    /\ \E k \in RowKinds : IsNextRow(r, k) /\ rows' = [rows EXCEPT ![r] = @ \cup {k}]
    /\ UNCHANGED <<wallet, lock, ledger, stage, seen, held, due, failed, captured, reply>>

\* A statement fails, the conversation or branch is not there, the client is gone: the
\* handler returns, the reservation counts as captured and nothing is released.
InsertFails(r) ==
    /\ stage[r] = "recording"
    /\ RowsNeeded(r) \ rows[r] # {}
    /\ Finish(r, "500")
    /\ UNCHANGED <<wallet, lock, ledger, seen, held, due, failed, captured, rows>>

\* Mutant: the answer does not wait for the records.
RespondEarly(r) ==
    /\ stage[r] = "recording"
    /\ Finish(r, "ok")
    /\ UNCHANGED <<wallet, lock, ledger, seen, held, due, failed, captured, rows>>

Respond(r) ==
    /\ stage[r] = "recording"
    /\ RowsNeeded(r) \subseteq rows[r]
    /\ Finish(r, "ok")
    /\ UNCHANGED <<wallet, lock, ledger, seen, held, due, failed, captured, rows>>

-----------------------------------------------------------------------------
InFlight == {r \in Requests : stage[r] \notin {"idle", "done", "crashed"}}

\* The process stops: its transactions roll back, its handlers are gone, and
\* what they had reserved stays reserved.
Crash ==
    /\ "crash" \in Faults
    /\ InFlight # {}
    /\ stage' = [r \in Requests |-> IF r \in InFlight THEN "crashed" ELSE stage[r]]
    /\ lock' = None
    /\ seen' = [r \in Requests |-> NoCredits]
    /\ UNCHANGED <<wallet, ledger, held, due, failed, captured, rows, reply>>

Arrive(r) == Reject(r) \/ Estimate(r)

Reserve(r) ==
    \/ ReserveNothing(r) \/ ReserveLock(r) \/ ReserveInsufficient(r)
    \/ ReserveCommit(r) \/ ReserveCommitUnacked(r) \/ ReserveFails(r)

Dispatch(r) ==
    UpstreamSucceeds(r) \/ UpstreamFallsBack(r) \/ UpstreamFails(r) \/ PricingFails(r)

Capture(r) ==
    \/ CaptureNothing(r) \/ CaptureWithoutWallet(r) \/ CaptureLock(r)
    \/ CaptureInsufficient(r) \/ CaptureCommit(r) \/ CaptureCommitUnacked(r)
    \/ CaptureFails(r)

GiveBack(r) == ReleaseNothing(r) \/ Release(r) \/ ReleaseFails(r)

Record(r) == InsertRow(r) \/ InsertFails(r) \/ Respond(r)

\* A request that arrived moves on: every wait of the handler ends, since the
\* provider call has a time limit and a row lock lasts one transaction.
Proceed(r) == Reserve(r) \/ Dispatch(r) \/ Capture(r) \/ GiveBack(r) \/ Record(r)

Next == Crash \/ \E r \in Requests : Arrive(r) \/ Proceed(r)

Spec == Init /\ [][Next]_vars
FairSpec == Spec /\ \A r \in Requests : WF_vars(Proceed(r))
-----------------------------------------------------------------------------
(* What the reservation protocol must keep *)

\* No interleaving of requests overdraws either kind of credits.  The schema has
\* no CHECK for it: it rests on the row lock from "for update" to COMMIT.
NoOverspend == wallet.paid >= 0 /\ wallet.promo >= 0

\* The wallet is the initial grant plus everything the ledger says, kind by kind,
\* in every state: nothing moves credits without posting them, whatever fails.
LedgerExplainsWallet ==
    /\ wallet.paid = InitPaid + SumFunction([r \in Requests |-> NetPaid(r)])
    /\ wallet.promo = InitPromo + SumFunction([r \in Requests |-> NetPromo(r)])

\* When its handler is done a request has cost exactly its final charge if it was
\* captured, and nothing if it was not, by provider failure, timeout, a charge
\* that could not be covered, or any failing statement.
SettledExactly ==
    \A r \in Requests :
        stage[r] = "done" => Net(r) = IF captured[r] THEN -due[r] ELSE 0

\* No request adds credits to the wallet, in either kind: all that capture and
\* release return was taken by that request's own reservation.
NoRequestMintsCredits == \A r \in Requests : NetPaid(r) <= 0 /\ NetPromo(r) <= 0

\* What the handler answers agrees with the ledger: a client told 402 or 502 is
\* not charged once the handler is done, and one told "ok" is charged in full,
\* with its usage recorded.
AnswerMatchesCharge ==
    \A r \in Requests :
        stage[r] = "done" =>
            /\ reply[r] \in {"refused", "402", "502"} => Net(r) = 0
            /\ reply[r] = "ok" => Net(r) = -due[r] /\ "usage" \in rows[r]

\* A charge the wallet can cover, with what the request itself has reserved, can be
\* captured.
AffordableIsCapturable ==
    \A r \in Requests :
        /\ stage[r] = "priced"
        /\ RowFree
        /\ Total(wallet) + Total(held[r]) >= due[r]
        => ENABLED (CaptureNothing(r) \/ CaptureLock(r))

\* Whatever stops a request, it has moved whole amounts: all it reserved or nothing
\* before its capture, its exact charge after; and only if the COMMIT of its capture
\* was applied and not acknowledged is what it reserved given back on top.
MovedWhole(r) ==
    LET reserved == -Total(ledger[r].reserve)
    IN  IF ledger[r].capture
        THEN Net(r) = IF ledger[r].release = NoCredits THEN -due[r] ELSE reserved - due[r]
        ELSE Net(r) \in {0, -reserved}

NothingPartial == \A r \in Requests : MovedWhole(r)

\* Promotional credits are spent before paid ones and kept only for last: a step
\* that draws paid credits leaves no promotional credit in the wallet, and a
\* capture that returns promotional credits charges no paid ones.
PromotionalFirst ==
    [][ /\ wallet'.paid < wallet.paid => wallet'.promo = 0
        /\ \A r \in Requests :
              ledger'[r].capture_release.promo > ledger[r].capture_release.promo
                => NetPaid(r)' = 0 ]_vars

\* A request that holds credits eventually settles them: it captures its charge or
\* gives everything back.
HoldsAreSettled ==
    \A r \in Requests :
        stage[r] = "dispatched" /\ Total(held[r]) > 0
            ~> ledger[r].capture \/ ledger[r].release = held[r]

-----------------------------------------------------------------------------
(* Why no interleaving overdraws: the invariants NoOverspend rests on *)

\* Between "for update" and COMMIT the row is locked, and what was read is still
\* what the row holds.
ReadIsCurrent ==
    \A r \in Requests :
        stage[r] \in {"reserving", "capturing"} => lock = r /\ seen[r] = wallet

HeldIsNatural == \A r \in Requests : held[r].paid >= 0 /\ held[r].promo >= 0

WalletSafe == TypeOK /\ ReadIsCurrent /\ HeldIsNatural /\ NoOverspend

(* Why every request settles: until then its ledger rows are its reservation *)

OpenStages == {"idle", "estimated", "reserving", "dispatched", "priced", "capturing",
               "unwinding"}

OnlyReserved(r) ==
    /\ ledger[r].reserve = Negated(held[r])
    /\ ledger[r].release = NoCredits
    /\ ledger[r].capture_release = NoCredits
    /\ ledger[r].capture_extra = NoCredits

BooksMatch ==
    \A r \in Requests :
        /\ stage[r] \in {"idle", "estimated", "reserving"} => held[r] = NoCredits
        /\ stage[r] \in OpenStages => ~captured[r] /\ OnlyReserved(r)
        /\ stage[r] = "recording" => captured[r] /\ Net(r) = -due[r]
        /\ stage[r] = "done" => Net(r) = IF captured[r] THEN -due[r] ELSE 0

(* Why a request's rows add up whatever fails: no row is posted over another *)

Accounted ==
    \A r \in Requests :
        /\ stage[r] \in {"idle", "estimated", "reserving"} =>
              ledger[r] = NoRows /\ held[r] = NoCredits
        /\ stage[r] \in {"dispatched", "priced", "capturing"} =>
              OnlyReserved(r) /\ ~ledger[r].capture
        /\ stage[r] = "unwinding" =>
              /\ ledger[r].reserve = Negated(held[r]) /\ ledger[r].release = NoCredits
              /\ ledger[r].capture \/ OnlyReserved(r)
        /\ MovedWhole(r)

(* Why the answer agrees with the ledger: it is given once, after the last posting but *)
(* the release                                                                         *)

AnsweredOnce ==
    \A r \in Requests :
        /\ stage[r] \notin {"unwinding", "done", "crashed"} => reply[r] = "none"
        /\ stage[r] = "unwinding" => reply[r] \in {"402", "500", "502"} /\ ~captured[r]
        /\ stage[r] = "done" => reply[r] \in IF captured[r] THEN {"500", "ok"}
                                             ELSE {"refused", "402", "500", "502"}
        /\ stage[r] \in {"idle", "estimated", "reserving", "dispatched", "priced", "capturing"}
              => ~captured[r]
        /\ stage[r] = "recording" => captured[r]
        /\ reply[r] = "ok" => "usage" \in rows[r]

-----------------------------------------------------------------------------
(* The abstract account this implements *)

Account == INSTANCE CreditAccount WITH
    available <- Total(wallet),
    hold <- [r \in Requests |->
               IF stage[r] \in {"dispatched", "priced", "capturing", "unwinding"}
               THEN Total(held[r]) ELSE 0],
    phase <- [r \in Requests |->
               CASE stage[r] \in {"idle", "estimated", "reserving"} -> "new"
                 [] captured[r] -> "settled"
                 [] ~captured[r] /\ stage[r] = "done" -> "closed"
                 [] OTHER -> "held"]

\* Seen from outside, a request places one hold, atomically, and the hold is
\* cancelled or settled, once.
ImplementsAccount == Account!Spec
=============================================================================
