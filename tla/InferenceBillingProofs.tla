----------------------- MODULE InferenceBillingProofs -----------------------
(***************************************************************************)
(* Proofs about InferenceBilling for any set of requests, any charges, any *)
(* initial wallet and, where not said otherwise, any faults.               *)
(***************************************************************************)
EXTENDS InferenceBilling, SumProofs

\* A split of an amount over two kinds of credits is a pair of integers.
LEMMA SplitTypes ==
    ASSUME NEW a \in Int, NEW c \in Credits
    PROVE  /\ PromoFirst(a, c) \in Credits
           /\ PaidFirst(a, c) \in Credits
  BY DEF PromoFirst, PaidFirst, Smaller, Credits

LEMMA NegatedType ==
    ASSUME NEW c \in Credits
    PROVE  Negated(c) \in Credits
  BY DEF Negated, Minus, NoCredits, Credits

LEMMA ArithmeticTypes ==
    ASSUME NEW c \in Credits, NEW d \in Credits
    PROVE  Plus(c, d) \in Credits /\ Minus(c, d) \in Credits
  BY DEF Plus, Minus, Credits

LEMMA NoCreditsType == NoCredits \in Credits
  BY DEF NoCredits, Credits

\* Posting rows of r keeps the ledger a ledger.
LEMMA RowTypes ==
    ASSUME NEW L \in [Requests -> Rows], NEW r \in Requests, NEW c \in Credits
    PROVE  /\ [L EXCEPT ![r].reserve = c] \in [Requests -> Rows]
           /\ [L EXCEPT ![r].release = c] \in [Requests -> Rows]
           /\ [L EXCEPT ![r].capture_release = c, ![r].capture = TRUE] \in [Requests -> Rows]
           /\ [L EXCEPT ![r].capture_extra = c, ![r].capture = TRUE] \in [Requests -> Rows]
  BY DEF Rows

LEMMA CaptureRowType ==
    ASSUME NEW L \in [Requests -> Rows], NEW r \in Requests
    PROVE  [L EXCEPT ![r].capture = TRUE] \in [Requests -> Rows]
  BY DEF Rows

LEMMA PostReservationTypes ==
    ASSUME TypeOK, NEW r \in Requests, PostReservation(r)
    PROVE  /\ wallet' \in Credits /\ ledger' \in [Requests -> Rows]
           /\ PromoFirst(due[r], seen[r]) \in Credits
  <1> DEFINE h == PromoFirst(due[r], seen[r])
  <1>1. wallet \in Credits /\ ledger \in [Requests -> Rows]
        /\ due[r] \in Int /\ seen[r] \in Credits
    BY DEF TypeOK
  <1>2. h \in Credits BY <1>1, SplitTypes
  <1>3. wallet' = Minus(wallet, h) /\ ledger' = [ledger EXCEPT ![r].reserve = Negated(h)]
    BY DEF PostReservation
  <1> HIDE DEF h
  <1>4. Negated(h) \in Credits /\ Minus(wallet, h) \in Credits
    BY <1>1, <1>2, NegatedType, ArithmeticTypes
  <1>5. QED BY <1>1, <1>2, <1>3, <1>4, RowTypes DEF h

LEMMA PostCaptureTypes ==
    ASSUME TypeOK, NEW r \in Requests, PostCapture(r)
    PROVE  wallet' \in Credits /\ ledger' \in [Requests -> Rows]
  <1>1. /\ wallet \in Credits /\ ledger \in [Requests -> Rows]
        /\ due[r] \in Int /\ seen[r] \in Credits /\ held[r] \in Credits
        /\ Total(held[r]) \in Int
    BY DEF TypeOK, Total, Credits
  <1>2. CASE ReturnUnused(r)
    <2> DEFINE back == PaidFirst(Total(held[r]) - due[r], held[r])
    <2>1. back \in Credits BY <1>1, SplitTypes
    <2>2. wallet' = Plus(wallet, back)
          /\ ledger' = [ledger EXCEPT ![r].capture_release = back, ![r].capture = TRUE]
      BY <1>2 DEF ReturnUnused
    <2> HIDE DEF back
    <2>3. QED BY <1>1, <2>1, <2>2, ArithmeticTypes, RowTypes
  <1>3. CASE ChargeAsReserved(r)
    <2>1. wallet' = wallet /\ ledger' = [ledger EXCEPT ![r].capture = TRUE]
      BY <1>3 DEF ChargeAsReserved
    <2>2. QED BY <1>1, <2>1, CaptureRowType
  <1>4. CASE DrawExtra(r)
    <2> DEFINE extra == PromoFirst(due[r] - Total(held[r]), seen[r])
    <2>1. extra \in Credits BY <1>1, SplitTypes
    <2>2. wallet' = Minus(wallet, extra)
          /\ ledger' = [ledger EXCEPT ![r].capture_extra = Negated(extra), ![r].capture = TRUE]
      BY <1>4 DEF DrawExtra
    <2> HIDE DEF extra
    <2>3. Negated(extra) \in Credits BY <2>1, NegatedType
    <2>4. QED BY <1>1, <2>1, <2>2, <2>3, ArithmeticTypes, RowTypes
  <1>5. QED BY <1>2, <1>3, <1>4 DEF PostCapture

\* Typing: every variable keeps its type in every step.
LEMMA TypeStep ==
    ASSUME TypeOK, [Next]_vars
    PROVE  TypeOK'
  <1> USE BillingAssumption
  <1> USE DEF TypeOK, handlerVars, Goto, Answer, Finish, Unwind, Unlock, RowFree,
              Stages, Replies
  <1>1. ASSUME NEW r \in Requests, Arrive(r)
        PROVE  TypeOK'
    BY <1>1 DEF Arrive, Reject, Estimate
  <1>2. ASSUME NEW r \in Requests, Reserve(r)
        PROVE  TypeOK'
    <2>1. CASE ReserveNothing(r) BY <2>1 DEF ReserveNothing
    <2>2. CASE ReserveLock(r) BY <2>2 DEF ReserveLock, LockWallet
    <2>3. CASE ReserveInsufficient(r) BY <2>3, NoCreditsType DEF ReserveInsufficient
    <2>5. CASE ReserveCommit(r)
      BY <2>5, NoCreditsType, PostReservationTypes DEF ReserveCommit, PostReservation
    <2>6. CASE ReserveCommitUnacked(r)
      BY <2>6, NoCreditsType, PostReservationTypes DEF ReserveCommitUnacked, PostReservation
    <2>7. CASE ReserveFails(r) BY <2>7, NoCreditsType DEF ReserveFails
    <2>8. QED BY <1>2, <2>1, <2>2, <2>3, <2>5, <2>6, <2>7 DEF Reserve
  <1>3. ASSUME NEW r \in Requests, Dispatch(r)
        PROVE  TypeOK'
    BY <1>3 DEF Dispatch, UpstreamSucceeds, UpstreamFallsBack, UpstreamFails, PricingFails
  <1>4. ASSUME NEW r \in Requests, Capture(r)
        PROVE  TypeOK'
    <2>1. CASE CaptureNothing(r) BY <2>1 DEF CaptureNothing, Captured
    <2>2. CASE CaptureWithoutWallet(r) BY <2>2 DEF CaptureWithoutWallet
    <2>3. CASE CaptureLock(r) BY <2>3 DEF CaptureLock, LockWallet
    <2>4. CASE CaptureInsufficient(r) BY <2>4, NoCreditsType DEF CaptureInsufficient
    <2>6. CASE CaptureCommit(r)
      BY <2>6, NoCreditsType, PostCaptureTypes DEF CaptureCommit, PostCapture, Captured
    <2>7. CASE CaptureCommitUnacked(r)
      BY <2>7, NoCreditsType, PostCaptureTypes DEF CaptureCommitUnacked, PostCapture
    <2>8. CASE CaptureFails(r) BY <2>8, NoCreditsType DEF CaptureFails
    <2>9. QED BY <1>4, <2>1, <2>2, <2>3, <2>4, <2>6, <2>7, <2>8 DEF Capture
  <1>5. ASSUME NEW r \in Requests, GiveBack(r)
        PROVE  TypeOK'
    <2>1. CASE ReleaseNothing(r) BY <2>1 DEF ReleaseNothing
    <2>2. CASE Release(r) BY <2>2, ArithmeticTypes, RowTypes DEF Release
    <2>3. CASE ReleaseFails(r) BY <2>3 DEF ReleaseFails
    <2>4. QED BY <1>5, <2>1, <2>2, <2>3 DEF GiveBack
  <1>6. ASSUME NEW r \in Requests, Record(r)
        PROVE  TypeOK'
    BY <1>6 DEF Record, InsertRow, InsertFails, Respond
  <1>7. CASE Crash BY <1>7, NoCreditsType DEF Crash, InFlight
  <1>8. CASE UNCHANGED vars BY <1>8 DEF vars
  <1>9. QED BY <1>1, <1>2, <1>3, <1>4, <1>5, <1>6, <1>7, <1>8 DEF Next, Proceed

LEMMA TypeInit == Init => TypeOK
  BY BillingAssumption DEF Init, TypeOK, NoCredits, NoRows, Credits, Rows, Stages,
     RowKinds, Replies

\* Typing: every variable has its type in every reachable state.
THEOREM TypeCorrect == Spec => []TypeOK
  BY TypeInit, TypeStep, PTL DEF Spec

-----------------------------------------------------------------------------
(* No overdraft, whatever the interleaving and whatever fails *)

\* Splitting what a balance covers takes from each kind no more than it has.
LEMMA PromoFirstCovered ==
    ASSUME NEW a \in Int, NEW c \in Credits, a >= 0, c.paid >= 0, c.promo >= 0,
           Total(c) >= a
    PROVE  /\ PromoFirst(a, c).paid \in 0..c.paid
           /\ PromoFirst(a, c).promo \in 0..c.promo
           /\ Total(PromoFirst(a, c)) = a
  BY DEF PromoFirst, Smaller, Total, Credits

\* Returning part of a reservation returns of each kind no more than it took.
LEMMA PaidFirstCovered ==
    ASSUME NEW a \in Int, NEW c \in Credits, a >= 0, c.paid >= 0, c.promo >= 0,
           a <= Total(c)
    PROVE  /\ PaidFirst(a, c).paid \in 0..c.paid
           /\ PaidFirst(a, c).promo \in 0..c.promo
           /\ Total(PaidFirst(a, c)) = a
  BY DEF PaidFirst, Smaller, Total, Credits

\* A step of r that leaves the wallet and the lock alone, or only unlocks, and
\* goes on outside a transaction.
LEMMA QuietStep ==
    ASSUME WalletSafe, TypeOK', NEW r \in Requests,
           NEW s \in Stages \ {"reserving", "capturing"},
           wallet' = wallet,
           (lock' = lock /\ seen' = seen) \/ Unlock(r),
           stage' = [stage EXCEPT ![r] = s], held' = held
    PROVE  WalletSafe'
  BY DEF WalletSafe, TypeOK, ReadIsCurrent, HeldIsNatural, NoOverspend, Unlock

\* A step of r that locks the row.
LEMMA LockStep ==
    ASSUME WalletSafe, TypeOK', NEW r \in Requests, NEW s \in Stages,
           LockWallet(r), wallet' = wallet, held' = held,
           stage' = [stage EXCEPT ![r] = s]
    PROVE  WalletSafe'
  BY BillingAssumption
  DEF WalletSafe, TypeOK, ReadIsCurrent, HeldIsNatural, NoOverspend, LockWallet, RowFree

\* A step of r that writes the row it has locked and commits.
LEMMA CommitStep ==
    ASSUME WalletSafe, TypeOK', NEW r \in Requests,
           NEW s \in Stages \ {"reserving", "capturing"},
           NoOverspend', HeldIsNatural', lock = r, Unlock(r),
           stage' = [stage EXCEPT ![r] = s]
    PROVE  WalletSafe'
  BY DEF WalletSafe, TypeOK, ReadIsCurrent, HeldIsNatural, NoOverspend, Unlock

\* A step of r that writes the row while nobody has it locked.
LEMMA WriteStep ==
    ASSUME WalletSafe, TypeOK', NEW r \in Requests,
           NEW s \in Stages \ {"reserving", "capturing"},
           NoOverspend', HeldIsNatural', lock = None, lock' = lock,
           stage' = [stage EXCEPT ![r] = s]
    PROVE  WalletSafe'
  BY BillingAssumption
  DEF WalletSafe, TypeOK, ReadIsCurrent, HeldIsNatural, NoOverspend, Unlock

LEMMA ReserveSafe ==
    ASSUME WalletSafe, TypeOK', NEW r \in Requests, Reserve(r)
    PROVE  WalletSafe'
  <1> USE DEF Goto, Finish, handlerVars, Stages
  <1>1. CASE ReserveNothing(r) BY <1>1, QuietStep DEF ReserveNothing
  <1>2. CASE ReserveLock(r) BY <1>2, LockStep DEF ReserveLock
  <1>3. CASE ReserveInsufficient(r) BY <1>3, QuietStep DEF ReserveInsufficient
  <1>4. CASE ReserveFails(r) BY <1>4, QuietStep DEF ReserveFails
  <1>5. ASSUME PostReservation(r)
        PROVE  /\ NoOverspend'
               /\ lock = r /\ Unlock(r)
               /\ PromoFirst(due[r], seen[r]).paid >= 0
               /\ PromoFirst(due[r], seen[r]).promo >= 0
    <2> DEFINE h == PromoFirst(due[r], seen[r])
    <2>1. lock = r /\ Unlock(r) /\ seen[r] = wallet /\ Total(seen[r]) >= due[r]
      BY <1>5 DEF PostReservation, WalletSafe, ReadIsCurrent
    <2>2. seen[r] \in Credits /\ due[r] \in Nat /\ wallet \in Credits
      BY DEF WalletSafe, TypeOK
    <2>3. wallet.paid >= 0 /\ wallet.promo >= 0
      BY DEF WalletSafe, NoOverspend
    <2>4. h.paid \in 0..wallet.paid /\ h.promo \in 0..wallet.promo
      BY <2>1, <2>2, <2>3, PromoFirstCovered
    <2>5. wallet' = Minus(wallet, h)
      BY <1>5 DEF PostReservation
    <2>6. wallet'.paid = wallet.paid - h.paid /\ wallet'.promo = wallet.promo - h.promo
      BY <2>5 DEF Minus
    <2> HIDE DEF h
    <2>7. QED BY <2>1, <2>2, <2>4, <2>6 DEF Credits, h, NoOverspend
  <1>6. CASE ReserveCommit(r)
    <2>1. HeldIsNatural'
      BY <1>5, <1>6 DEF ReserveCommit, WalletSafe, HeldIsNatural, TypeOK
    <2>2. PostReservation(r) /\ Goto(r, "dispatched")
      BY <1>6 DEF ReserveCommit, Captured
    <2>3. NoOverspend' /\ lock = r /\ Unlock(r)
      BY <1>5, <2>2
    <2>4. QED BY <2>1, <2>2, <2>3, CommitStep
  <1>7. CASE ReserveCommitUnacked(r)
    <2>1. HeldIsNatural'
      BY <1>7 DEF ReserveCommitUnacked, WalletSafe, HeldIsNatural
    <2>2. PostReservation(r) /\ Goto(r, "done")
      BY <1>7 DEF ReserveCommitUnacked, Captured
    <2>3. NoOverspend' /\ lock = r /\ Unlock(r)
      BY <1>5, <2>2
    <2>4. QED BY <2>1, <2>2, <2>3, CommitStep
  <1>8. QED BY <1>1, <1>2, <1>3, <1>4, <1>6, <1>7 DEF Reserve

LEMMA CaptureSafe ==
    ASSUME WalletSafe, TypeOK', NEW r \in Requests, Capture(r)
    PROVE  WalletSafe'
  <1> USE DEF Goto, Unwind, handlerVars, Stages
  <1>1. CASE CaptureNothing(r) BY <1>1, QuietStep DEF CaptureNothing, Captured
  <1>2. CASE CaptureWithoutWallet(r) BY <1>2, QuietStep DEF CaptureWithoutWallet
  <1>3. CASE CaptureLock(r) BY <1>3, LockStep DEF CaptureLock
  <1>4. CASE CaptureInsufficient(r) BY <1>4, QuietStep DEF CaptureInsufficient
  <1>5. CASE CaptureFails(r) BY <1>5, QuietStep DEF CaptureFails
  <1>6. ASSUME PostCapture(r)
        PROVE  /\ NoOverspend'
               /\ lock = r /\ Unlock(r)
    <2>1. lock = r /\ Unlock(r) /\ seen[r] = wallet
      BY <1>6 DEF PostCapture, WalletSafe, ReadIsCurrent
    <2>2. /\ seen[r] \in Credits /\ due[r] \in Nat /\ wallet \in Credits
          /\ held[r] \in Credits /\ Total(held[r]) \in Int
      BY DEF WalletSafe, TypeOK, Total, Credits
    <2>3. /\ wallet.paid >= 0 /\ wallet.promo >= 0
          /\ held[r].paid >= 0 /\ held[r].promo >= 0
      BY DEF WalletSafe, NoOverspend, HeldIsNatural
    <2>4. CASE ReturnUnused(r)
      <3> DEFINE back == PaidFirst(Total(held[r]) - due[r], held[r])
      <3>1. Total(held[r]) - due[r] \in Int /\ Total(held[r]) - due[r] >= 0
            /\ Total(held[r]) - due[r] <= Total(held[r])
        BY <2>2, <2>4 DEF ReturnUnused
      <3>2. back.paid \in 0..held[r].paid /\ back.promo \in 0..held[r].promo
        BY <2>2, <2>3, <3>1, PaidFirstCovered
      <3>3. wallet'.paid = wallet.paid + back.paid /\ wallet'.promo = wallet.promo + back.promo
        BY <2>4 DEF ReturnUnused, Plus
      <3> HIDE DEF back
      <3>4. QED BY <2>1, <2>2, <2>3, <3>2, <3>3 DEF Credits, NoOverspend
    <2>5. CASE ChargeAsReserved(r)
      BY <2>1, <2>3, <2>5 DEF ChargeAsReserved, NoOverspend
    <2>6. CASE DrawExtra(r)
      <3> DEFINE extra == PromoFirst(due[r] - Total(held[r]), seen[r])
      <3>1. due[r] - Total(held[r]) \in Int /\ due[r] - Total(held[r]) >= 0
            /\ Total(seen[r]) >= due[r] - Total(held[r])
        BY <2>2, <2>6 DEF DrawExtra
      <3>2. extra.paid \in 0..wallet.paid /\ extra.promo \in 0..wallet.promo
        BY <2>1, <2>2, <2>3, <3>1, PromoFirstCovered
      <3>3. wallet'.paid = wallet.paid - extra.paid
            /\ wallet'.promo = wallet.promo - extra.promo
        BY <2>6 DEF DrawExtra, Minus
      <3> HIDE DEF extra
      <3>4. QED BY <2>1, <2>2, <3>2, <3>3 DEF Credits, NoOverspend
    <2>7. QED BY <1>6, <2>4, <2>5, <2>6 DEF PostCapture
  <1>7. CASE CaptureCommit(r)
    <2>1. HeldIsNatural'
      BY <1>7 DEF CaptureCommit, WalletSafe, HeldIsNatural
    <2>2. PostCapture(r) /\ Goto(r, "recording")
      BY <1>7 DEF CaptureCommit, Captured
    <2>3. NoOverspend' /\ lock = r /\ Unlock(r)
      BY <1>6, <2>2
    <2>4. QED BY <2>1, <2>2, <2>3, CommitStep
  <1>8. CASE CaptureCommitUnacked(r)
    <2>1. HeldIsNatural'
      BY <1>8 DEF CaptureCommitUnacked, WalletSafe, HeldIsNatural
    <2>2. PostCapture(r) /\ Goto(r, "unwinding")
      BY <1>8 DEF CaptureCommitUnacked, Captured
    <2>3. NoOverspend' /\ lock = r /\ Unlock(r)
      BY <1>6, <2>2
    <2>4. QED BY <2>1, <2>2, <2>3, CommitStep
  <1>9. QED BY <1>1, <1>2, <1>3, <1>4, <1>5, <1>7, <1>8 DEF Capture

LEMMA GiveBackSafe ==
    ASSUME WalletSafe, TypeOK', NEW r \in Requests, GiveBack(r)
    PROVE  WalletSafe'
  <1> USE DEF Goto, handlerVars, Stages
  <1>1. CASE ReleaseNothing(r) BY <1>1, QuietStep DEF ReleaseNothing
  <1>2. CASE Release(r)
    <2>1. HeldIsNatural' BY <1>2 DEF Release, WalletSafe, HeldIsNatural
    <2>2. NoOverspend'
      BY <1>2 DEF Release, Plus, WalletSafe, TypeOK, HeldIsNatural, NoOverspend, Credits
    <2>3. QED BY <1>2, <2>1, <2>2, WriteStep DEF Release, RowFree
  <1>3. CASE ReleaseFails(r) BY <1>3, QuietStep DEF ReleaseFails
  <1>4. QED BY <1>1, <1>2, <1>3 DEF GiveBack

LEMMA WalletSafeStep ==
    ASSUME WalletSafe, [Next]_vars
    PROVE  WalletSafe'
  <1>t. TypeOK' BY TypeStep DEF WalletSafe
  <1> USE DEF Goto, Finish, Unwind, handlerVars, Stages
  <1>1. ASSUME NEW r \in Requests, Arrive(r)
        PROVE  WalletSafe'
    BY <1>1, <1>t, QuietStep DEF Arrive, Reject, Estimate
  <1>2. ASSUME NEW r \in Requests, Dispatch(r)
        PROVE  WalletSafe'
    <2>1. CASE UpstreamSucceeds(r) BY <1>t, <2>1, QuietStep DEF UpstreamSucceeds
    <2>2. CASE UpstreamFallsBack(r)
      BY <1>t, <2>2
      DEF UpstreamFallsBack, WalletSafe, ReadIsCurrent, HeldIsNatural, NoOverspend
    <2>3. CASE UpstreamFails(r) BY <1>t, <2>3, QuietStep DEF UpstreamFails
    <2>4. CASE PricingFails(r) BY <1>t, <2>4, QuietStep DEF PricingFails
    <2>5. QED BY <1>2, <2>1, <2>2, <2>3, <2>4 DEF Dispatch
  <1>3. ASSUME NEW r \in Requests, Record(r)
        PROVE  WalletSafe'
    <2>1. CASE InsertRow(r)
      BY <1>t, <2>1 DEF InsertRow, WalletSafe, ReadIsCurrent, HeldIsNatural, NoOverspend
    <2>2. CASE InsertFails(r) BY <1>t, <2>2, QuietStep DEF InsertFails
    <2>3. CASE Respond(r) BY <1>t, <2>3, QuietStep DEF Respond
    <2>4. QED BY <1>3, <2>1, <2>2, <2>3 DEF Record
  <1>4. CASE Crash
    <2>1. \A r \in Requests : stage'[r] \notin {"reserving", "capturing"}
      BY <1>4 DEF Crash, InFlight
    <2>2. QED
      BY <1>t, <1>4, <2>1 DEF Crash, WalletSafe, ReadIsCurrent, HeldIsNatural, NoOverspend
  <1>5. CASE UNCHANGED vars
    BY <1>t, <1>5 DEF vars, WalletSafe, ReadIsCurrent, HeldIsNatural, NoOverspend
  <1>6. QED
    BY <1>t, <1>1, <1>2, <1>3, <1>4, <1>5, ReserveSafe, CaptureSafe, GiveBackSafe
    DEF Next, Proceed

LEMMA WalletSafeInit == Init => WalletSafe
  BY BillingAssumption, TypeInit
  DEF Init, WalletSafe, ReadIsCurrent, HeldIsNatural, NoOverspend, NoCredits

LEMMA AlwaysWalletSafe == Spec => []WalletSafe
  BY WalletSafeInit, WalletSafeStep, PTL DEF Spec

\* No interleaving of any number of requests, and none of the faults, overdraws the
\* wallet in either kind of credits.
THEOREM NeverOverspent == Spec => []NoOverspend
  <1>1. WalletSafe => NoOverspend BY DEF WalletSafe
  <1>2. QED BY <1>1, AlwaysWalletSafe, PTL

-----------------------------------------------------------------------------
(* Every request settles for exactly its charge, or for nothing, unless a  *)
(* COMMIT is applied unacknowledged or a release fails                     *)

LEMMA OnlyReservedNet ==
    ASSUME TypeOK, NEW r \in Requests, OnlyReserved(r)
    PROVE  Net(r) = -Total(held[r])
  BY DEF TypeOK, OnlyReserved, Net, NetPaid, NetPromo, Negated, Minus, NoCredits, Total,
         Credits, Rows

\* A step of r that posts nothing, from one open stage to another.
LEMMA StayOpen ==
    ASSUME BooksMatch, TypeOK, NEW r \in Requests, NEW s \in OpenStages,
           stage[r] \in OpenStages,
           s \in {"idle", "estimated", "reserving"} => held[r] = NoCredits,
           stage' = [stage EXCEPT ![r] = s],
           ledger' = ledger, held' = held, captured' = captured,
           \A q \in Requests \ {r} : due'[q] = due[q]
    PROVE  BooksMatch'
  BY DEF BooksMatch, TypeOK, OpenStages, OnlyReserved, Net, NetPaid, NetPromo

\* A step of r that ends its handler, or its reservation.
LEMMA Settle ==
    ASSUME BooksMatch, TypeOK, NEW r \in Requests, NEW s \in {"recording", "done"},
           stage' = [stage EXCEPT ![r] = s],
           held' = held, due' = due,
           \A q \in Requests \ {r} : ledger'[q] = ledger[q] /\ captured'[q] = captured[q],
           s = "recording" => captured'[r],
           Net(r)' = IF captured'[r] THEN -due[r] ELSE 0
    PROVE  BooksMatch'
  BY DEF BooksMatch, TypeOK, OpenStages, OnlyReserved, Net, NetPaid, NetPromo

LEMMA ReserveBooks ==
    ASSUME BooksMatch, WalletSafe, NEW r \in Requests, Reserve(r), "ack" \notin Faults
    PROVE  BooksMatch'
  <1> USE DEF Goto, Finish, handlerVars, OpenStages
  <1>t. TypeOK BY DEF WalletSafe
  <1>1. CASE ReserveNothing(r) BY <1>t, <1>1, StayOpen DEF ReserveNothing
  <1>2. CASE ReserveLock(r)
    <2>1. held[r] = NoCredits BY <1>2 DEF ReserveLock, BooksMatch
    <2>2. QED BY <1>t, <1>2, <2>1, StayOpen DEF ReserveLock
  <1>3. ASSUME stage[r] \in {"estimated", "reserving"}, ledger' = ledger, due' = due,
               held' = held, captured' = captured, Goto(r, "done")
        PROVE  BooksMatch'
    <2>1. held[r] = NoCredits /\ ~captured[r] /\ OnlyReserved(r)
      BY <1>3 DEF BooksMatch
    <2>2. Net(r) = 0
      BY <1>t, <2>1, OnlyReservedNet DEF Total, NoCredits
    <2>3. Net(r)' = Net(r) BY <1>3 DEF Net, NetPaid, NetPromo
    <2>4. QED BY <1>t, <1>3, <2>1, <2>2, <2>3, Settle
  <1>4. CASE ReserveInsufficient(r) BY <1>3, <1>4 DEF ReserveInsufficient
  <1>5. CASE ReserveFails(r) BY <1>3, <1>5 DEF ReserveFails
  <1>6. CASE ReserveCommit(r)
    <2> DEFINE h == PromoFirst(due[r], seen[r])
    <2>1. /\ ledger' = [ledger EXCEPT ![r].reserve = Negated(h)]
          /\ held' = [held EXCEPT ![r] = h]
          /\ stage' = [stage EXCEPT ![r] = "dispatched"]
          /\ stage[r] = "reserving" /\ due' = due /\ captured' = captured
      BY <1>6 DEF ReserveCommit, PostReservation
    <2>2. ~captured[r] /\ OnlyReserved(r)
      BY <2>1 DEF BooksMatch
    <2> HIDE DEF h
    <2>3. OnlyReserved(r)'
      BY <1>t, <2>1, <2>2 DEF OnlyReserved, TypeOK, Rows
    <2>4. \A q \in Requests \ {r} :
            /\ held'[q] = held[q] /\ ledger'[q] = ledger[q] /\ stage'[q] = stage[q]
            /\ OnlyReserved(q)' = OnlyReserved(q) /\ Net(q)' = Net(q)
      BY <1>t, <2>1 DEF TypeOK, OnlyReserved, Net, NetPaid, NetPromo
    <2>5. stage'[r] = "dispatched" BY <1>t, <2>1 DEF TypeOK
    <2>6. QED BY <2>1, <2>2, <2>3, <2>4, <2>5 DEF BooksMatch
  <1>7. ~ReserveCommitUnacked(r) BY DEF ReserveCommitUnacked
  <1>8. QED BY <1>1, <1>2, <1>4, <1>5, <1>6, <1>7 DEF Reserve

\* A capture posts what makes the request's rows add up to its charge.
LEMMA CaptureBooks ==
    ASSUME BooksMatch, WalletSafe, NEW r \in Requests, Capture(r), "ack" \notin Faults
    PROVE  BooksMatch'
  <1> USE DEF Goto, Unwind, handlerVars, OpenStages
  <1>t. TypeOK BY DEF WalletSafe
  <1>1. CASE CaptureNothing(r)
    <2>1. OnlyReserved(r) BY <1>1 DEF CaptureNothing, BooksMatch
    <2>2. Net(r) = 0 BY <1>t, <1>1, <2>1, OnlyReservedNet DEF CaptureNothing
    <2>3. Net(r)' = Net(r) BY <1>1 DEF CaptureNothing, Net, NetPaid, NetPromo
    <2>4. Net(r)' = -due[r]
      <3>1. due[r] = 0 BY <1>1 DEF CaptureNothing
      <3>2. due[r] + 0 = 0 BY <3>1
      <3>3. due[r] \in Int BY <1>t DEF TypeOK
      <3>4. Net(r)' = 0 BY <2>2, <2>3
      <3>5. \A x, y \in Int : x + y = 0 => y = -x OBVIOUS
      <3>6. 0 = -due[r] BY <3>2, <3>3, <3>5
      <3>7. QED BY <3>4, <3>6
    <2>c. captured'[r]
      <3>1. captured' = [captured EXCEPT ![r] = TRUE]
        BY <1>1 DEF CaptureNothing, Captured
      <3>2. QED BY <1>t, <3>1, Zenon DEF TypeOK
    <2>5. /\ stage' = [stage EXCEPT ![r] = "recording"]
          /\ ledger' = ledger /\ held' = held /\ due' = due
          /\ \A q \in Requests \ {r} : captured'[q] = captured[q]
      BY <1>t, <1>1 DEF CaptureNothing, Captured, TypeOK
    <2>6. QED BY <1>t, <2>4, <2>c, <2>5, Settle
  <1>2. CASE CaptureWithoutWallet(r) BY <1>t, <1>2, StayOpen DEF CaptureWithoutWallet
  <1>3. CASE CaptureLock(r) BY <1>t, <1>3, StayOpen DEF CaptureLock
  <1>4. CASE CaptureInsufficient(r) BY <1>t, <1>4, StayOpen DEF CaptureInsufficient
  <1>5. CASE CaptureFails(r) BY <1>t, <1>5, StayOpen DEF CaptureFails
  <1>6. CASE CaptureCommit(r)
    <2>1. PostCapture(r) /\ Captured(r) /\ held' = held /\ due' = due
      BY <1>6 DEF CaptureCommit
    <2>2. stage[r] = "capturing" /\ OnlyReserved(r)
      BY <2>1 DEF PostCapture, BooksMatch
    <2>3. /\ seen[r] \in Credits /\ due[r] \in Nat /\ held[r] \in Credits
          /\ Total(held[r]) \in Int /\ ledger \in [Requests -> Rows]
      BY <1>t DEF TypeOK, Total, Credits
    <2>4. /\ seen[r].paid >= 0 /\ seen[r].promo >= 0
          /\ held[r].paid >= 0 /\ held[r].promo >= 0
      BY <2>2 DEF WalletSafe, NoOverspend, HeldIsNatural, ReadIsCurrent
    <2>5. /\ ledger[r].reserve = Negated(held[r]) /\ ledger[r].release = NoCredits
          /\ ledger[r].capture_release = NoCredits /\ ledger[r].capture_extra = NoCredits
      BY <2>2 DEF OnlyReserved
    <2>6. ASSUME ReturnUnused(r)
          PROVE  Net(r)' = -due[r] /\ \A q \in Requests \ {r} : ledger'[q] = ledger[q]
      <3> DEFINE back == PaidFirst(Total(held[r]) - due[r], held[r])
      <3>0. Total(held[r]) - due[r] \in Int /\ Total(held[r]) - due[r] >= 0
            /\ Total(held[r]) - due[r] <= Total(held[r])
        BY <2>3, <2>6 DEF ReturnUnused
      <3>1. Total(back) = Total(held[r]) - due[r] /\ back \in Credits
        BY <2>3, <2>4, <3>0, PaidFirstCovered, SplitTypes
      <3>2. ledger' = [ledger EXCEPT ![r].capture_release = back, ![r].capture = TRUE]
        BY <2>6 DEF ReturnUnused
      <3> HIDE DEF back
      <3>3. /\ ledger'[r].reserve = Negated(held[r]) /\ ledger'[r].release = NoCredits
            /\ ledger'[r].capture_release = back /\ ledger'[r].capture_extra = NoCredits
            /\ \A q \in Requests \ {r} : ledger'[q] = ledger[q]
        BY <2>3, <2>5, <3>2 DEF Rows
      <3>4. Net(r)' = -due[r]
        BY <2>3, <3>1, <3>3 DEF Net, NetPaid, NetPromo, Negated, Minus, NoCredits, Total, Credits
      <3>5. QED BY <3>3, <3>4
    <2>7. ASSUME ChargeAsReserved(r)
          PROVE  Net(r)' = -due[r] /\ \A q \in Requests \ {r} : ledger'[q] = ledger[q]
      <3>1. /\ ledger'[r].reserve = Negated(held[r]) /\ ledger'[r].release = NoCredits
            /\ ledger'[r].capture_release = NoCredits /\ ledger'[r].capture_extra = NoCredits
            /\ \A q \in Requests \ {r} : ledger'[q] = ledger[q]
            /\ due[r] = Total(held[r])
        BY <2>3, <2>5, <2>7 DEF Rows, ChargeAsReserved
      <3>2. Net(r)' = -due[r]
        BY <2>3, <3>1 DEF Net, NetPaid, NetPromo, Negated, Minus, NoCredits, Total, Credits
      <3>3. QED BY <3>1, <3>2
    <2>8. ASSUME DrawExtra(r)
          PROVE  Net(r)' = -due[r] /\ \A q \in Requests \ {r} : ledger'[q] = ledger[q]
      <3> DEFINE extra == PromoFirst(due[r] - Total(held[r]), seen[r])
      <3>0. due[r] - Total(held[r]) \in Int /\ due[r] - Total(held[r]) >= 0
            /\ Total(seen[r]) >= due[r] - Total(held[r])
        BY <2>3, <2>8 DEF DrawExtra
      <3>1. Total(extra) = due[r] - Total(held[r]) /\ extra \in Credits
        BY <2>3, <2>4, <3>0, PromoFirstCovered, SplitTypes
      <3>2. ledger' = [ledger EXCEPT ![r].capture_extra = Negated(extra), ![r].capture = TRUE]
        BY <2>8 DEF DrawExtra
      <3> HIDE DEF extra
      <3>3. /\ ledger'[r].reserve = Negated(held[r]) /\ ledger'[r].release = NoCredits
            /\ ledger'[r].capture_release = NoCredits
            /\ ledger'[r].capture_extra = Negated(extra)
            /\ \A q \in Requests \ {r} : ledger'[q] = ledger[q]
        BY <2>3, <2>5, <3>2 DEF Rows
      <3>4. Net(r)' = -due[r]
        BY <2>3, <3>1, <3>3 DEF Net, NetPaid, NetPromo, Negated, Minus, NoCredits, Total, Credits
      <3>5. QED BY <3>3, <3>4
    <2>9. Net(r)' = -due[r] /\ \A q \in Requests \ {r} : ledger'[q] = ledger[q]
      <3>1. CASE ReturnUnused(r) BY <2>6, <3>1
      <3>2. CASE ChargeAsReserved(r) BY <2>7, <3>2
      <3>3. CASE DrawExtra(r) BY <2>8, <3>3
      <3>4. QED BY <2>1, <3>1, <3>2, <3>3 DEF PostCapture
    <2>10. QED BY <1>t, <2>1, <2>9, Settle DEF Captured, TypeOK
  <1>7. ~CaptureCommitUnacked(r) BY DEF CaptureCommitUnacked
  <1>8. QED BY <1>1, <1>2, <1>3, <1>4, <1>5, <1>6, <1>7 DEF Capture

LEMMA GiveBackBooks ==
    ASSUME BooksMatch, WalletSafe, NEW r \in Requests, GiveBack(r), "release" \notin Faults
    PROVE  BooksMatch'
  <1> USE DEF Goto, handlerVars, OpenStages
  <1>t. TypeOK BY DEF WalletSafe
  <1>0. stage[r] = "unwinding" /\ ~captured[r] /\ OnlyReserved(r)
    BY DEF GiveBack, ReleaseNothing, Release, ReleaseFails, BooksMatch
  <1>1. CASE ReleaseNothing(r)
    <2>1. Net(r) = 0 BY <1>t, <1>0, <1>1, OnlyReservedNet DEF ReleaseNothing
    <2>2. Net(r)' = Net(r) BY <1>1 DEF ReleaseNothing, Net, NetPaid, NetPromo
    <2>3. QED BY <1>t, <1>0, <1>1, <2>1, <2>2, Settle DEF ReleaseNothing
  <1>2. CASE Release(r)
    <2>1. /\ ledger' = [ledger EXCEPT ![r].release = held[r]]
          /\ stage' = [stage EXCEPT ![r] = "done"]
          /\ held' = held /\ due' = due /\ captured' = captured
      BY <1>2 DEF Release
    <2>2. held[r] \in Credits /\ ledger \in [Requests -> Rows] BY <1>t DEF TypeOK
    <2>3. /\ ledger'[r].reserve = Negated(held[r]) /\ ledger'[r].release = held[r]
          /\ ledger'[r].capture_release = NoCredits /\ ledger'[r].capture_extra = NoCredits
          /\ \A q \in Requests \ {r} : ledger'[q] = ledger[q]
      BY <1>0, <2>1, <2>2 DEF OnlyReserved, Rows
    <2>4. Net(r)' = 0
      BY <2>2, <2>3 DEF Net, NetPaid, NetPromo, Negated, Minus, NoCredits, Credits
    <2>5. QED BY <1>t, <1>0, <2>1, <2>3, <2>4, Settle
  <1>3. ~ReleaseFails(r) BY DEF ReleaseFails
  <1>4. QED BY <1>1, <1>2, <1>3 DEF GiveBack

LEMMA BooksStep ==
    ASSUME BooksMatch, WalletSafe, [Next]_vars, Faults \cap {"ack", "release"} = {}
    PROVE  BooksMatch'
  <1> USE DEF Goto, Finish, Unwind, handlerVars, OpenStages
  <1>t. TypeOK BY DEF WalletSafe
  <1>f. "ack" \notin Faults /\ "release" \notin Faults OBVIOUS
  <1>1. ASSUME NEW r \in Requests, Reject(r)
        PROVE  BooksMatch'
    <2>1. held[r] = NoCredits /\ ~captured[r] /\ OnlyReserved(r)
      BY <1>1 DEF Reject, BooksMatch
    <2>2. Net(r) = 0 BY <1>t, <2>1, OnlyReservedNet DEF Total, NoCredits
    <2>3. Net(r)' = Net(r) BY <1>1 DEF Reject, Net, NetPaid, NetPromo
    <2>4. QED BY <1>t, <1>1, <2>1, <2>2, <2>3, Settle DEF Reject
  <1>2. ASSUME NEW r \in Requests, Estimate(r)
        PROVE  BooksMatch'
    <2>1. stage[r] = "idle" /\ stage' = [stage EXCEPT ![r] = "estimated"]
          /\ ledger' = ledger /\ held' = held /\ captured' = captured
          /\ \A q \in Requests \ {r} : due'[q] = due[q]
      BY <1>t, <1>2 DEF Estimate, TypeOK
    <2>2. held[r] = NoCredits BY <2>1 DEF BooksMatch
    <2>3. QED BY <1>t, <2>1, <2>2, StayOpen
  <1>3. ASSUME NEW r \in Requests, Dispatch(r)
        PROVE  BooksMatch'
    <2>1. CASE UpstreamSucceeds(r)
      <3>1. stage[r] = "dispatched" /\ stage' = [stage EXCEPT ![r] = "priced"]
            /\ ledger' = ledger /\ held' = held /\ captured' = captured
            /\ \A q \in Requests \ {r} : due'[q] = due[q]
        BY <1>t, <2>1 DEF UpstreamSucceeds, TypeOK
      <3>2. QED BY <1>t, <3>1, StayOpen
    <2>2. CASE UpstreamFallsBack(r)
      BY <2>2 DEF UpstreamFallsBack, BooksMatch, OnlyReserved, Net, NetPaid, NetPromo
    <2>3. CASE UpstreamFails(r) BY <1>t, <2>3, StayOpen DEF UpstreamFails
    <2>4. CASE PricingFails(r) BY <1>t, <2>4, StayOpen DEF PricingFails
    <2>5. QED BY <1>3, <2>1, <2>2, <2>3, <2>4 DEF Dispatch
  <1>4. ASSUME NEW r \in Requests, Record(r)
        PROVE  BooksMatch'
    <2>1. CASE InsertRow(r)
      BY <2>1 DEF InsertRow, BooksMatch, OnlyReserved, Net, NetPaid, NetPromo
    <2>2. ASSUME stage[r] = "recording", Goto(r, "done"), ledger' = ledger, held' = held,
                 due' = due, captured' = captured
          PROVE  BooksMatch'
      <3>1. captured[r] /\ Net(r) = -due[r] BY <2>2 DEF BooksMatch
      <3>2. Net(r)' = Net(r) BY <2>2 DEF Net, NetPaid, NetPromo
      <3>3. QED BY <1>t, <2>2, <3>1, <3>2, Settle
    <2>3. CASE InsertFails(r) BY <2>2, <2>3 DEF InsertFails
    <2>4. CASE Respond(r) BY <2>2, <2>4 DEF Respond
    <2>5. QED BY <1>4, <2>1, <2>3, <2>4 DEF Record
  <1>5. CASE Crash
    BY <1>t, <1>5 DEF Crash, InFlight, BooksMatch, OnlyReserved, Net, NetPaid, NetPromo, TypeOK
  <1>6. CASE UNCHANGED vars
    BY <1>6 DEF vars, BooksMatch, OnlyReserved, Net, NetPaid, NetPromo
  <1>7. QED
    BY <1>f, <1>1, <1>2, <1>3, <1>4, <1>5, <1>6, ReserveBooks, CaptureBooks, GiveBackBooks
    DEF Next, Arrive, Proceed

LEMMA BooksInit == Init => BooksMatch
  BY DEF Init, BooksMatch, OpenStages, OnlyReserved, NoRows, NoCredits, Negated, Minus

\* Without a lost acknowledgement or a failing release, and even if servers stop,
\* a request whose handler returned has cost exactly its final charge when it was
\* captured and nothing when it was not: never twice, never in part.
THEOREM SettlesExactly ==
    ASSUME Faults \cap {"ack", "release"} = {}
    PROVE  Spec => []SettledExactly
  <1>1. BooksMatch => SettledExactly BY DEF BooksMatch, SettledExactly
  <1>2. BooksMatch /\ WalletSafe /\ [Next]_vars => BooksMatch' BY BooksStep
  <1>3. QED BY <1>1, <1>2, BooksInit, AlwaysWalletSafe, PTL DEF Spec
-----------------------------------------------------------------------------
(***************************************************************************)
(* Whatever fails, the ledger explains the wallet.  A request's row of one *)
(* kind is posted once (Accounted), so the step that posts it moves the    *)
(* wallet by just that row.                                                *)
(***************************************************************************)

LEMMA AccountedInit == Init => Accounted
  BY DEF Init, Accounted, MovedWhole, Net, NetPaid, NetPromo, Total, NoRows, NoCredits

\* The rows of r in numbers.
LEMMA NetIsSum ==
    ASSUME TypeOK, NEW r \in Requests
    PROVE  /\ NetPaid(r) \in Int /\ NetPromo(r) \in Int /\ Net(r) = NetPaid(r) + NetPromo(r)
           /\ OnlyReserved(r) => /\ NetPaid(r) = -held[r].paid /\ NetPromo(r) = -held[r].promo
                                 /\ Net(r) = -Total(held[r])
                                 /\ Total(ledger[r].reserve) = -Total(held[r])
  BY DEF TypeOK, OnlyReserved, Net, NetPaid, NetPromo, Negated, Minus, NoCredits, Total,
         Credits, Rows

\* A step that leaves the rows and the holds alone and moves r to stage s.
LEMMA AccountedQuiet ==
    ASSUME TypeOK, Accounted, NEW r \in Requests, NEW s,
           ledger' = ledger, held' = held,
           stage' = [stage EXCEPT ![r] = s],
           \A q \in Requests \ {r} : due'[q] = due[q],
           due'[r] = due[r] \/ ~ledger[r].capture,
           s \in {"idle", "estimated", "reserving"} => ledger[r] = NoRows /\ held[r] = NoCredits,
           s \in {"dispatched", "priced", "capturing"} => OnlyReserved(r) /\ ~ledger[r].capture,
           s = "unwinding" => /\ ledger[r].reserve = Negated(held[r])
                              /\ ledger[r].release = NoCredits
                              /\ ledger[r].capture \/ OnlyReserved(r)
    PROVE  Accounted'
  <1> SUFFICES ASSUME NEW q \in Requests
               PROVE  /\ stage'[q] \in {"idle", "estimated", "reserving"} =>
                            ledger'[q] = NoRows /\ held'[q] = NoCredits
                      /\ stage'[q] \in {"dispatched", "priced", "capturing"} =>
                            OnlyReserved(q)' /\ ~ledger'[q].capture
                      /\ stage'[q] = "unwinding" =>
                            /\ ledger'[q].reserve = Negated(held'[q])
                            /\ ledger'[q].release = NoCredits
                            /\ ledger'[q].capture \/ OnlyReserved(q)'
                      /\ MovedWhole(q)'
    BY DEF Accounted
  <1>1. OnlyReserved(q)' = OnlyReserved(q) BY DEF OnlyReserved
  <1>2. MovedWhole(q)'
    BY DEF Accounted, MovedWhole, Net, NetPaid, NetPromo
  <1>3. CASE q = r BY <1>1, <1>2, <1>3 DEF TypeOK
  <1>4. CASE q # r BY <1>1, <1>2, <1>4 DEF TypeOK, Accounted
  <1>5. QED BY <1>3, <1>4

\* A step that posts rows of r only.
LEMMA AccountedPosting ==
    ASSUME TypeOK, Accounted, NEW r \in Requests, NEW s \in Stages,
           stage' = [stage EXCEPT ![r] = s],
           due' = due,
           \A q \in Requests \ {r} : ledger'[q] = ledger[q] /\ held'[q] = held[q],
           s \notin {"idle", "estimated", "reserving", "priced", "capturing"},
           s = "dispatched" => OnlyReserved(r)' /\ ~ledger'[r].capture,
           s = "unwinding" => /\ ledger'[r].reserve = Negated(held'[r])
                              /\ ledger'[r].release = NoCredits
                              /\ ledger'[r].capture,
           MovedWhole(r)'
    PROVE  Accounted'
  <1> SUFFICES ASSUME NEW q \in Requests, q # r
               PROVE  /\ stage'[q] = stage[q]
                      /\ OnlyReserved(q)' = OnlyReserved(q)
                      /\ MovedWhole(q)' = MovedWhole(q)
    BY DEF Accounted, TypeOK
  <1>1. QED BY DEF TypeOK, OnlyReserved, MovedWhole, Net, NetPaid, NetPromo

\* What a step moves: nothing, or the wallet by what one request's rows move by.
Untouched ==
    /\ wallet' = wallet
    /\ \A r \in Requests : NetPaid(r)' = NetPaid(r) /\ NetPromo(r)' = NetPromo(r)

Posts(r) ==
    /\ wallet'.paid - wallet.paid = NetPaid(r)' - NetPaid(r)
    /\ wallet'.promo - wallet.promo = NetPromo(r)' - NetPromo(r)
    /\ \A q \in Requests \ {r} : ledger'[q] = ledger[q]

LEMMA LedgerKept ==
    ASSUME wallet' = wallet, ledger' = ledger
    PROVE  Untouched
  BY DEF Untouched, NetPaid, NetPromo

\* The reservation is the first row of its request.
LEMMA ReservationAccounted ==
    ASSUME TypeOK, Accounted, NEW r \in Requests, PostReservation(r)
    PROVE  /\ Posts(r) /\ held[r] = NoCredits
           /\ ledger'[r] = [NoRows EXCEPT !.reserve = Negated(PromoFirst(due[r], seen[r]))]
           /\ MovedWhole(r)'
  <1> DEFINE h == PromoFirst(due[r], seen[r])
  <1>1. /\ wallet' = Minus(wallet, h)
        /\ ledger' = [ledger EXCEPT ![r].reserve = Negated(h)]
        /\ stage[r] = "reserving"
    BY DEF PostReservation
  <1>2. ledger[r] = NoRows /\ held[r] = NoCredits BY <1>1 DEF Accounted
  <1>3. h \in Credits BY PostReservationTypes
  <1>4. wallet \in Credits /\ ledger \in [Requests -> Rows] BY DEF TypeOK
  <1> HIDE DEF h
  <1>5. /\ ledger'[r] = [NoRows EXCEPT !.reserve = Negated(h)]
        /\ \A q \in Requests \ {r} : ledger'[q] = ledger[q]
    BY <1>1, <1>2, <1>4
  <1>6. /\ NetPaid(r) = 0 /\ NetPromo(r) = 0
        /\ NetPaid(r)' = -h.paid /\ NetPromo(r)' = -h.promo
    BY <1>2, <1>3, <1>5
       DEF NetPaid, NetPromo, NoRows, NoCredits, Negated, Minus, Credits
  <1>7. wallet'.paid - wallet.paid = -h.paid /\ wallet'.promo - wallet.promo = -h.promo
    BY <1>1, <1>3, <1>4 DEF Minus, Credits
  <1>8. Posts(r) BY <1>3, <1>5, <1>6, <1>7 DEF Posts, Credits
  <1>9. MovedWhole(r)'
    BY <1>3, <1>5, <1>6 DEF MovedWhole, Net, Total, NoRows, NoCredits, Negated, Minus, Credits
  <1>10. QED BY <1>2, <1>5, <1>8, <1>9 DEF h

\* The capture posts the last row but the release, and its amount is the rest of the charge.
LEMMA CaptureAccounted ==
    ASSUME WalletSafe, Accounted, NEW r \in Requests, PostCapture(r)
    PROVE  /\ Posts(r)
           /\ ledger'[r].capture
           /\ ledger'[r].reserve = Negated(held[r])
           /\ ledger'[r].release = NoCredits
           /\ NetPaid(r)' + NetPromo(r)' = -due[r]
  <1>1. stage[r] = "capturing" BY DEF PostCapture
  <1>2. TypeOK BY DEF WalletSafe
  <1>3. OnlyReserved(r) BY <1>1 DEF Accounted
  <1>4. /\ seen[r] \in Credits /\ due[r] \in Nat /\ held[r] \in Credits /\ wallet \in Credits
        /\ Total(held[r]) \in Int /\ ledger \in [Requests -> Rows]
    BY <1>2 DEF TypeOK, Total, Credits
  <1>5. /\ seen[r].paid >= 0 /\ seen[r].promo >= 0
        /\ held[r].paid >= 0 /\ held[r].promo >= 0
    BY <1>1 DEF WalletSafe, NoOverspend, HeldIsNatural, ReadIsCurrent
  <1>6. /\ ledger[r].reserve = Negated(held[r]) /\ ledger[r].release = NoCredits
        /\ ledger[r].capture_release = NoCredits /\ ledger[r].capture_extra = NoCredits
    BY <1>3 DEF OnlyReserved
  <1>7. NetPaid(r) = -held[r].paid /\ NetPromo(r) = -held[r].promo
    BY <1>2, <1>3, NetIsSum
  <1>8. CASE ReturnUnused(r)
    <2> DEFINE back == PaidFirst(Total(held[r]) - due[r], held[r])
    <2>1. Total(held[r]) - due[r] \in Int /\ Total(held[r]) - due[r] >= 0
          /\ Total(held[r]) - due[r] <= Total(held[r])
      BY <1>4, <1>8 DEF ReturnUnused
    <2>2. Total(back) = Total(held[r]) - due[r] /\ back \in Credits
      BY <1>4, <1>5, <2>1, PaidFirstCovered, SplitTypes
    <2>3. /\ wallet' = Plus(wallet, back)
          /\ ledger' = [ledger EXCEPT ![r].capture_release = back, ![r].capture = TRUE]
      BY <1>8 DEF ReturnUnused
    <2> HIDE DEF back
    <2>4. /\ ledger'[r].reserve = Negated(held[r]) /\ ledger'[r].release = NoCredits
          /\ ledger'[r].capture_release = back /\ ledger'[r].capture_extra = NoCredits
          /\ ledger'[r].capture
          /\ \A q \in Requests \ {r} : ledger'[q] = ledger[q]
      BY <1>4, <1>6, <2>3 DEF Rows
    <2>5. NetPaid(r)' = back.paid - held[r].paid /\ NetPromo(r)' = back.promo - held[r].promo
      BY <1>4, <2>2, <2>4 DEF NetPaid, NetPromo, Negated, Minus, NoCredits, Credits
    <2>6. wallet'.paid = wallet.paid + back.paid /\ wallet'.promo = wallet.promo + back.promo
      BY <2>3 DEF Plus
    <2>7. QED BY <1>4, <1>7, <2>2, <2>4, <2>5, <2>6 DEF Posts, Total, Credits
  <1>9. CASE ChargeAsReserved(r)
    <2>1. /\ ledger'[r].reserve = Negated(held[r]) /\ ledger'[r].release = NoCredits
          /\ ledger'[r].capture_release = NoCredits /\ ledger'[r].capture_extra = NoCredits
          /\ ledger'[r].capture
          /\ \A q \in Requests \ {r} : ledger'[q] = ledger[q]
          /\ due[r] = Total(held[r]) /\ wallet' = wallet
      BY <1>4, <1>6, <1>9 DEF Rows, ChargeAsReserved
    <2>2. NetPaid(r)' = -held[r].paid /\ NetPromo(r)' = -held[r].promo
      BY <1>4, <2>1 DEF NetPaid, NetPromo, Negated, Minus, NoCredits, Credits
    <2>3. QED BY <1>4, <1>7, <2>1, <2>2 DEF Posts, Total, Credits
  <1>10. CASE DrawExtra(r)
    <2> DEFINE extra == PromoFirst(due[r] - Total(held[r]), seen[r])
    <2>1. due[r] - Total(held[r]) \in Int /\ due[r] - Total(held[r]) >= 0
          /\ Total(seen[r]) >= due[r] - Total(held[r])
      BY <1>4, <1>10 DEF DrawExtra
    <2>2. Total(extra) = due[r] - Total(held[r]) /\ extra \in Credits
      BY <1>4, <1>5, <2>1, PromoFirstCovered, SplitTypes
    <2>3. /\ wallet' = Minus(wallet, extra)
          /\ ledger' = [ledger EXCEPT ![r].capture_extra = Negated(extra), ![r].capture = TRUE]
      BY <1>10 DEF DrawExtra
    <2> HIDE DEF extra
    <2>4. /\ ledger'[r].reserve = Negated(held[r]) /\ ledger'[r].release = NoCredits
          /\ ledger'[r].capture_release = NoCredits
          /\ ledger'[r].capture_extra = Negated(extra)
          /\ ledger'[r].capture
          /\ \A q \in Requests \ {r} : ledger'[q] = ledger[q]
      BY <1>4, <1>6, <2>3 DEF Rows
    <2>5. NetPaid(r)' = -held[r].paid - extra.paid /\ NetPromo(r)' = -held[r].promo - extra.promo
      BY <1>4, <2>2, <2>4 DEF NetPaid, NetPromo, Negated, Minus, NoCredits, Credits
    <2>6. wallet'.paid = wallet.paid - extra.paid /\ wallet'.promo = wallet.promo - extra.promo
      BY <2>3 DEF Minus
    <2>7. /\ extra.paid \in Int /\ extra.promo \in Int
          /\ extra.paid + extra.promo = due[r] - (held[r].paid + held[r].promo)
      BY <2>2 DEF Total, Credits
    <2>8. NetPaid(r)' + NetPromo(r)' = -due[r]
      <3>1. held[r].paid \in Int /\ held[r].promo \in Int BY <1>4 DEF Credits
      <3>2. QED BY <1>4, <2>5, <2>7, <3>1
    <2>9. Posts(r) BY <1>4, <1>7, <2>4, <2>5, <2>6, <2>7 DEF Posts, Credits
    <2>10. QED BY <2>4, <2>8, <2>9
  <1>11. QED BY <1>8, <1>9, <1>10 DEF PostCapture

\* The release puts back just what was reserved, also behind a capture whose COMMIT was
\* not acknowledged.
LEMMA ReleaseAccounted ==
    ASSUME TypeOK, Accounted, NEW r \in Requests, Release(r)
    PROVE  Posts(r) /\ MovedWhole(r)'
  <1>1. /\ stage[r] = "unwinding" /\ Total(held[r]) > 0
        /\ wallet' = Plus(wallet, held[r]) /\ due' = due
        /\ ledger' = [ledger EXCEPT ![r].release = held[r]]
    BY DEF Release, handlerVars
  <1>2. held[r] \in Credits /\ wallet \in Credits /\ ledger \in [Requests -> Rows]
        /\ due[r] \in Nat
    BY DEF TypeOK
  <1>3. /\ ledger[r].reserve = Negated(held[r]) /\ ledger[r].release = NoCredits
        /\ ledger[r].capture \/ OnlyReserved(r)
        /\ MovedWhole(r)
    BY <1>1 DEF Accounted
  <1>4. /\ ledger'[r] = [ledger[r] EXCEPT !.release = held[r]]
        /\ \A q \in Requests \ {r} : ledger'[q] = ledger[q]
    BY <1>1, <1>2 DEF Rows
  <1>5. /\ NetPaid(r) \in Int /\ NetPromo(r) \in Int
        /\ NetPaid(r)' = NetPaid(r) + held[r].paid
        /\ NetPromo(r)' = NetPromo(r) + held[r].promo
    BY <1>2, <1>3, <1>4 DEF NetPaid, NetPromo, NoCredits, Credits, Rows
  <1>6. Posts(r) BY <1>1, <1>2, <1>4, <1>5 DEF Posts, Plus, Credits
  <1>7. /\ held[r] # NoCredits /\ Total(ledger'[r].reserve) = -Total(held[r])
        /\ Total(ledger[r].reserve) = -Total(held[r])
        /\ ledger'[r].release = held[r] /\ ledger'[r].capture = ledger[r].capture
        /\ Net(r)' = Net(r) + Total(held[r]) /\ Net(r) \in Int /\ Total(held[r]) \in Int
    BY <1>1, <1>2, <1>3, <1>4, <1>5
       DEF NoCredits, Total, Negated, Minus, Credits, Net, Rows
  <1>8. CASE ledger[r].capture
    <2>1. Net(r) = -due[r] BY <1>3, <1>8 DEF MovedWhole
    <2>2. Net(r)' = -Total(ledger'[r].reserve) - due'[r]
      BY <1>1, <1>2, <1>7, <2>1
    <2>3. ledger'[r].capture /\ ledger'[r].release # NoCredits BY <1>7, <1>8
    <2>4. QED BY <1>6, <2>2, <2>3 DEF MovedWhole
  <1>9. CASE ~ledger[r].capture
    <2>1. Net(r) = -Total(held[r]) BY <1>3, <1>9, NetIsSum
    <2>2. Net(r)' = 0 /\ ~ledger'[r].capture BY <1>7, <1>9, <2>1
    <2>3. QED BY <1>6, <2>2 DEF MovedWhole
  <1>10. QED BY <1>6, <1>8, <1>9

LEMMA ReserveAccounted ==
    ASSUME WalletSafe, Accounted, NEW r \in Requests, Reserve(r)
    PROVE  Accounted' /\ (Untouched \/ Posts(r))
  <1> USE DEF Goto, Answer, Finish, handlerVars
  <1>t. TypeOK BY DEF WalletSafe
  <1>0. stage[r] \in {"estimated", "reserving"} /\ ledger[r] = NoRows /\ held[r] = NoCredits
    BY DEF Reserve, ReserveNothing, ReserveLock, ReserveInsufficient, ReserveCommit,
           ReserveCommitUnacked, PostReservation, ReserveFails, Accounted
  <1>1. OnlyReserved(r) /\ ~ledger[r].capture
    BY <1>0 DEF OnlyReserved, NoRows, NoCredits, Negated, Minus
  <1>2. CASE ReserveNothing(r) BY <1>t, <1>1, <1>2, AccountedQuiet, LedgerKept DEF ReserveNothing
  <1>3. CASE ReserveLock(r) BY <1>t, <1>0, <1>3, AccountedQuiet, LedgerKept DEF ReserveLock
  <1>4. CASE ReserveInsufficient(r)
    BY <1>t, <1>4, AccountedQuiet, LedgerKept DEF ReserveInsufficient
  <1>5. CASE ReserveFails(r) BY <1>t, <1>5, AccountedQuiet, LedgerKept DEF ReserveFails
  <1>6. ASSUME PostReservation(r)
        PROVE  /\ Posts(r) /\ MovedWhole(r)'
               /\ ledger'[r] = [NoRows EXCEPT !.reserve = Negated(PromoFirst(due[r], seen[r]))]
               /\ \A q \in Requests \ {r} : ledger'[q] = ledger[q]
    <2>1. Posts(r) BY <1>t, <1>6, ReservationAccounted
    <2>2. \A q \in Requests \ {r} : ledger'[q] = ledger[q] BY <2>1 DEF Posts
    <2>3. QED BY <1>t, <1>6, <2>1, <2>2, ReservationAccounted
  <1>7. CASE ReserveCommit(r)
    <2>1. /\ PostReservation(r) /\ stage' = [stage EXCEPT ![r] = "dispatched"] /\ due' = due
          /\ held' = [held EXCEPT ![r] = PromoFirst(due[r], seen[r])]
      BY <1>7 DEF ReserveCommit
    <2>2. held'[r] = PromoFirst(due[r], seen[r]) /\ \A q \in Requests \ {r} : held'[q] = held[q]
      BY <1>t, <2>1 DEF TypeOK
    <2>3. OnlyReserved(r)' /\ ~ledger'[r].capture
      BY <1>6, <2>1, <2>2 DEF OnlyReserved, NoRows
    <2>4. QED BY <1>t, <1>6, <2>1, <2>2, <2>3, AccountedPosting DEF Stages
  <1>8. CASE ReserveCommitUnacked(r)
    <2>1. /\ PostReservation(r) /\ stage' = [stage EXCEPT ![r] = "done"] /\ due' = due
          /\ held' = held
      BY <1>8 DEF ReserveCommitUnacked
    <2>2. QED BY <1>t, <1>6, <2>1, AccountedPosting DEF Stages
  <1>9. QED BY <1>2, <1>3, <1>4, <1>5, <1>7, <1>8 DEF Reserve

LEMMA CaptureStepAccounted ==
    ASSUME WalletSafe, Accounted, NEW r \in Requests, Capture(r)
    PROVE  Accounted' /\ (Untouched \/ Posts(r))
  <1> USE DEF Goto, Answer, Unwind, Captured, handlerVars
  <1>t. TypeOK BY DEF WalletSafe
  <1>0. stage[r] \in {"priced", "capturing"} /\ OnlyReserved(r) /\ ~ledger[r].capture
    BY DEF Capture, CaptureNothing, CaptureWithoutWallet, CaptureLock, CaptureInsufficient,
           CaptureCommit, CaptureCommitUnacked, PostCapture, CaptureFails, Accounted
  <1>1. ledger[r].reserve = Negated(held[r]) /\ ledger[r].release = NoCredits
    BY <1>0 DEF OnlyReserved
  <1>2. CASE CaptureNothing(r) BY <1>t, <1>2, AccountedQuiet, LedgerKept DEF CaptureNothing
  <1>3. CASE CaptureWithoutWallet(r)
    BY <1>t, <1>0, <1>1, <1>3, AccountedQuiet, LedgerKept DEF CaptureWithoutWallet
  <1>4. CASE CaptureLock(r) BY <1>t, <1>0, <1>4, AccountedQuiet, LedgerKept DEF CaptureLock
  <1>5. CASE CaptureInsufficient(r)
    BY <1>t, <1>0, <1>1, <1>5, AccountedQuiet, LedgerKept DEF CaptureInsufficient
  <1>6. CASE CaptureFails(r)
    BY <1>t, <1>0, <1>1, <1>6, AccountedQuiet, LedgerKept DEF CaptureFails
  <1>7. ASSUME PostCapture(r), due' = due
        PROVE  MovedWhole(r)'
    <2>1. /\ ledger'[r].capture /\ ledger'[r].release = NoCredits
          /\ NetPaid(r)' + NetPromo(r)' = -due[r]
      BY <1>7, CaptureAccounted
    <2>2. QED BY <1>7, <2>1 DEF MovedWhole, Net
  <1>8. ASSUME PostCapture(r), NEW s \in {"recording", "unwinding"},
               stage' = [stage EXCEPT ![r] = s], due' = due, held' = held
        PROVE  Accounted' /\ Posts(r)
    <2>1. /\ Posts(r) /\ ledger'[r].capture
          /\ ledger'[r].reserve = Negated(held[r]) /\ ledger'[r].release = NoCredits
      BY <1>8, CaptureAccounted
    <2>2. \A q \in Requests \ {r} : ledger'[q] = ledger[q] BY <2>1 DEF Posts
    <2>3. QED BY <1>t, <1>7, <1>8, <2>1, <2>2, AccountedPosting DEF Stages
  <1>9. CASE CaptureCommit(r) BY <1>8, <1>9 DEF CaptureCommit
  <1>10. CASE CaptureCommitUnacked(r) BY <1>8, <1>10 DEF CaptureCommitUnacked
  <1>11. QED BY <1>2, <1>3, <1>4, <1>5, <1>6, <1>9, <1>10 DEF Capture

\* Every step keeps the account, and moves nothing or posts what it moves.
LEMMA AccountedStep ==
    ASSUME WalletSafe, Accounted, [Next]_vars
    PROVE  Accounted' /\ (Untouched \/ \E r \in Requests : Posts(r))
  <1> USE DEF Goto, Answer, Finish, Unwind, handlerVars
  <1>t. TypeOK BY DEF WalletSafe
  <1>1. ASSUME NEW r \in Requests, Arrive(r)
        PROVE  Accounted' /\ Untouched
    <2>0. stage[r] = "idle" /\ ledger[r] = NoRows /\ held[r] = NoCredits
      BY <1>1 DEF Arrive, Reject, Estimate, Accounted
    <2>1. CASE Reject(r) BY <1>t, <2>1, AccountedQuiet, LedgerKept DEF Reject
    <2>2. CASE Estimate(r)
      <3>1. /\ ledger' = ledger /\ held' = held /\ wallet' = wallet
            /\ stage' = [stage EXCEPT ![r] = "estimated"]
            /\ \A q \in Requests \ {r} : due'[q] = due[q]
        BY <1>t, <2>2 DEF Estimate, TypeOK
      <3>2. ~ledger[r].capture BY <2>0 DEF NoRows
      <3>3. QED BY <1>t, <2>0, <3>1, <3>2, AccountedQuiet, LedgerKept
    <2>3. QED BY <1>1, <2>1, <2>2 DEF Arrive
  <1>2. ASSUME NEW r \in Requests, Dispatch(r)
        PROVE  Accounted' /\ Untouched
    <2>0. /\ stage[r] = "dispatched" /\ OnlyReserved(r) /\ ~ledger[r].capture
          /\ ledger[r].reserve = Negated(held[r]) /\ ledger[r].release = NoCredits
      BY <1>2 DEF Dispatch, UpstreamSucceeds, UpstreamFallsBack, UpstreamFails, PricingFails,
                  Accounted, OnlyReserved
    <2>1. CASE UpstreamSucceeds(r)
      <3>1. /\ ledger' = ledger /\ held' = held /\ wallet' = wallet
            /\ stage' = [stage EXCEPT ![r] = "priced"]
            /\ \A q \in Requests \ {r} : due'[q] = due[q]
        BY <1>t, <2>1 DEF UpstreamSucceeds, TypeOK
      <3>2. QED BY <1>t, <2>0, <3>1, AccountedQuiet, LedgerKept
    <2>2. CASE UpstreamFallsBack(r)
      <3>1. stage' = [stage EXCEPT ![r] = "dispatched"] /\ due' = due /\ held' = held
            /\ ledger' = ledger /\ wallet' = wallet
        BY <1>t, <2>0, <2>2 DEF UpstreamFallsBack, TypeOK
      <3>2. QED BY <1>t, <2>0, <3>1, AccountedQuiet, LedgerKept
    <2>3. CASE UpstreamFails(r)
      BY <1>t, <2>0, <2>3, AccountedQuiet, LedgerKept DEF UpstreamFails
    <2>4. CASE PricingFails(r)
      BY <1>t, <2>0, <2>4, AccountedQuiet, LedgerKept DEF PricingFails
    <2>5. QED BY <1>2, <2>1, <2>2, <2>3, <2>4 DEF Dispatch
  <1>3. ASSUME NEW r \in Requests, GiveBack(r)
        PROVE  Accounted' /\ (Untouched \/ Posts(r))
    <2>1. CASE ReleaseNothing(r) BY <1>t, <2>1, AccountedQuiet, LedgerKept DEF ReleaseNothing
    <2>2. CASE Release(r)
      <3>1. Posts(r) /\ MovedWhole(r)' BY <1>t, <2>2, ReleaseAccounted
      <3>2. \A q \in Requests \ {r} : ledger'[q] = ledger[q] BY <3>1 DEF Posts
      <3>3. stage' = [stage EXCEPT ![r] = "done"] /\ due' = due /\ held' = held
        BY <2>2 DEF Release
      <3>4. QED BY <1>t, <3>1, <3>2, <3>3, AccountedPosting DEF Stages
    <2>3. CASE ReleaseFails(r) BY <1>t, <2>3, AccountedQuiet, LedgerKept DEF ReleaseFails
    <2>4. QED BY <1>3, <2>1, <2>2, <2>3 DEF GiveBack
  <1>4. ASSUME NEW r \in Requests, Record(r)
        PROVE  Accounted' /\ Untouched
    <2>1. CASE InsertRow(r)
      <3>1. stage[r] = "recording" /\ stage' = [stage EXCEPT ![r] = "recording"]
            /\ due' = due /\ held' = held /\ ledger' = ledger /\ wallet' = wallet
        BY <1>t, <2>1 DEF InsertRow, TypeOK
      <3>2. QED BY <1>t, <3>1, AccountedQuiet, LedgerKept
    <2>2. CASE InsertFails(r) BY <1>t, <2>2, AccountedQuiet, LedgerKept DEF InsertFails
    <2>3. CASE Respond(r) BY <1>t, <2>3, AccountedQuiet, LedgerKept DEF Respond
    <2>4. QED BY <1>4, <2>1, <2>2, <2>3 DEF Record
  <1>5. CASE Crash
    <2>1. /\ wallet' = wallet /\ ledger' = ledger /\ held' = held /\ due' = due
          /\ \A r \in Requests : stage'[r] = stage[r] \/ stage'[r] = "crashed"
      BY <1>5 DEF Crash
    <2>2. Untouched BY <2>1, LedgerKept
    <2>3. Accounted'
      BY <2>1 DEF Accounted, OnlyReserved, MovedWhole, Net, NetPaid, NetPromo
    <2>4. QED BY <2>2, <2>3
  <1>6. CASE UNCHANGED vars
    <2>1. wallet' = wallet /\ ledger' = ledger /\ held' = held /\ due' = due /\ stage' = stage
      BY <1>6 DEF vars
    <2>2. Untouched BY <2>1, LedgerKept
    <2>3. Accounted'
      BY <2>1 DEF Accounted, OnlyReserved, MovedWhole, Net, NetPaid, NetPromo
    <2>4. QED BY <2>2, <2>3
  <1>7. QED
    BY <1>1, <1>2, <1>3, <1>4, <1>5, <1>6, ReserveAccounted, CaptureStepAccounted
    DEF Next, Proceed

LEMMA AlwaysAccounted == Spec => []Accounted
  <1>1. Accounted /\ WalletSafe /\ [Next]_vars => Accounted' BY AccountedStep
  <1>2. QED BY <1>1, AccountedInit, AlwaysWalletSafe, PTL DEF Spec

\* Whatever stops a request, and whatever of the faults happens, it has moved whole
\* amounts: all of its reservation or nothing, then its exact charge.
THEOREM MovesWholeAmounts == Spec => []NothingPartial
  <1>1. Accounted => NothingPartial BY DEF Accounted, NothingPartial
  <1>2. QED BY <1>1, AlwaysAccounted, PTL

\* What all requests together have added of each kind of credits.
PaidSum == SumFunction([r \in Requests |-> NetPaid(r)])
PromoSum == SumFunction([r \in Requests |-> NetPromo(r)])

LEMMA SumsInt ==
    ASSUME TypeOK
    PROVE  PaidSum \in Int /\ PromoSum \in Int
  <1> DEFINE paid == [r \in Requests |-> NetPaid(r)]
             promo == [r \in Requests |-> NetPromo(r)]
  <1>1. \A r \in Requests : paid[r] \in Int /\ promo[r] \in Int BY NetIsSum
  <1>2. PaidSum = SumFunctionOnSet(paid, Requests) /\ PromoSum = SumFunctionOnSet(promo, Requests)
    BY DEF PaidSum, PromoSum, SumFunction
  <1> HIDE DEF paid, promo
  <1>3. QED BY <1>1, <1>2, SumInt, BillingAssumption

\* One step keeps the wallet and the sums over the ledger together.
LEMMA SumsMove ==
    ASSUME TypeOK, TypeOK', Untouched \/ \E r \in Requests : Posts(r)
    PROVE  /\ PaidSum' = PaidSum + (wallet'.paid - wallet.paid)
           /\ PromoSum' = PromoSum + (wallet'.promo - wallet.promo)
  <1> DEFINE paid == [r \in Requests |-> NetPaid(r)]
             promo == [r \in Requests |-> NetPromo(r)]
  <1>1. IsFiniteSet(Requests) BY BillingAssumption
  <1>2. /\ PaidSum = SumFunctionOnSet(paid, Requests)
        /\ PromoSum = SumFunctionOnSet(promo, Requests)
        /\ PaidSum' = SumFunctionOnSet(paid', Requests)
        /\ PromoSum' = SumFunctionOnSet(promo', Requests)
    BY DEF PaidSum, PromoSum, SumFunction
  <1>3. /\ wallet.paid \in Int /\ wallet.promo \in Int /\ PaidSum \in Int /\ PromoSum \in Int
        /\ wallet'.paid \in Int /\ wallet'.promo \in Int
    BY SumsInt DEF TypeOK, Credits
  <1>4. \A r \in Requests : /\ paid[r] \in Int /\ promo[r] \in Int
                            /\ paid'[r] \in Int /\ promo'[r] \in Int
    <2>1. \A r \in Requests : NetPaid(r) \in Int /\ NetPromo(r) \in Int
      BY NetIsSum
    <2>2. \A r \in Requests : NetPaid(r)' \in Int /\ NetPromo(r)' \in Int
      BY DEF TypeOK, NetPaid, NetPromo, Credits, Rows
    <2>3. QED BY <2>1, <2>2
  <1>5. CASE Untouched
    <2>1. \A r \in Requests : paid'[r] = paid[r] /\ promo'[r] = promo[r] BY <1>5 DEF Untouched
    <2>2. /\ SumFunctionOnSet(paid', Requests) = SumFunctionOnSet(paid, Requests)
          /\ SumFunctionOnSet(promo', Requests) = SumFunctionOnSet(promo, Requests)
      <3> HIDE DEF paid, promo
      <3>1. QED BY <1>1, <2>1, SumSame
    <2> HIDE DEF paid, promo
    <2>3. QED BY <1>2, <1>3, <1>5, <2>2 DEF Untouched
  <1>6. ASSUME NEW r \in Requests, Posts(r)
        PROVE  /\ PaidSum' = PaidSum + (wallet'.paid - wallet.paid)
               /\ PromoSum' = PromoSum + (wallet'.promo - wallet.promo)
    <2>1. \A q \in Requests \ {r} : paid[q] = paid'[q] /\ promo[q] = promo'[q]
      BY <1>6 DEF Posts, NetPaid, NetPromo
    <2>2. /\ wallet'.paid - wallet.paid = paid'[r] - paid[r]
          /\ wallet'.promo - wallet.promo = promo'[r] - promo[r]
      BY <1>6 DEF Posts
    <2> HIDE DEF paid, promo
    <2>3. /\ SumFunctionOnSet(paid', Requests)
               = SumFunctionOnSet(paid, Requests) + (paid'[r] - paid[r])
          /\ SumFunctionOnSet(promo', Requests)
               = SumFunctionOnSet(promo, Requests) + (promo'[r] - promo[r])
      BY <1>1, <1>4, <2>1, SumChange
    <2>4. QED BY <1>2, <2>2, <2>3
  <1>7. QED BY <1>5, <1>6

LEMMA ExplainedBySums ==
    /\ LedgerExplainsWallet <=>
          wallet.paid = InitPaid + PaidSum /\ wallet.promo = InitPromo + PromoSum
    /\ LedgerExplainsWallet' <=>
          wallet'.paid = InitPaid + PaidSum' /\ wallet'.promo = InitPromo + PromoSum'
  BY DEF LedgerExplainsWallet, PaidSum, PromoSum

LEMMA ExplainedStep ==
    ASSUME WalletSafe, WalletSafe', Accounted, LedgerExplainsWallet, [Next]_vars
    PROVE  LedgerExplainsWallet'
  <1>1. TypeOK /\ TypeOK' /\ (Untouched \/ \E r \in Requests : Posts(r))
    BY AccountedStep DEF WalletSafe
  <1>2. /\ wallet.paid \in Int /\ wallet.promo \in Int /\ PaidSum \in Int /\ PromoSum \in Int
        /\ wallet'.paid \in Int /\ wallet'.promo \in Int /\ InitPaid \in Int /\ InitPromo \in Int
    BY <1>1, SumsInt, BillingAssumption DEF TypeOK, Credits
  <1>3. /\ PaidSum' = PaidSum + (wallet'.paid - wallet.paid)
        /\ PromoSum' = PromoSum + (wallet'.promo - wallet.promo)
    BY <1>1, SumsMove
  <1>4. wallet.paid = InitPaid + PaidSum /\ wallet.promo = InitPromo + PromoSum
    BY ExplainedBySums
  <1>5. wallet'.paid = InitPaid + PaidSum' /\ wallet'.promo = InitPromo + PromoSum'
    BY <1>2, <1>3, <1>4
  <1>6. QED BY <1>5, ExplainedBySums

LEMMA ExplainedInit == Init => LedgerExplainsWallet
  <1> SUFFICES ASSUME Init PROVE LedgerExplainsWallet OBVIOUS
  <1> DEFINE paid == [r \in Requests |-> NetPaid(r)]
             promo == [r \in Requests |-> NetPromo(r)]
  <1>1. IsFiniteSet(Requests) BY BillingAssumption
  <1>2. \A r \in Requests : paid[r] = 0 /\ promo[r] = 0
    BY DEF Init, NetPaid, NetPromo, NoRows, NoCredits
  <1>3. SumFunctionOnSet(paid, Requests) = 0 /\ SumFunctionOnSet(promo, Requests) = 0
    <2> HIDE DEF paid, promo
    <2>1. QED BY <1>1, <1>2, SumZero
  <1>4. wallet.paid = InitPaid /\ wallet.promo = InitPromo BY DEF Init
  <1>5. QED BY <1>3, <1>4, BillingAssumption DEF LedgerExplainsWallet, SumFunction

\* With any number of requests and under every fault, the wallet is at all times the
\* initial grant plus the sum of all ledger rows, in each kind of credits.
THEOREM LedgerAlwaysExplains == Spec => []LedgerExplainsWallet
  <1>1. LedgerExplainsWallet /\ Accounted /\ WalletSafe /\ WalletSafe' /\ [Next]_vars
            => LedgerExplainsWallet'
    BY ExplainedStep
  <1>2. QED BY <1>1, ExplainedInit, AlwaysAccounted, AlwaysWalletSafe, PTL DEF Spec

-----------------------------------------------------------------------------
(* The order in which the two kinds of credits are spent and returned *)

\* Only three transactions write the wallet or post rows.
LEMMA Writers ==
    ASSUME [Next]_vars
    PROVE  \/ wallet' = wallet /\ ledger' = ledger
           \/ \E r \in Requests : PostReservation(r) \/ PostCapture(r) \/ Release(r)
  <1>1. ASSUME NEW r \in Requests, Arrive(r) \/ Dispatch(r) \/ Record(r)
        PROVE  wallet' = wallet /\ ledger' = ledger
    BY <1>1 DEF Arrive, Reject, Estimate, Dispatch, UpstreamSucceeds, UpstreamFallsBack,
                UpstreamFails, PricingFails, Record, InsertRow, InsertFails, Respond
  <1>2. ASSUME NEW r \in Requests, Reserve(r)
        PROVE  (wallet' = wallet /\ ledger' = ledger) \/ PostReservation(r)
    BY <1>2 DEF Reserve, ReserveNothing, ReserveLock, ReserveInsufficient, ReserveCommit,
                ReserveCommitUnacked, ReserveFails
  <1>3. ASSUME NEW r \in Requests, Capture(r)
        PROVE  (wallet' = wallet /\ ledger' = ledger) \/ PostCapture(r)
    BY <1>3 DEF Capture, CaptureNothing, CaptureWithoutWallet, CaptureLock,
                CaptureInsufficient, CaptureCommit, CaptureCommitUnacked, CaptureFails
  <1>4. ASSUME NEW r \in Requests, GiveBack(r)
        PROVE  (wallet' = wallet /\ ledger' = ledger) \/ Release(r)
    BY <1>4 DEF GiveBack, ReleaseNothing, ReleaseFails
  <1>5. CASE Crash BY <1>5 DEF Crash
  <1>6. CASE UNCHANGED vars BY <1>6 DEF vars
  <1>7. QED BY <1>1, <1>2, <1>3, <1>4, <1>5, <1>6 DEF Next, Proceed

\* A draw that takes paid credits takes all promotional ones there are.
LEMMA PaidOnlyWhenNoPromo ==
    ASSUME NEW a \in Int, NEW c \in Credits, a >= 0, c.paid >= 0, c.promo >= 0,
           PromoFirst(a, c).paid > 0
    PROVE  PromoFirst(a, c).promo = c.promo
  BY DEF PromoFirst, Smaller, Credits

\* A return that gives promotional credits gives all the paid ones that were taken.
LEMMA PromoOnlyWhenAllPaid ==
    ASSUME NEW a \in Int, NEW c \in Credits, a >= 0, c.paid >= 0, c.promo >= 0,
           PaidFirst(a, c).promo > 0
    PROVE  PaidFirst(a, c).paid = c.paid
  BY DEF PaidFirst, Smaller, Credits

LEMMA ReservationDrawsPromoFirst ==
    ASSUME WalletSafe, NEW r \in Requests, PostReservation(r)
    PROVE  /\ wallet'.paid < wallet.paid => wallet'.promo = 0
           /\ \A q \in Requests : ledger'[q].capture_release = ledger[q].capture_release
  <1> DEFINE h == PromoFirst(due[r], seen[r])
  <1>1. /\ seen[r] = wallet /\ wallet' = Minus(wallet, h)
        /\ ledger' = [ledger EXCEPT ![r].reserve = Negated(h)]
    BY DEF PostReservation, WalletSafe, ReadIsCurrent
  <1>2. /\ wallet \in Credits /\ ledger \in [Requests -> Rows] /\ due[r] \in Int
        /\ due[r] >= 0 /\ wallet.paid >= 0 /\ wallet.promo >= 0
    BY DEF WalletSafe, TypeOK, NoOverspend
  <1>3. h \in Credits BY <1>1, <1>2, SplitTypes
  <1>4. h.paid > 0 => h.promo = wallet.promo BY <1>1, <1>2, PaidOnlyWhenNoPromo
  <1> HIDE DEF h
  <1>5. /\ wallet'.paid = wallet.paid - h.paid /\ wallet'.promo = wallet.promo - h.promo
        /\ wallet.paid \in Int /\ wallet.promo \in Int /\ h.paid \in Int /\ h.promo \in Int
    BY <1>1, <1>2, <1>3 DEF Minus, Credits
  <1>6. wallet'.paid < wallet.paid => wallet'.promo = 0 BY <1>4, <1>5
  <1>7. \A q \in Requests : ledger'[q].capture_release = ledger[q].capture_release
    BY <1>1, <1>2 DEF Rows
  <1>8. QED BY <1>6, <1>7

LEMMA CaptureKeepsPromoForLast ==
    ASSUME WalletSafe, Accounted, NEW r \in Requests, PostCapture(r)
    PROVE  /\ wallet'.paid < wallet.paid => wallet'.promo = 0
           /\ \A q \in Requests :
                 ledger'[q].capture_release.promo > ledger[q].capture_release.promo
                   => NetPaid(q)' = 0
  <1>1. stage[r] = "capturing" BY DEF PostCapture
  <1>2. OnlyReserved(r) BY <1>1 DEF Accounted
  <1>3. /\ seen[r] = wallet /\ wallet.paid >= 0 /\ wallet.promo >= 0
        /\ held[r].paid >= 0 /\ held[r].promo >= 0
    BY <1>1 DEF WalletSafe, NoOverspend, HeldIsNatural, ReadIsCurrent
  <1>4. /\ wallet \in Credits /\ due[r] \in Nat /\ held[r] \in Credits
        /\ Total(held[r]) \in Int /\ ledger \in [Requests -> Rows]
    BY DEF WalletSafe, TypeOK, Total, Credits
  <1>5. \A q \in Requests : ledger[q].capture_release.promo \in Int
    BY <1>4 DEF Rows, Credits
  <1>6. \A q \in Requests \ {r} : ledger'[q] = ledger[q]
    BY CaptureAccounted DEF Posts
  <1>7. CASE ReturnUnused(r)
    <2> DEFINE back == PaidFirst(Total(held[r]) - due[r], held[r])
    <2>1. Total(held[r]) - due[r] \in Int /\ Total(held[r]) - due[r] >= 0
          /\ Total(held[r]) - due[r] <= Total(held[r])
      BY <1>4, <1>7 DEF ReturnUnused
    <2>2. /\ back \in Credits /\ back.paid >= 0
          /\ back.promo > 0 => back.paid = held[r].paid
      BY <1>3, <1>4, <2>1, PaidFirstCovered, PromoOnlyWhenAllPaid, SplitTypes
    <2>3. /\ wallet' = Plus(wallet, back)
          /\ ledger' = [ledger EXCEPT ![r].capture_release = back, ![r].capture = TRUE]
      BY <1>7 DEF ReturnUnused
    <2> HIDE DEF back
    <2>4. wallet'.paid >= wallet.paid BY <1>4, <2>2, <2>3 DEF Plus, Credits
    <2>5. /\ ledger'[r].reserve = Negated(held[r]) /\ ledger'[r].release = NoCredits
          /\ ledger'[r].capture_release = back /\ ledger'[r].capture_extra = NoCredits
          /\ ledger[r].capture_release = NoCredits
      BY <1>2, <1>4, <2>3 DEF OnlyReserved, Rows
    <2>6. NetPaid(r)' = back.paid - held[r].paid
      BY <1>4, <2>2, <2>5 DEF NetPaid, Negated, Minus, NoCredits, Credits
    <2>7. ledger'[r].capture_release.promo > ledger[r].capture_release.promo
            => NetPaid(r)' = 0
      BY <1>4, <2>2, <2>5, <2>6 DEF NoCredits, Credits
    <2>8. wallet.paid \in Int /\ wallet'.paid \in Int
      BY <1>4, <2>2, <2>3 DEF Plus, Credits
    <2>9. QED BY <1>5, <1>6, <2>4, <2>7, <2>8
  <1>8. CASE ChargeAsReserved(r)
    <2>1. wallet' = wallet /\ ledger'[r].capture_release = ledger[r].capture_release
      BY <1>4, <1>8 DEF ChargeAsReserved, Rows
    <2>2. wallet.paid \in Int BY <1>4 DEF Credits
    <2>3. QED BY <1>5, <1>6, <2>1, <2>2
  <1>9. CASE DrawExtra(r)
    <2> DEFINE extra == PromoFirst(due[r] - Total(held[r]), seen[r])
    <2>1. due[r] - Total(held[r]) \in Int /\ due[r] - Total(held[r]) >= 0
      BY <1>4, <1>9 DEF DrawExtra
    <2>2. extra \in Credits /\ (extra.paid > 0 => extra.promo = wallet.promo)
      BY <1>3, <1>4, <2>1, SplitTypes, PaidOnlyWhenNoPromo
    <2>3. /\ wallet' = Minus(wallet, extra)
          /\ ledger' = [ledger EXCEPT ![r].capture_extra = Negated(extra), ![r].capture = TRUE]
      BY <1>9 DEF DrawExtra
    <2> HIDE DEF extra
    <2>4. /\ wallet'.paid = wallet.paid - extra.paid /\ wallet'.promo = wallet.promo - extra.promo
          /\ wallet.paid \in Int /\ wallet.promo \in Int
          /\ extra.paid \in Int /\ extra.promo \in Int
      BY <1>4, <2>2, <2>3 DEF Minus, Credits
    <2>5. wallet'.paid < wallet.paid => wallet'.promo = 0 BY <2>2, <2>4
    <2>6. ledger'[r].capture_release = ledger[r].capture_release
      BY <1>4, <2>3 DEF Rows
    <2>7. QED BY <1>5, <1>6, <2>5, <2>6
  <1>10. QED BY <1>7, <1>8, <1>9 DEF PostCapture

\* No step draws paid credits while promotional ones remain, and no capture returns
\* promotional credits while it charges paid ones: for all charges and balances, and
\* under every fault.
THEOREM PromotionalGoesFirst == Spec => PromotionalFirst
  <1>1. ASSUME Accounted, WalletSafe, [Next]_vars
        PROVE  /\ wallet'.paid < wallet.paid => wallet'.promo = 0
               /\ \A r \in Requests :
                     ledger'[r].capture_release.promo > ledger[r].capture_release.promo
                       => NetPaid(r)' = 0
    <2>1. wallet.paid \in Int /\ wallet.promo \in Int
          /\ \A r \in Requests : ledger[r].capture_release.promo \in Int
      BY <1>1 DEF WalletSafe, TypeOK, Credits, Rows
    <2>2. CASE wallet' = wallet /\ ledger' = ledger BY <2>1, <2>2
    <2>3. ASSUME NEW r \in Requests, PostReservation(r)
          PROVE  /\ wallet'.paid < wallet.paid => wallet'.promo = 0
                 /\ \A q \in Requests : ledger'[q].capture_release = ledger[q].capture_release
      BY <1>1, <2>3, ReservationDrawsPromoFirst
    <2>4. ASSUME NEW r \in Requests, Release(r)
          PROVE  /\ wallet'.paid >= wallet.paid
                 /\ wallet'.paid \in Int
                 /\ \A q \in Requests : ledger'[q].capture_release = ledger[q].capture_release
      BY <1>1, <2>4 DEF Release, Plus, WalletSafe, HeldIsNatural, TypeOK, Credits, Rows
    <2>5. QED BY <1>1, <2>1, <2>2, <2>3, <2>4, Writers, CaptureKeepsPromoForLast
  <1>2. QED BY <1>1, AlwaysAccounted, AlwaysWalletSafe, PTL DEF Spec, PromotionalFirst

-----------------------------------------------------------------------------
(* No request adds credits, if no acknowledgement of a COMMIT is lost: what is returned *)
(* by a release is a reservation of which nothing was returned before                   *)

UnwindsReserved == \A r \in Requests : stage[r] = "unwinding" => OnlyReserved(r)

Mintless == NoRequestMintsCredits /\ UnwindsReserved

LEMMA MintlessInit == Init => Mintless
  BY DEF Init, Mintless, NoRequestMintsCredits, UnwindsReserved, NetPaid, NetPromo, NoRows,
         NoCredits

\* Who unwinds has posted nothing on the way there.
LEMMA UnwindsUnposted ==
    ASSUME TypeOK, "ack" \notin Faults, [Next]_vars, NEW q \in Requests,
           stage'[q] = "unwinding"
    PROVE  /\ ledger'[q] = ledger[q] /\ held'[q] = held[q]
           /\ stage[q] \in {"dispatched", "priced", "capturing", "unwinding"}
  <1> USE DEF TypeOK, Goto, Answer, Finish, Unwind, Captured, handlerVars
  <1>1. ASSUME NEW r \in Requests, Arrive(r) \/ Dispatch(r) \/ Record(r)
        PROVE  /\ ledger'[q] = ledger[q] /\ held'[q] = held[q]
               /\ stage[q] \in {"dispatched", "priced", "capturing", "unwinding"}
    BY <1>1 DEF Arrive, Reject, Estimate, Dispatch, UpstreamSucceeds, UpstreamFallsBack,
                UpstreamFails, PricingFails, Record, InsertRow, InsertFails, Respond
  <1>2. ASSUME NEW r \in Requests, Reserve(r)
        PROVE  /\ ledger'[q] = ledger[q] /\ held'[q] = held[q]
               /\ stage[q] \in {"dispatched", "priced", "capturing", "unwinding"}
    BY <1>2 DEF Reserve, ReserveNothing, ReserveLock, ReserveInsufficient, ReserveCommit,
                ReserveCommitUnacked, ReserveFails, PostReservation
  <1>3. ASSUME NEW r \in Requests, Capture(r)
        PROVE  /\ ledger'[q] = ledger[q] /\ held'[q] = held[q]
               /\ stage[q] \in {"dispatched", "priced", "capturing", "unwinding"}
    BY <1>3 DEF Capture, CaptureNothing, CaptureWithoutWallet, CaptureLock,
                CaptureInsufficient, CaptureCommit, CaptureCommitUnacked, CaptureFails,
                PostCapture, ReturnUnused, ChargeAsReserved, DrawExtra
  <1>4. ASSUME NEW r \in Requests, GiveBack(r)
        PROVE  /\ ledger'[q] = ledger[q] /\ held'[q] = held[q]
               /\ stage[q] \in {"dispatched", "priced", "capturing", "unwinding"}
    BY <1>4 DEF GiveBack, ReleaseNothing, Release, ReleaseFails
  <1>5. CASE Crash BY <1>5 DEF Crash
  <1>6. CASE UNCHANGED vars BY <1>6 DEF vars
  <1>7. QED BY <1>1, <1>2, <1>3, <1>4, <1>5, <1>6 DEF Next, Proceed

LEMMA ReservationTakes ==
    ASSUME WalletSafe, Accounted, NEW r \in Requests, PostReservation(r)
    PROVE  NetPaid(r)' <= 0 /\ NetPromo(r)' <= 0
  <1> DEFINE h == PromoFirst(due[r], seen[r])
  <1>1. /\ seen[r] \in Credits /\ seen[r].paid >= 0 /\ seen[r].promo >= 0
        /\ due[r] \in Int /\ due[r] >= 0 /\ Total(seen[r]) >= due[r]
    BY DEF PostReservation, WalletSafe, TypeOK, ReadIsCurrent, NoOverspend
  <1>2. h \in Credits /\ h.paid >= 0 /\ h.promo >= 0
    BY <1>1, PromoFirstCovered, SplitTypes DEF Credits
  <1>3. ledger'[r] = [NoRows EXCEPT !.reserve = Negated(h)]
    BY ReservationAccounted DEF WalletSafe
  <1> HIDE DEF h
  <1>4. NetPaid(r)' = -h.paid /\ NetPromo(r)' = -h.promo
    BY <1>2, <1>3 DEF NetPaid, NetPromo, NoRows, NoCredits, Negated, Minus, Credits
  <1>5. QED BY <1>2, <1>4 DEF Credits

LEMMA CaptureTakes ==
    ASSUME WalletSafe, Accounted, NEW r \in Requests, PostCapture(r)
    PROVE  NetPaid(r)' <= 0 /\ NetPromo(r)' <= 0
  <1>1. stage[r] = "capturing" BY DEF PostCapture
  <1>2. OnlyReserved(r) BY <1>1 DEF Accounted
  <1>3. /\ seen[r] = wallet /\ wallet.paid >= 0 /\ wallet.promo >= 0
        /\ held[r].paid >= 0 /\ held[r].promo >= 0
    BY <1>1 DEF WalletSafe, NoOverspend, HeldIsNatural, ReadIsCurrent
  <1>4. /\ wallet \in Credits /\ due[r] \in Nat /\ held[r] \in Credits
        /\ Total(held[r]) \in Int /\ ledger \in [Requests -> Rows]
    BY DEF WalletSafe, TypeOK, Total, Credits
  <1>5. /\ ledger[r].reserve = Negated(held[r]) /\ ledger[r].release = NoCredits
        /\ ledger[r].capture_release = NoCredits /\ ledger[r].capture_extra = NoCredits
    BY <1>2 DEF OnlyReserved
  <1>6. CASE ReturnUnused(r)
    <2> DEFINE back == PaidFirst(Total(held[r]) - due[r], held[r])
    <2>1. Total(held[r]) - due[r] \in Int /\ Total(held[r]) - due[r] >= 0
          /\ Total(held[r]) - due[r] <= Total(held[r])
      BY <1>4, <1>6 DEF ReturnUnused
    <2>2. back \in Credits /\ back.paid <= held[r].paid /\ back.promo <= held[r].promo
      BY <1>3, <1>4, <2>1, PaidFirstCovered, SplitTypes DEF Credits
    <2>3. ledger' = [ledger EXCEPT ![r].capture_release = back, ![r].capture = TRUE]
      BY <1>6 DEF ReturnUnused
    <2> HIDE DEF back
    <2>4. /\ ledger'[r].reserve = Negated(held[r]) /\ ledger'[r].release = NoCredits
          /\ ledger'[r].capture_release = back /\ ledger'[r].capture_extra = NoCredits
      BY <1>4, <1>5, <2>3 DEF Rows
    <2>5. NetPaid(r)' = back.paid - held[r].paid /\ NetPromo(r)' = back.promo - held[r].promo
      BY <1>4, <2>2, <2>4 DEF NetPaid, NetPromo, Negated, Minus, NoCredits, Credits
    <2>6. QED BY <1>4, <2>2, <2>5 DEF Credits
  <1>7. CASE ChargeAsReserved(r)
    <2>1. /\ ledger'[r].reserve = Negated(held[r]) /\ ledger'[r].release = NoCredits
          /\ ledger'[r].capture_release = NoCredits /\ ledger'[r].capture_extra = NoCredits
      BY <1>4, <1>5, <1>7 DEF Rows, ChargeAsReserved
    <2>2. NetPaid(r)' = -held[r].paid /\ NetPromo(r)' = -held[r].promo
      BY <1>4, <2>1 DEF NetPaid, NetPromo, Negated, Minus, NoCredits, Credits
    <2>3. QED BY <1>3, <1>4, <2>2 DEF Credits
  <1>8. CASE DrawExtra(r)
    <2> DEFINE extra == PromoFirst(due[r] - Total(held[r]), seen[r])
    <2>1. due[r] - Total(held[r]) \in Int /\ due[r] - Total(held[r]) >= 0
          /\ Total(seen[r]) >= due[r] - Total(held[r])
      BY <1>4, <1>8 DEF DrawExtra
    <2>2. extra \in Credits /\ extra.paid >= 0 /\ extra.promo >= 0
      BY <1>3, <1>4, <2>1, PromoFirstCovered, SplitTypes DEF Credits
    <2>3. ledger' = [ledger EXCEPT ![r].capture_extra = Negated(extra), ![r].capture = TRUE]
      BY <1>8 DEF DrawExtra
    <2> HIDE DEF extra
    <2>4. /\ ledger'[r].reserve = Negated(held[r]) /\ ledger'[r].release = NoCredits
          /\ ledger'[r].capture_release = NoCredits
          /\ ledger'[r].capture_extra = Negated(extra)
      BY <1>4, <1>5, <2>3 DEF Rows
    <2>5. NetPaid(r)' = -held[r].paid - extra.paid /\ NetPromo(r)' = -held[r].promo - extra.promo
      BY <1>4, <2>2, <2>4 DEF NetPaid, NetPromo, Negated, Minus, NoCredits, Credits
    <2>6. QED BY <1>3, <1>4, <2>2, <2>5 DEF Credits
  <1>9. QED BY <1>6, <1>7, <1>8 DEF PostCapture

LEMMA ReleaseTakes ==
    ASSUME TypeOK, UnwindsReserved, NEW r \in Requests, Release(r)
    PROVE  NetPaid(r)' <= 0 /\ NetPromo(r)' <= 0
  <1>1. stage[r] = "unwinding" /\ ledger' = [ledger EXCEPT ![r].release = held[r]]
    BY DEF Release
  <1>2. OnlyReserved(r) BY <1>1 DEF UnwindsReserved
  <1>3. held[r] \in Credits /\ ledger \in [Requests -> Rows] BY DEF TypeOK
  <1>4. /\ ledger'[r].reserve = Negated(held[r]) /\ ledger'[r].release = held[r]
        /\ ledger'[r].capture_release = NoCredits /\ ledger'[r].capture_extra = NoCredits
    BY <1>1, <1>2, <1>3 DEF OnlyReserved, Rows
  <1>5. QED BY <1>3, <1>4 DEF NetPaid, NetPromo, Negated, Minus, NoCredits, Credits

LEMMA MintlessStep ==
    ASSUME WalletSafe, Accounted, Mintless, "ack" \notin Faults, [Next]_vars
    PROVE  Mintless'
  <1>t. TypeOK BY DEF WalletSafe
  <1>1. UnwindsReserved'
    <2> SUFFICES ASSUME NEW q \in Requests, stage'[q] = "unwinding" PROVE OnlyReserved(q)'
      BY DEF UnwindsReserved
    <2>1. /\ ledger'[q] = ledger[q] /\ held'[q] = held[q]
          /\ stage[q] \in {"dispatched", "priced", "capturing", "unwinding"}
      BY <1>t, UnwindsUnposted
    <2>2. OnlyReserved(q) BY <2>1 DEF Accounted, Mintless, UnwindsReserved
    <2>3. QED BY <2>1, <2>2 DEF OnlyReserved
  <1>2. CASE ledger' = ledger
    <2>1. NoRequestMintsCredits'
      BY <1>2 DEF Mintless, NoRequestMintsCredits, NetPaid, NetPromo
    <2>2. QED BY <1>1, <2>1 DEF Mintless
  <1>3. ASSUME NEW r \in Requests, PostReservation(r) \/ PostCapture(r) \/ Release(r)
        PROVE  Mintless'
    <2>1. NetPaid(r)' <= 0 /\ NetPromo(r)' <= 0
      BY <1>t, <1>3, ReservationTakes, CaptureTakes, ReleaseTakes DEF Mintless
    <2>2. \A q \in Requests \ {r} : ledger'[q] = ledger[q]
      BY <1>t, <1>3, ReservationAccounted, CaptureAccounted, ReleaseAccounted DEF Posts
    <2>3. \A q \in Requests \ {r} : NetPaid(q)' <= 0 /\ NetPromo(q)' <= 0
      BY <2>2 DEF Mintless, NoRequestMintsCredits, NetPaid, NetPromo
    <2>4. NoRequestMintsCredits' BY <2>1, <2>3 DEF NoRequestMintsCredits
    <2>5. QED BY <1>1, <2>4 DEF Mintless
  <1>4. QED BY <1>2, <1>3, Writers

\* If no acknowledgement is lost, no request adds credits of either kind to the wallet, in any
\* state, whatever else fails: every return is of what the same request took.
THEOREM RequestsMintNothing ==
    ASSUME "ack" \notin Faults
    PROVE  Spec => []NoRequestMintsCredits
  <1>1. Mintless => NoRequestMintsCredits BY DEF Mintless
  <1>2. Mintless /\ WalletSafe /\ Accounted /\ [Next]_vars => Mintless' BY MintlessStep
  <1>3. QED BY <1>1, <1>2, MintlessInit, AlwaysAccounted, AlwaysWalletSafe, PTL DEF Spec

-----------------------------------------------------------------------------
(* What the client is told *)

\* A step of r that tells nothing and does not capture.
LEMMA SilentStep ==
    ASSUME TypeOK, AnsweredOnce, NEW r \in Requests,
           NEW s \in Stages \ {"unwinding", "done", "crashed"},
           stage[r] \notin {"unwinding", "done", "crashed"},
           captured'[r] <=> s = "recording",
           stage' = [stage EXCEPT ![r] = s], reply' = reply,
           \A q \in Requests \ {r} : captured'[q] = captured[q],
           \A q \in Requests : rows[q] \subseteq rows'[q]
    PROVE  AnsweredOnce'
  BY DEF TypeOK, AnsweredOnce, Stages

\* A step of r that writes its answer, or one that ends it after its answer.
LEMMA TellingStep ==
    ASSUME TypeOK, AnsweredOnce, NEW r \in Requests, NEW s \in {"unwinding", "done"},
           stage' = [stage EXCEPT ![r] = s], rows' = rows, captured' = captured,
           reply' = [reply EXCEPT ![r] = reply'[r]],
           s = "unwinding" => reply'[r] \in {"402", "500", "502"} /\ ~captured[r],
           s = "done" => reply'[r] \in IF captured[r] THEN {"500", "ok"}
                                       ELSE {"refused", "402", "500", "502"},
           reply'[r] = "ok" => "usage" \in rows[r]
    PROVE  AnsweredOnce'
  BY DEF TypeOK, AnsweredOnce

LEMMA AnsweredInit == Init => AnsweredOnce
  BY DEF Init, AnsweredOnce

LEMMA AnsweredStep ==
    ASSUME TypeOK, AnsweredOnce, [Next]_vars
    PROVE  AnsweredOnce'
  <1> USE DEF Goto, Answer, Finish, Unwind, Captured, handlerVars, Stages
  <1>1. ASSUME NEW r \in Requests, Arrive(r)
        PROVE  AnsweredOnce'
    <2>0. stage[r] = "idle" /\ ~captured[r] BY <1>1 DEF Arrive, Reject, Estimate, AnsweredOnce
    <2>1. CASE Reject(r) BY <2>0, <2>1, TellingStep DEF Reject, TypeOK
    <2>2. CASE Estimate(r) BY <2>0, <2>2, SilentStep DEF Estimate
    <2>3. QED BY <1>1, <2>1, <2>2 DEF Arrive
  <1>2. ASSUME NEW r \in Requests, Reserve(r)
        PROVE  AnsweredOnce'
    <2>0. stage[r] \in {"estimated", "reserving"} /\ ~captured[r]
      BY <1>2 DEF Reserve, ReserveNothing, ReserveLock, ReserveInsufficient, ReserveCommit,
                  ReserveCommitUnacked, PostReservation, ReserveFails, AnsweredOnce
    <2>1. CASE ReserveNothing(r) BY <2>0, <2>1, SilentStep DEF ReserveNothing
    <2>2. CASE ReserveLock(r) BY <2>0, <2>2, SilentStep DEF ReserveLock
    <2>3. CASE ReserveCommit(r) BY <2>0, <2>3, SilentStep DEF ReserveCommit
    <2>4. CASE ReserveInsufficient(r)
      BY <2>0, <2>4, TellingStep DEF ReserveInsufficient, TypeOK
    <2>5. CASE ReserveCommitUnacked(r)
      BY <2>0, <2>5, TellingStep DEF ReserveCommitUnacked, TypeOK
    <2>6. CASE ReserveFails(r) BY <2>0, <2>6, TellingStep DEF ReserveFails, TypeOK
    <2>7. QED BY <1>2, <2>1, <2>2, <2>3, <2>4, <2>5, <2>6 DEF Reserve
  <1>3. ASSUME NEW r \in Requests, Dispatch(r)
        PROVE  AnsweredOnce'
    <2>0. stage[r] = "dispatched" /\ ~captured[r]
      BY <1>3 DEF Dispatch, UpstreamSucceeds, UpstreamFallsBack, UpstreamFails, PricingFails,
                  AnsweredOnce
    <2>1. CASE UpstreamSucceeds(r) BY <2>0, <2>1, SilentStep DEF UpstreamSucceeds
    <2>2. CASE UpstreamFallsBack(r) BY <2>2 DEF UpstreamFallsBack, AnsweredOnce
    <2>3. CASE UpstreamFails(r) BY <2>0, <2>3, TellingStep DEF UpstreamFails, TypeOK
    <2>4. CASE PricingFails(r) BY <2>0, <2>4, TellingStep DEF PricingFails, TypeOK
    <2>5. QED BY <1>3, <2>1, <2>2, <2>3, <2>4 DEF Dispatch
  <1>4. ASSUME NEW r \in Requests, Capture(r)
        PROVE  AnsweredOnce'
    <2>0. stage[r] \in {"priced", "capturing"} /\ ~captured[r]
      BY <1>4 DEF Capture, CaptureNothing, CaptureWithoutWallet, CaptureLock,
                  CaptureInsufficient, CaptureCommit, CaptureCommitUnacked, PostCapture,
                  CaptureFails, AnsweredOnce
    <2>1. CASE CaptureNothing(r)
      <3>1. captured'[r] /\ \A q \in Requests \ {r} : captured'[q] = captured[q]
        BY <2>1 DEF CaptureNothing, TypeOK
      <3>2. QED BY <2>0, <2>1, <3>1, SilentStep DEF CaptureNothing
    <2>2. CASE CaptureLock(r) BY <2>0, <2>2, SilentStep DEF CaptureLock
    <2>3. CASE CaptureCommit(r)
      <3>1. captured'[r] /\ \A q \in Requests \ {r} : captured'[q] = captured[q]
        BY <2>3 DEF CaptureCommit, TypeOK
      <3>2. QED BY <2>0, <2>3, <3>1, SilentStep DEF CaptureCommit
    <2>4. CASE CaptureWithoutWallet(r)
      BY <2>0, <2>4, TellingStep DEF CaptureWithoutWallet, TypeOK
    <2>5. CASE CaptureInsufficient(r)
      BY <2>0, <2>5, TellingStep DEF CaptureInsufficient, TypeOK
    <2>6. CASE CaptureCommitUnacked(r)
      BY <2>0, <2>6, TellingStep DEF CaptureCommitUnacked, TypeOK
    <2>7. CASE CaptureFails(r) BY <2>0, <2>7, TellingStep DEF CaptureFails, TypeOK
    <2>8. QED BY <1>4, <2>1, <2>2, <2>3, <2>4, <2>5, <2>6, <2>7 DEF Capture
  <1>5. ASSUME NEW r \in Requests, GiveBack(r)
        PROVE  AnsweredOnce'
    <2>1. /\ stage[r] = "unwinding" /\ stage' = [stage EXCEPT ![r] = "done"]
          /\ rows' = rows /\ captured' = captured /\ reply' = reply
      BY <1>5 DEF GiveBack, ReleaseNothing, Release, ReleaseFails
    <2>2. reply[r] \in {"402", "500", "502"} /\ ~captured[r] BY <2>1 DEF AnsweredOnce
    <2>3. QED BY <2>1, <2>2, TellingStep DEF TypeOK
  <1>6. ASSUME NEW r \in Requests, Record(r)
        PROVE  AnsweredOnce'
    <2>0. stage[r] = "recording" BY <1>6 DEF Record, InsertRow, InsertFails, Respond
    <2>1. CASE InsertRow(r)
      <3>1. \A q \in Requests : rows[q] \subseteq rows'[q] BY <2>1 DEF InsertRow, TypeOK
      <3>2. QED BY <2>1, <3>1 DEF InsertRow, AnsweredOnce
    <2>2. captured[r] BY <2>0 DEF AnsweredOnce
    <2>3. CASE InsertFails(r) BY <2>2, <2>3, TellingStep DEF InsertFails, TypeOK
    <2>4. CASE Respond(r)
      <3>1. "usage" \in rows[r] BY <2>4 DEF Respond, RowsNeeded
      <3>2. QED BY <2>2, <2>4, <3>1, TellingStep DEF Respond, TypeOK
    <2>5. QED BY <1>6, <2>1, <2>3, <2>4 DEF Record
  <1>7. CASE Crash BY <1>7 DEF Crash, InFlight, AnsweredOnce
  <1>8. CASE UNCHANGED vars BY <1>8 DEF vars, AnsweredOnce
  <1>9. QED BY <1>1, <1>2, <1>3, <1>4, <1>5, <1>6, <1>7, <1>8 DEF Next, Proceed

\* Without a lost acknowledgement or a failing release, and even if servers stop, a
\* client told 402 or 502 was charged nothing, and one told "ok" was charged exactly its
\* final charge and its usage is recorded.
THEOREM AnswersAreTrue ==
    ASSUME Faults \cap {"ack", "release"} = {}
    PROVE  Spec => []AnswerMatchesCharge
  <1>1. BooksMatch /\ AnsweredOnce => AnswerMatchesCharge
    BY DEF BooksMatch, AnsweredOnce, AnswerMatchesCharge
  <1>2. BooksMatch /\ WalletSafe /\ [Next]_vars => BooksMatch' BY BooksStep
  <1>3. TypeOK /\ AnsweredOnce /\ [Next]_vars => AnsweredOnce'
    BY AnsweredStep
  <1>4. QED
    BY <1>1, <1>2, <1>3, BooksInit, AnsweredInit, AlwaysWalletSafe, TypeCorrect, PTL DEF Spec

-----------------------------------------------------------------------------
(***************************************************************************)
(* The abstract account, step by step.  Without faults every transaction   *)
(* of the handlers is one operation of CreditAccount, or none: a request's *)
(* hold and phase there (the substitution of Account) depend on nothing    *)
(* but its own stage, reservation and reservationCaptured.                 *)
(***************************************************************************)

HoldOf(r) ==
    IF stage[r] \in {"dispatched", "priced", "capturing", "unwinding"}
    THEN Total(held[r]) ELSE 0
PhaseOf(r) ==
    CASE stage[r] \in {"idle", "estimated", "reserving"} -> "new"
      [] captured[r] -> "settled"
      [] ~captured[r] /\ stage[r] = "done" -> "closed"
      [] OTHER -> "held"

Holding == [r \in Requests |-> HoldOf(r)]
Phase == [r \in Requests |-> PhaseOf(r)]

\* Nothing but r moves.
OnlyMoves(r) ==
    \A q \in Requests \ {r} :
        stage'[q] = stage[q] /\ held'[q] = held[q] /\ captured'[q] = captured[q]

LEMMA SeenMoves ==
    ASSUME NEW r \in Requests, OnlyMoves(r)
    PROVE  /\ Holding' = [Holding EXCEPT ![r] = Holding'[r]]
           /\ Phase' = [Phase EXCEPT ![r] = Phase'[r]]
  <1>1. \A q \in Requests \ {r} : HoldOf(q)' = HoldOf(q) /\ PhaseOf(q)' = PhaseOf(q)
    BY DEF OnlyMoves, HoldOf, PhaseOf
  <1>2. QED BY <1>1 DEF Holding, Phase

\* What each group of stages is to the account.
LEMMA SeenAs ==
    ASSUME NEW r \in Requests, BooksMatch
    PROVE  /\ stage[r] \in {"idle", "estimated", "reserving"} =>
                 Holding[r] = 0 /\ Phase[r] = "new"
           /\ stage[r] \in {"dispatched", "priced", "capturing", "unwinding"} =>
                 Holding[r] = Total(held[r]) /\ Phase[r] = "held"
           /\ stage[r] = "recording" => Holding[r] = 0 /\ Phase[r] = "settled"
           /\ stage[r] = "done" =>
                 Holding[r] = 0 /\ Phase[r] = IF captured[r] THEN "settled" ELSE "closed"
  BY DEF Holding, Phase, HoldOf, PhaseOf, BooksMatch, OpenStages

LEMMA SeenAsNext ==
    ASSUME NEW r \in Requests, BooksMatch'
    PROVE  /\ stage'[r] \in {"idle", "estimated", "reserving"} =>
                 Holding'[r] = 0 /\ Phase'[r] = "new"
           /\ stage'[r] \in {"dispatched", "priced", "capturing", "unwinding"} =>
                 Holding'[r] = Total(held'[r]) /\ Phase'[r] = "held"
           /\ stage'[r] = "recording" => Holding'[r] = 0 /\ Phase'[r] = "settled"
           /\ stage'[r] = "done" =>
                 Holding'[r] = 0 /\ Phase'[r] = IF captured'[r] THEN "settled" ELSE "closed"
  BY DEF Holding, Phase, HoldOf, PhaseOf, BooksMatch, OpenStages

Shown == <<Total(wallet), Holding, Phase>>

\* The account's operations, in terms of what it shows of this module's state.
LEMMA AccountStutter ==
    ASSUME NEW r \in Requests, OnlyMoves(r), wallet' = wallet,
           Holding'[r] = Holding[r], Phase'[r] = Phase[r]
    PROVE  Shown' = Shown
  <1>1. /\ Holding' = [Holding EXCEPT ![r] = Holding[r]]
        /\ Phase' = [Phase EXCEPT ![r] = Phase[r]]
    BY SeenMoves
  <1>2. [Holding EXCEPT ![r] = Holding[r]] = Holding BY DEF Holding
  <1>3. [Phase EXCEPT ![r] = Phase[r]] = Phase BY DEF Phase
  <1>4. Total(wallet)' = Total(wallet) BY DEF Total
  <1>5. QED BY <1>1, <1>2, <1>3, <1>4 DEF Shown

LEMMA AccountRefuse ==
    ASSUME NEW r \in Requests, OnlyMoves(r), wallet' = wallet,
           Phase[r] = "new", Phase'[r] = "closed", Holding'[r] = Holding[r]
    PROVE  Account!Next
  <1>1. /\ Holding' = [Holding EXCEPT ![r] = Holding[r]]
        /\ Phase' = [Phase EXCEPT ![r] = "closed"]
    BY SeenMoves
  <1>2. [Holding EXCEPT ![r] = Holding[r]] = Holding BY DEF Holding
  <1>3. Total(wallet)' = Total(wallet) BY DEF Total
  <1>4. Account!Refuse(r) BY <1>1, <1>2, <1>3 DEF Account!Refuse, Holding, Phase, HoldOf, PhaseOf
  <1>5. QED BY <1>4 DEF Account!Next

LEMMA AccountHold ==
    ASSUME NEW r \in Requests, OnlyMoves(r), Phase[r] = "new", Phase'[r] = "held",
           Holding'[r] \in 0..Total(wallet),
           Total(wallet') = Total(wallet) - Holding'[r]
    PROVE  Account!Next
  <1>0. PICK n \in 0..Total(wallet) : n = Holding'[r] OBVIOUS
  <1>1. Holding' = [Holding EXCEPT ![r] = n] /\ Phase' = [Phase EXCEPT ![r] = "held"]
    BY <1>0, SeenMoves
  <1>2. Total(wallet)' = Total(wallet) - n
    BY <1>0 DEF Total
  <1>3. Account!Hold(r, n) BY <1>1, <1>2 DEF Account!Hold, Holding, Phase, HoldOf, PhaseOf
  <1>4. \E m \in 0..Total(wallet) : Account!Hold(r, m) BY <1>3
  <1>5. QED BY <1>4, Zenon DEF Account!Next

LEMMA AccountCancel ==
    ASSUME NEW r \in Requests, OnlyMoves(r), Phase[r] = "held", Phase'[r] = "closed",
           Holding'[r] = 0, Total(wallet') = Total(wallet) + Holding[r]
    PROVE  Account!Next
  <1>1. Holding' = [Holding EXCEPT ![r] = 0] /\ Phase' = [Phase EXCEPT ![r] = "closed"]
    BY SeenMoves
  <1>2. Total(wallet)' = Total(wallet) + Holding[r] BY DEF Total
  <1>3. Account!Cancel(r) BY <1>1, <1>2 DEF Account!Cancel, Holding, Phase, HoldOf, PhaseOf
  <1>4. QED BY <1>3 DEF Account!Next

LEMMA AccountSettle ==
    ASSUME NEW r \in Requests, OnlyMoves(r), Phase[r] = "held", Phase'[r] = "settled",
           NEW c \in 0..(Total(wallet) + Holding[r]),
           Holding'[r] = 0, Total(wallet') = Total(wallet) + Holding[r] - c
    PROVE  Account!Next
  <1>1. Holding' = [Holding EXCEPT ![r] = 0] /\ Phase' = [Phase EXCEPT ![r] = "settled"]
    BY SeenMoves
  <1>2. Total(wallet)' = Total(wallet) + Holding[r] - c BY DEF Total
  <1>3. Account!Settle(r, c) BY <1>1, <1>2 DEF Account!Settle, Holding, Phase, HoldOf, PhaseOf
  <1>4. \E charge \in 0..(Total(wallet) + Holding[r]) : Account!Settle(r, charge) BY <1>3
  <1>5. QED BY <1>4, Zenon DEF Account!Next, Holding, HoldOf

\* Every step of a handler is a step of the account, or none.
LEMMA AccountStep ==
    ASSUME Faults = {}, WalletSafe, WalletSafe', BooksMatch, BooksMatch', Accounted,
           NEW r \in Requests, Arrive(r) \/ Proceed(r)
    PROVE  Account!Next \/ Shown' = Shown
  <1> USE DEF Goto, Answer, Finish, Unwind, Captured, handlerVars
  <1>t. /\ TypeOK /\ Total(wallet) \in Int /\ Total(wallet) >= 0
        /\ wallet \in Credits /\ held[r] \in Credits /\ due[r] \in Nat
        /\ Total(held[r]) \in Int /\ Total(held[r]) >= 0
    BY DEF WalletSafe, TypeOK, NoOverspend, HeldIsNatural, Total, Credits
  <1>t1. /\ wallet' \in Credits /\ Total(wallet') \in Int /\ Total(wallet') >= 0
    BY DEF WalletSafe, TypeOK, NoOverspend, Total, Credits
  <1>n. Total(NoCredits) = 0 BY DEF Total, NoCredits
  <1>1. CASE Arrive(r) \/ ReserveLock(r) \/ ReserveInsufficient(r) \/ ReserveFails(r)
    <2>1. OnlyMoves(r)
      BY <1>t, <1>1 DEF Arrive, Reject, Estimate, ReserveLock, ReserveInsufficient,
                        ReserveFails, OnlyMoves, TypeOK
    <2>2. /\ stage[r] \in {"idle", "estimated", "reserving"} /\ wallet' = wallet
          /\ stage'[r] \in {"estimated", "reserving"} \/ (stage'[r] = "done" /\ ~captured'[r])
      BY <1>t, <1>1 DEF Arrive, Reject, Estimate, ReserveLock, ReserveInsufficient,
                        ReserveFails, BooksMatch, OpenStages, TypeOK
    <2>3. /\ Holding[r] = 0 /\ Phase[r] = "new" /\ Holding'[r] = 0
          /\ Phase'[r] \in {"new", "closed"}
      BY <2>2, SeenAs, SeenAsNext
    <2>4. QED BY <2>1, <2>2, <2>3, AccountRefuse, AccountStutter
  <1>2. CASE ReserveNothing(r)
    <2>1. OnlyMoves(r) BY <1>t, <1>2 DEF ReserveNothing, OnlyMoves, TypeOK
    <2>2. /\ stage[r] = "estimated" /\ wallet' = wallet /\ stage'[r] = "dispatched"
          /\ held'[r] = NoCredits
      BY <1>t, <1>2 DEF ReserveNothing, BooksMatch, TypeOK
    <2>3. Phase[r] = "new" /\ Holding'[r] = 0 /\ Phase'[r] = "held"
      BY <1>n, <2>2, SeenAs, SeenAsNext
    <2>4. QED BY <1>t, <2>1, <2>2, <2>3, AccountHold
  <1>3. CASE ReserveCommit(r)
    <2> DEFINE h == PromoFirst(due[r], seen[r])
    <2>1. /\ stage[r] = "reserving" /\ Total(seen[r]) >= due[r]
          /\ wallet' = Minus(wallet, h) /\ held' = [held EXCEPT ![r] = h]
          /\ stage' = [stage EXCEPT ![r] = "dispatched"] /\ captured' = captured
      BY <1>3 DEF ReserveCommit, PostReservation
    <2>2. OnlyMoves(r) BY <1>t, <2>1 DEF OnlyMoves, TypeOK
    <2>3. seen[r] = wallet /\ wallet.paid >= 0 /\ wallet.promo >= 0
      BY <2>1 DEF WalletSafe, ReadIsCurrent, NoOverspend
    <2>4. h \in Credits /\ Total(h) = due[r] /\ due[r] \in 0..Total(wallet)
      BY <1>t, <2>1, <2>3, SplitTypes, PromoFirstCovered
    <2> HIDE DEF h
    <2>5. held'[r] = h /\ stage'[r] = "dispatched" BY <1>t, <2>1 DEF TypeOK
    <2>6. Total(wallet') = Total(wallet) - due[r]
      BY <1>t, <2>1, <2>4 DEF Total, Minus, Credits
    <2>7. Phase[r] = "new" /\ Phase'[r] = "held" /\ Holding'[r] = due[r]
      BY <2>1, <2>4, <2>5, SeenAs, SeenAsNext
    <2>8. QED BY <2>2, <2>4, <2>6, <2>7, AccountHold
  <1>4. CASE Dispatch(r) \/ CaptureWithoutWallet(r) \/ CaptureLock(r)
             \/ CaptureInsufficient(r) \/ CaptureFails(r)
    <2>1. OnlyMoves(r)
      BY <1>t, <1>4 DEF Dispatch, UpstreamSucceeds, UpstreamFallsBack, UpstreamFails,
                        PricingFails, CaptureWithoutWallet, CaptureLock,
                        CaptureInsufficient, CaptureFails, OnlyMoves, TypeOK
    <2>2. /\ stage[r] \in {"dispatched", "priced", "capturing"} /\ wallet' = wallet
          /\ stage'[r] \in {"dispatched", "priced", "capturing", "unwinding"}
          /\ held'[r] = held[r]
      BY <1>t, <1>4 DEF Dispatch, UpstreamSucceeds, UpstreamFallsBack, UpstreamFails,
                        PricingFails, CaptureWithoutWallet, CaptureLock,
                        CaptureInsufficient, CaptureFails, TypeOK
    <2>3. Holding'[r] = Holding[r] /\ Phase'[r] = Phase[r]
      BY <2>2, SeenAs, SeenAsNext
    <2>4. QED BY <2>1, <2>2, <2>3, AccountStutter
  <1>5. CASE CaptureNothing(r)
    <2>1. OnlyMoves(r) BY <1>t, <1>5 DEF CaptureNothing, OnlyMoves, TypeOK
    <2>2. /\ stage[r] = "priced" /\ Total(held[r]) = 0 /\ wallet' = wallet
          /\ stage'[r] = "recording"
      BY <1>t, <1>5 DEF CaptureNothing, TypeOK
    <2>3. /\ Holding[r] = 0 /\ Phase[r] = "held"
          /\ Holding'[r] = 0 /\ Phase'[r] = "settled"
      BY <2>2, SeenAs, SeenAsNext
    <2>4. 0 \in 0..(Total(wallet) + Holding[r])
          /\ Total(wallet') = Total(wallet) + Holding[r] - 0
      BY <1>t, <2>2, <2>3
    <2>5. QED BY <2>1, <2>3, <2>4, AccountSettle
  <1>6. CASE CaptureCommit(r)
    <2>1. /\ PostCapture(r) /\ stage[r] = "capturing" /\ held' = held
          /\ stage' = [stage EXCEPT ![r] = "recording"]
          /\ captured' = [captured EXCEPT ![r] = TRUE]
      BY <1>6 DEF CaptureCommit, PostCapture
    <2>2. OnlyMoves(r) BY <1>t, <2>1 DEF OnlyMoves, TypeOK
    <2>3. Posts(r) /\ NetPaid(r)' + NetPromo(r)' = -due[r] BY <2>1, CaptureAccounted
    <2>4. OnlyReserved(r) BY <2>1 DEF Accounted
    <2>5. /\ NetPaid(r) \in Int /\ NetPromo(r) \in Int
          /\ NetPaid(r) + NetPromo(r) = -Total(held[r])
      BY <1>t, <2>4, NetIsSum
    <2>6. NetPaid(r)' \in Int /\ NetPromo(r)' \in Int
      BY DEF WalletSafe, TypeOK, NetPaid, NetPromo, Credits, Rows
    <2>7. Total(wallet') = Total(wallet) + Total(held[r]) - due[r]
      <3>1. /\ wallet'.paid = wallet.paid + NetPaid(r)' - NetPaid(r)
            /\ wallet'.promo = wallet.promo + NetPromo(r)' - NetPromo(r)
            /\ wallet.paid \in Int /\ wallet.promo \in Int
        BY <1>t, <1>t1, <2>3, <2>5, <2>6 DEF Posts, Credits
      <3>2. QED BY <1>t, <2>3, <2>5, <2>6, <3>1 DEF Total
    <2>8. stage'[r] = "recording" BY <1>t, <2>1 DEF TypeOK
    <2>9. /\ Holding[r] = Total(held[r]) /\ Phase[r] = "held"
          /\ Holding'[r] = 0 /\ Phase'[r] = "settled"
      BY <2>1, <2>8, SeenAs, SeenAsNext
    <2>10. /\ due[r] \in 0..(Total(wallet) + Holding[r])
           /\ Total(wallet') = Total(wallet) + Holding[r] - due[r]
      BY <1>t, <1>t1, <2>7, <2>9
    <2>11. QED BY <2>2, <2>9, <2>10, AccountSettle
  <1>7. CASE ReleaseNothing(r) \/ Release(r)
    <2>1. OnlyMoves(r) BY <1>t, <1>7 DEF ReleaseNothing, Release, OnlyMoves, TypeOK
    <2>2. stage[r] = "unwinding" /\ ~captured[r]
      BY <1>7 DEF ReleaseNothing, Release, BooksMatch, OpenStages
    <2>3. stage'[r] = "done" /\ ~captured'[r]
      BY <1>t, <1>7, <2>2 DEF ReleaseNothing, Release, TypeOK
    <2>4. /\ Holding[r] = Total(held[r]) /\ Phase[r] = "held"
          /\ Holding'[r] = 0 /\ Phase'[r] = "closed"
      BY <2>2, <2>3, SeenAs, SeenAsNext
    <2>5. Total(wallet') = Total(wallet) + Total(held[r])
      <3>1. CASE ReleaseNothing(r) BY <1>t, <3>1 DEF ReleaseNothing
      <3>2. CASE Release(r)
        <4>1. wallet' = Plus(wallet, held[r]) BY <3>2 DEF Release
        <4>2. QED BY <1>t, <4>1 DEF Plus, Total, Credits
      <3>3. QED BY <1>7, <3>1, <3>2
    <2>6. QED BY <2>1, <2>4, <2>5, AccountCancel
  <1>8. CASE Record(r)
    <2>1. OnlyMoves(r) BY <1>t, <1>8 DEF Record, InsertRow, InsertFails, Respond, OnlyMoves, TypeOK
    <2>2. /\ stage[r] = "recording" /\ wallet' = wallet /\ captured' = captured
          /\ stage'[r] \in {"recording", "done"}
      BY <1>t, <1>8 DEF Record, InsertRow, InsertFails, Respond, TypeOK
    <2>3. captured[r] BY <2>2 DEF BooksMatch
    <2>4. Holding'[r] = Holding[r] /\ Phase'[r] = Phase[r]
      BY <2>2, <2>3, SeenAs, SeenAsNext
    <2>5. QED BY <2>1, <2>2, <2>4, AccountStutter
  <1>9. ~ReserveCommitUnacked(r) /\ ~CaptureCommitUnacked(r) /\ ~ReleaseFails(r)
    BY DEF ReserveCommitUnacked, CaptureCommitUnacked, ReleaseFails
  <1>10. QED
    BY <1>1, <1>2, <1>3, <1>4, <1>5, <1>6, <1>7, <1>8, <1>9
    DEF Proceed, Reserve, Capture, GiveBack

LEMMA AccountInit == Init => Account!Init
  <1> SUFFICES ASSUME Init PROVE Account!Init OBVIOUS
  <1>1. Total(wallet) \in Nat BY BillingAssumption DEF Init, Total
  <1>2. \A r \in Requests : stage[r] = "idle" /\ ~captured[r] BY DEF Init
  <1>3. \A r \in Requests : HoldOf(r) = 0 /\ PhaseOf(r) = "new"
    BY <1>2 DEF HoldOf, PhaseOf
  <1>4. Holding = [r \in Requests |-> 0] /\ Phase = [r \in Requests |-> "new"]
    BY <1>3 DEF Holding, Phase
  <1>5. QED BY <1>1, <1>4 DEF Account!Init, Holding, Phase, HoldOf, PhaseOf

\* The detailed protocol implements the abstract account when nothing fails unnoticed:
\* seen from outside, every request places one hold atomically, of no more than is
\* available, and the hold is cancelled whole or settled for its final charge, once.
THEOREM AccountImplemented ==
    ASSUME Faults = {}
    PROVE  Spec => ImplementsAccount
  <1>1. ASSUME WalletSafe, WalletSafe', BooksMatch, BooksMatch', Accounted, [Next]_vars
        PROVE  [Account!Next]_(Account!vars)
    <2>1. SUFFICES Account!Next \/ Shown' = Shown
      BY DEF Account!vars, Shown, Holding, Phase, HoldOf, PhaseOf
    <2>2. CASE UNCHANGED vars
      <3>1. wallet' = wallet /\ stage' = stage /\ held' = held /\ captured' = captured
        BY <2>2 DEF vars, handlerVars
      <3>2. QED BY <3>1 DEF Shown, Holding, Phase, HoldOf, PhaseOf
    <2>3. ~Crash BY DEF Crash
    <2>4. QED BY <1>1, <2>2, <2>3, AccountStep DEF Next
  <1>2. BooksMatch /\ WalletSafe /\ [Next]_vars => BooksMatch'
    BY BooksStep
  <1>3. QED
    BY <1>1, <1>2, AccountInit, BooksInit, AlwaysAccounted, AlwaysWalletSafe, PTL
    DEF Spec, ImplementsAccount, Account!Spec
=============================================================================
