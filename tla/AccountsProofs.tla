--------------------------- MODULE AccountsProofs ---------------------------
(***************************************************************************)
(* What suspension, a password change and the one-use login code promise   *)
(* of an account's sessions, for any number of concurrent logins, changes, *)
(* administrators and exchanges.                                           *)
(***************************************************************************)
EXTENDS Accounts, FiniteSetTheorems, TLAPS

-----------------------------------------------------------------------------
(* Types *)

\* A handler that uses its input has it.
Presented ==
    /\ \A h \in Logins \cup Changes : stage[h] \notin {"idle", "done"} => try[h] \in Passwords
    /\ \A c \in Replacers : stage[c] \notin {"idle", "done"} => next[c] \in Passwords
    /\ \A e \in Exchanges : stage[e] = "redeeming" => code[e] \in Codes

LEMMA AccountsTypeInit == Init => TypeOK /\ Presented
  BY AccountsAssumption
     DEF Init, TypeOK, Presented, Handlers, Enterers, Replacers, Stages, Hashes, Windows, Watched, NoWindow

\* The limiter stores windows.
LEMMA LimiterType ==
    ASSUME TypeOK, NEW w \in Watched
    PROVE  /\ Allow(w) => limits' \in [Watched -> Windows]
           /\ RecordFailure(w) => limits' \in [Watched -> Windows]
           /\ ClearFailures(w) => limits' \in [Watched -> Windows]
  <1>1. limits[w] \in Windows /\ now \in Nat /\ NoWindow \in Windows
    BY AccountsAssumption DEF TypeOK, Windows, NoWindow
  <1>2. Checked(limits[w]) \in Windows
    BY <1>1 DEF Checked
  <1>3. Failed(limits[w]) \in Windows
    <2> DEFINE current == IF limits[w] = NoWindow \/ Over(limits[w])
                          THEN [NoWindow EXCEPT !.started = now] ELSE limits[w]
    <2>1. current \in Windows
      BY <1>1 DEF Windows, NoWindow
    <2> HIDE DEF current
    <2> DEFINE n == current.failures + 1
               until == IF n >= LockAfter THEN now + Window ELSE current.lockedUntil
               counted == [current EXCEPT !.failures = n]
    <2>2. n \in Nat /\ until \in Nat
      BY <1>1, <2>1, AccountsAssumption DEF Windows
    <2> HIDE DEF n, until
    <2>3. counted \in Windows /\ counted.lockedUntil = current.lockedUntil
      BY <2>1, <2>2 DEF Windows
    <2> HIDE DEF counted
    <2>4. [counted EXCEPT !.lockedUntil = until] \in Windows
      BY <2>2, <2>3 DEF Windows
    <2>5. Failed(limits[w]) = [counted EXCEPT !.lockedUntil = until]
      BY <2>3 DEF Failed, current, counted, n, until
    <2>6. QED BY <2>4, <2>5
  <1>4. QED
    BY <1>1, <1>2, <1>3 DEF TypeOK, Allow, RecordFailure, ClearFailures

\* What is stored for a password is a hash.
LEMMA HashedType ==
    ASSUME NEW p \in Passwords
    PROVE  Hashed(p) \in Hashes
  <1>1. (p \in Long) \in BOOLEAN OBVIOUS
  <1>2. QED BY <1>1 DEF Hashed, Hashes

LEMMA LoginType ==
    ASSUME TypeOK, Presented, NEW l \in Logins, Login(l)
    PROVE  TypeOK'
  <1> USE DEF account, input, Goto, Stages
  <1>1. "login" \in Watched BY DEF Watched
  <1>2. CASE LoginLockedOut(l) BY <1>2 DEF TypeOK, LoginLockedOut
  <1>3. CASE LoginBegins(l)
    <2>1. limits' \in [Watched -> Windows] BY <1>1, <1>3, LimiterType DEF LoginBegins
    <2>2. try' \in [Logins \cup Changes -> Passwords \cup {None}] BY <1>3 DEF LoginBegins, TypeOK
    <2>3. QED BY <1>3, <2>1, <2>2 DEF TypeOK, LoginBegins
  <1>4. CASE LoginRecognised(l) BY <1>4 DEF TypeOK, LoginRecognised
  <1>5. CASE LoginFails(l)
    <2>1. limits' \in [Watched -> Windows] BY <1>1, <1>5, LimiterType DEF LoginFails
    <2>2. QED BY <1>5, <2>1 DEF TypeOK, LoginFails
  <1>6. CASE Rehash(l)
    <2>1. try[l] \in Passwords BY <1>6 DEF Presented, Rehash
    <2>2. hash' \in Hashes BY <1>6, <2>1, HashedType DEF Rehash
    <2>3. QED BY <1>6, <2>2 DEF TypeOK, Rehash
  <1>7. CASE RehashFails(l) BY <1>7 DEF TypeOK, RehashFails
  <1>8. CASE LoginCleared(l)
    <2>1. limits' \in [Watched -> Windows] BY <1>1, <1>8, LimiterType DEF LoginCleared
    <2>2. QED BY <1>8, <2>1 DEF TypeOK, LoginCleared
  <1>9. CASE NextAttempt(l) BY <1>9 DEF TypeOK, NextAttempt
  <1>10. QED BY <1>2, <1>3, <1>4, <1>5, <1>6, <1>7, <1>8, <1>9 DEF Login

LEMMA OpenType ==
    ASSUME TypeOK, NEW h \in Enterers, Open(h)
    PROVE  TypeOK'
  <1> USE DEF account, input, Goto, Stages
  <1>1. CASE Enter(h) BY <1>1 DEF TypeOK, Enter
  <1>2. CASE OpenSession(h) BY <1>2 DEF TypeOK, OpenSession
  <1>3. CASE SessionEnds(h) BY <1>3 DEF TypeOK, SessionEnds
  <1>4. QED BY <1>1, <1>2, <1>3 DEF Open

LEMMA ChangeType ==
    ASSUME TypeOK, NEW c \in Changes, Change(c)
    PROVE  TypeOK'
  <1> USE DEF account, input, Goto, Stages
  <1>1. "change" \in Watched /\ c \in Replacers BY DEF Watched, Replacers
  <1>2. CASE ChangeLockedOut(c) BY <1>2 DEF TypeOK, ChangeLockedOut
  <1>3. CASE ChangeBegins(c)
    <2>1. limits' \in [Watched -> Windows] BY <1>1, <1>3, LimiterType DEF ChangeBegins
    <2>2. /\ try' \in [Logins \cup Changes -> Passwords \cup {None}]
          /\ next' \in [Replacers -> Passwords \cup {None}]
      BY <1>1, <1>3 DEF ChangeBegins, TypeOK
    <2>3. QED BY <1>3, <2>1, <2>2 DEF TypeOK, ChangeBegins
  <1>4. CASE ChangeRecognised(c) BY <1>4 DEF TypeOK, ChangeRecognised
  <1>5. CASE ChangeRejected(c)
    <2>1. limits' \in [Watched -> Windows] BY <1>1, <1>5, LimiterType DEF ChangeRejected
    <2>2. QED BY <1>5, <2>1 DEF TypeOK, ChangeRejected
  <1>6. QED BY <1>2, <1>3, <1>4, <1>5 DEF Change

LEMMA ReplaceType ==
    ASSUME TypeOK, Presented, NEW c \in Replacers, Replace(c)
    PROVE  TypeOK'
  <1> USE DEF account, input, Goto, Stages
  <1>1. CASE ReplaceLock(c) BY <1>1 DEF TypeOK, ReplaceLock
  <1>2. CASE ReplaceCommit(c)
    <2>1. next[c] \in Passwords BY <1>2 DEF ReplaceCommit, Presented
    <2>2. hash' \in Hashes BY <1>2, <2>1, HashedType DEF ReplaceCommit
    <2>3. limits' \in [Watched -> Windows]
      BY <1>2, LimiterType DEF ReplaceCommit, Watched, TypeOK
    <2>4. QED BY <1>2, <2>2, <2>3 DEF TypeOK, ReplaceCommit
  <1>3. CASE ReplaceFails(c) BY <1>3 DEF TypeOK, ReplaceFails
  <1>4. QED BY <1>1, <1>2, <1>3 DEF Replace

LEMMA SuspendType ==
    ASSUME TypeOK, NEW a \in Suspensions, Suspend(a)
    PROVE  TypeOK'
  <1> USE DEF account, input, Goto, Stages, Statuses
  <1>1. CASE SetStatus(a) BY <1>1 DEF TypeOK, SetStatus
  <1>2. CASE Evict(a) BY <1>2 DEF TypeOK, Evict
  <1>3. CASE EvictFails(a) BY <1>3 DEF TypeOK, EvictFails
  <1>4. QED BY <1>1, <1>2, <1>3 DEF Suspend

LEMMA ExchangeType ==
    ASSUME TypeOK, Presented, NEW e \in Exchanges, Exchange(e)
    PROVE  TypeOK'
  <1> USE DEF account, input, Goto, Stages
  <1>1. CASE RedeemLock(e) BY <1>1 DEF TypeOK, RedeemLock
  <1>2. CASE RedeemRefused(e) BY <1>2 DEF TypeOK, RedeemRefused
  <1>3. CASE RedeemCommit(e) BY <1>3 DEF TypeOK, RedeemCommit
  <1>4. CASE RedeemFails(e) BY <1>4 DEF TypeOK, RedeemFails
  <1>5. CASE ExchangeLoginFails(e) BY <1>5 DEF TypeOK, ExchangeLoginFails
  <1>6. QED BY <1>1, <1>2, <1>3, <1>4, <1>5 DEF Exchange

LEMMA OtherType ==
    ASSUME TypeOK,
           \/ Tick
           \/ \E s \in Resets : ResetBegins(s)
           \/ \E k \in Codes : IssueCode(k) \/ CodeExpires(k)
    PROVE  TypeOK'
  <1> USE DEF account, input, Goto, Stages
  <1>1. CASE Tick BY <1>1, AccountsAssumption DEF TypeOK, Tick
  <1>2. CASE \E s \in Resets : ResetBegins(s)
    BY <1>2 DEF TypeOK, ResetBegins, Replacers
  <1>3. CASE \E k \in Codes : IssueCode(k) \/ CodeExpires(k)
    BY <1>3 DEF TypeOK, IssueCode, CodeExpires
  <1>4. QED BY <1>1, <1>2, <1>3

-----------------------------------------------------------------------------
(* The strengthened invariant *)

\* A transaction past its lock has the row, so at most one is.
RowHeld ==
    /\ \A c \in Replacers : stage[c] = "changing" => row = c
    /\ \A e \in Exchanges : stage[e] = "redeeming" => row = e

\* A redeemed code is gone, and no other exchange has it.
CodesOnce ==
    /\ \A e \in Exchanges : Redeemed(e) => codes[code[e]] = "gone"
    /\ \A e, f \in Exchanges : code[e] # None /\ code[e] = code[f] => e = f

\* A login slot with a session has nothing left to do but clear its failures.
Opened == \A l \in Logins \cap sessions : stage[l] \in {"clearing", "done"}

Safe == Presented /\ RowHeld /\ CodesOnce /\ Opened

AInv == TypeOK /\ Safe

LEMMA SafeInit == Init => Safe
  <1>1. Init => Presented BY AccountsTypeInit
  <1>2. Init => RowHeld /\ CodesOnce /\ Opened
    BY DEF Init, RowHeld, CodesOnce, Opened, Redeemed, Handlers, Enterers
  <1>3. QED BY <1>1, <1>2 DEF Safe

\* The sets of handlers are disjoint, and what a step does to one of them, it does
\* to no handler of the others.
LEMMA Apart ==
    /\ \A l \in Logins : l \notin Replacers /\ l \notin Suspensions /\ l \notin Exchanges
    /\ \A c \in Replacers : c \notin Suspensions /\ c \notin Exchanges
    /\ \A a \in Suspensions : a \notin Exchanges
    /\ \A h \in Handlers : h # None
    /\ \A k \in Codes : k # None
    /\ Logins \cup Changes \subseteq Handlers
    /\ Replacers \subseteq Handlers /\ Exchanges \subseteq Handlers
    /\ Suspensions \subseteq Handlers /\ Changes \subseteq Replacers
    /\ Enterers = Logins \cup Exchanges
    /\ \A c \in Resets : c \in Replacers /\ c \notin Changes
  BY AccountsAssumption DEF Handlers, Replacers, Enterers

LEMMA LoginSafe ==
    ASSUME TypeOK, Safe, NEW l \in Logins, Login(l)
    PROVE  Safe'
  <1> USE Apart DEF account, input, Goto
  <1>1. Presented'
    BY DEF Safe, Presented, TypeOK, Login, LoginLockedOut, LoginBegins, LoginRecognised,
           LoginFails, Rehash, RehashFails, LoginCleared, NextAttempt
  <1>2. RowHeld' /\ CodesOnce'
    BY DEF Safe, RowHeld, CodesOnce, Redeemed, TypeOK, Login, LoginLockedOut, LoginBegins,
           LoginRecognised, LoginFails, Rehash, RehashFails, LoginCleared, NextAttempt
  <1>3. Opened'
    BY DEF Safe, Opened, TypeOK, Login, LoginLockedOut, LoginBegins, LoginRecognised,
           LoginFails, Rehash, RehashFails, LoginCleared, NextAttempt
  <1>4. QED BY <1>1, <1>2, <1>3 DEF Safe

LEMMA OpenSafe ==
    ASSUME TypeOK, Safe, NEW h \in Enterers, Open(h)
    PROVE  Safe'
  <1> USE Apart DEF account, input, Goto
  <1>1. Presented'
    BY DEF Safe, Presented, TypeOK, Open, Enter, OpenSession, SessionEnds
  <1>2. RowHeld' /\ CodesOnce'
    BY DEF Safe, RowHeld, CodesOnce, Redeemed, TypeOK, Open, Enter, OpenSession, SessionEnds
  <1>3. Opened'
    BY DEF Safe, Opened, TypeOK, Open, Enter, OpenSession, SessionEnds
  <1>4. QED BY <1>1, <1>2, <1>3 DEF Safe

LEMMA ChangeSafe ==
    ASSUME TypeOK, Safe, NEW c \in Changes, Change(c)
    PROVE  Safe'
  <1> USE Apart DEF account, input, Goto
  <1>1. Presented'
    BY DEF Safe, Presented, TypeOK, Change, ChangeLockedOut, ChangeBegins, ChangeRecognised,
           ChangeRejected
  <1>2. RowHeld' /\ CodesOnce' /\ Opened'
    BY DEF Safe, RowHeld, CodesOnce, Opened, Redeemed, TypeOK, Change, ChangeLockedOut,
           ChangeBegins, ChangeRecognised, ChangeRejected
  <1>3. QED BY <1>1, <1>2 DEF Safe

LEMMA ReplaceSafe ==
    ASSUME TypeOK, Safe, NEW c \in Replacers, Replace(c)
    PROVE  Safe'
  <1> USE Apart DEF account, input, Goto
  <1>1. Presented'
    BY DEF Safe, Presented, TypeOK, Replace, ReplaceLock, ReplaceCommit, ReplaceFails
  <1>2. RowHeld'
    BY DEF Safe, RowHeld, RowFree, TypeOK, Replace, ReplaceLock, ReplaceCommit, ReplaceFails
  <1>3. CodesOnce' /\ Opened'
    BY DEF Safe, CodesOnce, Opened, Redeemed, TypeOK, Replace, ReplaceLock, ReplaceCommit,
           ReplaceFails
  <1>4. QED BY <1>1, <1>2, <1>3 DEF Safe

LEMMA SuspendSafe ==
    ASSUME TypeOK, Safe, NEW a \in Suspensions, Suspend(a)
    PROVE  Safe'
  <1> USE Apart DEF account, input, Goto
  <1>1. Presented'
    BY DEF Safe, Presented, TypeOK, Suspend, SetStatus, Evict, EvictFails
  <1>2. RowHeld' /\ CodesOnce' /\ Opened'
    BY DEF Safe, RowHeld, CodesOnce, Opened, Redeemed, TypeOK, Suspend, SetStatus, Evict,
           EvictFails
  <1>3. QED BY <1>1, <1>2 DEF Safe

LEMMA ExchangeSafe ==
    ASSUME TypeOK, Safe, NEW e \in Exchanges, Exchange(e)
    PROVE  Safe'
  <1> USE Apart DEF account, input, Goto
  <1>1. Presented'
    BY DEF Safe, Presented, TypeOK, Exchange, RedeemLock, RedeemRefused, RedeemCommit,
           RedeemFails, ExchangeLoginFails
  <1>2. RowHeld'
    BY DEF Safe, RowHeld, RowFree, TypeOK, Exchange, RedeemLock, RedeemRefused, RedeemCommit,
           RedeemFails, ExchangeLoginFails
  <1>3. CodesOnce'
    <2> USE DEF Safe, CodesOnce, Redeemed, TypeOK
    <2>1. CASE RedeemLock(e)
      BY <2>1 DEF RedeemLock, RowFree, RowHeld
    <2>2. CASE RedeemCommit(e)
      BY <2>2 DEF RedeemCommit, Presented
    <2>3. CASE RedeemFails(e) BY <2>3 DEF RedeemFails
    <2>4. CASE RedeemRefused(e) \/ ExchangeLoginFails(e)
      BY <2>4 DEF RedeemRefused, ExchangeLoginFails
    <2>5. QED BY <2>1, <2>2, <2>3, <2>4 DEF Exchange
  <1>4. Opened'
    BY DEF Safe, Opened, TypeOK, Exchange, RedeemLock, RedeemRefused, RedeemCommit,
           RedeemFails, ExchangeLoginFails
  <1>5. QED BY <1>1, <1>2, <1>3, <1>4 DEF Safe

LEMMA OtherSafe ==
    ASSUME TypeOK, Safe,
           \/ Tick
           \/ \E s \in Resets : ResetBegins(s)
           \/ \E k \in Codes : IssueCode(k) \/ CodeExpires(k)
    PROVE  Safe'
  <1> USE Apart DEF account, input, Goto
  <1>1. Presented'
    BY DEF Safe, Presented, TypeOK, Tick, ResetBegins, IssueCode, CodeExpires
  <1>2. RowHeld' /\ Opened'
    BY DEF Safe, RowHeld, Opened, TypeOK, Tick, ResetBegins, IssueCode, CodeExpires
  <1>3. CodesOnce'
    BY DEF Safe, CodesOnce, Redeemed, TypeOK, Tick, ResetBegins, IssueCode, CodeExpires
  <1>4. QED BY <1>1, <1>2, <1>3 DEF Safe

LEMMA StutterKeeps ==
    ASSUME AInv, UNCHANGED vars
    PROVE  AInv'
  BY DEF AInv, Safe, TypeOK, Presented, RowHeld, CodesOnce, Redeemed, Opened, vars, account, input

LEMMA StepKeeps ==
    ASSUME AInv, [Next]_vars
    PROVE  AInv'
  <1> USE DEF AInv
  <1>1. CASE Tick BY <1>1, OtherType, OtherSafe DEF Safe
  <1>2. CASE \E l \in Logins : Login(l) BY <1>2, LoginType, LoginSafe DEF Safe
  <1>3. CASE \E h \in Enterers : Open(h) BY <1>3, OpenType, OpenSafe
  <1>4. CASE \E c \in Changes : Change(c) BY <1>4, ChangeType, ChangeSafe
  <1>5. CASE \E s \in Resets : ResetBegins(s) BY <1>5, OtherType, OtherSafe
  <1>6. CASE \E c \in Replacers : Replace(c) BY <1>6, ReplaceType, ReplaceSafe DEF Safe
  <1>7. CASE \E a \in Suspensions : Suspend(a) BY <1>7, SuspendType, SuspendSafe
  <1>8. CASE \E e \in Exchanges : Exchange(e) BY <1>8, ExchangeType, ExchangeSafe DEF Safe
  <1>9. CASE \E k \in Codes : IssueCode(k) \/ CodeExpires(k) BY <1>9, OtherType, OtherSafe
  <1>10. CASE UNCHANGED vars BY <1>10, StutterKeeps
  <1>11. QED
    BY <1>1, <1>2, <1>3, <1>4, <1>5, <1>6, <1>7, <1>8, <1>9, <1>10 DEF Next

THEOREM AccountsInvariant == Spec => []AInv
  <1>1. Init => AInv BY AccountsTypeInit, SafeInit DEF AInv
  <1>2. AInv /\ [Next]_vars => AInv' BY StepKeeps
  <1>3. QED BY <1>1, <1>2, PTL DEF Spec

-----------------------------------------------------------------------------
(* What follows *)

\* Every variable keeps its type, in every behaviour.
THEOREM AccountsTypeCorrect == Spec => []TypeOK
  <1>1. AInv => TypeOK BY DEF AInv
  <1>2. QED BY <1>1, AccountsInvariant, PTL

\* Two exchanges never open a session each with one login code.
THEOREM CodesOpenOnce == Spec => []OneSessionPerCode
  <1>1. AInv => OneSessionPerCode
    BY DEF AInv, Safe, CodesOnce, OneSessionPerCode, Redeemed
  <1>2. QED BY <1>1, AccountsInvariant, PTL

\* Only a handler that read "active" comes to the point of opening a session.
LEMMA SuspensionStep ==
    ASSUME AInv, [Next]_vars, status = "suspended"
    PROVE  Entering' \subseteq Entering
  <1> USE Apart DEF AInv, TypeOK, Entering, Goto, account, input
  <1>1. CASE Tick BY <1>1 DEF Tick
  <1>2. ASSUME NEW l \in Logins, Login(l) PROVE Entering' \subseteq Entering
    BY <1>2 DEF Login, LoginLockedOut, LoginBegins, LoginRecognised, LoginFails, Rehash,
                RehashFails, LoginCleared, NextAttempt
  <1>3. ASSUME NEW h \in Enterers, Open(h) PROVE Entering' \subseteq Entering
    BY <1>3 DEF Open, Enter, OpenSession, SessionEnds
  <1>4. ASSUME NEW c \in Changes, Change(c) PROVE Entering' \subseteq Entering
    BY <1>4 DEF Change, ChangeLockedOut, ChangeBegins, ChangeRecognised, ChangeRejected
  <1>5. ASSUME NEW s \in Resets, ResetBegins(s) PROVE Entering' \subseteq Entering
    BY <1>5 DEF ResetBegins
  <1>6. ASSUME NEW c \in Replacers, Replace(c) PROVE Entering' \subseteq Entering
    BY <1>6 DEF Replace, ReplaceLock, ReplaceCommit, ReplaceFails
  <1>7. ASSUME NEW a \in Suspensions, Suspend(a) PROVE Entering' \subseteq Entering
    BY <1>7 DEF Suspend, SetStatus, Evict, EvictFails
  <1>8. ASSUME NEW e \in Exchanges, Exchange(e) PROVE Entering' \subseteq Entering
    BY <1>8 DEF Exchange, RedeemLock, RedeemRefused, RedeemCommit, RedeemFails,
                ExchangeLoginFails
  <1>9. ASSUME NEW k \in Codes, IssueCode(k) \/ CodeExpires(k)
        PROVE  Entering' \subseteq Entering
    BY <1>9 DEF IssueCode, CodeExpires
  <1>10. CASE UNCHANGED vars BY <1>10 DEF vars
  <1>11. QED
    BY <1>1, <1>2, <1>3, <1>4, <1>5, <1>6, <1>7, <1>8, <1>9, <1>10 DEF Next

\* A suspension drains the account's sessions: it gains none but from the logins that
\* were at the point of opening one.
THEOREM SuspensionEffective == Spec => SuspensionDrains
  <1>1. AInv /\ [Next]_vars => [status = "suspended" => Entering' \subseteq Entering]_vars
    BY SuspensionStep
  <1>2. QED BY <1>1, AccountsInvariant, PTL DEF Spec, SuspensionDrains

Drains == \A p \in Passwords \ {hash'.password} :
             IF hash.password = p
             THEN row \in Replacers => Bearers(p)' \cap doomed \cap sessions = {}
             ELSE Bearers(p)' \subseteq Bearers(p)

\* The password is verified against the stored hash, and a replacement commits the
\* deletion of the sessions with the new hash.
LEMMA PasswordStep ==
    ASSUME AInv, [Next]_vars
    PROVE  Drains
  <1> USE Apart DEF AInv, TypeOK, Drains, Bearers, Goto, account, input
  <1>1. CASE Tick BY <1>1 DEF Tick
  <1>2. ASSUME NEW l \in Logins, Login(l) PROVE Drains
    <2>1. CASE LoginLockedOut(l) \/ LoginFails(l) \/ LoginCleared(l) \/ RehashFails(l)
      BY <2>1 DEF LoginLockedOut, LoginFails, LoginCleared, RehashFails
    <2>2. CASE LoginBegins(l) BY <2>2 DEF LoginBegins, Safe, Opened
    <2>3. CASE LoginRecognised(l) BY <2>3 DEF LoginRecognised, Recognised
    <2>4. CASE Rehash(l) BY <2>4, AccountsAssumption DEF Rehash, RowFree
    <2>5. CASE NextAttempt(l) BY <2>5 DEF NextAttempt
    <2>6. QED BY <1>2, <2>1, <2>2, <2>3, <2>4, <2>5 DEF Login
  <1>3. ASSUME NEW h \in Enterers, Open(h) PROVE Drains
    BY <1>3 DEF Open, Enter, OpenSession, SessionEnds
  <1>4. ASSUME NEW c \in Changes, Change(c) PROVE Drains
    BY <1>4 DEF Change, ChangeLockedOut, ChangeBegins, ChangeRecognised, ChangeRejected
  <1>5. ASSUME NEW s \in Resets, ResetBegins(s) PROVE Drains
    BY <1>5 DEF ResetBegins
  <1>6. ASSUME NEW c \in Replacers, Replace(c) PROVE Drains
    <2>1. CASE ReplaceLock(c) BY <2>1 DEF ReplaceLock
    <2>2. CASE ReplaceCommit(c) BY <2>2 DEF ReplaceCommit, Safe, Opened
    <2>3. CASE ReplaceFails(c) BY <2>3 DEF ReplaceFails
    <2>4. QED BY <1>6, <2>1, <2>2, <2>3 DEF Replace
  <1>7. ASSUME NEW a \in Suspensions, Suspend(a) PROVE Drains
    BY <1>7 DEF Suspend, SetStatus, Evict, EvictFails
  <1>8. ASSUME NEW e \in Exchanges, Exchange(e) PROVE Drains
    BY <1>8 DEF Exchange, RedeemLock, RedeemRefused, RedeemCommit, RedeemFails,
                ExchangeLoginFails
  <1>9. ASSUME NEW k \in Codes, IssueCode(k) \/ CodeExpires(k) PROVE Drains
    BY <1>9 DEF IssueCode, CodeExpires
  <1>10. CASE UNCHANGED vars BY <1>10 DEF vars
  <1>11. QED
    BY <1>1, <1>2, <1>3, <1>4, <1>5, <1>6, <1>7, <1>8, <1>9, <1>10 DEF Next

\* A replaced password opens no new way in, and takes its earlier sessions with it.
THEOREM ReplacementEffective == Spec => OldPasswordDrains
  <1>1. AInv /\ [Next]_vars
          => [\A p \in Passwords \ {hash'.password} :
                 IF hash.password = p
                 THEN row \in Replacers => Bearers(p)' \cap doomed \cap sessions = {}
                 ELSE Bearers(p)' \subseteq Bearers(p)]_vars
    BY PasswordStep DEF Drains
  <1>2. QED BY <1>1, AccountsInvariant, PTL DEF Spec, OldPasswordDrains

-----------------------------------------------------------------------------
(* The limiter *)

\* Logins that were let in and may still fail.
InFlight == {l \in Logins : stage[l] \in {"looking", "rehashing", "entering", "issuing"}}

Most == LockAfter - 1 + Cardinality(Logins)

\* A window that locks counts every attempt that may still add to it, until it is over;
\* and it is over when its lock is.
Counted ==
    LET w == limits["login"]
    IN  /\ w.started <= now
        /\ w.failures >= LockAfter =>
              /\ w.lockedUntil >= w.started + Window
              /\ w.failures <= Most
              /\ Over(w) \/ w.failures + Cardinality(InFlight) <= Most

LInv == AInv /\ Counted

\* The counters are natural numbers, and a login in flight is one of the slots.
LEMMA CountersNatural ==
    ASSUME TypeOK
    PROVE  /\ LockAfter \in Nat /\ LockAfter >= 1 /\ Window \in Nat /\ Window >= 1 /\ now \in Nat
           /\ limits["login"] \in Windows
           /\ limits["login"].started \in Nat
           /\ limits["login"].failures \in Nat
           /\ limits["login"].lockedUntil \in Nat
           /\ Cardinality(Logins) \in Nat
           /\ Cardinality(InFlight) \in Nat
           /\ Cardinality(InFlight) <= Cardinality(Logins)
           /\ Most \in Int
           /\ IsFiniteSet(InFlight)
  <1>1. limits["login"] \in Windows BY DEF TypeOK, Watched
  <1>2. InFlight \subseteq Logins /\ IsFiniteSet(Logins) BY AccountsAssumption DEF InFlight
  <1>3. IsFiniteSet(InFlight) /\ Cardinality(InFlight) <= Cardinality(Logins)
    BY <1>2, FS_Subset
  <1>4. Cardinality(InFlight) \in Nat /\ Cardinality(Logins) \in Nat
    BY <1>2, <1>3, FS_CardinalityType
  <1>5. QED BY <1>1, <1>3, <1>4, AccountsAssumption DEF TypeOK, Windows, Most

\* A step that counts no failure and lets no login in keeps the count.
LEMMA QuietKeepsCount ==
    ASSUME TypeOK, TypeOK', Counted, limits'["login"] = limits["login"],
           now' = now \/ now' = now + 1, InFlight' \subseteq InFlight
    PROVE  Counted'
  <1>1. Cardinality(InFlight') <= Cardinality(InFlight) /\ Cardinality(InFlight') \in Nat
    BY CountersNatural, FS_Subset, FS_CardinalityType
  <1>2. Most' = Most BY DEF Most
  <1>3. QED BY <1>1, <1>2, CountersNatural DEF Counted, Over

LEMMA ClearKeepsCount ==
    ASSUME TypeOK, TypeOK', limits'["login"] = NoWindow
    PROVE  Counted'
  BY CountersNatural, AccountsAssumption DEF Counted, NoWindow, TypeOK

\* Who is let in finds no lock: then the window either has not counted enough, or is over.
LEMMA AllowKeepsCount ==
    ASSUME TypeOK, TypeOK', Counted, Allow("login"), now' = now
    PROVE  Counted'
  <1>1. limits'["login"] = Checked(limits["login"])
    BY DEF Allow, TypeOK, Watched
  <1>2. limits["login"].lockedUntil <= now
    BY CountersNatural DEF Allow, Locked
  <1>3. CASE Over(limits["login"])
    BY <1>1, <1>3, ClearKeepsCount DEF Checked
  <1>4. CASE ~Over(limits["login"])
    <2>1. limits["login"].failures < LockAfter
      BY <1>2, <1>4, CountersNatural DEF Counted, Over
    <2>2. QED BY <1>1, <1>4, <2>1, CountersNatural DEF Counted, Checked
  <1>5. QED BY <1>3, <1>4

\* Who fails is no longer in flight.
LEMMA FailureKeepsCount ==
    ASSUME TypeOK, TypeOK', Counted, NEW l \in Logins, LoginFails(l)
    PROVE  Counted'
  <1> DEFINE w == limits["login"]
             c == Cardinality(InFlight)
  <1>1. limits'["login"] = Failed(w) /\ now' = now
    BY DEF LoginFails, RecordFailure, TypeOK, Watched
  <1>2. InFlight' = InFlight \ {l} /\ l \in InFlight
    BY DEF LoginFails, Goto, InFlight, TypeOK, Handlers
  <1>3. Cardinality(InFlight') = c - 1 /\ c <= Cardinality(Logins) /\ c \in Nat /\ c >= 1
    <2>1. c # 0 BY <1>2, CountersNatural, FS_EmptySet
    <2>2. QED BY <1>2, <2>1, CountersNatural, FS_RemoveElement
  <1>4. Most' = Most /\ Most = LockAfter - 1 + Cardinality(Logins) BY DEF Most
  <1>5. CASE w = NoWindow \/ Over(w)
    <2>1. /\ Failed(w).started = now
          /\ Failed(w).failures = 1
          /\ Failed(w).lockedUntil = IF 1 >= LockAfter THEN now + Window ELSE 0
      BY <1>5 DEF Failed, NoWindow
    <2>2. QED BY <1>1, <1>3, <1>4, <2>1, CountersNatural DEF Counted
  <1>6. CASE ~(w = NoWindow \/ Over(w))
    <2>1. /\ Failed(w).started = w.started
          /\ Failed(w).failures = w.failures + 1
          /\ Failed(w).lockedUntil = IF w.failures + 1 >= LockAfter
                                      THEN now + Window ELSE w.lockedUntil
      BY <1>6, CountersNatural DEF Failed, Windows
    <2>2. w.failures + 1 >= LockAfter => w.failures + 1 + (c - 1) <= Most
      BY <1>3, <1>4, <1>6, CountersNatural DEF Counted
    <2>3. QED BY <1>1, <1>3, <1>4, <2>1, <2>2, CountersNatural DEF Counted
  <1>7. QED BY <1>5, <1>6

LEMMA CountStep ==
    ASSUME LInv, [Next]_vars
    PROVE  Counted'
  <1> USE Apart DEF account, input, Goto
  <1>1. TypeOK /\ TypeOK' /\ Counted BY StepKeeps DEF LInv, AInv
  <1>2. CASE Tick BY <1>1, <1>2, QuietKeepsCount DEF Tick, InFlight
  <1>3. ASSUME NEW l \in Logins, Login(l) PROVE Counted'
    <2>1. CASE LoginBegins(l) BY <1>1, <2>1, AllowKeepsCount DEF LoginBegins
    <2>2. CASE LoginFails(l) BY <1>1, <2>2, FailureKeepsCount
    <2>3. CASE LoginCleared(l)
      <3>1. limits'["login"] = NoWindow
        BY <1>1, <2>3 DEF LoginCleared, ClearFailures, TypeOK, Watched
      <3>2. QED BY <1>1, <3>1, ClearKeepsCount
    <2>4. CASE \/ LoginLockedOut(l) \/ LoginRecognised(l) \/ Rehash(l) \/ RehashFails(l)
               \/ NextAttempt(l)
      <3>1. limits' = limits /\ now' = now /\ InFlight' \subseteq InFlight
        BY <1>1, <2>4 DEF TypeOK, InFlight, LoginLockedOut, LoginRecognised, Rehash,
                          RehashFails, NextAttempt
      <3>2. QED BY <1>1, <3>1, QuietKeepsCount
    <2>5. QED BY <1>3, <2>1, <2>2, <2>3, <2>4 DEF Login
  <1>4. ASSUME NEW h \in Enterers, Open(h) PROVE Counted'
    <2>1. limits' = limits /\ now' = now /\ InFlight' \subseteq InFlight
      BY <1>1, <1>4 DEF TypeOK, InFlight, Open, Enter, OpenSession, SessionEnds
    <2>2. QED BY <1>1, <2>1, QuietKeepsCount
  <1>5. ASSUME NEW c \in Changes, Change(c) PROVE Counted'
    <2>1. limits'["login"] = limits["login"] /\ now' = now /\ InFlight' \subseteq InFlight
      BY <1>1, <1>5 DEF TypeOK, Watched, InFlight, Change, ChangeLockedOut, ChangeBegins,
                        ChangeRecognised, ChangeRejected, Allow, RecordFailure
    <2>2. QED BY <1>1, <2>1, QuietKeepsCount
  <1>6. ASSUME NEW s \in Resets, ResetBegins(s) PROVE Counted'
    <2>1. limits' = limits /\ now' = now /\ InFlight' \subseteq InFlight
      BY <1>1, <1>6 DEF TypeOK, InFlight, ResetBegins
    <2>2. QED BY <1>1, <2>1, QuietKeepsCount
  <1>7. ASSUME NEW c \in Replacers, Replace(c) PROVE Counted'
    <2>1. limits'["login"] = limits["login"] /\ now' = now /\ InFlight' \subseteq InFlight
      BY <1>1, <1>7 DEF TypeOK, Watched, InFlight, Replace, ReplaceLock, ReplaceCommit,
                        ReplaceFails, ClearFailures
    <2>2. QED BY <1>1, <2>1, QuietKeepsCount
  <1>8. ASSUME NEW a \in Suspensions, Suspend(a) PROVE Counted'
    <2>1. limits' = limits /\ now' = now /\ InFlight' \subseteq InFlight
      BY <1>1, <1>8 DEF TypeOK, InFlight, Suspend, SetStatus, Evict, EvictFails
    <2>2. QED BY <1>1, <2>1, QuietKeepsCount
  <1>9. ASSUME NEW e \in Exchanges, Exchange(e) PROVE Counted'
    <2>1. limits' = limits /\ now' = now /\ InFlight' \subseteq InFlight
      BY <1>1, <1>9 DEF TypeOK, InFlight, Exchange, RedeemLock, RedeemRefused, RedeemCommit,
                        RedeemFails, ExchangeLoginFails
    <2>2. QED BY <1>1, <2>1, QuietKeepsCount
  <1>10. ASSUME NEW k \in Codes, IssueCode(k) \/ CodeExpires(k) PROVE Counted'
    BY <1>1, <1>10, QuietKeepsCount DEF IssueCode, CodeExpires, InFlight
  <1>11. CASE UNCHANGED vars BY <1>1, <1>11, QuietKeepsCount DEF vars, InFlight
  <1>12. QED
    BY <1>2, <1>3, <1>4, <1>5, <1>6, <1>7, <1>8, <1>9, <1>10, <1>11 DEF Next

\* No interleaving of attempts gets more failures out of one window than it takes to lock
\* it and as many as were in flight.
THEOREM GuessingIsBounded == Spec => []FailuresBounded
  <1>1. Init => LInv
    <2>1. Init => AInv BY AccountsTypeInit, SafeInit DEF AInv
    <2>2. Init => Counted
      BY AccountsAssumption DEF Init, Counted, NoWindow, Watched
    <2>3. QED BY <2>1, <2>2 DEF LInv
  <1>2. LInv /\ [Next]_vars => LInv'
    BY StepKeeps, CountStep DEF LInv
  <1>3. LInv => FailuresBounded
    BY CountersNatural DEF LInv, AInv, Counted, Most, FailuresBounded
  <1>4. QED BY <1>1, <1>2, <1>3, PTL DEF Spec
-----------------------------------------------------------------------------
(* What ends a lock *)

\* Only an attempt that begins, fails or succeeds touches the window of the login.
LEMMA WindowWriters ==
    ASSUME AInv, [Next]_vars
    PROVE  \/ limits'["login"] = limits["login"]
           \/ ~Locked("login")
           \/ \E l \in Logins : UnderWay(l) /\ stage'[l] = "done"
  <1> USE Apart DEF account, input, Goto
  <1>1. TypeOK BY DEF AInv
  <1>2. ASSUME NEW l \in Logins, Login(l)
        PROVE  \/ limits' = limits
               \/ ~Locked("login")
               \/ UnderWay(l) /\ stage'[l] = "done"
    BY <1>1, <1>2 DEF TypeOK, Login, LoginLockedOut, LoginBegins, LoginRecognised, LoginFails,
                      Rehash, RehashFails, LoginCleared, NextAttempt, Allow, UnderWay
  <1>3. ASSUME NEW h \in Enterers, Open(h) PROVE limits' = limits
    BY <1>3 DEF Open, Enter, OpenSession, SessionEnds
  <1>4. ASSUME NEW c \in Changes, Change(c) PROVE limits'["login"] = limits["login"]
    BY <1>1, <1>4 DEF TypeOK, Watched, Change, ChangeLockedOut, ChangeBegins, ChangeRecognised,
                      ChangeRejected, Allow, RecordFailure
  <1>5. ASSUME NEW c \in Replacers, Replace(c) PROVE limits'["login"] = limits["login"]
    BY <1>1, <1>5 DEF TypeOK, Watched, Replace, ReplaceLock, ReplaceCommit, ReplaceFails,
                      ClearFailures
  <1>6. ASSUME NEW a \in Suspensions, Suspend(a) PROVE limits' = limits
    BY <1>6 DEF Suspend, SetStatus, Evict, EvictFails
  <1>7. ASSUME NEW e \in Exchanges, Exchange(e) PROVE limits' = limits
    BY <1>7 DEF Exchange, RedeemLock, RedeemRefused, RedeemCommit, RedeemFails,
                ExchangeLoginFails
  <1>8. ASSUME \/ Tick \/ UNCHANGED vars
               \/ \E s \in Resets : ResetBegins(s)
               \/ \E k \in Codes : IssueCode(k) \/ CodeExpires(k)
        PROVE  limits' = limits
    BY <1>8 DEF Tick, vars, ResetBegins, IssueCode, CodeExpires
  <1>9. QED BY <1>2, <1>3, <1>4, <1>5, <1>6, <1>7, <1>8 DEF Next

\* While a lock lasts no new attempt ends it, whatever else runs: only one let in before,
\* by failing when the window is over or by succeeding.
THEOREM LocksOutlastNewAttempts == Spec => LockOutlastsNewAttempts
  <1>1. ASSUME AInv, AInv', [Next]_vars
        PROVE  [Locked("login") /\ now' < limits["login"].lockedUntil /\ ~Locked("login")'
                  => \E l \in Logins : UnderWay(l) /\ stage'[l] = "done"]_vars
    <2> SUFFICES ASSUME Locked("login"), now' < limits["login"].lockedUntil, ~Locked("login")'
                 PROVE  \E l \in Logins : UnderWay(l) /\ stage'[l] = "done"
      OBVIOUS
    <2>1. limits'["login"] # limits["login"]
      BY DEF Locked
    <2>2. QED BY <1>1, <2>1, WindowWriters
  <1>2. AInv /\ [Next]_vars => AInv' BY StepKeeps
  <1>3. Init => AInv BY AccountsTypeInit, SafeInit DEF AInv
  <1>4. QED BY <1>1, <1>2, <1>3, PTL DEF Spec, LockOutlastsNewAttempts
=============================================================================
