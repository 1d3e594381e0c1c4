------------------------------ MODULE Accounts ------------------------------
(***************************************************************************)
(* One user account: password login, password change and reset,            *)
(* suspension, the exchange of an OAuth login code, and the sessions they  *)
(* open and end (httpapi/handlers.go, passwordLogin, changePassword,       *)
(* loginByEmail; admin_users.go; auth.go; google_oauth.go,                 *)
(* oauthLoginExchange; the limiter in advanced.go).                        *)
(*                                                                         *)
(* Every request is a goroutine.  Each of its statements is a step of its  *)
(* own, except in the transactions that lock the account's row: those are  *)
(* a step that takes the row and a step that commits.  A login slot serves *)
(* one attempt after another, the other requests come once.                *)
(*                                                                         *)
(* Modelled is production mode (DevMode keeps no sessions), an account     *)
(* that has a membership, and attempts from one address: the limiter's     *)
(* windows of other addresses are other map entries.                       *)
(***************************************************************************)
EXTENDS Integers, FiniteSets

CONSTANTS
    Logins,      \* as many passwordLogin handlers as run at the same time
    Changes,     \* changePassword requests
    Resets,      \* resetAdminUserPassword requests
    Suspensions, \* updateAdminUser requests, of either status
    Exchanges,   \* oauthLoginExchange requests
    Codes,       \* OAuth login codes of this account
    Passwords,
    Long,        \* those bcrypt refuses (more than 72 bytes)
    LockAfter,   \* failures that lock the login: 5 in the code
    Window,      \* 15 minutes, in ticks
    MaxNow,      \* the clock stops here
    None         \* no password, no code, no transaction

Replacers == Changes \cup Resets
Enterers == Logins \cup Exchanges
Handlers == Logins \cup Replacers \cup Suspensions \cup Exchanges

ASSUME AccountsAssumption ==
    /\ LockAfter \in Nat \ {0}
    /\ Window \in Nat \ {0}
    /\ MaxNow \in Nat
    /\ IsFiniteSet(Logins)
    /\ None \notin Handlers \cup Passwords \cup Codes
    /\ Logins \cap (Replacers \cup Suspensions \cup Exchanges) = {}
    /\ Exchanges \cap (Replacers \cup Suspensions) = {}
    /\ Suspensions \cap Replacers = {}
    /\ Changes \cap Resets = {}

VARIABLES
    status,   \* sys_users.status
    hash,     \* sys_users.password_hash
    row,      \* the transaction that has the sys_users row locked, or None
    doomed,   \* the sessions that transaction has deleted, not yet committed
    sessions, \* the requests whose session is in sys_sessions and not expired
    codes,    \* sys_oauth_login_codes
    limits,   \* the limiter's map, for logins and for password changes
    now,      \* its clock
    stage,    \* where each request's handler is
    try,      \* the (current) password a request presents
    next,     \* the password a change or reset sets
    code      \* the code an exchange has redeemed, or is redeeming

account == <<status, hash, row, doomed>>
input == <<try, next, code>>
vars == <<account, sessions, codes, limits, now, stage, input>>

Stages == {"idle", "looking", "rehashing", "replacing", "changing", "evicting",
           "redeeming", "entering", "issuing", "clearing", "done"}
Hashes == [password : Passwords, legacy : BOOLEAN]
Windows == [started : Nat, failures : Nat, lockedUntil : Nat]
Watched == {"login", "change"}

\* passwordHash: bcrypt, or the old unsalted hash when bcrypt refuses the password.
Hashed(p) == [password |-> p, legacy |-> p \in Long]

\* No entry in the map.  A window is never stored without a failure.
NoWindow == [started |-> 0, failures |-> 0, lockedUntil |-> 0]

TypeOK ==
    /\ status \in {"active", "suspended"}
    /\ hash \in Hashes
    /\ row \in Replacers \cup Exchanges \cup {None}
    /\ doomed \in SUBSET Enterers
    /\ sessions \in SUBSET Enterers
    /\ codes \in [Codes -> {"unissued", "live", "gone"}]
    /\ limits \in [Watched -> Windows]
    /\ now \in 0..MaxNow
    /\ stage \in [Handlers -> Stages]
    /\ try \in [Logins \cup Changes -> Passwords \cup {None}]
    /\ next \in [Replacers -> Passwords \cup {None}]
    /\ code \in [Exchanges -> Codes \cup {None}]

Init ==
    /\ status \in {"active", "suspended"}
    /\ hash \in Hashes
    /\ row = None
    /\ doomed = {}
    /\ sessions = {}
    /\ codes = [k \in Codes |-> "unissued"]
    /\ limits = [w \in Watched |-> NoWindow]
    /\ now = 0
    /\ stage = [h \in Handlers |-> "idle"]
    /\ try = [h \in Logins \cup Changes |-> None]
    /\ next = [h \in Replacers |-> None]
    /\ code = [e \in Exchanges |-> None]

Goto(h, s) == stage' = [stage EXCEPT ![h] = s]

\* Mutant: a statement on the account's row that does not wait for it.
RowNeverWaits == TRUE

RowFree == row = None
-----------------------------------------------------------------------------
(* The login limiter *)

Locked(w) == limits[w].lockedUntil > now

Over(window) == now - window.started >= Window

\* checkLoginAllowed forgets a window that is over.
Checked(window) == IF Over(window) THEN NoWindow ELSE window

\* Mutant: one failure too many before the lock.
FailedOffByOne(window) ==
    LET current == IF window = NoWindow \/ Over(window)
                   THEN [NoWindow EXCEPT !.started = now] ELSE window
        failures == current.failures + 1
    IN  [current EXCEPT !.failures = failures,
                        !.lockedUntil = IF failures > LockAfter THEN now + Window ELSE @]

\* recordLoginFailure: a window that is over is replaced, its lock included.
Failed(window) ==
    LET current == IF window = NoWindow \/ Over(window)
                   THEN [NoWindow EXCEPT !.started = now] ELSE window
        failures == current.failures + 1
    IN  [current EXCEPT !.failures = failures,
                        !.lockedUntil = IF failures >= LockAfter THEN now + Window ELSE @]

\* Mutant: the lock is not looked at.
AllowAlways(w) == limits' = [limits EXCEPT ![w] = Checked(@)]

Allow(w) == ~Locked(w) /\ limits' = [limits EXCEPT ![w] = Checked(@)]
RecordFailure(w) == limits' = [limits EXCEPT ![w] = Failed(@)]
ClearFailures(w) == limits' = [limits EXCEPT ![w] = NoWindow]

Tick ==
    /\ now < MaxNow
    /\ now' = now + 1
    /\ UNCHANGED <<account, sessions, codes, limits, stage, input>>
-----------------------------------------------------------------------------
(* passwordLogin *)

LoginLockedOut(l) ==
    /\ stage[l] = "idle"
    /\ Locked("login")
    /\ Goto(l, "done")
    /\ UNCHANGED <<account, sessions, codes, limits, now, input>>

LoginBegins(l) ==
    /\ stage[l] = "idle"
    /\ Allow("login")
    /\ \E p \in Passwords : try' = [try EXCEPT ![l] = p]
    /\ Goto(l, "looking")
    /\ UNCHANGED <<account, sessions, codes, now, next, code>>

\* lookupLoginIdentity finds only an active account; the password is then verified.
Recognised(h) == status = "active" /\ hash.password = try[h]

\* An old hash is replaced, if bcrypt takes the password.
LoginRecognised(l) ==
    /\ stage[l] = "looking"
    /\ Recognised(l)
    /\ Goto(l, IF hash.legacy /\ try[l] \notin Long THEN "rehashing" ELSE "entering")
    /\ UNCHANGED <<account, sessions, codes, limits, now, input>>

\* No such active account, the wrong password, or a failing statement: also the
\* statements of loginByEmail.
LoginFails(l) ==
    /\ stage[l] \in {"looking", "entering", "issuing"}
    /\ RecordFailure("login")
    /\ Goto(l, "done")
    /\ UNCHANGED <<account, sessions, codes, now, input>>

\* The update names the account, not the hash that was verified.
Rehash(l) ==
    /\ stage[l] = "rehashing"
    /\ RowFree
    /\ hash' = Hashed(try[l])
    /\ Goto(l, "entering")
    /\ UNCHANGED <<status, row, doomed, sessions, codes, limits, now, input>>

\* Its error is ignored.
RehashFails(l) ==
    /\ stage[l] = "rehashing"
    /\ Goto(l, "entering")
    /\ UNCHANGED <<account, sessions, codes, limits, now, input>>

LoginCleared(l) ==
    /\ stage[l] = "clearing"
    /\ ClearFailures("login")
    /\ Goto(l, "done")
    /\ UNCHANGED <<account, sessions, codes, now, input>>

\* The slot takes the next attempt; sessions are told apart by their slot, so it
\* waits for the end of its last one.
NextAttempt(l) ==
    /\ stage[l] = "done"
    /\ l \notin sessions
    /\ try' = [try EXCEPT ![l] = None]
    /\ Goto(l, "idle")
    /\ UNCHANGED <<account, sessions, codes, limits, now, next, code>>
-----------------------------------------------------------------------------
(* loginByEmail and createSession, after a password or a code *)

\* Mutant: loginByEmail does not look at the status.
EnterAnyStatus(h) ==
    /\ stage[h] = "entering"
    /\ Goto(h, "issuing")
    /\ UNCHANGED <<account, sessions, codes, limits, now, input>>

Enter(h) ==
    /\ stage[h] = "entering"
    /\ status = "active"
    /\ Goto(h, "issuing")
    /\ UNCHANGED <<account, sessions, codes, limits, now, input>>

OpenSession(h) ==
    /\ stage[h] = "issuing"
    /\ sessions' = sessions \cup {h}
    /\ Goto(h, IF h \in Logins THEN "clearing" ELSE "done")
    /\ UNCHANGED <<account, codes, limits, now, input>>

\* logout, or 24 hours have passed.
SessionEnds(h) ==
    /\ h \in sessions
    /\ sessions' = sessions \ {h}
    /\ UNCHANGED <<account, codes, limits, now, stage, input>>
-----------------------------------------------------------------------------
(* changePassword and resetAdminUserPassword *)

ChangeLockedOut(c) ==
    /\ stage[c] = "idle"
    /\ Locked("change")
    /\ Goto(c, "done")
    /\ UNCHANGED <<account, sessions, codes, limits, now, input>>

ChangeBegins(c) ==
    /\ stage[c] = "idle"
    /\ Allow("change")
    /\ \E p, n \in Passwords : try' = [try EXCEPT ![c] = p] /\ next' = [next EXCEPT ![c] = n]
    /\ Goto(c, "looking")
    /\ UNCHANGED <<account, sessions, codes, now, code>>

ChangeRecognised(c) ==
    /\ stage[c] = "looking"
    /\ Recognised(c)
    /\ Goto(c, "replacing")
    /\ UNCHANGED <<account, sessions, codes, limits, now, input>>

ChangeRejected(c) ==
    /\ stage[c] = "looking"
    /\ RecordFailure("change")
    /\ Goto(c, "done")
    /\ UNCHANGED <<account, sessions, codes, now, input>>

\* The administrator is authorised before; no current password is asked for.
ResetBegins(s) ==
    /\ stage[s] = "idle"
    /\ \E n \in Passwords : next' = [next EXCEPT ![s] = n]
    /\ Goto(s, "replacing")
    /\ UNCHANGED <<account, sessions, codes, limits, now, try, code>>

\* The update locks the row; the delete takes the sessions that are committed.
ReplaceLock(c) ==
    /\ stage[c] = "replacing"
    /\ RowFree
    /\ row' = c
    /\ doomed' = sessions
    /\ Goto(c, "changing")
    /\ UNCHANGED <<status, hash, sessions, codes, limits, now, input>>

\* Mutant: the sessions are not deleted.
ReplaceKeepsSessions(c) ==
    /\ stage[c] = "changing"
    /\ hash' = Hashed(next[c])
    /\ row' = None
    /\ doomed' = {}
    /\ Goto(c, "done")
    /\ UNCHANGED <<status, sessions, codes, limits, now, input>>

\* A change then clears its failures, unless the COMMIT was applied unheard.
ReplaceCommit(c) ==
    /\ stage[c] = "changing"
    /\ hash' = Hashed(next[c])
    /\ sessions' = sessions \ doomed
    /\ row' = None
    /\ doomed' = {}
    /\ UNCHANGED limits \/ (c \in Changes /\ ClearFailures("change"))
    /\ Goto(c, "done")
    /\ UNCHANGED <<status, codes, now, input>>

\* A failing statement: the transaction, if there is one, rolls back.
ReplaceFails(c) ==
    /\ stage[c] \in {"replacing", "changing"}
    /\ row' = IF row = c THEN None ELSE row
    /\ doomed' = IF row = c THEN {} ELSE doomed
    /\ Goto(c, "done")
    /\ UNCHANGED <<status, hash, sessions, codes, limits, now, input>>
-----------------------------------------------------------------------------
(* updateAdminUser: two statements, not one transaction *)

\* Mutant: the status a request names is not validated.
AnyStatus == {"active", "suspended", "closed"}

Statuses == {"active", "suspended"}

SetStatus(a) ==
    /\ stage[a] = "idle"
    /\ RowFree
    /\ \E s \in Statuses :
          /\ status' = s
          /\ Goto(a, IF s = "suspended" THEN "evicting" ELSE "done")
    /\ UNCHANGED <<hash, row, doomed, sessions, codes, limits, now, input>>

Evict(a) ==
    /\ stage[a] = "evicting"
    /\ sessions' = {}
    /\ Goto(a, "done")
    /\ UNCHANGED <<account, codes, limits, now, input>>

\* The error of the second statement is ignored.
EvictFails(a) ==
    /\ stage[a] = "evicting"
    /\ Goto(a, "done")
    /\ UNCHANGED <<account, sessions, codes, limits, now, input>>
-----------------------------------------------------------------------------
(* oauthLoginExchange *)

\* The callback of a provider issues the code; it lasts two minutes.
IssueCode(k) ==
    /\ codes[k] = "unissued"
    /\ codes' = [codes EXCEPT ![k] = "live"]
    /\ UNCHANGED <<account, sessions, limits, now, stage, input>>

CodeExpires(k) ==
    /\ codes[k] = "live"
    /\ codes' = [codes EXCEPT ![k] = "gone"]
    /\ UNCHANGED <<account, sessions, limits, now, stage, input>>

\* select ... for update on the code joined with its user: waits for both rows.
RedeemLock(e) ==
    /\ stage[e] = "idle"
    /\ RowFree
    /\ \E k \in Codes : codes[k] = "live" /\ code' = [code EXCEPT ![e] = k]
    /\ row' = e
    /\ Goto(e, "redeeming")
    /\ UNCHANGED <<status, hash, doomed, sessions, codes, limits, now, try, next>>

\* An unknown, used or expired code, or a failing statement.
RedeemRefused(e) ==
    /\ stage[e] = "idle"
    /\ Goto(e, "done")
    /\ UNCHANGED <<account, sessions, codes, limits, now, input>>

\* The code is gone from here on, even if the login that follows fails.
RedeemCommit(e) ==
    /\ stage[e] = "redeeming"
    /\ codes' = [codes EXCEPT ![code[e]] = "gone"]
    /\ row' = None
    /\ Goto(e, "entering")
    /\ UNCHANGED <<status, hash, doomed, sessions, limits, now, input>>

RedeemFails(e) ==
    /\ stage[e] = "redeeming"
    /\ row' = None
    /\ code' = [code EXCEPT ![e] = None]
    /\ Goto(e, "done")
    /\ UNCHANGED <<status, hash, doomed, sessions, codes, limits, now, try, next>>

ExchangeLoginFails(e) ==
    /\ stage[e] \in {"entering", "issuing"}
    /\ Goto(e, "done")
    /\ UNCHANGED <<account, sessions, codes, limits, now, input>>
-----------------------------------------------------------------------------
Login(l) ==
    \/ LoginLockedOut(l) \/ LoginBegins(l) \/ LoginRecognised(l) \/ LoginFails(l)
    \/ Rehash(l) \/ RehashFails(l) \/ LoginCleared(l) \/ NextAttempt(l)

Open(h) == Enter(h) \/ OpenSession(h) \/ SessionEnds(h)

Change(c) == ChangeLockedOut(c) \/ ChangeBegins(c) \/ ChangeRecognised(c) \/ ChangeRejected(c)

Replace(c) == ReplaceLock(c) \/ ReplaceCommit(c) \/ ReplaceFails(c)

Suspend(a) == SetStatus(a) \/ Evict(a) \/ EvictFails(a)

Exchange(e) ==
    \/ RedeemLock(e) \/ RedeemRefused(e) \/ RedeemCommit(e) \/ RedeemFails(e)
    \/ ExchangeLoginFails(e)

Next ==
    \/ Tick
    \/ \E l \in Logins : Login(l)
    \/ \E h \in Enterers : Open(h)
    \/ \E c \in Changes : Change(c)
    \/ \E s \in Resets : ResetBegins(s)
    \/ \E c \in Replacers : Replace(c)
    \/ \E a \in Suspensions : Suspend(a)
    \/ \E e \in Exchanges : Exchange(e)
    \/ \E k \in Codes : IssueCode(k) \/ CodeExpires(k)

Spec == Init /\ [][Next]_vars
-----------------------------------------------------------------------------
\* However its attempts interleave, one window of the limiter sees no more failures
\* than lock it and those of the attempts that were under way by then.
FailuresBounded == limits["login"].failures <= LockAfter - 1 + Cardinality(Logins)

\* "a 15-minute lock after five failed attempts" (todo.md): before its time a lock
\* ends only with an attempt that was let in before it, and fails when the window is
\* over, or succeeds.
UnderWay(l) == stage[l] \in {"looking", "entering", "issuing", "clearing"}

LockOutlastsNewAttempts ==
    [][Locked("login") /\ now' < limits["login"].lockedUntil /\ ~Locked("login")'
          => \E l \in Logins : UnderWay(l) /\ stage'[l] = "done"]_vars

\* A login code opens at most one session: no two exchanges redeem the same one.
Redeemed(e) == code[e] # None /\ stage[e] # "redeeming"

OneSessionPerCode ==
    \A e, f \in Exchanges : Redeemed(e) /\ Redeemed(f) /\ code[e] = code[f] => e = f

\* While an account is suspended, its sessions and the logins that may still open
\* one only become fewer: what the eviction misses is what was about to be opened.
Entering == sessions \cup {h \in Enterers : stage[h] = "issuing"}

SuspensionDrains == [][status = "suspended" => Entering' \subseteq Entering]_vars

\* Once a change or reset replaces a password, the sessions that were there when it
\* took the account's row are gone; the ones opened meanwhile and the logins the old
\* password was verified for only become fewer.
Bearers(p) == {l \in Logins : /\ try[l] = p
                              /\ \/ l \in sessions
                                 \/ stage[l] \in {"rehashing", "entering", "issuing"}}

OldPasswordDrains ==
    [][\A p \in Passwords \ {hash'.password} :
          IF hash.password = p
          THEN row \in Replacers => Bearers(p)' \cap doomed \cap sessions = {}
          ELSE Bearers(p)' \subseteq Bearers(p)]_vars

\* The account's password is replaced by an administrator, or by who knows it
\* ("TestChangePasswordRejectsWrongCurrentPassword").
ReplacedKnowingly ==
    [][hash'.password # hash.password =>
          \E c \in Replacers :
              /\ stage[c] = "changing"
              /\ stage'[c] = "done"
              /\ c \in Changes => try[c] = hash.password]_vars

=============================================================================
