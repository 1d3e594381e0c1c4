--------------------------- MODULE CreditAccount ---------------------------
(***************************************************************************)
(* What the credit reservation of the billing backend promises, without    *)
(* wallets, ledgers or transactions: an account from which each request    *)
(* may take one hold, and every hold is either cancelled or settled for a  *)
(* final charge, once.  InferenceBilling implements this specification     *)
(* when no acknowledgement is lost, no release fails and no server stops.  *)
(***************************************************************************)
EXTENDS Integers

CONSTANT Requests

VARIABLES
    available,  \* credits nobody holds
    hold,       \* [Requests -> Nat], what each open request has set aside
    phase       \* [Requests -> Phases]

vars == <<available, hold, phase>>

Phases == {"new", "held", "settled", "closed"}

TypeOK ==
    /\ available \in Nat
    /\ hold \in [Requests -> Nat]
    /\ phase \in [Requests -> Phases]

Init ==
    /\ available \in Nat
    /\ hold = [r \in Requests |-> 0]
    /\ phase = [r \in Requests |-> "new"]

Hold(r, n) ==
    /\ phase[r] = "new"
    /\ n \in 0..available
    /\ available' = available - n
    /\ hold' = [hold EXCEPT ![r] = n]
    /\ phase' = [phase EXCEPT ![r] = "held"]

Refuse(r) ==
    /\ phase[r] = "new"
    /\ phase' = [phase EXCEPT ![r] = "closed"]
    /\ UNCHANGED <<available, hold>>

\* The whole hold goes back.
Cancel(r) ==
    /\ phase[r] = "held"
    /\ available' = available + hold[r]
    /\ hold' = [hold EXCEPT ![r] = 0]
    /\ phase' = [phase EXCEPT ![r] = "closed"]

\* The final charge leaves the account: out of the hold first, and what the
\* hold does not cover out of the credits nobody holds.
Settle(r, charge) ==
    /\ phase[r] = "held"
    /\ charge \in 0..(available + hold[r])
    /\ available' = available + hold[r] - charge
    /\ hold' = [hold EXCEPT ![r] = 0]
    /\ phase' = [phase EXCEPT ![r] = "settled"]

Next ==
    \E r \in Requests :
        \/ Refuse(r)
        \/ Cancel(r)
        \/ \E n \in 0..available : Hold(r, n)
        \/ \E charge \in 0..(available + hold[r]) : Settle(r, charge)

Spec == Init /\ [][Next]_vars
=============================================================================
