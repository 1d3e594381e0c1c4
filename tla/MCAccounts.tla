----------------------------- MODULE MCAccounts -----------------------------
(* Requests of one kind are interchangeable. *)
EXTENDS Accounts, TLC

Symmetry ==
    Permutations(Logins) \cup Permutations(Changes) \cup Permutations(Suspensions)
        \cup Permutations(Exchanges)
=============================================================================
