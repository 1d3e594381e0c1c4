------------------------------ MODULE MCTenants ------------------------------
EXTENDS Tenants, TLC

\* "Ann" and "ann" are one address.
LowerCase == [e \in Emails |-> IF e = "Ann" THEN "ann" ELSE e]

\* Both identities come with the same address, one of them in either spelling.
OneAddress == {<<"google", "Ann">>, <<"google", "ann">>, <<"github", "ann">>}
\* Requests are alike.
Symmetry == Permutations(Slots)
=============================================================================
