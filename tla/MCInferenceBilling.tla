------------------------- MODULE MCInferenceBilling -------------------------
(* Requests are interchangeable, except that some name a conversation. *)
EXTENDS InferenceBilling, TLC

Symmetry == Permutations(Conversational) \cup Permutations(Requests \ Conversational)
=============================================================================
