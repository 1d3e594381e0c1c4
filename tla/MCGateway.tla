------------------------------ MODULE MCGateway ------------------------------
(* A chat model with three routes, of which the last belongs to a dearer profile, and  *)
(* an image model with one route and no price.                                          *)
EXTENDS Gateway, TLC

MCCatalog ==
    LET chat == [model |-> "chat", profile |-> "", modality |-> "chat",
                 priority |-> 2, weight |-> 0, latency |-> None]
    IN  1 :> chat
        @@ 2 :> [chat EXCEPT !.weight = 3]
        @@ 3 :> [chat EXCEPT !.profile = "fast", !.priority = 1, !.latency = 5]
        @@ 4 :> [chat EXCEPT !.model = "image", !.modality = "image"]

MCRules ==
    LET input == [id |-> 1, model |-> "chat", profile |-> "", type |-> "input",
                  unit |-> "1k_tokens", price |-> 1]
    IN  {input, [input EXCEPT !.id = 2, !.type = "output", !.price = 2],
         [input EXCEPT !.id = 3, !.profile = "fast", !.type = "output", !.price = 3]}

MCAsks ==
    LET ask == [name |-> "chat", prompt |-> 2, maxTokens |-> None, outputs |-> None,
                seconds |-> None]
    IN  {ask, [ask EXCEPT !.name = "fast", !.maxTokens = 1], [ask EXCEPT !.name = "image"]}

MCAnswers == {[prompt |-> 2, completion |-> 1], [prompt |-> 1, completion |-> 3]}

Symmetry == Permutations(Slots)
=============================================================================
