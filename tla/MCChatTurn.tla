----------------------------- MODULE MCChatTurn -----------------------------
(* Instance of ChatTurn: a token that begins a character, one that ends it and *)
(* goes on, and the end of the sequence, which is not shown.                   *)
EXTENDS ChatTurn

CONSTANTS begins, ends, eos

MCTokens == {begins, ends, eos}
MCEnd == {eos}
MCPiece == [t \in MCTokens |->
               CASE t = begins -> <<"lead">>
                 [] t = ends -> <<"continuation", "ascii">>
                 [] t = eos -> <<"ascii">>]

=============================================================================
