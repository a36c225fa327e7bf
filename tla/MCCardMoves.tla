---------------------------- MODULE MCCardMoves ----------------------------
(* CardMoves for TLC. *)
EXTENDS CardMoves

MCColumns == <<"Todo", "Done">>

\* Two cards in one list, of different or of the same position, or one in each.
MCInit ==
    /\ Init
    /\ server[1].status = "Todo" /\ server[1].pos = 0
    /\ server[2].status = "Done" => server[2].pos = 0
MCSpec == MCInit /\ [][Next]_vars
=============================================================================
