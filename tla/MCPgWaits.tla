----------------------------- MODULE MCPgWaits -----------------------------
(* Small instances of PgWaits. *)
EXTENDS PgWaits, TLC

CONSTANTS W1, W2, R1, R2, R3, E1, E2, P1, P2, U1, U2, G1, K1, K2

\* Two orders that list the same two seats in opposite order; a purchase, its retry and
\* another purchase under one key; two orders with the empty key; two payments of one order.
Bodies ==
    W1 :> <<4, 5>> @@ W2 :> <<5, 4>>
    @@ R1 :> <<2, 4, 5>> @@ R2 :> <<2, 5, 4>> @@ R3 :> <<2, 5>>
    @@ E1 :> <<3, 4>> @@ E2 :> <<3, 5>>
    @@ P1 :> <<1>> @@ P2 :> <<1>>

MCAsked == [c \in Writer |-> Bodies[c]]
MCKind == <<"row", "key", "empty", "seat", "seat">>

\* On a cold replica, beside a session that has locked a seat; on a warm one without any
\* timeout; and, for the answers, the uses of a key, and empty keys beside payments.
MCSetting ==
    {[calls |-> C, limits |-> TRUE, warm |-> FALSE, foreign |-> {5}] :
        C \in {{W1, W2, U1}, {W1, U1, U2, G1}}}
    \cup {[calls |-> C, limits |-> FALSE, warm |-> TRUE, foreign |-> {}] :
        C \in {{W1, W2, U1, U2}, {R1, R2, U1}}}
    \cup {[calls |-> C, limits |-> TRUE, warm |-> TRUE, foreign |-> {4}] :
        C \in {{W1, R1, R2}, {R1, R2, R3}, {E1, E2, P1}, {E1, P1, P2}}}
=============================================================================
