----------------------------- MODULE MCDbGuards -----------------------------
(* Small instances of DbGuards. *)
EXTENDS DbGuards

CONSTANTS Book, Pay

\* users, orders, payments: an order is written before its user is looked up.
MCUses == [a \in Api |-> IF a = Book THEN <<2, 1>> ELSE <<2, 3>>]
=============================================================================
