------------------------- MODULE BookingRefinement -------------------------
(* Booking implements SeatSale: what customers can see of PostgreSQL is the *)
(* sale of one database, whatever the MongoDB counters do in between.       *)
EXTENDS Booking

\* The lines of order r that occupy a seat.
SeatsHeld == [r \in Request |-> {l \in Line : tickets[r][l] \in {"held", "valid"}}]

Sale == INSTANCE SeatSale
            WITH Order <- Request, status <- order, seats <- SeatsHeld, charged <- payments

\* Every step of the three handlers is one atomic sale step or invisible: the
\* reservations, compensations and releases in MongoDB, and every crash between
\* them, never show as an order without its seats or a seat sold twice.
ImplementsSale == Sale!SaleSpec
=============================================================================
