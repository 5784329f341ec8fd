------------------------------ MODULE SeatSale ------------------------------
(***************************************************************************)
(* What the booking platform promises its customers, as if there were one  *)
(* database: an order takes all its seats at once or does not exist, no    *)
(* zone and no numbered seat is sold beyond what it has, a hold ends by    *)
(* being paid once or by giving its seats up, and both endings are final.  *)
(***************************************************************************)
EXTENDS Integers, FiniteSets

CONSTANTS Order, Zone, Capacity, Line, ZoneOf, SeatOf

VARIABLES
    status,   \* status[o]: "none", "pending", "confirmed" or "expired"
    seats,    \* seats[o]: the ticket lines o holds or owns
    charged   \* charged[o]: how many times o was paid for

saleVars == <<status, seats, charged>>

\* Seats of zone z that somebody holds or owns, as (order, line) pairs.
Sold(z) == {t \in Order \X Line : ZoneOf[t[2]] = z /\ t[2] \in seats[t[1]]}

\* Lines L of order o still fit: numbers per zone, and no seat taken twice.
Available(o, L) ==
    \A z \in Zone :
        /\ Cardinality(Sold(z) \cup {t \in {o} \X L : ZoneOf[t[2]] = z}) <= Capacity[z]
        /\ \A l \in L : ZoneOf[l] = z /\ SeatOf[l] # 0 =>
              /\ \A t \in Sold(z) : SeatOf[t[2]] # SeatOf[l]
              /\ \A m \in L \ {l} : ZoneOf[m] = z => SeatOf[m] # SeatOf[l]

SaleInit ==
    /\ status = [o \in Order |-> "none"]
    /\ seats = [o \in Order |-> {}]
    /\ charged = [o \in Order |-> 0]

Hold(o) ==
    /\ status[o] = "none"
    /\ status' = [status EXCEPT ![o] = "pending"]
    /\ \E L \in SUBSET Line : Available(o, L) /\ seats' = [seats EXCEPT ![o] = L]
    /\ UNCHANGED charged

Confirm(o) ==
    /\ status[o] = "pending"
    /\ status' = [status EXCEPT ![o] = "confirmed"]
    /\ charged' = [charged EXCEPT ![o] = 1]
    /\ UNCHANGED seats

Expire(O) ==
    /\ \A o \in O : status[o] = "pending"
    /\ status' = [o \in Order |-> IF o \in O THEN "expired" ELSE status[o]]
    /\ seats' = [o \in Order |-> IF o \in O THEN {} ELSE seats[o]]
    /\ UNCHANGED charged

SaleNext ==
    \/ \E o \in Order : Hold(o) \/ Confirm(o)
    \/ \E O \in SUBSET Order : Expire(O)

SaleSpec == SaleInit /\ [][SaleNext]_saleVars
=============================================================================
