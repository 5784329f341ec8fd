-------------------------------- MODULE Seed --------------------------------
(***************************************************************************)
(* seed.py: it deletes and rewrites the event catalog in MongoDB, empties  *)
(* and refills PostgreSQL, copies the number of active tickets into the    *)
(* catalog's counters and refills the activity log.  None of this is one   *)
(* transaction.  The script can die anywhere and is then run again, and an  *)
(* order of the running API can fall in between.                           *)
(***************************************************************************)
EXTENDS Integers, FiniteSets

CONSTANTS
    Event,      \* shows of the catalog
    OnSale,     \* those whose status is not coming_soon
    ZoneName,
    Capacity,   \* of every zone
    RowLength,  \* seats in a row of the seat map (18)
    UserCounts, \* values of --users
    Orders,     \* --orders
    MaxTickets, \* tickets of one order, 4 in the source
    MaxRuns     \* bound on runs of the script

ASSUME SeedAssumption ==
    /\ OnSale \subseteq Event
    /\ {Capacity, RowLength, MaxTickets} \subseteq Nat \ {0}
    /\ {Orders, MaxRuns} \subseteq Nat /\ UserCounts \subseteq Nat \ {0}

Key == Event \X ZoneName

VARIABLES
    live,    \* does the API take orders during the runs?
    step,    \* where main() is, "off" when it does not run
    runs,
    asked,   \* --users
    catalog, \* number of the last events written; their ids are new each time
    shown,   \* the collection holds them
    booked,  \* booked_count of their zones
    users,   \* ids 1..users are in the table
    saved,   \* committed orders
    session, \* orders of the open transaction
    next,    \* seat_label_counters
    active,  \* active_seat_counts
    synced,  \* zones whose counter is set
    logs,    \* user ids in the activity log
    buyer    \* an order of the API under way: its seat and what it did so far

seedVars == <<step, runs, asked, session, next, active, synced>>
dataVars == <<catalog, shown, booked, users, saved, logs>>
vars == <<live, seedVars, dataVars, buyer>>

----------------------------------------------------------------------------
(* Orders and seats.                                                       *)

\* Mutant: every row starts again at the same label.
SeatLabelOneRow(index) == <<0, (index - 1) % RowLength>>

\* _seat_label: the row and the place in it; letters name rows one to one.
SeatLabel(index) == <<(index - 1) \div RowLength, (index - 1) % RowLength>>

\* A ticket names a document of the catalog by its id.
Ticket(key, seat) == [catalog |-> catalog, key |-> key, seat |-> seat]

\* The seats of an order: held or valid tickets are under the unique index.
ActiveTickets(orders) ==
    UNION {o.tickets : o \in {p \in orders : p.status \in {"confirmed", "pending"}}}

\* How often an order over zones takes a seat of this zone before its i-th.
Before(zones, i, z) == Cardinality({j \in DOMAIN zones : j < i /\ zones[j] = z})

NextSeat(e, zones, i) == SeatLabel(next[e, zones[i]] + Before(zones, i, zones[i]))

\* The seats of the order per zone ...
Seats(e, zones) ==
    [k \in Key |-> IF k[1] = e THEN Cardinality({i \in DOMAIN zones : zones[i] = k[2]}) ELSE 0]

\* Mutant: seats of expired orders are counted, too.
AnySeats(e, zones, status) == Seats(e, zones)

\* ... and those that are held or valid.
ActiveSeats(e, zones, status) ==
    IF status \in {"confirmed", "pending"} THEN Seats(e, zones) ELSE [k \in Key |-> 0]

Taken(seats) == seats \cap ActiveTickets(saved \cup session) # {}

Zero == [k \in Key |-> 0]

----------------------------------------------------------------------------
(* main().                                                                 *)

\* What was there before: perhaps an order for a show of the old catalog.
SeedInit ==
    /\ live \in BOOLEAN
    /\ step = "off" /\ runs = 0 /\ asked \in UserCounts /\ session = {}
    /\ next = [k \in Key |-> 1] /\ active = Zero /\ synced = {}
    /\ catalog = 0 /\ shown = TRUE /\ users = asked /\ logs = 1..asked
    /\ \E k \in Key, s \in {"none", "pending", "expired"} :
        /\ saved = IF s = "none" THEN {}
                   ELSE {[no |-> 0, status |-> s, tickets |-> {Ticket(k, SeatLabel(1))}]}
        /\ booked = [Zero EXCEPT ![k] = IF s = "pending" THEN 1 ELSE 0]
    /\ buyer = [at |-> "idle"]

Start ==
    /\ step \in {"off", "done"} /\ runs < MaxRuns
    /\ \E n \in UserCounts : asked' = n
    /\ runs' = runs + 1 /\ step' = "delete"
    /\ session' = {} /\ next' = [k \in Key |-> 1] /\ active' = Zero /\ synced' = {}
    /\ UNCHANGED <<dataVars, buyer>>

DeleteEvents ==
    /\ step = "delete" /\ step' = "insert"
    /\ shown' = FALSE /\ booked' = Zero
    /\ UNCHANGED <<runs, asked, session, next, active, synced, catalog, users, saved, logs, buyer>>

InsertEvents ==
    /\ step = "insert" /\ step' = "truncate"
    /\ catalog' = catalog + 1 /\ shown' = TRUE /\ booked' = Zero
    /\ UNCHANGED <<runs, asked, session, next, active, synced, users, saved, logs, buyer>>

\* Mutant: TRUNCATE without the tickets and orders.
TruncateUsers ==
    /\ step = "truncate" /\ step' = "users"
    /\ users' = 0
    /\ UNCHANGED <<runs, asked, session, next, active, synced, catalog, shown, booked, saved, logs, buyer>>

Truncate ==
    /\ step = "truncate" /\ step' = "users"
    /\ users' = 0 /\ saved' = {}
    /\ UNCHANGED <<runs, asked, session, next, active, synced, catalog, shown, booked, logs, buyer>>

SeedUsers ==
    /\ step = "users" /\ step' = "orders"
    /\ users' = asked
    /\ UNCHANGED <<runs, asked, session, next, active, synced, catalog, shown, booked, saved, logs, buyer>>

\* One round of the loop: the order is flushed into the open transaction; a
\* seat that is taken already ends the script, which rolls everything back.
SeedOrder ==
    /\ step = "orders" /\ Cardinality(session) < Orders
    /\ \E e \in OnSale, status \in {"confirmed", "pending", "expired"}, n \in 1..MaxTickets :
       \E zones \in [1..n -> ZoneName] :
        LET seats == {Ticket(<<e, zones[i]>>, NextSeat(e, zones, i)) : i \in 1..n}
            clash == status # "expired" /\ (Taken(seats) \/ Cardinality(seats) < n)
        IN IF clash
           THEN step' = "failed" /\ session' = {} /\ UNCHANGED <<next, active>>
           ELSE /\ session' = session \cup
                     {[no |-> Cardinality(session) + 1, status |-> status, tickets |-> seats]}
                /\ next' = [k \in Key |-> next[k] + Seats(e, zones)[k]]
                /\ active' = [k \in Key |-> active[k] + ActiveSeats(e, zones, status)[k]]
                /\ UNCHANGED step
    /\ UNCHANGED <<runs, asked, synced, dataVars, buyer>>

\* Mutant: the transaction ends after every order.
CommitEach ==
    /\ step = "orders" /\ session # {}
    /\ step' = IF Cardinality(session) = Orders THEN "sync" ELSE step
    /\ saved' = saved \cup session /\ session' = {}
    /\ UNCHANGED <<runs, asked, next, active, synced, catalog, shown, booked, users, logs, buyer>>

CommitOrders ==
    /\ step = "orders" /\ Cardinality(session) = Orders
    /\ step' = "sync"
    /\ saved' = saved \cup session /\ session' = {}
    /\ UNCHANGED <<runs, asked, next, active, synced, catalog, shown, booked, users, logs, buyer>>

\* $set of one counter; the events are those this run inserted.
Sync ==
    /\ step = "sync"
    /\ \E k \in Key :
        /\ active[k] > 0 /\ k \notin synced
        /\ booked' = [booked EXCEPT ![k] = active[k]] /\ synced' = synced \cup {k}
    /\ UNCHANGED <<step, runs, asked, session, next, active, catalog, shown, users, saved, logs, buyer>>

\* After the last counter the old log goes ...
DeleteLogs ==
    /\ step = "sync" /\ \A k \in Key : active[k] > 0 => k \in synced
    /\ step' = "logs" /\ logs' = {}
    /\ UNCHANGED <<runs, asked, session, next, active, synced, catalog, shown, booked, users, saved, buyer>>

\* ... and each entry of the new one names some user of the table.
InsertLogs ==
    /\ step = "logs" /\ step' = "done"
    /\ \E ids \in SUBSET (1..users) \ {{}} : logs' = ids
    /\ UNCHANGED <<runs, asked, session, next, active, synced, catalog, shown, booked, users, saved, buyer>>

\* The process dies, or a statement fails: the session is rolled back.
Crash ==
    /\ step \notin {"off", "done"}
    /\ step' = "off" /\ session' = {}
    /\ UNCHANGED <<runs, asked, next, active, synced, dataVars, buyer>>

----------------------------------------------------------------------------
(* One order of the API: place_order as Booking has it.                    *)

Reserve ==
    /\ live /\ buyer.at = "idle" /\ shown
    /\ \E k \in OnSale \X ZoneName, i \in 1..Capacity :
        /\ booked[k] < Capacity
        /\ booked' = [booked EXCEPT ![k] = @ + 1]
        /\ buyer' = [at |-> "reserved", ticket |-> Ticket(k, SeatLabel(i))]
    /\ UNCHANGED <<seedVars, catalog, shown, users, saved, logs>>

\* The INSERT needs a user and a seat nobody holds; it waits for the script's
\* open transaction or fails on its own limit.
Insert ==
    /\ buyer.at = "reserved"
    /\ \/ /\ users > 0 /\ ~Taken({buyer.ticket})
          /\ saved' = saved \cup {[no |-> 0, status |-> "pending", tickets |-> {buyer.ticket}]}
          /\ buyer' = [at |-> "done"]
       \/ buyer' = [buyer EXCEPT !.at = "undo"] /\ UNCHANGED saved
    /\ UNCHANGED <<seedVars, catalog, shown, booked, users, logs>>

GiveBack ==
    /\ buyer.at = "undo" /\ buyer' = [at |-> "done"]
    /\ LET k == buyer.ticket.key
       IN booked' = IF shown /\ buyer.ticket.catalog = catalog /\ booked[k] > 0
                    THEN [booked EXCEPT ![k] = @ - 1] ELSE booked
    /\ UNCHANGED <<seedVars, catalog, shown, users, saved, logs>>

SeedStep ==
    \/ Start \/ DeleteEvents \/ InsertEvents \/ Truncate \/ SeedUsers \/ SeedOrder
    \/ CommitOrders \/ Sync \/ DeleteLogs \/ InsertLogs \/ Crash

SeedNext == (SeedStep \/ Reserve \/ Insert \/ GiveBack) /\ UNCHANGED live

SeedSpec == SeedInit /\ [][SeedNext]_vars

----------------------------------------------------------------------------
(* Properties.                                                             *)

SeatsOf(k) == {t \in ActiveTickets(saved) : t.catalog = catalog /\ t.key = k}

\* After a complete run, and whatever runs died before it, the counter of
\* every zone is the number of its held and valid tickets ("Event zone
\* booked_count precisely matches active held & valid tickets"), when no order
\* of the API falls in between.
SeedMatches ==
    step = "done" /\ ~live => \A k \in Key : booked[k] = Cardinality(SeatsOf(k))

\* A complete run leaves nothing of what was there before: every ticket is for
\* a show of the new catalog, every log entry names a user that exists.
NothingLeftOver ==
    step = "done" /\ ~live =>
        /\ \A o \in saved : o.no > 0 /\ \A t \in o.tickets : t.catalog = catalog
        /\ logs \subseteq 1..users /\ Cardinality(saved) = Orders

\* On a database nobody else writes to, the script never trips over its own
\* seat labels: no order repeats a seat of another one or of itself.
NeverFails == ~live => step # "failed"

\* A run saves all of its orders or none of them: one that dies or meets a
\* seat that an order of the API took leaves no part of its orders behind.
AllOrNothing ==
    LET seeded == {o \in saved : o.no > 0}
    IN seeded = {} \/ Cardinality(seeded) = Orders
=============================================================================
