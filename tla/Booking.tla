------------------------------ MODULE Booking ------------------------------
(***************************************************************************)
(* Seat booking over two databases that share no transaction.              *)
(*                                                                         *)
(* PostgreSQL keeps the orders, tickets, payments and outbox rows; every   *)
(* transaction on it is one atomic step.  MongoDB keeps one counter of     *)
(* booked seats per zone; every update_one on it is one atomic step.  The  *)
(* handlers interleave between those steps:                                *)
(*   - a POST /orders request (create_order_dual_db) reserves in MongoDB,  *)
(*     writes PostgreSQL and compensates MongoDB when anything fails;      *)
(*   - a POST /orders/{id}/payments request (process_order_payment) locks  *)
(*     the order row, then confirms it or expires it;                      *)
(*   - a background worker of a replica (cleanup_expired_seat_holds)       *)
(*     expires overdue holds and gives their seats back.                   *)
(* Any of them can die, and any database call can fail, MaxFaults times.   *)
(***************************************************************************)
EXTENDS Integers, FiniteSets, Sequences

CONSTANTS
    Request,   \* POST /orders calls; an order is named by the call that wrote it
    Payer,     \* payment calls
    Sweeper,   \* background workers, one per API replica
    Zone,      \* (event, zone) pairs of the catalog, numbered in lock order
    Capacity,  \* [Zone -> Nat]: zones[].capacity
    Prebooked, \* [Zone -> Nat]: zones[].booked_count when the event is created
    Line,      \* ticket lines as clients spell them (event id, zone, seat)
    ZoneOf,    \* [Line -> Zone \cup {NoZone}]: the zone a spelling denotes
    SeatOf,    \* [Line -> Nat]: the seat it denotes after strip(), or NoSeat
    Payload,   \* request bodies: [user, key, lines]
    KnownUser, \* users the orders.user_id foreign key accepts
    Batch,     \* SWEEP_BATCH_SIZE
    MaxFaults, \* bound on crashes and failed database calls
    LostAck    \* TRUE when a COMMIT of an order may succeed but look failed

NoZone == 0
NoSeat == 0
NullKey == "null"    \* no Idempotency-Key header
EmptyKey == ""       \* the header sent with an empty value

Agent == Payer \cup Sweeper
Tix == Request \X Line

ASSUME ActorAssumption ==
    /\ IsFiniteSet(Request) /\ IsFiniteSet(Line)
    /\ Payer \cap Sweeper = {}

ASSUME CatalogAssumption ==
    /\ Zone \subseteq Nat \ {NoZone}
    /\ Capacity \in [Zone -> Nat]
    /\ Prebooked \in [Zone -> Nat]
    /\ \A z \in Zone : Prebooked[z] <= Capacity[z]
    /\ ZoneOf \in [Line -> Zone \cup {NoZone}]
    /\ SeatOf \in [Line -> Nat]

ASSUME PayloadAssumption ==
    \A b \in Payload : b.lines \subseteq Line

ASSUME BoundAssumption ==
    /\ Batch \in Nat \ {0}
    /\ MaxFaults \in Nat
    /\ LostAck \in BOOLEAN

VARIABLES
    body,      \* body[r]: what request r asks for (never changes)
    pc,        \* pc[r]: where create_order_dual_db is
    reserved,  \* reserved[r]: zones in mongo_reserved
    code,      \* code[r]: HTTP answer, or the IntegrityError being handled
    given,     \* given[r]: the order in a 201 answer, as a set of at most one
    booked,    \* booked[z]: zones[].booked_count in MongoDB
    order,     \* order[r]: orders.status, "none" when there is no such row
    overdue,   \* overdue[r]: expires_at < now
    tickets,   \* tickets[r][l]: tickets.status of line l of order r
    payments,  \* payments[r]: completed payments of order r
    outbox,    \* outbox[r]: outbox_events of order r, oldest first
    at,        \* at[a]: where a payment call or a worker is
    holds,     \* holds[a]: order rows a holds FOR UPDATE
    owed,      \* owed[a]: cancelled tickets a has still to give back to MongoDB
    slow,      \* slow[a]: the zone a gives back one seat at a time
    faults     \* crashes and failed calls so far

requestVars == <<pc, reserved, code, given>>
pgVars == <<order, overdue, tickets, payments, outbox>>
agentVars == <<at, holds, owed, slow>>
vars == <<body, requestVars, booked, pgVars, agentVars, faults>>

----------------------------------------------------------------------------
(* What a request wants.                                                   *)

\* The tickets request r asks for in zone z, and their number.
TicketsIn(r, z) ==
    {t \in Tix : t[1] = r /\ t[2] \in body[r].lines /\ ZoneOf[t[2]] = z}
Qty(r, z) == Cardinality(TicketsIn(r, z))

\* zone_requests: the (event, zone) pairs of the validated items.
Wanted(r) == {z \in Zone : TicketsIn(r, z) # {}}

Valid(r) == \A l \in body[r].lines : ZoneOf[l] # NoZone

\* `if idempotency_key`: an empty header is falsy.
KeyGiven(r) == body[r].key \notin {NullKey, EmptyKey}

\* The committed order stored under the key of r (at most one).
Stored(r) == {w \in Request : order[w] # "none" /\ body[w].key = body[r].key}

\* The fingerprint: same user, number of items and (event, zone) signature.
SameFingerprint(r, w) ==
    /\ body[r].user = body[w].user
    /\ Cardinality(body[r].lines) = Cardinality(body[w].lines)
    /\ \A z \in Zone : Qty(r, z) = Qty(w, z)

----------------------------------------------------------------------------
(* The PostgreSQL tables.                                                  *)

\* Tickets of zone z that occupy a seat (ACTIVE_TICKETS_SQL).
Active(z) ==
    {t \in Tix : ZoneOf[t[2]] = z /\ tickets[t[1]][t[2]] \in {"held", "valid"}}

\* Mutant: the unique index on orders.idempotency_key is missing.
KeyConflictUnchecked(r) == FALSE

\* The unique key column refuses r: '' is a value like any other, NULL is not.
KeyConflict(r) == body[r].key # NullKey /\ Stored(r) # {}

\* Mutant: the index compares the raw spelling instead of the canonical seat.
SeatConflictRaw(r) ==
    \E l \in body[r].lines :
        SeatOf[l] # NoSeat /\ \E t \in Active(ZoneOf[l]) : t[2] = l

\* Mutant: the partial index covers status 'held' only.
SeatConflictHeldOnly(r) ==
    \E l \in body[r].lines :
        /\ SeatOf[l] # NoSeat
        /\ \E t \in Active(ZoneOf[l]) :
              tickets[t[1]][t[2]] = "held" /\ SeatOf[t[2]] = SeatOf[l]

\* uq_tickets_event_zone_seat refuses a line of r: the seat is held or valid,
\* or r itself names it twice.
SeatConflict(r) ==
    \E l \in body[r].lines :
        /\ SeatOf[l] # NoSeat
        /\ \/ \E t \in Active(ZoneOf[l]) : SeatOf[t[2]] = SeatOf[l]
           \/ \E m \in body[r].lines \ {l} :
                 ZoneOf[m] = ZoneOf[l] /\ SeatOf[m] = SeatOf[l]

HeldTickets(R) == {t \in Tix : t[1] \in R /\ tickets[t[1]][t[2]] = "held"}

\* UPDATE tickets SET status = s WHERE order_id IN R AND status = 'held'
MoveHeld(R, s) ==
    [r \in Request |->
        [l \in Line |-> IF r \in R /\ tickets[r][l] = "held" THEN s ELSE tickets[r][l]]]

\* INSERT INTO outbox_events, one row for each order of R
Publish(R, e) ==
    [r \in Request |-> IF r \in R THEN Append(outbox[r], e) ELSE outbox[r]]

\* Mutant: rows are read without FOR UPDATE.
RowFreeAlways(r) == TRUE

RowFree(r) == \A a \in Agent : r \notin holds[a]

Fault == faults < MaxFaults /\ faults' = faults + 1

----------------------------------------------------------------------------
Init ==
    /\ body \in [Request -> Payload]
    /\ pc = [r \in Request |-> "new"]
    /\ reserved = [r \in Request |-> {}]
    /\ code = [r \in Request |-> "none"]
    /\ given = [r \in Request |-> {}]
    /\ booked = Prebooked
    /\ order = [r \in Request |-> "none"]
    /\ overdue = [r \in Request |-> FALSE]
    /\ tickets = [r \in Request |-> [l \in Line |-> "none"]]
    /\ payments = [r \in Request |-> 0]
    /\ outbox = [r \in Request |-> <<>>]
    /\ at = [a \in Agent |-> "idle"]
    /\ holds = [a \in Agent |-> {}]
    /\ owed = [a \in Agent |-> {}]
    /\ slow = [a \in Agent |-> {}]
    /\ faults = 0

----------------------------------------------------------------------------
(* create_order_dual_db                                                    *)

Answer(r, c, W) ==
    /\ pc' = [pc EXCEPT ![r] = "done"]
    /\ code' = [code EXCEPT ![r] = c]
    /\ given' = [given EXCEPT ![r] = W]

\* An exception with MongoDB seats in hand: release them, then answer c.
Compensate(r, c) ==
    /\ pc' = [pc EXCEPT ![r] = "release"]
    /\ code' = [code EXCEPT ![r] = c]
    /\ UNCHANGED <<reserved, given>>

\* 1. The key names a committed order: replay it, or 409 on another payload.
Replay(r) ==
    /\ pc[r] = "new"
    /\ KeyGiven(r)
    /\ \E w \in Stored(r) :
          IF SameFingerprint(r, w) THEN Answer(r, "201", {w}) ELSE Answer(r, "409", {})
    /\ UNCHANGED <<body, reserved, booked, pgVars, agentVars, faults>>

\* 2. A bad event id (400), an unknown event (404) or an unknown zone (400).
Refuse(r) ==
    /\ pc[r] = "new"
    /\ ~(KeyGiven(r) /\ Stored(r) # {})
    /\ ~Valid(r)
    /\ \E c \in {"400", "404"} : Answer(r, c, {})
    /\ UNCHANGED <<body, reserved, booked, pgVars, agentVars, faults>>

Accept(r) ==
    /\ pc[r] = "new"
    /\ ~(KeyGiven(r) /\ Stored(r) # {})
    /\ Valid(r)
    /\ pc' = [pc EXCEPT ![r] = "reserve"]
    /\ UNCHANGED <<body, reserved, code, given, booked, pgVars, agentVars, faults>>

\* 3. The zone the loop over the sorted zone_requests reaches next.
NextZone(r) ==
    {z \in Wanted(r) \ reserved[r] : \A y \in Wanted(r) \ reserved[r] : z <= y}

\* Mutant: the filter compares with capacity and forgets the quantity.
FitsOne(r, z) == booked[z] < Capacity[z]

\* The filter of the conditional update: booked_count <= capacity - quantity.
Fits(r, z) == booked[z] + Qty(r, z) <= Capacity[z]

Reserve(r, z) ==
    /\ pc[r] = "reserve"
    /\ z \in NextZone(r)
    /\ Fits(r, z)
    /\ booked' = [booked EXCEPT ![z] = @ + Qty(r, z)]
    /\ reserved' = [reserved EXCEPT ![r] = @ \cup {z}]
    /\ UNCHANGED <<body, pc, code, given, pgVars, agentVars, faults>>

\* Mutant: a sold-out zone is retried instead of answered.
SoldOutRetries(r, z) ==
    /\ pc[r] = "reserve"
    /\ z \in NextZone(r)
    /\ ~Fits(r, z)
    /\ UNCHANGED vars

SoldOut(r, z) ==
    /\ pc[r] = "reserve"
    /\ z \in NextZone(r)
    /\ ~Fits(r, z)
    /\ Compensate(r, "409")
    /\ UNCHANGED <<body, booked, pgVars, agentVars, faults>>

\* update_one raises.  The server may have applied the update before the reply
\* was lost: the zone is not in mongo_reserved, so nobody gives it back.
ReserveFails(r, z) ==
    /\ pc[r] = "reserve"
    /\ z \in NextZone(r)
    /\ Fault
    /\ \/ UNCHANGED booked
       \/ Fits(r, z) /\ booked' = [booked EXCEPT ![z] = @ + Qty(r, z)]
    /\ Compensate(r, "503")
    /\ UNCHANGED <<body, pgVars, agentVars>>

\* 4. One PostgreSQL transaction: order, tickets, SEAT_HELD, COMMIT.
Reserved(r) == pc[r] = "reserve" /\ reserved[r] = Wanted(r)

WriteOrder(r) ==
    /\ order' = [order EXCEPT ![r] = "pending"]
    /\ tickets' = [tickets EXCEPT ![r] =
                     [l \in Line |-> IF l \in body[r].lines THEN "held" ELSE "none"]]
    /\ outbox' = Publish({r}, "SEAT_HELD")
    /\ UNCHANGED <<overdue, payments>>

Commit(r) ==
    /\ Reserved(r)
    /\ ~KeyConflict(r)
    /\ body[r].user \in KnownUser
    /\ ~SeatConflict(r)
    /\ WriteOrder(r)
    /\ reserved' = [reserved EXCEPT ![r] = {}]
    /\ Answer(r, "201", {r})
    /\ UNCHANGED <<body, booked, agentVars, faults>>

\* 5. IntegrityError: the key is checked first, then the user, then the seats.
Conflict(r) ==
    /\ Reserved(r)
    /\ \/ KeyConflict(r) /\ Compensate(r, "key")
       \/ ~KeyConflict(r) /\ body[r].user \notin KnownUser /\ Compensate(r, "user")
       \/ /\ ~KeyConflict(r) /\ body[r].user \in KnownUser
          /\ SeatConflict(r) /\ Compensate(r, "409")
    /\ UNCHANGED <<body, booked, pgVars, agentVars, faults>>

\* Mutant: the order is committed before the outbox row is written.
PgFailsHalfway(r) ==
    /\ Reserved(r)
    /\ Fault
    /\ WriteOrder(r)
    /\ Compensate(r, "500")
    /\ UNCHANGED <<body, booked, agentVars>>

\* Any other exception before COMMIT took effect (classify_db_error).
PgFails(r) ==
    /\ Reserved(r)
    /\ Fault
    /\ \E c \in {"409", "503", "500"} : Compensate(r, c)
    /\ UNCHANGED <<body, booked, pgVars, agentVars>>

\* COMMIT took effect, but the connection broke before the answer arrived.
CommitAckLost(r) ==
    /\ LostAck
    /\ Reserved(r)
    /\ ~KeyConflict(r)
    /\ body[r].user \in KnownUser
    /\ ~SeatConflict(r)
    /\ Fault
    /\ WriteOrder(r)
    /\ Compensate(r, "503")
    /\ UNCHANGED <<body, booked, agentVars>>

\* Mutant: one seat per zone is given back, whatever the quantity.
ReleaseReservationOne(r, z) ==
    /\ pc[r] = "release"
    /\ z \in reserved[r]
    /\ booked' = [booked EXCEPT ![z] = @ - 1]
    /\ reserved' = [reserved EXCEPT ![r] = @ \ {z}]
    /\ UNCHANGED <<body, pc, code, given, pgVars, agentVars, faults>>

\* _release_reservations: an unguarded $inc -quantity.  The events validator
\* refuses a negative counter; a refused or failed update is only logged.
ReleaseReservation(r, z) ==
    /\ pc[r] = "release"
    /\ z \in reserved[r]
    /\ \A y \in reserved[r] : z <= y
    /\ \/ /\ booked' = IF booked[z] >= Qty(r, z)
                       THEN [booked EXCEPT ![z] = @ - Qty(r, z)] ELSE booked
          /\ UNCHANGED faults
       \/ Fault /\ UNCHANGED booked
    /\ reserved' = [reserved EXCEPT ![r] = @ \ {z}]
    /\ UNCHANGED <<body, pc, code, given, pgVars, agentVars>>

\* Every INSERT INTO orders error has "idempotency_key" in its text, so a
\* duplicate key and an unknown user both look the winning order up, and
\* return it as it is.
AnswerFailure(r) ==
    /\ pc[r] = "release"
    /\ reserved[r] = {}
    /\ IF code[r] \in {"key", "user"} /\ KeyGiven(r) /\ Stored(r) # {}
       THEN \E w \in Stored(r) : Answer(r, "201", {w})
       ELSE Answer(r, CASE code[r] = "user" -> "404"
                        [] code[r] = "key"  -> "500"
                        [] OTHER            -> code[r], {})
    /\ UNCHANGED <<body, reserved, booked, pgVars, agentVars, faults>>

\* The process serving r dies; an open transaction rolls back.
Crash(r) ==
    /\ pc[r] \in {"new", "reserve", "release"}
    /\ Fault
    /\ pc' = [pc EXCEPT ![r] = "crashed"]
    /\ code' = [code EXCEPT ![r] = "none"]
    /\ reserved' = [reserved EXCEPT ![r] = {}]
    /\ UNCHANGED <<body, given, booked, pgVars, agentVars>>

----------------------------------------------------------------------------
(* Expiry of holds, shared by payment calls and workers.                   *)

\* The clock passes expires_at.
HoldElapses(r) ==
    /\ order[r] = "pending"
    /\ ~overdue[r]
    /\ overdue' = [overdue EXCEPT ![r] = TRUE]
    /\ UNCHANGED <<body, requestVars, booked, order, tickets, payments, outbox,
                   agentVars, faults>>

\* One transaction: the locked orders expire, their held tickets are counted
\* and cancelled, the outbox rows written, COMMIT; the locks are gone.
ExpireHeld(a) ==
    /\ order' = [r \in Request |-> IF r \in holds[a] THEN "expired" ELSE order[r]]
    /\ tickets' = MoveHeld(holds[a], "cancelled")
    /\ outbox' = Publish(holds[a], "SEAT_HOLD_EXPIRED")
    /\ owed' = [owed EXCEPT ![a] = HeldTickets(holds[a])]
    /\ at' = [at EXCEPT ![a] = "releasing"]
    /\ holds' = [holds EXCEPT ![a] = {}]
    /\ UNCHANGED <<body, requestVars, booked, overdue, payments, slow, faults>>

\* The transaction fails or its process dies: nothing written, locks gone.
Abort(a, s) ==
    /\ at' = [at EXCEPT ![a] = s]
    /\ holds' = [holds EXCEPT ![a] = {}]
    /\ UNCHANGED <<body, requestVars, booked, pgVars, owed, slow>>

Owes(a, z) == {t \in owed[a] : ZoneOf[t[2]] = z}

\* Mutant: no booked_count >= n guard.
GiveBackUnguarded(a, z) ==
    /\ at[a] = "releasing"
    /\ Owes(a, z) # {}
    /\ booked' = [booked EXCEPT ![z] = @ - Cardinality(Owes(a, z))]
    /\ owed' = [owed EXCEPT ![a] = @ \ Owes(a, z)]
    /\ UNCHANGED <<body, requestVars, pgVars, at, holds, slow, faults>>

\* Mutant: the grouped update is repeated until it modifies the document.
GiveBackRepeats(a, z) ==
    /\ at[a] = "releasing"
    /\ Owes(a, z) # {}
    /\ booked' = IF booked[z] >= Cardinality(Owes(a, z))
                 THEN [booked EXCEPT ![z] = @ - Cardinality(Owes(a, z))] ELSE booked
    /\ owed' = IF booked[z] >= Cardinality(Owes(a, z))
               THEN [owed EXCEPT ![a] = @ \ Owes(a, z)] ELSE owed
    /\ UNCHANGED <<body, requestVars, pgVars, at, holds, slow, faults>>

\* _release_counted_seats: one guarded update for the whole group.
GiveBack(a, z) ==
    /\ at[a] = "releasing"
    /\ slow[a] = {}
    /\ Owes(a, z) # {}
    /\ IF booked[z] >= Cardinality(Owes(a, z))
       THEN /\ booked' = [booked EXCEPT ![z] = @ - Cardinality(Owes(a, z))]
            /\ owed' = [owed EXCEPT ![a] = @ \ Owes(a, z)]
            /\ UNCHANGED slow
       ELSE /\ slow' = [slow EXCEPT ![a] = {z}]
            /\ UNCHANGED <<booked, owed>>
    /\ UNCHANGED <<body, requestVars, pgVars, at, holds, faults>>

\* The fallback loop: one seat at a time while the counter is above zero.
GiveBackOne(a, t) ==
    /\ at[a] = "releasing"
    /\ t \in owed[a]
    /\ slow[a] = {ZoneOf[t[2]]}
    /\ booked' = IF booked[ZoneOf[t[2]]] > 0
                 THEN [booked EXCEPT ![ZoneOf[t[2]]] = @ - 1] ELSE booked
    /\ owed' = [owed EXCEPT ![a] = @ \ {t}]
    /\ slow' = [slow EXCEPT ![a] = IF Owes(a, ZoneOf[t[2]]) = {t} THEN {} ELSE @]
    /\ UNCHANGED <<body, requestVars, pgVars, at, holds, faults>>

\* update_one raises: the zone is logged and its seats are never given back.
GiveBackFails(a, z) ==
    /\ at[a] = "releasing"
    /\ Owes(a, z) # {}
    /\ slow[a] \subseteq {z}
    /\ Fault
    /\ owed' = [owed EXCEPT ![a] = @ \ Owes(a, z)]
    /\ slow' = [slow EXCEPT ![a] = {}]
    /\ UNCHANGED <<body, requestVars, booked, pgVars, at, holds>>

\* The process dies between its PostgreSQL COMMIT and the end of the release.
ReleaseDies(a, s) ==
    /\ at[a] = "releasing"
    /\ owed[a] # {}
    /\ Fault
    /\ at' = [at EXCEPT ![a] = s]
    /\ owed' = [owed EXCEPT ![a] = {}]
    /\ slow' = [slow EXCEPT ![a] = {}]
    /\ UNCHANGED <<body, requestVars, booked, pgVars, holds>>

Released(a, s) ==
    /\ at[a] = "releasing"
    /\ owed[a] = {}
    /\ at' = [at EXCEPT ![a] = s]
    /\ UNCHANGED <<body, requestVars, booked, pgVars, holds, owed, slow, faults>>

----------------------------------------------------------------------------
(* process_order_payment                                                   *)

\* No such order (404), already resolved (409, 410), a lock wait that timed
\* out (409) or a wrong amount (400): nothing changes.
PayRefused(p, r) ==
    /\ at[p] = "idle"
    /\ \/ order[r] # "pending"
       \/ ~RowFree(r)
       \/ ~overdue[r]
    /\ at' = [at EXCEPT ![p] = "done"]
    /\ UNCHANGED <<body, requestVars, booked, pgVars, holds, owed, slow, faults>>

\* Mutant: the order's status is not checked once the row is locked.
PayLockBlind(p, r) ==
    /\ at[p] = "idle"
    /\ order[r] # "none"
    /\ RowFree(r)
    /\ holds' = [holds EXCEPT ![p] = {r}]
    /\ at' = [at EXCEPT ![p] = "paying"]
    /\ UNCHANGED <<body, requestVars, booked, pgVars, owed, slow, faults>>

\* SELECT ... FOR UPDATE returns a pending order; the clock is read once now.
PayLock(p, r) ==
    /\ at[p] = "idle"
    /\ order[r] = "pending"
    /\ RowFree(r)
    /\ holds' = [holds EXCEPT ![p] = {r}]
    /\ at' = [at EXCEPT ![p] = IF overdue[r] THEN "expiring" ELSE "paying"]
    /\ UNCHANGED <<body, requestVars, booked, pgVars, owed, slow, faults>>

\* uq_payments_order_completed
ChargeAllowed(p) == \A r \in holds[p] : payments[r] = 0

PayCommit(p) ==
    /\ at[p] = "paying"
    /\ ChargeAllowed(p)
    /\ payments' = [r \in Request |-> IF r \in holds[p] THEN payments[r] + 1 ELSE payments[r]]
    /\ order' = [r \in Request |-> IF r \in holds[p] THEN "confirmed" ELSE order[r]]
    /\ overdue' = [r \in Request |-> r \notin holds[p] /\ overdue[r]]
    /\ tickets' = MoveHeld(holds[p], "valid")
    /\ outbox' = Publish(holds[p], "ORDER_PAID")
    /\ at' = [at EXCEPT ![p] = "done"]
    /\ holds' = [holds EXCEPT ![p] = {}]
    /\ UNCHANGED <<body, requestVars, booked, owed, slow, faults>>

PayExpire(p) == at[p] = "expiring" /\ ExpireHeld(p)

PayAborts(p) ==
    /\ at[p] \in {"paying", "expiring"}
    /\ \/ Fault
       \/ at[p] = "paying" /\ ~ChargeAllowed(p) /\ UNCHANGED faults
    /\ Abort(p, "done")

----------------------------------------------------------------------------
(* _sweep_one_batch                                                        *)

\* Mutant: the sweep claims rows a payment holds.
ClaimableLocked == {r \in Request : order[r] = "pending" /\ overdue[r]}

\* pending, overdue and skipped when somebody holds the row (SKIP LOCKED)
Claimable == {r \in Request : order[r] = "pending" /\ overdue[r] /\ RowFree(r)}

SweepClaim(s) ==
    /\ at[s] = "idle"
    /\ \E R \in SUBSET Claimable :
          /\ R # {}
          /\ \/ Cardinality(R) = Batch
             \/ Cardinality(R) < Batch /\ R = Claimable
          /\ holds' = [holds EXCEPT ![s] = R]
    /\ at' = [at EXCEPT ![s] = "expiring"]
    /\ UNCHANGED <<body, requestVars, booked, pgVars, owed, slow, faults>>

\* Nothing to claim: roll back and wait for the next tick.
SweepNothing(s) ==
    /\ at[s] = "idle"
    /\ Claimable = {}
    /\ UNCHANGED vars

SweepCommit(s) == at[s] = "expiring" /\ ExpireHeld(s)

SweepAborts(s) == at[s] = "expiring" /\ Fault /\ Abort(s, "idle")

----------------------------------------------------------------------------
RequestStep(r) ==
    \/ Replay(r) \/ Refuse(r) \/ Accept(r)
    \/ \E z \in Zone : Reserve(r, z) \/ SoldOut(r, z) \/ ReleaseReservation(r, z)
    \/ Commit(r) \/ Conflict(r) \/ AnswerFailure(r)

RequestFault(r) ==
    \/ \E z \in Zone : ReserveFails(r, z)
    \/ PgFails(r) \/ CommitAckLost(r) \/ Crash(r)

\* What a payment call or a worker does once its transaction is committed.
GiveBackStep(a, s) ==
    \/ \E z \in Zone : GiveBack(a, z)
    \/ \E t \in Tix : GiveBackOne(a, t)
    \/ Released(a, s)

GiveBackFault(a, s) ==
    \/ \E z \in Zone : GiveBackFails(a, z)
    \/ ReleaseDies(a, s)

PayerStep(p) ==
    \/ \E r \in Request : PayRefused(p, r) \/ PayLock(p, r)
    \/ PayCommit(p) \/ PayExpire(p) \/ GiveBackStep(p, "done")

SweeperStep(s) ==
    \/ SweepClaim(s) \/ SweepNothing(s) \/ SweepCommit(s) \/ GiveBackStep(s, "idle")

Next ==
    \/ \E r \in Request : RequestStep(r) \/ RequestFault(r) \/ HoldElapses(r)
    \/ \E p \in Payer : PayerStep(p) \/ PayAborts(p) \/ GiveBackFault(p, "done")
    \/ \E s \in Sweeper : SweeperStep(s) \/ SweepAborts(s) \/ GiveBackFault(s, "idle")

Spec == Init /\ [][Next]_vars

\* The server keeps running every handler it started, every worker wakes up on
\* each tick, and time passes.  Nothing is assumed of faults.
Fairness ==
    /\ \A r \in Request : WF_vars(RequestStep(r)) /\ WF_vars(HoldElapses(r))
    /\ \A p \in Payer : WF_vars(PayerStep(p))
    /\ \A s \in Sweeper : WF_vars(SweeperStep(s))

FairSpec == Spec /\ Fairness
----------------------------------------------------------------------------
(* Types.                                                                  *)

RequestPC == {"new", "reserve", "release", "done", "crashed"}
AgentPC == {"idle", "paying", "expiring", "releasing", "done"}
Code == {"none", "key", "user", "201", "400", "404", "409", "500", "503"}
OrderStatus == {"none", "pending", "confirmed", "expired"}
TicketStatus == {"none", "held", "valid", "cancelled"}
EventType == {"SEAT_HELD", "ORDER_PAID", "SEAT_HOLD_EXPIRED"}

\* Every variable has its type.  booked is an integer of any sign: that it stays
\* in range is CounterInRange.
TypeOK ==
    /\ body \in [Request -> Payload]
    /\ pc \in [Request -> RequestPC]
    /\ reserved \in [Request -> SUBSET Zone]
    /\ code \in [Request -> Code]
    /\ given \in [Request -> SUBSET Request]
    /\ booked \in [Zone -> Int]
    /\ order \in [Request -> OrderStatus]
    /\ overdue \in [Request -> BOOLEAN]
    /\ tickets \in [Request -> [Line -> TicketStatus]]
    /\ payments \in [Request -> Nat]
    /\ outbox \in [Request -> Seq(EventType)]
    /\ at \in [Agent -> AgentPC]
    /\ holds \in [Agent -> SUBSET Request]
    /\ owed \in [Agent -> SUBSET Tix]
    /\ slow \in [Agent -> SUBSET Zone]
    /\ faults \in Nat

----------------------------------------------------------------------------
(* Seats against the counter.                                              *)

\* Seats of z an unfinished request has reserved and still answers for.
InFlight(z) == {t \in Tix : z \in reserved[t[1]] /\ t \in TicketsIn(t[1], z)}

\* Cancelled tickets of z whose seats somebody is about to give back.
OwedIn(z) == {t \in Tix : ZoneOf[t[2]] = z /\ \E a \in Agent : t \in owed[a]}

Claims(z) == Active(z) \cup InFlight(z) \cup OwedIn(z)

\* The MongoDB counter never falls below the seats that are sold, reserved by a
\* request in progress or on their way back: whatever crashes or fails, drift
\* is upwards (create_order_dual_db reserves before it writes, _sweep_one_batch
\* commits before it releases).
CounterCoversSeats ==
    \A z \in Zone : Prebooked[z] + Cardinality(Claims(z)) <= booked[z]

\* A zone never has more held or valid tickets than seats (pg_over_capacity).
NoOversell == \A z \in Zone : Cardinality(Active(z)) <= Capacity[z]

\* While nothing has failed the counter is exact: every path of the three
\* handlers, the losing side of every race included, gives back what it took.
NoLostSeat ==
    faults = 0 => \A z \in Zone : booked[z] = Prebooked[z] + Cardinality(Claims(z))

\* booked_count stays between 0 and capacity, also when seats were released
\* twice and _release_counted_seats falls back to one seat at a time.
CounterInRange == \A z \in Zone : booked[z] \in 0..Capacity[z]

----------------------------------------------------------------------------
(* Orders, tickets, payments, outbox.                                      *)

\* No two held or valid tickets are for the same numbered seat, however the
\* requests spelled it (duplicate_active_seats).
SeatSoldOnce ==
    \A z \in Zone : \A t, u \in Active(z) :
        SeatOf[t[2]] = SeatOf[u[2]] /\ SeatOf[t[2]] # NoSeat => t = u

Lines(r, s) == \A l \in Line : tickets[r][l] = IF l \in body[r].lines THEN s ELSE "none"

\* Order status, ticket status and completed payments agree in every state: a
\* payment racing the sweeper or another payment leaves no expired order that
\* was charged, no confirmed one charged twice and no dead one with seats.
LedgerAgrees ==
    \A r \in Request :
        CASE order[r] = "none"      -> payments[r] = 0 /\ \A l \in Line : tickets[r][l] = "none"
          [] order[r] = "pending"   -> payments[r] = 0 /\ Lines(r, "held")
          [] order[r] = "confirmed" -> payments[r] = 1 /\ Lines(r, "valid")
          [] order[r] = "expired"   -> payments[r] = 0 /\ Lines(r, "cancelled")

\* The outbox rows of an order tell its history, each event once and in order.
OutboxTellsHistory ==
    \A r \in Request :
        outbox[r] = CASE order[r] = "none"      -> <<>>
                      [] order[r] = "pending"   -> <<"SEAT_HELD">>
                      [] order[r] = "confirmed" -> <<"SEAT_HELD", "ORDER_PAID">>
                      [] order[r] = "expired"   -> <<"SEAT_HELD", "SEAT_HOLD_EXPIRED">>

\* A 201 hands out a committed order: the caller's own, or the one stored under
\* the caller's idempotency key.  Either way it is the only order of that key,
\* however many retries ran at once.
AnswerIsStoredOrder ==
    \A r \in Request : code[r] = "201" =>
        \E w \in Request :
            /\ given[r] = {w}
            /\ order[w] # "none"
            /\ w = r \/ (order[r] = "none" /\ KeyGiven(r))
            /\ KeyGiven(r) => Stored(r) = {w}

\* A request answered with an error saved no order and keeps no reservation
\* ("Nothing was saved and the reserved seats were released").
ErrorSavesNothing ==
    \A r \in Request : pc[r] = "done" /\ code[r] # "201" =>
        order[r] = "none" /\ reserved[r] = {} /\ given[r] = {}

\* Confirmed and expired are final, and an order expires only when overdue:
\* the row lock keeps the payment and the sweeper out of each other's decision.
Resolve ==
    \A r \in Request :
        /\ order[r] \in {"confirmed", "expired"} =>
              order'[r] = order[r] /\ tickets'[r] = tickets[r]
        /\ order[r] = "pending" /\ order'[r] = "expired" => overdue[r]
ResolvedOrdersStay == [][Resolve]_vars

----------------------------------------------------------------------------
(* The inductive invariant, for orders whose COMMIT is never misread.       *)

\* A request in progress has no order yet; one that ended reserves nothing.
RequestsOpen ==
    \A r \in Request :
        /\ pc[r] \in {"new", "reserve", "release"} => order[r] = "none"
        /\ reserved[r] # {} => pc[r] \in {"reserve", "release"}
        /\ order[r] = "none" => \A l \in Line : tickets[r][l] = "none"

\* A row is held by at most one agent, which is deciding about it, and stays
\* pending (and overdue, once found so) until that decision is committed.
RowsLocked ==
    /\ \A a, b \in Agent : a # b => holds[a] \cap holds[b] = {}
    /\ \A a \in Agent : \A r \in holds[a] :
          /\ at[a] \in {"paying", "expiring"}
          /\ order[r] = "pending"
          /\ at[a] = "expiring" => overdue[r]

\* Seats on their way back belong to cancelled tickets and to one agent, and
\* the counter always covers them: the one-by-one fallback is never needed.
OwedOnce ==
    /\ \A a, b \in Agent : a # b => owed[a] \cap owed[b] = {}
    /\ \A a \in Agent :
          /\ slow[a] = {}
          /\ owed[a] # {} => at[a] = "releasing"
          /\ \A t \in owed[a] : tickets[t[1]][t[2]] = "cancelled"

\* What keeps the counter above the seats: see CounterCoversSeats.
Inv ==
    /\ TypeOK
    /\ RequestsOpen
    /\ RowsLocked
    /\ OwedOnce
    /\ CounterCoversSeats
    /\ CounterInRange

----------------------------------------------------------------------------
(* Claims of the repository that the code does not keep.                   *)

\* "If payload differs, return 409": a 201 answer for a key is an order with
\* the caller's fingerprint.
ReplayMatchesPayload ==
    \A r, w \in Request : code[r] = "201" /\ given[r] = {w} => SameFingerprint(r, w)

\* "A collision is a 409 and an overload is a 503, never a 500."
CollisionIsNotServerError == \A r \in Request : faults = 0 => code[r] # "500"

----------------------------------------------------------------------------
(* Liveness, under FairSpec.                                               *)

\* Every request is answered unless its process dies.
RequestsEnd == \A r \in Request : <>(pc[r] \in {"done", "crashed"})

\* Every hold ends: the order is paid, or a worker or a late payment expires it.
HoldsEnd == \A r \in Request : order[r] = "pending" ~> order[r] \in {"confirmed", "expired"}

\* Whoever expired an order gets to the end of giving its seats back, or dies.
SeatsComeBack == \A a \in Agent : at[a] = "releasing" ~> owed[a] = {}
=============================================================================
