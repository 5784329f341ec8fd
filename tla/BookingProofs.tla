--------------------------- MODULE BookingProofs ---------------------------
(* Booking proved for every number of requests, payers, workers, zones and *)
(* lines, every capacity and every number of faults: types, counters, the  *)
(* ledger and the outbox, exact counts and answers, and that Booking       *)
(* implements SeatSale.                                                    *)
EXTENDS BookingRefinement, FiniteSetTheorems, TLAPS

----------------------------------------------------------------------------
(* Type correctness.                                                       *)

\* Publish appends to sequences of events.
LEMMA PublishType ==
    ASSUME TypeOK, NEW R, NEW e \in EventType
    PROVE  Publish(R, e) \in [Request -> Seq(EventType)]
BY DEF TypeOK, Publish

\* MoveHeld writes ticket statuses.
LEMMA MoveHeldType ==
    ASSUME TypeOK, NEW R, NEW s \in TicketStatus
    PROVE  MoveHeld(R, s) \in [Request -> [Line -> TicketStatus]]
BY DEF TypeOK, MoveHeld

\* ExpireHeld keeps the types.
LEMMA ExpireHeldType ==
    ASSUME TypeOK, NEW a \in Agent, ExpireHeld(a)
    PROVE  TypeOK'
<1>1. outbox' \in [Request -> Seq(EventType)]
  BY PublishType DEF ExpireHeld, EventType
<1>2. tickets' \in [Request -> [Line -> TicketStatus]]
  BY MoveHeldType DEF ExpireHeld, TicketStatus
<1>3. HeldTickets(holds[a]) \subseteq Tix
  BY DEF HeldTickets
<1>4. QED
  BY <1>1, <1>2, <1>3 DEF ExpireHeld, TypeOK, OrderStatus, AgentPC, requestVars

\* WriteOrder keeps the types of the tables it writes.
LEMMA WriteOrderType ==
    ASSUME TypeOK, NEW r \in Request, WriteOrder(r)
    PROVE  /\ order' \in [Request -> OrderStatus]
           /\ tickets' \in [Request -> [Line -> TicketStatus]]
           /\ outbox' \in [Request -> Seq(EventType)]
<1>1. outbox' \in [Request -> Seq(EventType)]
  BY PublishType DEF WriteOrder, EventType
<1>2. QED
  BY <1>1 DEF WriteOrder, TypeOK, OrderStatus, TicketStatus

\* The number of tickets of a request in a zone is a number.
LEMMA QtyType ==
    ASSUME NEW r, NEW z
    PROVE  IsFiniteSet(Tix) /\ IsFiniteSet(TicketsIn(r, z)) /\ Qty(r, z) \in Nat
<1>1. IsFiniteSet(Tix)
  BY ActorAssumption, FS_Product DEF Tix
<1>2. IsFiniteSet(TicketsIn(r, z))
  BY <1>1, FS_Subset DEF TicketsIn
<1>3. QED
  BY <1>1, <1>2, FS_CardinalityType DEF Qty

\* What an agent owes a zone is a finite set of tickets.
LEMMA OwesType ==
    ASSUME TypeOK, NEW a \in Agent, NEW z
    PROVE  /\ Owes(a, z) \subseteq Tix
           /\ IsFiniteSet(Owes(a, z))
           /\ Cardinality(Owes(a, z)) \in Nat
<1>1. Owes(a, z) \subseteq Tix
  BY DEF TypeOK, Owes
<1>2. IsFiniteSet(Owes(a, z))
  BY <1>1, QtyType, FS_Subset
<1>3. QED
  BY <1>1, <1>2, FS_CardinalityType

\* Every action keeps the types.
LEMMA TypeStep ==
    ASSUME TypeOK, [Next]_vars
    PROVE  TypeOK'
<1> USE DEF TypeOK, requestVars, pgVars, agentVars, Code, RequestPC, AgentPC
<1>1. ASSUME NEW r \in Request, RequestStep(r) PROVE TypeOK'
  <2>1. CASE Replay(r)
    <3>1. PICK c \in Code, W \in SUBSET Request : Answer(r, c, W)
      BY <2>1 DEF Replay, Stored
    <3>2. QED
      BY <2>1, <3>1 DEF Replay, Answer
  <2>2. CASE Refuse(r)
    BY <2>2 DEF Refuse, Answer
  <2>3. CASE Accept(r)
    BY <2>3 DEF Accept
  <2>4. ASSUME NEW z \in Zone, Reserve(r, z) PROVE TypeOK'
    <3>1. Qty(r, z) \in Int
      BY QtyType
    <3>2. QED
      BY <2>4, <3>1 DEF Reserve
  <2>5. ASSUME NEW z \in Zone, SoldOut(r, z) PROVE TypeOK'
    BY <2>5 DEF SoldOut, Compensate
  <2>6. ASSUME NEW z \in Zone, ReleaseReservation(r, z) PROVE TypeOK'
    <3>1. Qty(r, z) \in Int
      BY QtyType
    <3>2. booked' \in [Zone -> Int] /\ faults' \in Nat
      BY <2>6, <3>1 DEF ReleaseReservation, Fault
    <3>3. QED
      BY <2>6, <3>2 DEF ReleaseReservation
  <2>7. CASE Commit(r)
    BY <2>7, WriteOrderType DEF Commit, Answer, WriteOrder
  <2>8. CASE Conflict(r)
    <3>1. PICK c \in Code : Compensate(r, c)
      BY <2>8 DEF Conflict
    <3>2. QED
      BY <2>8, <3>1 DEF Conflict, Compensate
  <2>9. CASE AnswerFailure(r)
    <3>1. PICK c \in Code, W \in SUBSET Request : Answer(r, c, W)
      BY <2>9 DEF AnswerFailure, Stored
    <3>2. QED
      BY <2>9, <3>1 DEF AnswerFailure, Answer
  <2>10. QED
    BY <1>1, <2>1, <2>2, <2>3, <2>4, <2>5, <2>6, <2>7, <2>8, <2>9 DEF RequestStep
<1>2. ASSUME NEW r \in Request, RequestFault(r) PROVE TypeOK'
  <2>1. ASSUME NEW z \in Zone, ReserveFails(r, z) PROVE TypeOK'
    <3>1. Qty(r, z) \in Int
      BY QtyType
    <3>2. booked' \in [Zone -> Int] /\ faults' \in Nat
      BY <2>1, <3>1 DEF ReserveFails, Fault
    <3>3. QED
      BY <2>1, <3>2 DEF ReserveFails, Compensate
  <2>2. CASE PgFails(r)
    BY <2>2 DEF PgFails, Compensate, Fault
  <2>3. CASE CommitAckLost(r)
    <3>1. WriteOrder(r) /\ Compensate(r, "503") /\ faults' \in Nat /\ UNCHANGED <<body, booked, agentVars>>
      BY <2>3 DEF CommitAckLost, Fault
    <3>2. QED
      BY <3>1, WriteOrderType DEF WriteOrder, Compensate
  <2>4. CASE Crash(r)
    BY <2>4 DEF Crash, Fault
  <2>5. QED
    BY <1>2, <2>1, <2>2, <2>3, <2>4 DEF RequestFault
<1>3. ASSUME NEW r \in Request, HoldElapses(r) PROVE TypeOK'
  BY <1>3 DEF HoldElapses
<1>4. ASSUME NEW a \in Agent, NEW s \in {"idle", "done"}, GiveBackStep(a, s) PROVE TypeOK'
  <2>1. ASSUME NEW z \in Zone, GiveBack(a, z) PROVE TypeOK'
    <3>1. Cardinality(Owes(a, z)) \in Int
      BY OwesType
    <3>2. booked' \in [Zone -> Int]
      BY <2>1, <3>1 DEF GiveBack
    <3>3. \/ owed' = [owed EXCEPT ![a] = @ \ Owes(a, z)] /\ slow' = slow
          \/ slow' = [slow EXCEPT ![a] = {z}] /\ owed' = owed
      BY <2>1 DEF GiveBack
    <3>4. owed' \in [Agent -> SUBSET Tix]
      <4>1. [owed EXCEPT ![a] = @ \ Owes(a, z)] \in [Agent -> SUBSET Tix]
        OBVIOUS
      <4>2. QED
        BY <3>3, <4>1
    <3>5. slow' \in [Agent -> SUBSET Zone]
      <4>1. [slow EXCEPT ![a] = {z}] \in [Agent -> SUBSET Zone]
        OBVIOUS
      <4>2. QED
        BY <3>3, <4>1
    <3>6. QED
      BY <2>1, <3>2, <3>4, <3>5 DEF GiveBack
  <2>2. ASSUME NEW t \in Tix, GiveBackOne(a, t) PROVE TypeOK'
    BY <2>2 DEF GiveBackOne
  <2>3. CASE Released(a, s)
    BY <2>3 DEF Released
  <2>4. QED
    BY <1>4, <2>1, <2>2, <2>3 DEF GiveBackStep
<1>5. ASSUME NEW a \in Agent, NEW s \in {"idle", "done"}, GiveBackFault(a, s) PROVE TypeOK'
  <2>1. ASSUME NEW z \in Zone, GiveBackFails(a, z) PROVE TypeOK'
    BY <2>1 DEF GiveBackFails, Fault
  <2>2. CASE ReleaseDies(a, s)
    BY <2>2 DEF ReleaseDies, Fault
  <2>3. QED
    BY <1>5, <2>1, <2>2 DEF GiveBackFault
<1>6. ASSUME NEW p \in Payer, PayerStep(p) \/ PayAborts(p) \/ GiveBackFault(p, "done")
      PROVE  TypeOK'
  <2>0. p \in Agent
    BY DEF Agent
  <2>1. ASSUME NEW r \in Request, PayRefused(p, r) PROVE TypeOK'
    BY <2>0, <2>1 DEF PayRefused
  <2>2. ASSUME NEW r \in Request, PayLock(p, r) PROVE TypeOK'
    BY <2>0, <2>2 DEF PayLock
  <2>3. CASE PayCommit(p)
    <3>1. outbox' \in [Request -> Seq(EventType)]
      BY <2>3, PublishType DEF PayCommit, EventType
    <3>2. tickets' \in [Request -> [Line -> TicketStatus]]
      BY <2>3, MoveHeldType DEF PayCommit, TicketStatus
    <3>3. overdue' \in [Request -> BOOLEAN]
      BY <2>3 DEF PayCommit
    <3>4. order' \in [Request -> OrderStatus] /\ payments' \in [Request -> Nat]
      BY <2>3 DEF PayCommit, OrderStatus
    <3>5. QED
      BY <2>0, <2>3, <3>1, <3>2, <3>3, <3>4 DEF PayCommit
  <2>4. CASE PayExpire(p)
    BY <2>0, <2>4, ExpireHeldType DEF PayExpire
  <2>5. CASE PayAborts(p)
    BY <2>0, <2>5 DEF PayAborts, Abort, Fault
  <2>6. QED
    BY <1>4, <1>5, <1>6, <2>0, <2>1, <2>2, <2>3, <2>4, <2>5 DEF PayerStep
<1>7. ASSUME NEW s \in Sweeper, SweeperStep(s) \/ SweepAborts(s) \/ GiveBackFault(s, "idle")
      PROVE  TypeOK'
  <2>0. s \in Agent
    BY DEF Agent
  <2>1. CASE SweepClaim(s)
    BY <2>0, <2>1 DEF SweepClaim, Claimable
  <2>2. CASE SweepNothing(s)
    BY <2>2 DEF SweepNothing, vars
  <2>3. CASE SweepCommit(s)
    BY <2>0, <2>3, ExpireHeldType DEF SweepCommit
  <2>4. CASE SweepAborts(s)
    BY <2>0, <2>4 DEF SweepAborts, Abort, Fault
  <2>5. QED
    BY <1>4, <1>5, <1>7, <2>0, <2>1, <2>2, <2>3, <2>4 DEF SweeperStep
<1>8. CASE UNCHANGED vars
  BY <1>8 DEF vars
<1>9. QED
  BY <1>1, <1>2, <1>3, <1>6, <1>7, <1>8 DEF Next

\* Every variable keeps its type in every behaviour, lost COMMIT answers
\* included: statuses, answers and outbox events are the ones the tables allow.
THEOREM TypeCorrect == Spec => []TypeOK
<1>1. Init => TypeOK
  BY CatalogAssumption
     DEF Init, TypeOK, Code, RequestPC, AgentPC, OrderStatus, TicketStatus, EventType
<1>2. TypeOK /\ [Next]_vars => TypeOK'
  BY TypeStep
<1>3. QED
  BY <1>1, <1>2, PTL DEF Spec

----------------------------------------------------------------------------
(* Counting seats.                                                         *)

\* A set within two others has at most as many elements as both together.
LEMMA CardGrows ==
    ASSUME NEW S, NEW T, NEW U, IsFiniteSet(S), IsFiniteSet(T), U \subseteq S \cup T
    PROVE  Cardinality(U) <= Cardinality(S) + Cardinality(T)
<1>1. IsFiniteSet(S \cup T) /\ IsFiniteSet(S \cap T)
  BY FS_Union, FS_Intersection
<1>2. Cardinality(S \cup T) = Cardinality(S) + Cardinality(T) - Cardinality(S \cap T)
  BY FS_Union
<1>3. IsFiniteSet(U) /\ Cardinality(U) <= Cardinality(S \cup T)
  BY <1>1, FS_Subset
<1>4. QED
  BY <1>1, <1>2, <1>3, FS_CardinalityType

\* What is left of S once T is taken out of it.
LEMMA CardShrinks ==
    ASSUME NEW S, NEW T, NEW U, IsFiniteSet(S), T \subseteq S, U \subseteq S \ T
    PROVE  Cardinality(U) + Cardinality(T) <= Cardinality(S)
<1>1. IsFiniteSet(T) /\ IsFiniteSet(S \ T) /\ S \cap T = T
  BY FS_Subset, FS_Difference
<1>2. Cardinality(S \ T) = Cardinality(S) - Cardinality(T)
  BY <1>1, FS_Difference
<1>3. IsFiniteSet(U) /\ Cardinality(U) <= Cardinality(S \ T)
  BY <1>1, FS_Subset
<1>4. QED
  BY <1>1, <1>2, <1>3, FS_CardinalityType

\* The claims on a zone are finitely many tickets.
LEMMA ClaimsFinite ==
    ASSUME NEW z
    PROVE  Claims(z) \subseteq Tix /\ IsFiniteSet(Claims(z)) /\ Cardinality(Claims(z)) \in Nat
<1>1. Claims(z) \subseteq Tix
  BY DEF Claims, Active, InFlight, OwedIn
<1>2. IsFiniteSet(Claims(z))
  BY <1>1, QtyType, FS_Subset
<1>3. QED
  BY <1>1, <1>2, FS_CardinalityType

\* Inv without the range of the counters, which is a matter of its own.
Covered == TypeOK /\ RequestsOpen /\ RowsLocked /\ OwedOnce /\ CounterCoversSeats

\* A step that leaves the counters alone and adds no claim keeps them right.
LEMMA CounterStays ==
    ASSUME TypeOK, CounterCoversSeats, booked' = booked,
           \A z \in Zone : Claims(z)' \subseteq Claims(z)
    PROVE  CounterCoversSeats'
<1>1. ASSUME NEW z \in Zone
      PROVE  Prebooked[z] + Cardinality(Claims(z)') <= booked'[z]
  <2>1. Cardinality(Claims(z)') <= Cardinality(Claims(z)) /\ IsFiniteSet(Claims(z)')
    BY ClaimsFinite, FS_Subset
  <2>2. Cardinality(Claims(z)') \in Nat /\ Cardinality(Claims(z)) \in Nat
    BY <2>1, ClaimsFinite, FS_CardinalityType
  <2>3. QED
    BY <2>1, <2>2, CatalogAssumption DEF CounterCoversSeats, TypeOK
<1>2. QED
  BY <1>1 DEF CounterCoversSeats

\* The bounds on one counter.
LEMMA CounterBounds ==
    ASSUME TypeOK, CounterCoversSeats, NEW y \in Zone
    PROVE  /\ booked[y] \in Int /\ Prebooked[y] \in Nat /\ Capacity[y] \in Nat
           /\ Prebooked[y] + Cardinality(Claims(y)) <= booked[y]
           /\ 0 <= booked[y]
<1>1. Cardinality(Claims(y)) \in Nat
  BY ClaimsFinite
<1>2. QED
  BY <1>1, CatalogAssumption DEF TypeOK, CounterCoversSeats

\* Taking as many seats off a counter as claims disappear keeps it right.
LEMMA CounterDrops ==
    ASSUME TypeOK, CounterCoversSeats, NEW z \in Zone, NEW T,
           T \subseteq Claims(z), Claims(z)' \cap T = {},
           \A y \in Zone : Claims(y)' \subseteq Claims(y),
           booked[z] >= Cardinality(T),
           booked' = [booked EXCEPT ![z] = @ - Cardinality(T)]
    PROVE  CounterCoversSeats'
<1>1. Cardinality(Claims(z)') + Cardinality(T) <= Cardinality(Claims(z)) /\ Cardinality(T) \in Nat
  BY CardShrinks, ClaimsFinite, FS_Subset, FS_CardinalityType
<1>2. ASSUME NEW y \in Zone
      PROVE  /\ Prebooked[y] + Cardinality(Claims(y)') <= booked'[y]
  <2>1. IsFiniteSet(Claims(y)') /\ Cardinality(Claims(y)') <= Cardinality(Claims(y))
    BY ClaimsFinite, FS_Subset
  <2>2. Cardinality(Claims(y)') \in Nat /\ Cardinality(Claims(y)) \in Nat
    BY <2>1, ClaimsFinite, FS_CardinalityType
  <2>3. /\ booked[y] \in Int /\ Prebooked[y] \in Nat /\ Capacity[y] \in Nat
        /\ Prebooked[y] + Cardinality(Claims(y)) <= booked[y]
        /\ 0 <= booked[y]
    BY CounterBounds
  <2>4. booked'[y] = IF y = z THEN booked[y] - Cardinality(T) ELSE booked[y]
    BY DEF TypeOK
  <2>5. y = z => Cardinality(Claims(y)') + Cardinality(T) <= Cardinality(Claims(y)) /\ booked[y] >= Cardinality(T)
    BY <1>1
  <2>6. QED
    BY <1>1, <2>1, <2>2, <2>3, <2>4, <2>5
<1>3. QED
  BY <1>2 DEF CounterCoversSeats

\* A counter that rises by n covers n new claims.
LEMMA CounterRises ==
    ASSUME TypeOK, CounterCoversSeats, NEW z \in Zone, NEW T,
           IsFiniteSet(T),
           Claims(z)' \subseteq Claims(z) \cup T,
           \A y \in Zone \ {z} : Claims(y)' \subseteq Claims(y),
           booked' = [booked EXCEPT ![z] = @ + Cardinality(T)]
    PROVE  CounterCoversSeats'
<1>1. Cardinality(Claims(z)') <= Cardinality(Claims(z)) + Cardinality(T) /\ Cardinality(T) \in Nat
  BY CardGrows, ClaimsFinite, FS_CardinalityType
<1>2. ASSUME NEW y \in Zone
      PROVE  /\ Prebooked[y] + Cardinality(Claims(y)') <= booked'[y]
  <2>1. IsFiniteSet(Claims(y)')
    BY ClaimsFinite, FS_Subset, FS_Union
  <2>2. Cardinality(Claims(y)') \in Nat /\ Cardinality(Claims(y)) \in Nat
    BY <2>1, ClaimsFinite, FS_CardinalityType
  <2>3. /\ booked[y] \in Int /\ Prebooked[y] \in Nat /\ Capacity[y] \in Nat
        /\ Prebooked[y] + Cardinality(Claims(y)) <= booked[y]
        /\ 0 <= booked[y]
    BY CounterBounds
  <2>4. booked'[y] = IF y = z THEN booked[y] + Cardinality(T) ELSE booked[y]
    BY DEF TypeOK
  <2>5. y # z => Cardinality(Claims(y)') <= Cardinality(Claims(y))
    BY ClaimsFinite, FS_Subset
  <2>6. QED
    BY <1>1, <2>2, <2>3, <2>4, <2>5
<1>3. QED
  BY <1>2 DEF CounterCoversSeats

----------------------------------------------------------------------------
(* The inductive invariant is kept by every action.                        *)

\* Steps of a request that change neither the tables nor the counters and
\* reserve nothing new.
LEMMA RequestQuiet ==
    ASSUME Covered, TypeOK', NEW r \in Request, NEW s \in RequestPC,
           UNCHANGED <<body, booked, pgVars, agentVars>>,
           pc[r] \in {"new", "reserve", "release"},
           pc' = [pc EXCEPT ![r] = s],
           \A q \in Request : reserved'[q] \subseteq reserved[q],
           reserved'[r] # {} => s \in {"reserve", "release"}
    PROVE  Covered'
<1>1. RequestsOpen'
  BY DEF Covered, TypeOK, RequestsOpen, pgVars
<1>2. RowsLocked' /\ OwedOnce'
  BY DEF Covered, RowsLocked, OwedOnce, pgVars, agentVars
<1>3. ASSUME NEW z \in Zone PROVE Claims(z)' \subseteq Claims(z)
  BY DEF Claims, Active, InFlight, OwedIn, TicketsIn, pgVars, agentVars, Tix
<1>4. QED
  BY <1>1, <1>2, <1>3, CounterStays DEF Covered

\* A request that gives a zone back stops claiming exactly what it took there.
LEMMA ReleaseReservationInv ==
    ASSUME Covered, TypeOK', NEW r \in Request, NEW z \in Zone, ReleaseReservation(r, z)
    PROVE  Covered'
<1>1. reserved' = [reserved EXCEPT ![r] = @ \ {z}] /\ pc[r] = "release" /\ z \in reserved[r]
      /\ UNCHANGED <<body, pc, pgVars, agentVars>>
  BY DEF ReleaseReservation
<1>2. RequestsOpen'
  BY <1>1 DEF Covered, TypeOK, RequestsOpen, pgVars
<1>3. RowsLocked' /\ OwedOnce'
  BY <1>1 DEF Covered, RowsLocked, OwedOnce, pgVars, agentVars
<1>4. ASSUME NEW y \in Zone PROVE Claims(y)' \subseteq Claims(y)
  BY <1>1 DEF Claims, Active, InFlight, OwedIn, TicketsIn, pgVars, agentVars, Tix, Covered, TypeOK
<1>5. CASE booked' = booked
  BY <1>2, <1>3, <1>4, <1>5, CounterStays DEF Covered
<1>6. CASE booked' = [booked EXCEPT ![z] = @ - Qty(r, z)] /\ booked[z] >= Qty(r, z)
  <2>1. TicketsIn(r, z) \subseteq Claims(z)
    BY <1>1 DEF Claims, InFlight, TicketsIn, Tix
  <2>2. Claims(z)' \cap TicketsIn(r, z) = {}
    <3>1. order[r] = "none" /\ \A l \in Line : tickets[r][l] = "none"
      BY <1>1 DEF Covered, RequestsOpen
    <3>2. Active(z)' \cap TicketsIn(r, z) = {}
      BY <1>1, <3>1 DEF Active, TicketsIn, Tix, pgVars
    <3>3. InFlight(z)' \cap TicketsIn(r, z) = {}
      BY <1>1 DEF InFlight, TicketsIn, Tix, Covered, TypeOK
    <3>4. OwedIn(z)' \cap TicketsIn(r, z) = {}
      BY <1>1, <3>1 DEF OwedIn, TicketsIn, Tix, Covered, OwedOnce, agentVars
    <3>5. QED
      BY <3>2, <3>3, <3>4 DEF Claims
  <2>3. CounterCoversSeats'
    BY <1>4, <1>6, <2>1, <2>2, CounterDrops DEF Covered, Qty
  <2>4. QED
    BY <1>2, <1>3, <2>3 DEF Covered
<1>7. QED
  BY <1>5, <1>6 DEF ReleaseReservation

\* A reservation claims no more than it adds to the counter.
LEMMA ReserveInv ==
    ASSUME Covered, TypeOK', NEW r \in Request, NEW z \in Zone, Reserve(r, z)
    PROVE  Covered'
<1>1. /\ reserved' = [reserved EXCEPT ![r] = @ \cup {z}] /\ pc[r] = "reserve"
      /\ UNCHANGED <<body, pc, pgVars, agentVars>>
  BY DEF Reserve
<1>2. RequestsOpen'
  BY <1>1 DEF Covered, TypeOK, RequestsOpen, pgVars
<1>3. RowsLocked' /\ OwedOnce'
  BY <1>1 DEF Covered, RowsLocked, OwedOnce, pgVars, agentVars
<1>4. \A y \in Zone : Claims(y)' \subseteq IF y = z THEN Claims(y) \cup TicketsIn(r, z) ELSE Claims(y)
  BY <1>1 DEF Claims, Active, InFlight, OwedIn, TicketsIn, pgVars, agentVars, Tix, Covered, TypeOK
<1>5. CounterCoversSeats'
  BY <1>4, QtyType, CounterRises DEF Covered, Reserve, Fits, Qty
<1>6. QED
  BY <1>2, <1>3, <1>5 DEF Covered

\* A reservation that took effect unnoticed only raises the counter.
LEMMA ReserveFailsInv ==
    ASSUME Covered, TypeOK', NEW r \in Request, NEW z \in Zone, ReserveFails(r, z)
    PROVE  Covered'
<1>1. /\ pc[r] = "reserve" /\ pc' = [pc EXCEPT ![r] = "release"]
      /\ UNCHANGED <<body, reserved, pgVars, agentVars>>
  BY DEF ReserveFails, Compensate
<1>2. RequestsOpen'
  BY <1>1 DEF Covered, TypeOK, RequestsOpen, pgVars
<1>3. RowsLocked' /\ OwedOnce'
  BY <1>1 DEF Covered, RowsLocked, OwedOnce, pgVars, agentVars
<1>4. \A y \in Zone : Claims(y)' \subseteq Claims(y)
  BY <1>1 DEF Claims, Active, InFlight, OwedIn, TicketsIn, pgVars, agentVars
<1>5. CASE booked' = booked
  BY <1>2, <1>3, <1>4, <1>5, CounterStays DEF Covered
<1>6. CASE Fits(r, z) /\ booked' = [booked EXCEPT ![z] = @ + Qty(r, z)]
  <2>1. CounterCoversSeats'
    BY <1>4, <1>6, QtyType, CounterRises DEF Covered, Fits, Qty
  <2>2. QED
    BY <1>2, <1>3, <2>1 DEF Covered
<1>7. QED
  BY <1>5, <1>6 DEF ReserveFails

\* COMMIT turns the reservations of a request into held tickets.
LEMMA CommitInv ==
    ASSUME Covered, TypeOK', NEW r \in Request, Commit(r)
    PROVE  Covered'
<1>1. /\ pc[r] = "reserve" /\ pc' = [pc EXCEPT ![r] = "done"]
      /\ reserved[r] = Wanted(r) /\ reserved' = [reserved EXCEPT ![r] = {}]
      /\ order' = [order EXCEPT ![r] = "pending"]
      /\ tickets' = [tickets EXCEPT ![r] = [l \in Line |-> IF l \in body[r].lines THEN "held" ELSE "none"]]
      /\ UNCHANGED <<body, booked, overdue, agentVars>>
  BY DEF Commit, Reserved, WriteOrder, Answer
<1>2. order[r] = "none" /\ \A l \in Line : tickets[r][l] = "none"
  BY <1>1 DEF Covered, RequestsOpen
<1>3. RequestsOpen'
  BY <1>1 DEF Covered, TypeOK, RequestsOpen
<1>4. RowsLocked'
  BY <1>1, <1>2 DEF Covered, TypeOK, RowsLocked, agentVars
<1>5. OwedOnce'
  BY <1>1, <1>2 DEF Covered, TypeOK, OwedOnce, agentVars, Tix
<1>6. ASSUME NEW z \in Zone PROVE Claims(z)' \subseteq Claims(z)
  <2>1. Active(z)' \subseteq Active(z) \cup InFlight(z)
    BY <1>1 DEF Active, InFlight, TicketsIn, Wanted, Tix, Covered, TypeOK
  <2>2. InFlight(z)' \subseteq InFlight(z)
    BY <1>1 DEF InFlight, TicketsIn, Covered, TypeOK, Tix
  <2>3. OwedIn(z)' = OwedIn(z)
    BY <1>1 DEF OwedIn, agentVars
  <2>4. QED
    BY <2>1, <2>2, <2>3 DEF Claims
<1>7. QED
  BY <1>1, <1>3, <1>4, <1>5, <1>6, CounterStays DEF Covered

\* Steps of an agent that change neither the tables nor the counters, and after
\* which it owes at most what it owed.
LEMMA AgentQuiet ==
    ASSUME Covered, TypeOK', NEW a \in Agent,
           UNCHANGED <<body, requestVars, booked, pgVars>>,
           \A b \in Agent \ {a} :
               at'[b] = at[b] /\ holds'[b] = holds[b] /\ owed'[b] = owed[b] /\ slow'[b] = slow[b],
           slow'[a] = {},
           owed'[a] \subseteq owed[a],
           owed'[a] # {} => at'[a] = "releasing",
           holds'[a] # {} => at'[a] \in {"paying", "expiring"},
           \A r \in holds'[a] : order[r] = "pending" /\ (at'[a] = "expiring" => overdue[r]),
           \A b \in Agent \ {a} : holds[b] \cap holds'[a] = {}
    PROVE  Covered'
<1>1. RequestsOpen'
  BY DEF Covered, RequestsOpen, requestVars, pgVars
<1>2. RowsLocked'
  <2>1. \A b, c \in Agent : b # c => holds'[b] \cap holds'[c] = {}
    BY DEF Covered, RowsLocked
  <2>2. ASSUME NEW b \in Agent, NEW r \in holds'[b]
        PROVE  /\ at'[b] \in {"paying", "expiring"}
               /\ order[r] = "pending"
               /\ at'[b] = "expiring" => overdue[r]
    BY <2>2 DEF Covered, RowsLocked
  <2>3. QED
    BY <2>1, <2>2 DEF RowsLocked, pgVars
<1>3. OwedOnce'
  <2>1. \A b \in Agent : owed'[b] \subseteq owed[b] /\ slow'[b] = {} /\ (owed'[b] # {} => at'[b] = "releasing")
    BY DEF Covered, OwedOnce
  <2>2. tickets' = tickets
    BY DEF pgVars
  <2>3. QED
    BY <2>1, <2>2 DEF Covered, OwedOnce
<1>4. ASSUME NEW z \in Zone PROVE Claims(z)' \subseteq Claims(z)
  BY DEF Claims, Active, InFlight, OwedIn, TicketsIn, requestVars, pgVars, Covered, TypeOK
<1>5. QED
  BY <1>1, <1>2, <1>3, <1>4, CounterStays DEF Covered

\* Nothing happens.
LEMMA StutterInv ==
    ASSUME Covered, TypeOK', UNCHANGED vars
    PROVE  Covered'
<1>1. UNCHANGED <<body, requestVars, booked, pgVars, agentVars>>
  BY DEF vars
<1>2. RequestsOpen' /\ RowsLocked' /\ OwedOnce'
  BY <1>1 DEF Covered, RequestsOpen, RowsLocked, OwedOnce, requestVars, pgVars, agentVars
<1>3. \A z \in Zone : Claims(z)' \subseteq Claims(z)
  BY <1>1 DEF Claims, Active, InFlight, OwedIn, TicketsIn, requestVars, pgVars, agentVars
<1>4. QED
  BY <1>1, <1>2, <1>3, CounterStays DEF Covered

\* The clock only makes holds overdue.
LEMMA HoldElapsesInv ==
    ASSUME Covered, TypeOK', NEW r \in Request, HoldElapses(r)
    PROVE  Covered'
<1>1. RequestsOpen' /\ OwedOnce'
  BY DEF HoldElapses, Covered, RequestsOpen, OwedOnce, requestVars, agentVars
<1>2. RowsLocked'
  BY DEF HoldElapses, Covered, TypeOK, RowsLocked, agentVars
<1>3. ASSUME NEW z \in Zone PROVE Claims(z)' \subseteq Claims(z)
  BY DEF HoldElapses, Claims, Active, InFlight, OwedIn, TicketsIn, requestVars, agentVars
<1>4. QED
  BY <1>1, <1>2, <1>3, CounterStays DEF Covered, HoldElapses

\* Expiring orders moves the claims of their tickets from the tables to the
\* agent that has to give the seats back.
LEMMA ExpireInv ==
    ASSUME Covered, TypeOK', NEW a \in Agent, at[a] = "expiring", ExpireHeld(a)
    PROVE  Covered'
<1>1. /\ order' = [r \in Request |-> IF r \in holds[a] THEN "expired" ELSE order[r]]
      /\ tickets' = MoveHeld(holds[a], "cancelled")
      /\ owed' = [owed EXCEPT ![a] = HeldTickets(holds[a])]
      /\ at' = [at EXCEPT ![a] = "releasing"]
      /\ holds' = [holds EXCEPT ![a] = {}]
      /\ UNCHANGED <<body, requestVars, booked, overdue, slow>>
  BY DEF ExpireHeld
<1>2. \A r \in Request, l \in Line :
          tickets'[r][l] = IF r \in holds[a] /\ tickets[r][l] = "held" THEN "cancelled" ELSE tickets[r][l]
  BY <1>1 DEF MoveHeld
<1>3. \A r \in holds[a] : order[r] = "pending"
  BY DEF Covered, RowsLocked
<1>4. owed[a] = {}
  BY DEF Covered, OwedOnce
<1>5. RequestsOpen'
  BY <1>1, <1>2, <1>3 DEF Covered, TypeOK, RequestsOpen, requestVars
<1>6. RowsLocked'
  BY <1>1, <1>3 DEF Covered, TypeOK, RowsLocked
<1>7. OwedOnce'
  <2>1. \A b \in Agent : slow'[b] = {}
    BY <1>1 DEF Covered, OwedOnce
  <2>2. \A b \in Agent : \A t \in owed'[b] : tickets'[t[1]][t[2]] = "cancelled"
    BY <1>1, <1>2 DEF Covered, TypeOK, OwedOnce, HeldTickets, Tix
  <2>3. \A b \in Agent : owed'[b] # {} => at'[b] = "releasing"
    BY <1>1 DEF Covered, TypeOK, OwedOnce
  <2>4. \A b, c \in Agent : b # c => owed'[b] \cap owed'[c] = {}
    BY <1>1 DEF Covered, TypeOK, OwedOnce, HeldTickets
  <2>5. QED
    BY <2>1, <2>2, <2>3, <2>4 DEF OwedOnce
<1>8. ASSUME NEW z \in Zone PROVE Claims(z)' \subseteq Claims(z)
  <2>1. Active(z)' \subseteq Active(z)
    BY <1>2 DEF Active, Tix
  <2>2. InFlight(z)' = InFlight(z)
    BY <1>1 DEF InFlight, TicketsIn, requestVars
  <2>3. OwedIn(z)' \subseteq OwedIn(z) \cup Active(z)
    BY <1>1 DEF OwedIn, Active, HeldTickets, Covered, TypeOK
  <2>4. QED
    BY <2>1, <2>2, <2>3 DEF Claims
<1>9. QED
  BY <1>1, <1>5, <1>6, <1>7, <1>8, CounterStays DEF Covered

\* A payment turns held tickets into valid ones: the same seats stay claimed.
LEMMA PayCommitInv ==
    ASSUME Covered, TypeOK', NEW p \in Agent, PayCommit(p)
    PROVE  Covered'
<1>1. /\ order' = [r \in Request |-> IF r \in holds[p] THEN "confirmed" ELSE order[r]]
      /\ tickets' = MoveHeld(holds[p], "valid")
      /\ overdue' = [r \in Request |-> r \notin holds[p] /\ overdue[r]]
      /\ at[p] = "paying" /\ at' = [at EXCEPT ![p] = "done"]
      /\ holds' = [holds EXCEPT ![p] = {}]
      /\ UNCHANGED <<body, requestVars, booked, owed, slow>>
  BY DEF PayCommit
<1>2. \A r \in Request, l \in Line :
          tickets'[r][l] = IF r \in holds[p] /\ tickets[r][l] = "held" THEN "valid" ELSE tickets[r][l]
  BY <1>1 DEF MoveHeld
<1>3. \A r \in holds[p] : order[r] = "pending"
  BY DEF Covered, RowsLocked
<1>4. RequestsOpen'
  BY <1>1, <1>2, <1>3 DEF Covered, TypeOK, RequestsOpen, requestVars
<1>5. RowsLocked'
  <2>1. \A b, c \in Agent : b # c => holds'[b] \cap holds'[c] = {}
    BY <1>1 DEF Covered, TypeOK, RowsLocked
  <2>2. ASSUME NEW b \in Agent, NEW r \in holds'[b]
        PROVE  b # p /\ r \in holds[b] /\ r \notin holds[p] /\ r \in Request
    BY <1>1, <2>2 DEF Covered, TypeOK, RowsLocked
  <2>3. ASSUME NEW b \in Agent, NEW r \in holds'[b]
        PROVE  at'[b] = at[b] /\ order'[r] = order[r] /\ overdue'[r] = overdue[r]
    BY <1>1, <2>2 DEF Covered, TypeOK
  <2>4. QED
    BY <2>1, <2>2, <2>3 DEF Covered, RowsLocked
<1>6. OwedOnce'
  <2>1. owed[p] = {}
    BY <1>1 DEF Covered, OwedOnce
  <2>2. ASSUME NEW b \in Agent, NEW t \in owed[b] PROVE tickets'[t[1]][t[2]] = "cancelled"
    <3>1. t[1] \in Request /\ t[2] \in Line /\ tickets[t[1]][t[2]] = "cancelled"
      BY <2>2 DEF Covered, TypeOK, OwedOnce, Tix
    <3>2. QED
      BY <1>2, <3>1
  <2>3. \A b \in Agent : owed[b] # {} => at'[b] = at[b]
    BY <1>1, <2>1 DEF Covered, TypeOK
  <2>4. QED
    BY <1>1, <2>2, <2>3 DEF Covered, OwedOnce
<1>7. ASSUME NEW z \in Zone PROVE Claims(z)' \subseteq Claims(z)
  <2>1. Active(z)' \subseteq Active(z)
    BY <1>2 DEF Active, Tix
  <2>2. InFlight(z)' = InFlight(z) /\ OwedIn(z)' = OwedIn(z)
    BY <1>1 DEF InFlight, TicketsIn, OwedIn, requestVars
  <2>3. QED
    BY <2>1, <2>2 DEF Claims
<1>8. QED
  BY <1>1, <1>4, <1>5, <1>6, <1>7, CounterStays DEF Covered

\* Giving a group of seats back takes them off the counter and off the claims.
LEMMA GiveBackInv ==
    ASSUME Covered, TypeOK', NEW a \in Agent, NEW z \in Zone, GiveBack(a, z)
    PROVE  Covered'
<1> DEFINE T == Owes(a, z)
<1>1. T \subseteq Tix /\ IsFiniteSet(T) /\ Cardinality(T) \in Nat
  BY OwesType DEF Covered
<1>2. T \subseteq Claims(z)
  BY <1>1 DEF Owes, Claims, OwedIn
<1>3. booked[z] >= Cardinality(T)
  <2>1. Cardinality(T) <= Cardinality(Claims(z)) /\ Cardinality(Claims(z)) \in Nat
    BY <1>2, ClaimsFinite, FS_Subset
  <2>2. QED
    BY <1>1, <2>1, CounterBounds DEF Covered
<1>4. /\ booked' = [booked EXCEPT ![z] = @ - Cardinality(T)]
      /\ owed' = [owed EXCEPT ![a] = @ \ T]
      /\ UNCHANGED <<body, requestVars, pgVars, at, holds, slow>>
  BY <1>3 DEF GiveBack
<1>5. RequestsOpen' /\ RowsLocked'
  BY <1>4 DEF Covered, RequestsOpen, RowsLocked, requestVars, pgVars
<1>6. OwedOnce'
  BY <1>4 DEF Covered, TypeOK, OwedOnce, pgVars
<1>7. ASSUME NEW y \in Zone PROVE Claims(y)' \subseteq Claims(y)
  BY <1>4 DEF Claims, Active, InFlight, OwedIn, TicketsIn, requestVars, pgVars, Covered, TypeOK
<1>8. Claims(z)' \cap T = {}
  <2>1. \A t \in T : t \in owed[a] /\ t \in Tix /\ tickets[t[1]][t[2]] = "cancelled"
    BY <1>1 DEF Owes, Covered, OwedOnce
  <2>2. Active(z)' \cap T = {}
    BY <1>4, <2>1 DEF Active, pgVars
  <2>3. InFlight(z)' \cap T = {}
    BY <1>4, <2>1 DEF InFlight, TicketsIn, Tix, requestVars, Covered, RequestsOpen
  <2>4. OwedIn(z)' \cap T = {}
    BY <1>4, <2>1 DEF OwedIn, Covered, TypeOK, OwedOnce
  <2>5. QED
    BY <2>2, <2>3, <2>4 DEF Claims
<1>9. CounterCoversSeats'
  BY <1>2, <1>3, <1>4, <1>7, <1>8, CounterDrops DEF Covered
<1>10. QED
  BY <1>5, <1>6, <1>9 DEF Covered

\* Every step of a request that no fault disturbs.
LEMMA RequestStepInv ==
    ASSUME Covered, TypeOK', NEW r \in Request, RequestStep(r)
    PROVE  Covered'
<1>1. CASE Replay(r)
  <2>1. PICK c \in Code, W \in SUBSET Request : Answer(r, c, W)
    BY <1>1 DEF Replay, Stored, Code
  <2>2. reserved[r] = {}
    BY <1>1 DEF Replay, Covered, RequestsOpen
  <2>3. QED
    BY <1>1, <2>1, <2>2, RequestQuiet DEF Replay, Answer, RequestPC
<1>2. CASE Refuse(r)
  <2>1. reserved[r] = {}
    BY <1>2 DEF Refuse, Covered, RequestsOpen
  <2>2. QED
    BY <1>2, <2>1, RequestQuiet DEF Refuse, Answer, RequestPC
<1>3. CASE Accept(r)
  BY <1>3, RequestQuiet DEF Accept, RequestPC
<1>4. ASSUME NEW z \in Zone, Reserve(r, z) PROVE Covered'
  BY <1>4, ReserveInv
<1>5. ASSUME NEW z \in Zone, SoldOut(r, z) PROVE Covered'
  BY <1>5, RequestQuiet DEF SoldOut, Compensate, RequestPC
<1>6. ASSUME NEW z \in Zone, ReleaseReservation(r, z) PROVE Covered'
  BY <1>6, ReleaseReservationInv
<1>7. CASE Commit(r)
  BY <1>7, CommitInv
<1>8. CASE Conflict(r)
  <2>1. PICK c \in Code : Compensate(r, c)
    BY <1>8 DEF Conflict, Code
  <2>2. QED
    BY <1>8, <2>1, RequestQuiet DEF Conflict, Reserved, Compensate, RequestPC
<1>9. CASE AnswerFailure(r)
  <2>1. PICK c, W : Answer(r, c, W)
    BY <1>9 DEF AnswerFailure
  <2>2. QED
    BY <1>9, <2>1, RequestQuiet DEF AnswerFailure, Answer, RequestPC
<1>10. QED
  BY <1>1, <1>2, <1>3, <1>4, <1>5, <1>6, <1>7, <1>8, <1>9 DEF RequestStep

\* Every fault of a request, when COMMIT is never misread.
LEMMA RequestFaultInv ==
    ASSUME LostAck = FALSE \/ faults' = faults, Covered, TypeOK', NEW r \in Request, RequestFault(r)
    PROVE  Covered'
<1>1. ASSUME NEW z \in Zone, ReserveFails(r, z) PROVE Covered'
  BY <1>1, ReserveFailsInv
<1>2. CASE PgFails(r)
  <2>1. PICK c \in Code : Compensate(r, c)
    BY <1>2 DEF PgFails, Code
  <2>2. QED
    BY <1>2, <2>1, RequestQuiet DEF PgFails, Reserved, Compensate, RequestPC
<1>3. CASE CommitAckLost(r)
  BY <1>3 DEF CommitAckLost, Fault, Covered, TypeOK
<1>4. CASE Crash(r)
  <2>1. reserved' = [reserved EXCEPT ![r] = {}] /\ \A q \in Request : reserved'[q] \subseteq reserved[q]
    BY <1>4 DEF Crash, Covered, TypeOK
  <2>2. reserved'[r] = {}
    BY <2>1 DEF Covered, TypeOK
  <2>3. QED
    BY <1>4, <2>1, <2>2, RequestQuiet DEF Crash, RequestPC
<1>5. QED
  BY <1>1, <1>2, <1>3, <1>4 DEF RequestFault

\* The end of an expiry, shared by payments and workers, and its faults.
LEMMA GiveBackStepInv ==
    ASSUME Covered, TypeOK', NEW a \in Agent, NEW s \in {"idle", "done"},
           GiveBackStep(a, s) \/ GiveBackFault(a, s)
    PROVE  Covered'
<1>1. slow[a] = {}
  BY DEF Covered, OwedOnce
<1>2. at[a] = "releasing" => holds[a] = {}
  BY DEF Covered, RowsLocked
<1>3. ASSUME NEW z \in Zone, GiveBack(a, z) PROVE Covered'
  BY <1>3, GiveBackInv
<1>4. ASSUME NEW t \in Tix, GiveBackOne(a, t) PROVE Covered'
  BY <1>1, <1>4 DEF GiveBackOne
<1>5. CASE Released(a, s)
  <2>1. /\ UNCHANGED <<body, requestVars, booked, pgVars>>
        /\ owed'[a] = {} /\ slow'[a] = {} /\ holds'[a] = {}
        /\ \A b \in Agent \ {a} :
              at'[b] = at[b] /\ holds'[b] = holds[b] /\ owed'[b] = owed[b] /\ slow'[b] = slow[b]
    BY <1>1, <1>2, <1>5 DEF Released, Covered, TypeOK
  <2>2. QED
    BY <2>1, AgentQuiet
<1>6. ASSUME NEW z \in Zone, GiveBackFails(a, z) PROVE Covered'
  <2>1. /\ UNCHANGED <<body, requestVars, booked, pgVars>>
        /\ owed'[a] \subseteq owed[a] /\ slow'[a] = {} /\ holds'[a] = {} /\ at'[a] = "releasing"
        /\ \A b \in Agent \ {a} :
              at'[b] = at[b] /\ holds'[b] = holds[b] /\ owed'[b] = owed[b] /\ slow'[b] = slow[b]
    BY <1>1, <1>2, <1>6 DEF GiveBackFails, Covered, TypeOK
  <2>2. QED
    BY <2>1, AgentQuiet
<1>7. CASE ReleaseDies(a, s)
  <2>1. /\ UNCHANGED <<body, requestVars, booked, pgVars>>
        /\ owed'[a] = {} /\ slow'[a] = {} /\ holds'[a] = {}
        /\ \A b \in Agent \ {a} :
              at'[b] = at[b] /\ holds'[b] = holds[b] /\ owed'[b] = owed[b] /\ slow'[b] = slow[b]
    BY <1>1, <1>2, <1>7 DEF ReleaseDies, Covered, TypeOK
  <2>2. QED
    BY <2>1, AgentQuiet
<1>8. QED
  BY <1>3, <1>4, <1>5, <1>6, <1>7 DEF GiveBackStep, GiveBackFault

\* Payments and workers.
LEMMA AgentInv ==
    ASSUME Covered, TypeOK', NEW a \in Agent,
           \/ a \in Payer /\ (PayerStep(a) \/ PayAborts(a) \/ GiveBackFault(a, "done"))
           \/ a \in Sweeper /\ (SweeperStep(a) \/ SweepAborts(a) \/ GiveBackFault(a, "idle"))
    PROVE  Covered'
<1> DEFINE Frame ==
      /\ UNCHANGED <<body, requestVars, booked, pgVars>>
      /\ \A b \in Agent \ {a} :
            at'[b] = at[b] /\ holds'[b] = holds[b] /\ owed'[b] = owed[b] /\ slow'[b] = slow[b]
      /\ owed'[a] = owed[a] /\ slow'[a] = {}
<1>1. slow[a] = {}
  BY DEF Covered, OwedOnce
<1>2. at[a] # "releasing" => owed[a] = {}
  BY DEF Covered, OwedOnce
<1>3. at[a] \notin {"paying", "expiring"} => holds[a] = {}
  BY DEF Covered, RowsLocked
<1>4. ASSUME NEW r \in Request, PayRefused(a, r) PROVE Covered'
  <2>1. Frame /\ holds'[a] = {} /\ owed'[a] = {}
    BY <1>1, <1>2, <1>3, <1>4 DEF PayRefused, Covered, TypeOK
  <2>2. QED
    BY <2>1, AgentQuiet
<1>5. ASSUME NEW r \in Request, PayLock(a, r) PROVE Covered'
  <2>1. Frame /\ holds'[a] = {r} /\ owed'[a] = {} /\ order[r] = "pending"
        /\ at'[a] = IF overdue[r] THEN "expiring" ELSE "paying"
    BY <1>1, <1>2, <1>5 DEF PayLock, Covered, TypeOK
  <2>2. \A b \in Agent \ {a} : holds[b] \cap {r} = {}
    BY <1>5 DEF PayLock, RowFree
  <2>3. QED
    BY <2>1, <2>2, AgentQuiet
<1>6. CASE PayCommit(a)
  BY <1>6, PayCommitInv
<1>7. CASE PayExpire(a) \/ SweepCommit(a)
  BY <1>7, ExpireInv DEF PayExpire, SweepCommit
<1>8. CASE PayAborts(a)
  <2>1. Frame /\ holds'[a] = {} /\ owed'[a] = {}
    BY <1>1, <1>2, <1>8 DEF PayAborts, Abort, Covered, TypeOK
  <2>2. QED
    BY <2>1, AgentQuiet
<1>9. CASE SweepClaim(a)
  <2>1. PICK R \in SUBSET Claimable : holds' = [holds EXCEPT ![a] = R]
    BY <1>9 DEF SweepClaim
  <2>2. Frame /\ holds'[a] = R /\ owed'[a] = {} /\ at'[a] = "expiring"
    BY <1>1, <1>2, <1>9, <2>1 DEF SweepClaim, Covered, TypeOK
  <2>3. /\ \A r \in R : order[r] = "pending" /\ overdue[r]
        /\ \A b \in Agent \ {a} : holds[b] \cap R = {}
    BY <2>1 DEF Claimable, RowFree
  <2>4. QED
    BY <2>2, <2>3, AgentQuiet
<1>10. CASE SweepNothing(a)
  BY <1>10, StutterInv DEF SweepNothing
<1>11. CASE SweepAborts(a)
  <2>1. Frame /\ holds'[a] = {} /\ owed'[a] = {}
    BY <1>1, <1>2, <1>11 DEF SweepAborts, Abort, Covered, TypeOK
  <2>2. QED
    BY <2>1, AgentQuiet
<1>12. QED
  BY <1>4, <1>5, <1>6, <1>7, <1>8, <1>9, <1>10, <1>11, GiveBackStepInv DEF PayerStep, SweeperStep

\* A step that does not misread a COMMIT keeps the counters above the seats.
LEMMA CoveredStep ==
    ASSUME LostAck = FALSE \/ faults' = faults, Covered, [Next]_vars
    PROVE  Covered'
<1>1. TypeOK'
  BY TypeStep DEF Covered
<1>2. ASSUME NEW r \in Request, RequestStep(r) \/ RequestFault(r) \/ HoldElapses(r) PROVE Covered'
  BY <1>1, <1>2, RequestStepInv, RequestFaultInv, HoldElapsesInv
<1>3. ASSUME NEW p \in Payer, PayerStep(p) \/ PayAborts(p) \/ GiveBackFault(p, "done") PROVE Covered'
  BY <1>1, <1>3, AgentInv DEF Agent
<1>4. ASSUME NEW s \in Sweeper, SweeperStep(s) \/ SweepAborts(s) \/ GiveBackFault(s, "idle") PROVE Covered'
  BY <1>1, <1>4, AgentInv DEF Agent
<1>5. CASE UNCHANGED vars
  BY <1>1, <1>5, StutterInv
<1>6. QED
  BY <1>2, <1>3, <1>4, <1>5 DEF Next

\* A step keeps every counter between 0 and the capacity by itself: additions go
\* through the filter of the update, subtractions through a guard on the counter.
LEMMA RangeStep ==
    ASSUME TypeOK, CounterInRange, [Next]_vars
    PROVE  CounterInRange'
<1> USE CatalogAssumption
<1>1. CASE booked' = booked
  BY <1>1 DEF CounterInRange
<1>2. ASSUME NEW z \in Zone, NEW n \in Nat, booked[z] + n <= Capacity[z],
             booked' = [booked EXCEPT ![z] = @ + n]
      PROVE  CounterInRange'
  BY <1>2 DEF CounterInRange, TypeOK
<1>3. ASSUME NEW z \in Zone, NEW n \in Nat, n <= booked[z], booked' = [booked EXCEPT ![z] = @ - n]
      PROVE  CounterInRange'
  BY <1>3 DEF CounterInRange, TypeOK
<1>4. ASSUME NEW r \in Request, RequestStep(r) PROVE CounterInRange'
  <2>1. ASSUME NEW z \in Zone, Reserve(r, z) PROVE CounterInRange'
    BY <1>2, <2>1, QtyType DEF Reserve, Fits
  <2>2. ASSUME NEW z \in Zone, ReleaseReservation(r, z) PROVE CounterInRange'
    BY <1>1, <1>3, <2>2, QtyType DEF ReleaseReservation
  <2>3. QED
    BY <1>1, <1>4, <2>1, <2>2
       DEF RequestStep, Replay, Refuse, Accept, SoldOut, Commit, Conflict, AnswerFailure
<1>5. ASSUME NEW r \in Request, RequestFault(r) PROVE CounterInRange'
  <2>1. ASSUME NEW z \in Zone, ReserveFails(r, z) PROVE CounterInRange'
    BY <1>1, <1>2, <2>1, QtyType DEF ReserveFails, Fits
  <2>2. QED
    BY <1>1, <1>5, <2>1 DEF RequestFault, PgFails, CommitAckLost, Crash
<1>6. ASSUME NEW a \in Agent, NEW s, GiveBackStep(a, s) \/ GiveBackFault(a, s) PROVE CounterInRange'
  <2>1. ASSUME NEW z \in Zone, GiveBack(a, z) PROVE CounterInRange'
    BY <1>1, <1>3, <2>1, OwesType DEF GiveBack
  <2>2. ASSUME NEW t \in Tix, GiveBackOne(a, t) PROVE CounterInRange'
    <3>1. PICK z : z = ZoneOf[t[2]]
      OBVIOUS
    <3>2. z \in Zone
      BY <2>2, <3>1 DEF GiveBackOne, TypeOK
    <3>3. booked' = IF booked[z] > 0 THEN [booked EXCEPT ![z] = @ - 1] ELSE booked
      BY <2>2, <3>1 DEF GiveBackOne
    <3>4. booked[z] > 0 => 1 <= booked[z]
      BY <3>2 DEF CounterInRange
    <3>5. QED
      BY <1>1, <1>3, <3>2, <3>3, <3>4
  <2>3. QED
    BY <1>1, <1>6, <2>1, <2>2 DEF GiveBackStep, GiveBackFault, Released, GiveBackFails, ReleaseDies
<1>7. ASSUME NEW p \in Payer, PayerStep(p) \/ PayAborts(p) \/ GiveBackFault(p, "done") PROVE CounterInRange'
  BY <1>1, <1>6, <1>7
     DEF PayerStep, PayRefused, PayLock, PayCommit, PayExpire, ExpireHeld, PayAborts, Abort, Agent
<1>8. ASSUME NEW s \in Sweeper, SweeperStep(s) \/ SweepAborts(s) \/ GiveBackFault(s, "idle") PROVE CounterInRange'
  BY <1>1, <1>6, <1>8
     DEF SweeperStep, SweepClaim, SweepNothing, SweepCommit, ExpireHeld, SweepAborts, Abort, Agent, vars
<1>9. QED
  BY <1>1, <1>4, <1>5, <1>7, <1>8 DEF Next, HoldElapses, vars

\* The inductive step.
LEMMA InvStep ==
    ASSUME LostAck = FALSE, Inv, [Next]_vars
    PROVE  Inv'
BY CoveredStep, RangeStep DEF Inv, Covered

\* Initially nobody claims a seat.
LEMMA InvInit == Init => Inv
<1> SUFFICES ASSUME Init PROVE Inv
  OBVIOUS
<1>1. TypeOK
  BY CatalogAssumption
     DEF Init, TypeOK, Code, RequestPC, AgentPC, OrderStatus, TicketStatus, EventType
<1>2. RequestsOpen /\ RowsLocked /\ OwedOnce
  BY DEF Init, RequestsOpen, RowsLocked, OwedOnce
<1>3. \A z \in Zone : Claims(z) = {}
  BY DEF Init, Claims, Active, InFlight, OwedIn, Tix
<1>4. CounterCoversSeats /\ CounterInRange
  <2>1. \A z \in Zone : Cardinality(Claims(z)) = 0
    BY <1>3, FS_EmptySet
  <2>2. \A z \in Zone : Prebooked[z] \in Nat /\ Capacity[z] \in Nat /\ booked[z] = Prebooked[z]
    BY CatalogAssumption DEF Init
  <2>3. QED
    BY <2>1, <2>2, CatalogAssumption DEF CounterCoversSeats, CounterInRange
<1>5. QED
  BY <1>1, <1>2, <1>4 DEF Inv

\* When a COMMIT that took effect is never reported as failed, the counter of
\* every zone covers the seats sold, in progress and on their way back, and
\* stays within the capacity: through every interleaving of requests, payments
\* and workers, every crash and every failed or half-applied MongoDB call.
THEOREM CounterSafe ==
    ASSUME LostAck = FALSE
    PROVE  Spec => []Inv
<1>1. Init => Inv
  BY InvInit
<1>2. Inv /\ [Next]_vars => Inv'
  BY InvStep
<1>3. QED
  BY <1>1, <1>2, PTL DEF Spec

\* booked_count never leaves 0..capacity, also when COMMITs that took effect are
\* misread as failed and the same seats are given back twice.
THEOREM CounterStaysInRange == Spec => []CounterInRange
<1>1. Init => CounterInRange
  BY CatalogAssumption DEF Init, CounterInRange
<1>2. TypeOK /\ CounterInRange /\ [Next]_vars => CounterInRange'
  BY RangeStep
<1>3. QED
  BY <1>1, <1>2, TypeCorrect, PTL DEF Spec

\* The tickets that occupy a seat are within what the counter covers.
LEMMA SoldWithin ==
    ASSUME Inv
    PROVE  NoOversell
<1> SUFFICES ASSUME NEW z \in Zone PROVE Cardinality(Active(z)) <= Capacity[z]
  BY DEF NoOversell
<1>1. Active(z) \subseteq Claims(z)
  BY DEF Claims
<1>2. /\ IsFiniteSet(Active(z)) /\ Cardinality(Active(z)) <= Cardinality(Claims(z))
      /\ Cardinality(Claims(z)) \in Nat
  BY <1>1, ClaimsFinite, FS_Subset
<1>3. QED
  BY <1>2, CounterBounds, FS_CardinalityType DEF Inv, CounterInRange

\* No zone ever has more held or valid tickets than seats.
THEOREM NeverOversold ==
    ASSUME LostAck = FALSE
    PROVE  Spec => []NoOversell
<1>1. Inv => NoOversell
  BY SoldWithin
<1>2. QED
  BY <1>1, CounterSafe, PTL

----------------------------------------------------------------------------
(* Orders, tickets, payments and outbox rows.                              *)

\* What a step may do to one row of orders and to what belongs to it.
RowStep(r) ==
    /\ body'[r] = body[r]
    /\ \/ UNCHANGED <<order[r], tickets[r], payments[r], outbox[r]>>
       \/ /\ order[r] = "none" /\ order'[r] = "pending"
          /\ tickets'[r] = [l \in Line |-> IF l \in body[r].lines THEN "held" ELSE "none"]
          /\ payments'[r] = payments[r]
          /\ outbox'[r] = Append(outbox[r], "SEAT_HELD")
       \/ /\ order[r] = "pending" /\ order'[r] = "confirmed"
          /\ \A l \in Line : tickets'[r][l] = IF tickets[r][l] = "held" THEN "valid" ELSE tickets[r][l]
          /\ tickets'[r] \in [Line -> TicketStatus]
          /\ payments'[r] = payments[r] + 1
          /\ outbox'[r] = Append(outbox[r], "ORDER_PAID")
       \/ /\ order[r] = "pending" /\ order'[r] = "expired" /\ overdue[r]
          /\ \A l \in Line : tickets'[r][l] = IF tickets[r][l] = "held" THEN "cancelled" ELSE tickets[r][l]
          /\ tickets'[r] \in [Line -> TicketStatus]
          /\ payments'[r] = payments[r]
          /\ outbox'[r] = Append(outbox[r], "SEAT_HOLD_EXPIRED")

\* Only the three transactions on the tables change a row, each as RowStep says.
LEMMA TableStep ==
    ASSUME LostAck = FALSE, Inv, [Next]_vars, NEW r \in Request
    PROVE  RowStep(r)
<1>0. TypeOK' /\ TypeOK
  BY TypeStep DEF Inv
<1>1. CASE UNCHANGED <<body, order, tickets, payments, outbox>>
  BY <1>1 DEF RowStep
<1>2. ASSUME NEW q \in Request, Commit(q) PROVE RowStep(r)
  <2>1. order[q] = "none"
    BY <1>2 DEF Commit, Reserved, Inv, RequestsOpen
  <2>2. CASE r = q
    BY <1>0, <1>2, <2>1, <2>2 DEF Commit, WriteOrder, Publish, TypeOK, RowStep
  <2>3. CASE r # q
    BY <1>0, <1>2, <2>3 DEF Commit, WriteOrder, Publish, TypeOK, RowStep
  <2>4. QED
    BY <2>2, <2>3
<1>3. ASSUME NEW a \in Agent, at[a] = "expiring", ExpireHeld(a) PROVE RowStep(r)
  <2>1. r \in holds[a] => order[r] = "pending" /\ overdue[r]
    BY <1>3 DEF Inv, RowsLocked
  <2>2. tickets'[r] \in [Line -> TicketStatus]
    BY <1>0 DEF TypeOK
  <2>3. CASE r \in holds[a]
    BY <1>0, <1>3, <2>1, <2>2, <2>3 DEF ExpireHeld, MoveHeld, Publish, RowStep
  <2>4. CASE r \notin holds[a]
    <3>1. \A l \in Line : tickets'[r][l] = tickets[r][l]
      BY <1>3, <2>4 DEF ExpireHeld, MoveHeld
    <3>2. tickets'[r] = tickets[r]
      BY <1>0, <2>2, <3>1 DEF TypeOK
    <3>3. QED
      BY <1>3, <2>4, <3>2 DEF ExpireHeld, Publish, RowStep
  <2>5. QED
    BY <2>3, <2>4
<1>4. ASSUME NEW p \in Agent, PayCommit(p) PROVE RowStep(r)
  <2>1. r \in holds[p] => order[r] = "pending"
    BY <1>4 DEF Inv, RowsLocked
  <2>2. tickets'[r] \in [Line -> TicketStatus]
    BY <1>0 DEF TypeOK
  <2>3. CASE r \in holds[p]
    BY <1>0, <1>4, <2>1, <2>2, <2>3 DEF PayCommit, MoveHeld, Publish, RowStep
  <2>4. CASE r \notin holds[p]
    <3>1. \A l \in Line : tickets'[r][l] = tickets[r][l]
      BY <1>4, <2>4 DEF PayCommit, MoveHeld
    <3>2. tickets'[r] = tickets[r]
      BY <1>0, <2>2, <3>1 DEF TypeOK
    <3>3. QED
      BY <1>4, <2>4, <3>2 DEF PayCommit, Publish, RowStep
  <2>5. QED
    BY <2>3, <2>4
<1>5. ASSUME NEW q \in Request, RequestStep(q) \/ RequestFault(q) \/ HoldElapses(q) PROVE RowStep(r)
  <2>1. CASE ~Commit(q)
    BY <1>1, <1>5, <2>1 DEF RequestStep, RequestFault, HoldElapses, Replay, Refuse, Accept, Reserve, SoldOut,
       ReleaseReservation, Conflict, AnswerFailure, ReserveFails, PgFails, CommitAckLost, Crash, pgVars
  <2>2. QED
    BY <1>2, <2>1
<1>6. ASSUME NEW a \in Agent, NEW s \in {"idle", "done"}, GiveBackStep(a, s) \/ GiveBackFault(a, s) PROVE RowStep(r)
  BY <1>1, <1>6 DEF GiveBackStep, GiveBackFault, GiveBack, GiveBackOne, Released, GiveBackFails, ReleaseDies, pgVars
<1>7. ASSUME NEW p \in Payer, PayerStep(p) \/ PayAborts(p) \/ GiveBackFault(p, "done") PROVE RowStep(r)
  <2>1. CASE PayCommit(p) \/ PayExpire(p)
    BY <1>3, <1>4, <2>1 DEF PayExpire, Agent
  <2>2. CASE PayAborts(p) \/ \E q \in Request : PayRefused(p, q) \/ PayLock(p, q)
    BY <1>1, <2>2 DEF PayAborts, Abort, PayRefused, PayLock, pgVars
  <2>3. QED
    BY <1>6, <1>7, <2>1, <2>2 DEF PayerStep, Agent
<1>8. ASSUME NEW s \in Sweeper, SweeperStep(s) \/ SweepAborts(s) \/ GiveBackFault(s, "idle") PROVE RowStep(r)
  <2>1. CASE SweepCommit(s)
    BY <1>3, <2>1 DEF SweepCommit, Agent
  <2>2. CASE SweepAborts(s) \/ SweepClaim(s) \/ SweepNothing(s)
    BY <1>1, <2>2 DEF SweepAborts, Abort, SweepClaim, SweepNothing, pgVars, vars
  <2>3. QED
    BY <1>6, <1>8, <2>1, <2>2 DEF SweeperStep, Agent
<1>9. CASE UNCHANGED vars
  BY <1>1, <1>9 DEF vars, pgVars
<1>10. QED
  BY <1>5, <1>7, <1>8, <1>9 DEF Next

\* Only Commit writes an order.
LEMMA CommitOnly ==
    ASSUME LostAck = FALSE, Inv, [Next]_vars, NEW r \in Request,
           order[r] = "none", order'[r] = "pending"
    PROVE  \E q \in Request : Commit(q)
<1>1. order' # order
  OBVIOUS
<1>2. ASSUME NEW a \in Agent, ExpireHeld(a) \/ PayCommit(a) PROVE order'[r] # "pending"
  BY <1>2 DEF ExpireHeld, PayCommit
<1>3. ASSUME NEW q \in Request, RequestStep(q) \/ RequestFault(q) \/ HoldElapses(q) PROVE Commit(q)
  BY <1>1, <1>3 DEF RequestStep, RequestFault, HoldElapses, Replay, Refuse, Accept, Reserve, SoldOut,
     ReleaseReservation, Conflict, AnswerFailure, ReserveFails, PgFails, CommitAckLost, Crash, pgVars
<1>4. ASSUME NEW a \in Agent, NEW s \in {"idle", "done"}, GiveBackStep(a, s) \/ GiveBackFault(a, s) PROVE FALSE
  BY <1>1, <1>4 DEF GiveBackStep, GiveBackFault, GiveBack, GiveBackOne, Released, GiveBackFails, ReleaseDies, pgVars
<1>5. ASSUME NEW p \in Payer, PayerStep(p) \/ PayAborts(p) \/ GiveBackFault(p, "done") PROVE FALSE
  BY <1>1, <1>2, <1>4, <1>5 DEF PayerStep, PayAborts, PayExpire, Abort, PayRefused, PayLock, pgVars, Agent
<1>6. ASSUME NEW s \in Sweeper, SweeperStep(s) \/ SweepAborts(s) \/ GiveBackFault(s, "idle") PROVE FALSE
  BY <1>1, <1>2, <1>4, <1>6 DEF SweeperStep, SweepAborts, SweepCommit, SweepClaim, SweepNothing, Abort, pgVars, vars, Agent
<1>7. QED
  BY <1>1, <1>3, <1>5, <1>6 DEF Next, vars, pgVars

\* The table invariants, with the locks and the counter they rest on.
LEMMA TablesStep ==
    ASSUME LostAck = FALSE, Inv, [Next]_vars, LedgerAgrees, OutboxTellsHistory
    PROVE  LedgerAgrees' /\ OutboxTellsHistory'
<1>1. TypeOK /\ TypeOK'
  BY TypeStep DEF Inv
<1>2. \A r \in Request : RowStep(r)
  BY TableStep
<1>3. LedgerAgrees'
  <2> SUFFICES ASSUME NEW r \in Request
      PROVE CASE order'[r] = "none"      -> payments'[r] = 0 /\ \A l \in Line : tickets'[r][l] = "none"
              [] order'[r] = "pending"   -> payments'[r] = 0 /\ Lines(r, "held")'
              [] order'[r] = "confirmed" -> payments'[r] = 1 /\ Lines(r, "valid")'
              [] order'[r] = "expired"   -> payments'[r] = 0 /\ Lines(r, "cancelled")'
    BY DEF LedgerAgrees
  <2>1. /\ order[r] \in OrderStatus
        /\ order[r] = "none" => payments[r] = 0 /\ \A l \in Line : tickets[r][l] = "none"
        /\ order[r] = "pending" => payments[r] = 0 /\ Lines(r, "held")
        /\ order[r] = "confirmed" => payments[r] = 1 /\ Lines(r, "valid")
        /\ order[r] = "expired" => payments[r] = 0 /\ Lines(r, "cancelled")
    BY <1>1 DEF LedgerAgrees, TypeOK, OrderStatus
  <2>2. RowStep(r)
    BY <1>2
  <2>3. /\ order'[r] = "none" => payments'[r] = 0 /\ \A l \in Line : tickets'[r][l] = "none"
        /\ order'[r] = "pending" => payments'[r] = 0 /\ Lines(r, "held")'
        /\ order'[r] = "confirmed" => payments'[r] = 1 /\ Lines(r, "valid")'
        /\ order'[r] = "expired" => payments'[r] = 0 /\ Lines(r, "cancelled")'
    BY <2>1, <2>2 DEF RowStep, Lines
  <2>4. order'[r] \in OrderStatus
    BY <1>1 DEF TypeOK
  <2>5. QED
    BY <2>3, <2>4 DEF OrderStatus
<1>4. OutboxTellsHistory'
  <2> SUFFICES ASSUME NEW r \in Request
      PROVE outbox'[r] = CASE order'[r] = "none"      -> <<>>
                           [] order'[r] = "pending"   -> <<"SEAT_HELD">>
                           [] order'[r] = "confirmed" -> <<"SEAT_HELD", "ORDER_PAID">>
                           [] order'[r] = "expired"   -> <<"SEAT_HELD", "SEAT_HOLD_EXPIRED">>
    BY DEF OutboxTellsHistory
  <2>1. /\ order[r] \in OrderStatus
        /\ order[r] = "none" => outbox[r] = <<>>
        /\ order[r] = "pending" => outbox[r] = <<"SEAT_HELD">>
        /\ order[r] = "confirmed" => outbox[r] = <<"SEAT_HELD", "ORDER_PAID">>
        /\ order[r] = "expired" => outbox[r] = <<"SEAT_HELD", "SEAT_HOLD_EXPIRED">>
    BY <1>1 DEF OutboxTellsHistory, TypeOK, OrderStatus
  <2>2. RowStep(r)
    BY <1>2
  <2>3. /\ order'[r] = "none" => outbox'[r] = <<>>
        /\ order'[r] = "pending" => outbox'[r] = <<"SEAT_HELD">>
        /\ order'[r] = "confirmed" => outbox'[r] = <<"SEAT_HELD", "ORDER_PAID">>
        /\ order'[r] = "expired" => outbox'[r] = <<"SEAT_HELD", "SEAT_HOLD_EXPIRED">>
    BY <2>1, <2>2 DEF RowStep
  <2>4. order'[r] \in OrderStatus
    BY <1>1 DEF TypeOK
  <2>5. QED
    BY <2>3, <2>4 DEF OrderStatus
<1>5. QED
  BY <1>3, <1>4

\* In every reachable state the order's status, its tickets, its completed
\* payments and its outbox rows tell the same story, whatever races or fails.
THEOREM LedgerSafe ==
    ASSUME LostAck = FALSE
    PROVE  Spec => [](LedgerAgrees /\ OutboxTellsHistory)
<1>1. Init => LedgerAgrees /\ OutboxTellsHistory
  BY DEF Init, LedgerAgrees, OutboxTellsHistory
<1>2. Inv /\ LedgerAgrees /\ OutboxTellsHistory /\ [Next]_vars => LedgerAgrees' /\ OutboxTellsHistory'
  BY TablesStep
<1>3. QED
  BY <1>1, <1>2, CounterSafe, PTL DEF Spec

\* A confirmed or expired order and its tickets never change again, and only an
\* overdue hold expires: no payment and no worker overturns the other's decision.
THEOREM ResolvedForever ==
    ASSUME LostAck = FALSE
    PROVE  Spec => ResolvedOrdersStay
<1>1. Inv /\ [Next]_vars => Resolve
  <2> SUFFICES ASSUME Inv, [Next]_vars, NEW r \in Request
      PROVE /\ order[r] \in {"confirmed", "expired"} => order'[r] = order[r] /\ tickets'[r] = tickets[r]
            /\ order[r] = "pending" /\ order'[r] = "expired" => overdue[r]
    BY DEF Resolve
  <2>1. QED
    BY TableStep DEF RowStep
<1>2. QED
  BY <1>1, CounterSafe, PTL DEF Spec, ResolvedOrdersStay

----------------------------------------------------------------------------
(* The counter is exact.                                                    *)

\* No counter is above the seats that are claimed.
NoDrift == \A z \in Zone : booked[z] <= Prebooked[z] + Cardinality(Claims(z))

\* A step that leaves the counters alone and drops no claim loses no seat.
LEMMA DriftStays ==
    ASSUME TypeOK, NoDrift, booked' = booked,
           \A z \in Zone : Claims(z) \subseteq Claims(z)'
    PROVE  NoDrift'
<1>1. ASSUME NEW z \in Zone
      PROVE  booked'[z] <= Prebooked[z] + Cardinality(Claims(z)')
  <2>1. Claims(z)' \subseteq Tix /\ IsFiniteSet(Claims(z)')
    <3>1. Claims(z)' \subseteq Tix
      BY DEF Claims, Active, InFlight, OwedIn
    <3>2. QED
      BY <3>1, QtyType, FS_Subset
  <2>2. Cardinality(Claims(z)) <= Cardinality(Claims(z)')
    BY <2>1, FS_Subset
  <2>3. Cardinality(Claims(z)') \in Nat /\ Cardinality(Claims(z)) \in Nat
    BY <2>1, ClaimsFinite, FS_CardinalityType
  <2>4. QED
    BY <2>2, <2>3, CatalogAssumption DEF NoDrift, TypeOK
<1>2. QED
  BY <1>1 DEF NoDrift

\* Seats taken off a counter cover the claims that disappear.
LEMMA DriftDrops ==
    ASSUME TypeOK, NoDrift, NEW z \in Zone, NEW T, IsFiniteSet(T),
           Claims(z) \subseteq Claims(z)' \cup T,
           \A y \in Zone \ {z} : Claims(y) \subseteq Claims(y)',
           booked' = [booked EXCEPT ![z] = @ - Cardinality(T)]
    PROVE  NoDrift'
<1>1. ASSUME NEW y \in Zone
      PROVE  booked'[y] <= Prebooked[y] + Cardinality(Claims(y)')
  <2>1. IsFiniteSet(Claims(y)')
    <3>1. Claims(y)' \subseteq Tix
      BY DEF Claims, Active, InFlight, OwedIn
    <3>2. QED
      BY <3>1, QtyType, FS_Subset
  <2>2. /\ Cardinality(Claims(y)') \in Nat /\ Cardinality(Claims(y)) \in Nat
        /\ Cardinality(T) \in Nat
    BY <2>1, ClaimsFinite, FS_CardinalityType
  <2>3. y # z => Cardinality(Claims(y)) <= Cardinality(Claims(y)')
    BY <2>1, FS_Subset
  <2>4. y = z => Cardinality(Claims(y)) <= Cardinality(Claims(y)') + Cardinality(T)
    BY <2>1, CardGrows
  <2>5. booked'[y] = IF y = z THEN booked[y] - Cardinality(T) ELSE booked[y]
    BY DEF TypeOK
  <2>6. booked[y] <= Prebooked[y] + Cardinality(Claims(y)) /\ booked[y] \in Int /\ Prebooked[y] \in Nat
    BY CatalogAssumption DEF NoDrift, TypeOK
  <2>7. QED
    BY <2>2, <2>3, <2>4, <2>5, <2>6
<1>2. QED
  BY <1>1 DEF NoDrift

\* Seats added to a counter are all claimed, and were not claimed before.
LEMMA DriftRises ==
    ASSUME TypeOK, NoDrift, NEW z \in Zone, NEW T,
           T \subseteq Claims(z)', Claims(z) \subseteq Claims(z)' \ T,
           \A y \in Zone : Claims(y) \subseteq Claims(y)',
           booked' = [booked EXCEPT ![z] = @ + Cardinality(T)]
    PROVE  NoDrift'
<1>1. ASSUME NEW y \in Zone
      PROVE  booked'[y] <= Prebooked[y] + Cardinality(Claims(y)')
  <2>1. IsFiniteSet(Claims(y)')
    <3>1. Claims(y)' \subseteq Tix
      BY DEF Claims, Active, InFlight, OwedIn
    <3>2. QED
      BY <3>1, QtyType, FS_Subset
  <2>2. Cardinality(Claims(y)') \in Nat /\ Cardinality(Claims(y)) \in Nat
    BY <2>1, ClaimsFinite, FS_CardinalityType
  <2>3. y # z => Cardinality(Claims(y)) <= Cardinality(Claims(y)')
    BY <2>1, FS_Subset
  <2>4. y = z => /\ Cardinality(Claims(y)) + Cardinality(T) <= Cardinality(Claims(y)')
                 /\ Cardinality(T) \in Nat
    BY <2>1, CardShrinks, FS_Subset, FS_CardinalityType
  <2>5. booked'[y] = IF y = z THEN booked[y] + Cardinality(T) ELSE booked[y]
    BY DEF TypeOK
  <2>6. booked[y] <= Prebooked[y] + Cardinality(Claims(y)) /\ booked[y] \in Int /\ Prebooked[y] \in Nat
    BY CatalogAssumption DEF NoDrift, TypeOK
  <2>7. QED
    BY <2>2, <2>3, <2>4, <2>5, <2>6
<1>2. QED
  BY <1>1 DEF NoDrift

\* Steps that change none of the things claims are made of.
LEMMA DriftQuiet ==
    ASSUME TypeOK, NoDrift, UNCHANGED <<body, reserved, booked, tickets, owed>>
    PROVE  NoDrift'
<1>1. \A z \in Zone : Claims(z) \subseteq Claims(z)'
  BY DEF Claims, Active, InFlight, OwedIn, TicketsIn
<1>2. QED
  BY <1>1, DriftStays

\* A reservation claims every seat it takes, for the first time.
LEMMA ReserveExact ==
    ASSUME Covered, NoDrift, NEW r \in Request, NEW z \in Zone, Reserve(r, z)
    PROVE  NoDrift'
<1> DEFINE T == TicketsIn(r, z)
<1>1. /\ reserved' = [reserved EXCEPT ![r] = @ \cup {z}] /\ pc[r] = "reserve" /\ z \notin reserved[r]
      /\ booked' = [booked EXCEPT ![z] = @ + Cardinality(T)]
      /\ UNCHANGED <<body, tickets, owed>>
  BY DEF Reserve, NextZone, Qty, pgVars, agentVars
<1>2. \A y \in Zone : Claims(y) \subseteq Claims(y)'
  BY <1>1 DEF Claims, Active, InFlight, OwedIn, TicketsIn, Tix, Covered, TypeOK
<1>3. T \subseteq Claims(z)'
  BY <1>1 DEF Claims, InFlight, TicketsIn, Tix, Covered, TypeOK
<1>4. Claims(z) \cap T = {}
  <2>1. order[r] = "none" /\ \A l \in Line : tickets[r][l] = "none"
    BY <1>1 DEF Covered, RequestsOpen
  <2>2. QED
    BY <1>1, <2>1 DEF Claims, Active, InFlight, OwedIn, TicketsIn, Tix, Covered, OwedOnce
<1>5. Claims(z) \subseteq Claims(z)' \ T
  BY <1>2, <1>4
<1>6. QED
  BY <1>1, <1>2, <1>3, <1>5, DriftRises DEF Covered

\* A request that gives a zone back takes off all the seats it claimed there.
LEMMA ReleaseReservationExact ==
    ASSUME Covered, NoDrift, NEW r \in Request, NEW z \in Zone, ReleaseReservation(r, z), ~Fault
    PROVE  NoDrift'
<1> DEFINE T == TicketsIn(r, z)
<1>1. reserved' = [reserved EXCEPT ![r] = @ \ {z}] /\ z \in reserved[r] /\ UNCHANGED <<body, tickets, owed>>
  BY DEF ReleaseReservation, pgVars, agentVars
<1>2. T \subseteq Claims(z)
  BY <1>1 DEF Claims, InFlight, TicketsIn
<1>3. IsFiniteSet(T) /\ booked[z] >= Cardinality(T)
  <2>1. /\ Cardinality(T) <= Cardinality(Claims(z)) /\ Cardinality(Claims(z)) \in Nat
        /\ IsFiniteSet(T) /\ Cardinality(T) \in Nat
    BY <1>2, ClaimsFinite, FS_Subset, FS_CardinalityType
  <2>2. QED
    BY <2>1, CounterBounds DEF Covered
<1>4. booked' = [booked EXCEPT ![z] = @ - Cardinality(T)]
  BY <1>3 DEF ReleaseReservation, Qty
<1>5. Claims(z) \subseteq Claims(z)' \cup T
  BY <1>1 DEF Claims, Active, InFlight, OwedIn, TicketsIn, Tix, Covered, TypeOK
<1>6. \A y \in Zone \ {z} : Claims(y) \subseteq Claims(y)'
  BY <1>1 DEF Claims, Active, InFlight, OwedIn, TicketsIn, Tix, Covered, TypeOK
<1>7. QED
  BY <1>3, <1>4, <1>5, <1>6, DriftDrops DEF Covered

\* COMMIT turns all the reservations of a request into held tickets.
LEMMA CommitExact ==
    ASSUME Covered, NoDrift, NEW r \in Request, Commit(r)
    PROVE  NoDrift'
<1>1. /\ pc[r] = "reserve" /\ reserved' = [reserved EXCEPT ![r] = {}]
      /\ tickets' = [tickets EXCEPT ![r] = [l \in Line |-> IF l \in body[r].lines THEN "held" ELSE "none"]]
      /\ UNCHANGED <<body, booked, owed>>
  BY DEF Commit, Reserved, WriteOrder, agentVars
<1>2. \A l \in Line : tickets[r][l] = "none"
  BY <1>1 DEF Covered, RequestsOpen
<1>3. ASSUME NEW z \in Zone PROVE Claims(z) \subseteq Claims(z)'
  <2>1. Active(z) \subseteq Active(z)'
    BY <1>1, <1>2 DEF Active, Tix, Covered, TypeOK
  <2>2. InFlight(z) \subseteq InFlight(z)' \cup Active(z)'
    BY <1>1 DEF InFlight, Active, TicketsIn, Tix, Covered, TypeOK
  <2>3. OwedIn(z)' = OwedIn(z)
    BY <1>1 DEF OwedIn
  <2>4. QED
    BY <2>1, <2>2, <2>3 DEF Claims
<1>4. QED
  BY <1>1, <1>3, DriftStays DEF Covered

\* Whoever expires orders owes the seats of all tickets it cancels.
LEMMA ExpireExact ==
    ASSUME Covered, NoDrift, NEW a \in Agent, at[a] = "expiring", ExpireHeld(a)
    PROVE  NoDrift'
<1>1. /\ tickets' = MoveHeld(holds[a], "cancelled")
      /\ owed' = [owed EXCEPT ![a] = HeldTickets(holds[a])]
      /\ UNCHANGED <<body, reserved, booked>>
  BY DEF ExpireHeld, requestVars
<1>2. \A r \in Request, l \in Line :
          tickets'[r][l] = IF r \in holds[a] /\ tickets[r][l] = "held" THEN "cancelled" ELSE tickets[r][l]
  BY <1>1 DEF MoveHeld
<1>3. owed[a] = {}
  BY DEF Covered, OwedOnce
<1>4. ASSUME NEW z \in Zone PROVE Claims(z) \subseteq Claims(z)'
  <2>1. Active(z) \subseteq Active(z)' \cup OwedIn(z)'
    BY <1>1, <1>2 DEF Active, OwedIn, HeldTickets, Tix, Covered, TypeOK
  <2>2. InFlight(z)' = InFlight(z)
    BY <1>1 DEF InFlight, TicketsIn
  <2>3. OwedIn(z) \subseteq OwedIn(z)'
    BY <1>1, <1>3 DEF OwedIn, Covered, TypeOK
  <2>4. QED
    BY <2>1, <2>2, <2>3 DEF Claims
<1>5. QED
  BY <1>1, <1>4, DriftStays DEF Covered

\* A payment keeps the seats it makes valid.
LEMMA PayCommitExact ==
    ASSUME Covered, NoDrift, NEW p \in Agent, PayCommit(p)
    PROVE  NoDrift'
<1>1. tickets' = MoveHeld(holds[p], "valid") /\ UNCHANGED <<body, reserved, booked, owed>>
  BY DEF PayCommit, requestVars
<1>2. \A r \in Request, l \in Line :
          tickets'[r][l] = IF r \in holds[p] /\ tickets[r][l] = "held" THEN "valid" ELSE tickets[r][l]
  BY <1>1 DEF MoveHeld
<1>3. ASSUME NEW z \in Zone PROVE Claims(z) \subseteq Claims(z)'
  <2>1. Active(z) \subseteq Active(z)'
    BY <1>2 DEF Active, Tix
  <2>2. InFlight(z)' = InFlight(z) /\ OwedIn(z)' = OwedIn(z)
    BY <1>1 DEF InFlight, TicketsIn, OwedIn
  <2>3. QED
    BY <2>1, <2>2 DEF Claims
<1>4. QED
  BY <1>1, <1>3, DriftStays DEF Covered

\* A group of seats comes back as a whole.
LEMMA GiveBackExact ==
    ASSUME Covered, NoDrift, NEW a \in Agent, NEW z \in Zone, GiveBack(a, z)
    PROVE  NoDrift'
<1> DEFINE T == Owes(a, z)
<1>1. T \subseteq Tix /\ IsFiniteSet(T) /\ Cardinality(T) \in Nat
  BY OwesType DEF Covered
<1>2. T \subseteq Claims(z)
  BY <1>1 DEF Owes, Claims, OwedIn
<1>3. booked[z] >= Cardinality(T)
  <2>1. Cardinality(T) <= Cardinality(Claims(z)) /\ Cardinality(Claims(z)) \in Nat
    BY <1>2, ClaimsFinite, FS_Subset
  <2>2. QED
    BY <1>1, <2>1, CounterBounds DEF Covered
<1>4. /\ booked' = [booked EXCEPT ![z] = @ - Cardinality(T)]
      /\ owed' = [owed EXCEPT ![a] = @ \ T]
      /\ UNCHANGED <<body, reserved, tickets>>
  BY <1>3 DEF GiveBack, requestVars, pgVars
<1>5. Claims(z) \subseteq Claims(z)' \cup T
  BY <1>4 DEF Claims, Active, InFlight, OwedIn, TicketsIn, Covered, TypeOK
<1>6. \A y \in Zone \ {z} : Claims(y) \subseteq Claims(y)'
  BY <1>4 DEF Claims, Active, InFlight, OwedIn, TicketsIn, Owes, Covered, TypeOK
<1>7. QED
  BY <1>1, <1>4, <1>5, <1>6, DriftDrops DEF Covered

\* Faults are counted, and never forgotten.
LEMMA FaultsGrow ==
    ASSUME [Next]_vars
    PROVE  faults' = faults \/ faults' = faults + 1
BY DEF Next, vars, Fault, RequestStep, RequestFault, HoldElapses, Replay, Refuse, Accept, Reserve, SoldOut,
   ReleaseReservation, Commit, Conflict, AnswerFailure, ReserveFails, PgFails, CommitAckLost, Crash,
   PayerStep, PayAborts, GiveBackFault, GiveBackStep, GiveBack, GiveBackOne, Released, GiveBackFails, ReleaseDies,
   PayRefused, PayLock, PayCommit, PayExpire, ExpireHeld, Abort, SweeperStep, SweepAborts, SweepClaim,
   SweepNothing, SweepCommit

\* A step that is none of the faults keeps the counter from drifting upwards.
LEMMA DriftStep ==
    ASSUME Covered, NoDrift, [Next]_vars, faults' = faults
    PROVE  NoDrift'
<1>1. ~Fault
  BY DEF Fault, Covered, TypeOK
<1>2. ASSUME UNCHANGED <<body, reserved, booked, tickets, owed>> PROVE NoDrift'
  BY <1>2, DriftQuiet DEF Covered
<1>3. ASSUME NEW r \in Request, RequestStep(r) \/ RequestFault(r) \/ HoldElapses(r) PROVE NoDrift'
  <2>1. CASE \E z \in Zone : Reserve(r, z)
    BY <2>1, ReserveExact DEF Reserve
  <2>2. CASE \E z \in Zone : ReleaseReservation(r, z)
    BY <1>1, <2>2, ReleaseReservationExact DEF ReleaseReservation
  <2>3. CASE Commit(r)
    BY <2>3, CommitExact DEF Commit
  <2>4. CASE Replay(r) \/ Refuse(r) \/ Accept(r) \/ (\E z \in Zone : SoldOut(r, z))
             \/ Conflict(r) \/ AnswerFailure(r) \/ HoldElapses(r)
    BY <1>2, <2>4 DEF Replay, Refuse, Accept, SoldOut, Conflict, Compensate, AnswerFailure, HoldElapses,
       pgVars, agentVars, requestVars
  <2>5. CASE RequestFault(r)
    BY <1>1, <2>5 DEF RequestFault, ReserveFails, PgFails, CommitAckLost, Crash
  <2>6. QED
    BY <1>3, <2>1, <2>2, <2>3, <2>4, <2>5 DEF RequestStep
<1>4. ASSUME NEW a \in Agent, NEW s \in {"idle", "done"}, GiveBackStep(a, s) \/ GiveBackFault(a, s) PROVE NoDrift'
  <2>1. CASE \E z \in Zone : GiveBack(a, z)
    BY <2>1, GiveBackExact DEF GiveBack
  <2>2. CASE \E t \in Tix : GiveBackOne(a, t)
    BY <2>2 DEF GiveBackOne, Covered, OwedOnce
  <2>3. CASE Released(a, s)
    BY <1>2, <2>3 DEF Released, requestVars, pgVars
  <2>4. CASE GiveBackFault(a, s)
    BY <1>1, <2>4 DEF GiveBackFault, GiveBackFails, ReleaseDies
  <2>5. QED
    BY <1>4, <2>1, <2>2, <2>3, <2>4 DEF GiveBackStep
<1>5. ASSUME NEW a \in Agent, at[a] = "expiring", ExpireHeld(a) PROVE NoDrift'
  BY <1>5, ExpireExact DEF ExpireHeld
<1>6. ASSUME NEW p \in Payer, PayerStep(p) \/ PayAborts(p) \/ GiveBackFault(p, "done") PROVE NoDrift'
  <2>1. CASE PayCommit(p)
    BY <2>1, PayCommitExact DEF PayCommit, Agent
  <2>2. CASE PayExpire(p)
    BY <1>5, <2>2 DEF PayExpire, Agent
  <2>3. CASE PayAborts(p) \/ \E r \in Request : PayRefused(p, r) \/ PayLock(p, r)
    BY <1>1, <1>2, <2>3 DEF PayAborts, Abort, PayRefused, PayLock, requestVars, pgVars
  <2>4. QED
    BY <1>4, <1>6, <2>1, <2>2, <2>3 DEF PayerStep, Agent
<1>7. ASSUME NEW s \in Sweeper, SweeperStep(s) \/ SweepAborts(s) \/ GiveBackFault(s, "idle") PROVE NoDrift'
  <2>1. CASE SweepCommit(s)
    BY <1>5, <2>1 DEF SweepCommit, Agent
  <2>2. CASE SweepAborts(s) \/ SweepClaim(s) \/ SweepNothing(s)
    BY <1>1, <1>2, <2>2 DEF SweepAborts, SweepClaim, SweepNothing, requestVars, pgVars, agentVars, vars
  <2>3. QED
    BY <1>4, <1>7, <2>1, <2>2 DEF SweeperStep, Agent
<1>8. CASE UNCHANGED vars
  BY <1>2, <1>8 DEF vars, requestVars, pgVars, agentVars
<1>9. QED
  BY <1>3, <1>6, <1>7, <1>8 DEF Next

\* While nothing has failed the counter of every zone is exactly the preset count
\* plus the seats sold, in progress or on their way back: every losing side of
\* every race gives back what it took, once.
THEOREM NoSeatLost ==
    ASSUME LostAck = FALSE
    PROVE  Spec => []NoLostSeat
<1> DEFINE Exact == faults = 0 => NoDrift
<1>1. Init => Exact
  <2> SUFFICES ASSUME Init PROVE NoDrift
    OBVIOUS
  <2>1. \A z \in Zone : Claims(z) = {}
    BY DEF Init, Claims, Active, InFlight, OwedIn, Tix
  <2>2. \A z \in Zone : Cardinality(Claims(z)) = 0
    BY <2>1, FS_EmptySet
  <2>3. \A z \in Zone : Prebooked[z] \in Nat /\ booked[z] = Prebooked[z]
    BY CatalogAssumption DEF Init
  <2>4. QED
    BY <2>2, <2>3 DEF NoDrift
<1>2. Inv /\ Exact /\ [Next]_vars => Exact'
  <2> SUFFICES ASSUME Inv, Exact, [Next]_vars, faults' = 0 PROVE NoDrift'
    OBVIOUS
  <2>1. faults = 0
    BY FaultsGrow DEF Inv, TypeOK
  <2>2. QED
    BY <2>1, DriftStep DEF Inv, Covered
<1>3. Inv /\ Exact => NoLostSeat
  <2> SUFFICES ASSUME Inv, NoDrift, NEW z \in Zone
      PROVE booked[z] = Prebooked[z] + Cardinality(Claims(z))
    BY DEF NoLostSeat
  <2>1. Cardinality(Claims(z)) \in Nat
    BY ClaimsFinite
  <2>2. QED
    BY <2>1, CounterBounds DEF Inv, NoDrift
<1>4. QED
  BY <1>1, <1>2, <1>3, CounterSafe, PTL DEF Spec

----------------------------------------------------------------------------
(* What a request is answered.                                              *)

\* The unique key column: one order per key that is not NULL.
KeysUnique ==
    \A v, w \in Request :
        /\ order[v] # "none" /\ order[w] # "none"
        /\ body[v].key = body[w].key /\ body[v].key # NullKey
        => v = w

\* Only requests that ended were given an order, and then with a 201.
GivenAtEnd == \A r \in Request : code[r] = "201" \/ given[r] # {} => pc[r] = "done" /\ code[r] = "201"

\* AnswerIsStoredOrder without what KeysUnique adds to it.
GivenIsStored ==
    \A r \in Request : code[r] = "201" =>
        \E w \in Request :
            /\ given[r] = {w}
            /\ order[w] # "none"
            /\ \/ w = r /\ order[r] # "none"
               \/ w # r /\ order[r] = "none" /\ KeyGiven(r) /\ Stored(r) = {w}

Answers == KeysUnique /\ GivenAtEnd /\ ErrorSavesNothing /\ GivenIsStored

\* What one step does to one request: it may answer, with an error or with a
\* stored order, or go on, or commit its own order and answer with that.
AnswerStep(r) ==
    \/ UNCHANGED <<pc[r], code[r], given[r]>> /\ reserved'[r] = reserved[r]
    \/ /\ pc[r] \in {"new", "reserve", "release"} /\ pc'[r] \in {"reserve", "release", "crashed"}
       /\ code'[r] # "201" /\ given'[r] = given[r]
    \/ /\ pc[r] \in {"new", "release"} /\ pc'[r] = "done"
       /\ reserved'[r] = reserved[r] /\ reserved[r] = {}
       /\ \/ code'[r] # "201" /\ given'[r] = {}
          \/ KeyGiven(r) /\ code'[r] = "201" /\ \E w \in Stored(r) : given'[r] = {w}
    \/ /\ Commit(r) /\ pc'[r] = "done" /\ code'[r] = "201" /\ given'[r] = {r}
       /\ reserved'[r] = {} /\ order'[r] = "pending"

\* What every step does to one request.
LEMMA AnswerStepHolds ==
    ASSUME LostAck = FALSE, Inv, GivenAtEnd, [Next]_vars, NEW r \in Request
    PROVE  AnswerStep(r)
<1>types. /\ pc \in [Request -> RequestPC] /\ code \in [Request -> Code]
      /\ given \in [Request -> SUBSET Request] /\ reserved \in [Request -> SUBSET Zone]
      /\ order \in [Request -> OrderStatus]
  BY DEF Inv, TypeOK
<1>unreserved. pc[r] = "new" => reserved[r] = {}
  BY DEF Inv, RequestsOpen
<1>1. CASE UNCHANGED requestVars
  BY <1>1 DEF AnswerStep, requestVars
<1>2. ASSUME NEW q \in Request, RequestStep(q) \/ RequestFault(q) \/ HoldElapses(q) PROVE AnswerStep(r)
  <2>1. CASE q # r
    <3>1. pc'[r] = pc[r] /\ code'[r] = code[r] /\ given'[r] = given[r] /\ reserved'[r] = reserved[r]
      BY <1>2, <2>1 DEF RequestStep, RequestFault, HoldElapses, Replay, Refuse, Accept, Reserve, SoldOut,
         ReleaseReservation, Commit, Conflict, AnswerFailure, ReserveFails, PgFails, CommitAckLost, Crash,
         Answer, Compensate, requestVars, Inv, TypeOK
    <3>2. QED
      BY <3>1 DEF AnswerStep
  <2>2. CASE q = r
    <3>unanswered. pc[r] # "done" => code[r] # "201" /\ given[r] = {}
      BY DEF GivenAtEnd
    <3>answers. ASSUME NEW c, NEW W, Answer(r, c, W) PROVE pc'[r] = "done" /\ code'[r] = c /\ given'[r] = W
      BY <1>types, <3>answers DEF Answer
    <3>compensates. ASSUME NEW c, Compensate(r, c)
           PROVE  pc'[r] = "release" /\ code'[r] = c /\ given'[r] = given[r]
      BY <1>types, <3>compensates DEF Compensate
    <3>1. CASE Replay(r)
      <4>1. pc[r] = "new" /\ KeyGiven(r) /\ reserved' = reserved
        BY <3>1 DEF Replay
      <4>2. PICK w \in Stored(r) : Answer(r, "201", {w}) \/ Answer(r, "409", {})
        BY <3>1 DEF Replay
      <4>3. CASE Answer(r, "201", {w})
        BY <1>unreserved, <3>answers, <4>1, <4>2, <4>3 DEF AnswerStep
      <4>4. CASE Answer(r, "409", {})
        BY <1>unreserved, <3>answers, <4>1, <4>4 DEF AnswerStep
      <4>5. QED
        BY <4>2, <4>3, <4>4
    <3>2. CASE Refuse(r)
      <4>1. pc[r] = "new" /\ reserved' = reserved
        BY <3>2 DEF Refuse
      <4>2. PICK c \in {"400", "404"} : Answer(r, c, {})
        BY <3>2 DEF Refuse
      <4>3. QED
        BY <1>unreserved, <3>answers, <4>1, <4>2 DEF AnswerStep
    <3>3. CASE Accept(r) \/ (\E z \in Zone : Reserve(r, z) \/ ReleaseReservation(r, z))
      <4>1. CASE Accept(r)
        <5>1. pc[r] = "new" /\ pc' = [pc EXCEPT ![r] = "reserve"] /\ code' = code /\ given' = given
          BY <4>1 DEF Accept
        <5>2. QED
          BY <1>types, <3>unanswered, <5>1 DEF AnswerStep
      <4>2. CASE \E z \in Zone : Reserve(r, z) \/ ReleaseReservation(r, z)
        <5>1. pc[r] \in {"reserve", "release"} /\ pc' = pc /\ code' = code /\ given' = given
          BY <4>2 DEF Reserve, ReleaseReservation
        <5>2. QED
          BY <3>unanswered, <5>1 DEF AnswerStep
      <4>3. QED
        BY <3>3, <4>1, <4>2
    <3>4. CASE (\E z \in Zone : SoldOut(r, z)) \/ Conflict(r)
      <4>1. pc[r] = "reserve" /\ \E c \in {"409", "key", "user"} : Compensate(r, c)
        BY <3>4 DEF SoldOut, Conflict, Reserved
      <4>2. QED
        BY <3>compensates, <4>1 DEF AnswerStep
    <3>5. CASE Commit(r)
      <4>1. /\ reserved' = [reserved EXCEPT ![r] = {}]
            /\ order' = [order EXCEPT ![r] = "pending"]
            /\ Answer(r, "201", {r})
        BY <3>5 DEF Commit, WriteOrder
      <4>2. reserved'[r] = {} /\ order'[r] = "pending"
        BY <1>types, <4>1
      <4>3. QED
        BY <3>5, <3>answers, <4>1, <4>2 DEF AnswerStep
    <3>6. CASE AnswerFailure(r)
      <4>1. pc[r] = "release" /\ reserved[r] = {} /\ reserved' = reserved
        BY <3>6 DEF AnswerFailure
      <4>2. CASE code[r] \in {"key", "user"} /\ KeyGiven(r) /\ Stored(r) # {}
        <5>1. PICK w \in Stored(r) : Answer(r, "201", {w})
          BY <3>6, <4>2 DEF AnswerFailure
        <5>2. QED
          BY <3>answers, <4>1, <4>2, <5>1 DEF AnswerStep
      <4>3. CASE ~(code[r] \in {"key", "user"} /\ KeyGiven(r) /\ Stored(r) # {})
        <5> DEFINE c == CASE code[r] = "user" -> "404" [] code[r] = "key" -> "500" [] OTHER -> code[r]
        <5>1. Answer(r, c, {})
          BY <3>6, <4>3 DEF AnswerFailure
        <5>2. c # "201"
          BY <3>unanswered, <4>1
        <5> HIDE DEF c
        <5>3. pc'[r] = "done" /\ code'[r] = c /\ given'[r] = {}
          BY <3>answers, <5>1
        <5>4. QED
          BY <4>1, <5>2, <5>3 DEF AnswerStep
      <4>4. QED
        BY <4>2, <4>3
    <3>7. CASE RequestFault(r)
      <4>1. CASE (\E z \in Zone : ReserveFails(r, z)) \/ PgFails(r)
        <5>1. pc[r] = "reserve" /\ \E c \in {"409", "503", "500"} : Compensate(r, c)
          BY <4>1 DEF ReserveFails, PgFails, Reserved
        <5>2. QED
          BY <3>compensates, <5>1 DEF AnswerStep
      <4>2. CASE Crash(r)
        <5>1. /\ pc[r] \in {"new", "reserve", "release"}
              /\ pc' = [pc EXCEPT ![r] = "crashed"]
              /\ code' = [code EXCEPT ![r] = "none"]
              /\ given' = given
          BY <4>2 DEF Crash
        <5>2. pc'[r] = "crashed" /\ code'[r] = "none" /\ given'[r] = given[r]
          BY <1>types, <5>1
        <5>3. QED
          BY <5>1, <5>2 DEF AnswerStep
      <4>3. QED
        BY <3>7, <4>1, <4>2 DEF RequestFault, CommitAckLost
    <3>8. CASE HoldElapses(r)
      BY <1>1, <3>8 DEF HoldElapses
    <3>9. QED
      BY <1>2, <2>2, <3>1, <3>2, <3>3, <3>4, <3>5, <3>6, <3>7, <3>8 DEF RequestStep
  <2>3. QED
    BY <2>1, <2>2
<1>3. ASSUME NEW a \in Agent, NEW s \in {"idle", "done"}, GiveBackStep(a, s) \/ GiveBackFault(a, s) PROVE AnswerStep(r)
  BY <1>1, <1>3 DEF GiveBackStep, GiveBackFault, GiveBack, GiveBackOne, Released, GiveBackFails, ReleaseDies
<1>4. ASSUME NEW p \in Payer, PayerStep(p) \/ PayAborts(p) \/ GiveBackFault(p, "done") PROVE AnswerStep(r)
  BY <1>1, <1>3, <1>4 DEF PayerStep, PayAborts, PayCommit, PayExpire, ExpireHeld, Abort, PayRefused, PayLock, Agent
<1>5. ASSUME NEW s \in Sweeper, SweeperStep(s) \/ SweepAborts(s) \/ GiveBackFault(s, "idle") PROVE AnswerStep(r)
  BY <1>1, <1>3, <1>5 DEF SweeperStep, SweepAborts, SweepCommit, ExpireHeld, SweepClaim, SweepNothing, Abort, vars, Agent
<1>6. CASE UNCHANGED vars
  BY <1>1, <1>6 DEF vars
<1>7. QED
  BY <1>2, <1>4, <1>5, <1>6 DEF Next

\* Orders are written by Commit alone, which finds the key free, and stay.
LEMMA OrderWritten ==
    ASSUME LostAck = FALSE, Inv, [Next]_vars
    PROVE  /\ body' = body
           /\ \A w \in Request : order[w] # "none" => order'[w] # "none"
           /\ \A w \in Request : order[w] = "none" /\ order'[w] # "none" =>
                 /\ Commit(w)
                 /\ \A v \in Request \ {w} : order'[v] = order[v]
<1>1. body' = body
  BY DEF Next, vars, RequestStep, RequestFault, HoldElapses, Replay, Refuse, Accept, Reserve, SoldOut,
     ReleaseReservation, Commit, Conflict, AnswerFailure, ReserveFails, PgFails, CommitAckLost, Crash,
     PayerStep, PayAborts, GiveBackFault, GiveBackStep, GiveBack, GiveBackOne, Released, GiveBackFails, ReleaseDies,
     PayRefused, PayLock, PayCommit, PayExpire, ExpireHeld, Abort, SweeperStep, SweepAborts, SweepClaim,
     SweepNothing, SweepCommit
<1>2. ASSUME NEW w \in Request, order[w] # "none" PROVE order'[w] # "none"
  BY <1>2, TableStep DEF RowStep
<1>3. ASSUME NEW w \in Request, order[w] = "none", order'[w] # "none"
      PROVE  Commit(w) /\ \A v \in Request \ {w} : order'[v] = order[v]
  <2>1. order'[w] = "pending"
    BY <1>3, TableStep DEF RowStep
  <2>2. PICK q \in Request : Commit(q)
    BY <1>3, <2>1, CommitOnly
  <2>3. order' = [order EXCEPT ![q] = "pending"]
    BY <2>2 DEF Commit, WriteOrder
  <2>4. q = w
    BY <1>3, <2>3 DEF Inv, TypeOK
  <2>5. QED
    BY <2>2, <2>3, <2>4 DEF Inv, TypeOK
<1>4. QED
  BY <1>1, <1>2, <1>3

\* The answers given so far stay right, and new ones are.
LEMMA AnswersStep ==
    ASSUME LostAck = FALSE, Inv, [Next]_vars, Answers
    PROVE  Answers'
<1>1. body' = body
  BY OrderWritten
<1>2. KeysUnique'
  <2> SUFFICES ASSUME NEW v \in Request, NEW w \in Request, order'[v] # "none", order'[w] # "none",
                      body[v].key = body[w].key, body[v].key # NullKey, v # w
      PROVE FALSE
    BY <1>1 DEF KeysUnique
  <2>1. CASE order[v] # "none" /\ order[w] # "none"
    BY <2>1 DEF Answers, KeysUnique
  <2>2. ASSUME NEW x \in {v, w}, NEW y \in {v, w}, x # y, order[x] = "none" PROVE FALSE
    <3>1. x \in Request /\ y \in Request \ {x} /\ order'[x] # "none" /\ order'[y] # "none"
      BY <2>2
    <3>2. Commit(x) /\ order'[y] = order[y]
      BY <2>2, <3>1, OrderWritten
    <3>3. y \in Stored(x) /\ body[x].key # NullKey
      BY <2>2, <3>1, <3>2 DEF Stored
    <3>4. QED
      BY <3>2, <3>3 DEF Commit, KeyConflict
  <2>3. QED
    BY <2>1, <2>2
<1>3. GivenAtEnd'
  <2> SUFFICES ASSUME NEW r \in Request, code'[r] = "201" \/ given'[r] # {}
      PROVE pc'[r] = "done" /\ code'[r] = "201"
    BY DEF GivenAtEnd
  <2>1. AnswerStep(r)
    BY AnswerStepHolds DEF Answers
  <2>2. QED
    BY <2>1 DEF AnswerStep, Answers, GivenAtEnd
<1>4. ErrorSavesNothing'
  <2> SUFFICES ASSUME NEW r \in Request, pc'[r] = "done", code'[r] # "201"
      PROVE order'[r] = "none" /\ reserved'[r] = {} /\ given'[r] = {}
    BY DEF ErrorSavesNothing
  <2>1. AnswerStep(r) /\ ~Commit(r)
    <3>1. AnswerStep(r)
      BY AnswerStepHolds DEF Answers
    <3>2. Commit(r) => code'[r] = "201"
      BY DEF Commit, Answer, Inv, TypeOK
    <3>3. QED
      BY <3>1, <3>2
  <2>2. order[r] = "none" => order'[r] = "none"
    BY <2>1, OrderWritten
  <2>3. CASE pc[r] = "done"
    BY <2>1, <2>2, <2>3 DEF AnswerStep, Answers, ErrorSavesNothing
  <2>4. CASE pc[r] \in {"new", "release"}
    BY <2>1, <2>2, <2>4 DEF AnswerStep, Inv, RequestsOpen
  <2>5. QED
    BY <2>1, <2>3, <2>4 DEF AnswerStep
<1>5. GivenIsStored'
  <2> SUFFICES ASSUME NEW r \in Request, code'[r] = "201"
      PROVE \E w \in Request :
              /\ given'[r] = {w}
              /\ order'[w] # "none"
              /\ \/ w = r /\ order'[r] # "none"
                 \/ w # r /\ order'[r] = "none" /\ KeyGiven(r)' /\ Stored(r)' = {w}
    BY DEF GivenIsStored
  <2>1. KeyGiven(r)' = KeyGiven(r)
    BY <1>1 DEF KeyGiven
  <2>2. ASSUME NEW w \in Request, w \in Stored(r), w # r, order[r] = "none", pc[r] # "reserve",
               KeyGiven(r), given'[r] = {w}
        PROVE  order'[w] # "none" /\ order'[r] = "none" /\ Stored(r)' = {w}
    <3>1. order'[w] # "none" /\ body[w].key = body[r].key /\ body[r].key # NullKey
      BY <2>2, OrderWritten DEF Stored, KeyGiven
    <3>2. order'[r] = "none"
      BY <2>2, OrderWritten DEF Commit, Reserved
    <3>3. \A v \in Request : order'[v] # "none" /\ body[v].key = body[r].key => v = w
      BY <1>1, <1>2, <3>1 DEF KeysUnique
    <3>4. QED
      BY <1>1, <3>1, <3>2, <3>3 DEF Stored
  <2>3. CASE Commit(r) /\ given'[r] = {r} /\ order'[r] = "pending"
    BY <2>3
  <2>4. CASE /\ pc[r] \in {"new", "release"} /\ KeyGiven(r)
             /\ \E w \in Stored(r) : given'[r] = {w}
    <3>1. order[r] = "none"
      BY <2>4 DEF Inv, RequestsOpen
    <3>2. PICK w \in Stored(r) : given'[r] = {w}
      BY <2>4
    <3>3. w \in Request /\ w # r
      BY <3>1, <3>2 DEF Stored
    <3>4. QED
      BY <2>1, <2>2, <2>4, <3>1, <3>2, <3>3
  <2>5. CASE code[r] = "201" /\ given'[r] = given[r] /\ pc[r] = "done"
    <3>1. PICK w \in Request :
              /\ given[r] = {w}
              /\ order[w] # "none"
              /\ \/ w = r /\ order[r] # "none"
                 \/ w # r /\ order[r] = "none" /\ KeyGiven(r) /\ Stored(r) = {w}
      BY <2>5 DEF Answers, GivenIsStored
    <3>2. CASE w = r
      BY <2>5, <3>1, <3>2, OrderWritten
    <3>3. CASE w # r
      <4>1. w \in Stored(r) /\ order[r] = "none" /\ KeyGiven(r) /\ given'[r] = {w}
        BY <2>5, <3>1, <3>3
      <4>2. QED
        BY <2>1, <2>2, <2>5, <3>3, <4>1
    <3>4. QED
      BY <3>2, <3>3
  <2>6. QED
    <3>1. AnswerStep(r)
      BY AnswerStepHolds DEF Answers
    <3>2. code[r] = "201" => pc[r] = "done"
      BY DEF Answers, GivenAtEnd
    <3>3. QED
      BY <2>3, <2>4, <2>5, <3>1, <3>2 DEF AnswerStep
<1>6. QED
  BY <1>2, <1>3, <1>4, <1>5 DEF Answers

\* The answers are right in every reachable state.
LEMMA AnswersHold ==
    ASSUME LostAck = FALSE
    PROVE  Spec => []Answers
<1>1. Init => Answers
  BY DEF Init, Answers, KeysUnique, GivenAtEnd, ErrorSavesNothing, GivenIsStored
<1>2. Inv /\ Answers /\ [Next]_vars => Answers'
  BY AnswersStep
<1>3. QED
  BY <1>1, <1>2, CounterSafe, PTL DEF Spec

\* A request answered 201 has its own order or the only one stored under its
\* key, however many retries of it ran at once.
THEOREM AnswersAreTrue ==
    ASSUME LostAck = FALSE
    PROVE  Spec => []AnswerIsStoredOrder
<1>1. Answers => AnswerIsStoredOrder
  <2> SUFFICES ASSUME Answers, NEW r \in Request, NEW w \in Request, w = r,
                      given[r] = {w}, order[r] # "none", KeyGiven(r)
      PROVE  Stored(r) = {w}
    BY DEF Answers, GivenIsStored, AnswerIsStoredOrder
  <2>1. QED
    BY DEF Answers, KeysUnique, KeyGiven, Stored
<1>2. QED
  BY <1>1, AnswersHold, PTL

\* A request answered with an error saved no order, keeps no reservation and
\* hands out nothing, whichever of its calls failed.
THEOREM ErrorsSaveNothing ==
    ASSUME LostAck = FALSE
    PROVE  Spec => []ErrorSavesNothing
<1>1. Answers => ErrorSavesNothing
  BY DEF Answers
<1>2. QED
  BY <1>1, AnswersHold, PTL


----------------------------------------------------------------------------
(* Payments hold one row.                                                   *)

\* A payment call that is about to charge holds the row of one order.
PaysOne == \A a \in Agent : at[a] = "paying" => \E r \in Request : holds[a] = {r}

\* Only PayLock leads to "paying", and locks are dropped together with that state.
LEMMA PaysOneStep ==
    ASSUME TypeOK, PaysOne, [Next]_vars
    PROVE  PaysOne'
<1>1. CASE UNCHANGED <<at, holds>>
  BY <1>1 DEF PaysOne
<1>2. ASSUME NEW a \in Agent, NEW S, at' = [at EXCEPT ![a] = S], S # "paying",
             \A b \in Agent \ {a} : holds'[b] = holds[b]
      PROVE  PaysOne'
  BY <1>2 DEF PaysOne, TypeOK
<1>3. ASSUME NEW a \in Agent, NEW r \in Request, PayLock(a, r) PROVE PaysOne'
  <2>1. holds'[a] = {r} /\ \A b \in Agent \ {a} : holds'[b] = holds[b] /\ at'[b] = at[b]
    BY <1>3 DEF PayLock, TypeOK
  <2>2. QED
    BY <2>1 DEF PaysOne
<1>4. ASSUME NEW r \in Request, RequestStep(r) \/ RequestFault(r) \/ HoldElapses(r) PROVE PaysOne'
  BY <1>1, <1>4 DEF RequestStep, RequestFault, HoldElapses, Replay, Refuse, Accept, Reserve, SoldOut,
     ReleaseReservation, Commit, Conflict, AnswerFailure, ReserveFails, PgFails, CommitAckLost, Crash, agentVars
<1>5. ASSUME NEW a \in Agent, NEW s \in {"idle", "done"}, GiveBackStep(a, s) \/ GiveBackFault(a, s) PROVE PaysOne'
  <2>1. CASE UNCHANGED <<at, holds>>
    BY <1>1, <2>1
  <2>2. CASE Released(a, s) \/ ReleaseDies(a, s)
    BY <1>2, <2>2 DEF Released, ReleaseDies
  <2>3. QED
    BY <1>5, <2>1, <2>2 DEF GiveBackStep, GiveBackFault, GiveBack, GiveBackOne, GiveBackFails
<1>6. ASSUME NEW a \in Agent, ExpireHeld(a) PROVE PaysOne'
  BY <1>2, <1>6 DEF ExpireHeld, TypeOK
<1>7. ASSUME NEW a \in Agent, NEW s \in {"idle", "done"}, Abort(a, s) PROVE PaysOne'
  BY <1>2, <1>7 DEF Abort, TypeOK
<1>8. ASSUME NEW p \in Payer, PayerStep(p) \/ PayAborts(p) \/ GiveBackFault(p, "done") PROVE PaysOne'
  <2>1. CASE \E r \in Request : PayRefused(p, r)
    BY <1>2, <2>1 DEF PayRefused, Agent
  <2>2. CASE PayCommit(p)
    BY <1>2, <2>2 DEF PayCommit, TypeOK, Agent
  <2>3. QED
    BY <1>3, <1>5, <1>6, <1>7, <1>8, <2>1, <2>2 DEF PayerStep, PayAborts, PayExpire, Agent
<1>9. ASSUME NEW s \in Sweeper, SweeperStep(s) \/ SweepAborts(s) \/ GiveBackFault(s, "idle") PROVE PaysOne'
  <2>1. CASE SweepClaim(s)
    BY <1>2, <2>1 DEF SweepClaim, TypeOK, Agent
  <2>2. CASE SweepNothing(s)
    BY <1>1, <2>2 DEF SweepNothing, vars, agentVars
  <2>3. QED
    BY <1>5, <1>6, <1>7, <1>9, <2>1, <2>2 DEF SweeperStep, SweepAborts, SweepCommit, Agent
<1>10. CASE UNCHANGED vars
  BY <1>1, <1>10 DEF vars, agentVars
<1>11. QED
  BY <1>4, <1>8, <1>9, <1>10 DEF Next

----------------------------------------------------------------------------
(* The refinement.                                                          *)

\* Sold, seen through the mapping, is Active.
LEMMA SoldIsActive == ASSUME NEW z PROVE Sale!Sold(z) = Active(z)
BY DEF Sale!Sold, SeatsHeld, Active, Tix

\* SeatSale counts with its own instance of FiniteSets: the same Cardinality.
LEMMA SameCardinality == ASSUME NEW S PROVE Sale!Cardinality(S) = Cardinality(S)
BY DEF Sale!Cardinality, Cardinality

\* A step that leaves the tables alone is invisible.
LEMMA TablesQuiet ==
    ASSUME UNCHANGED <<order, tickets, payments>>
    PROVE  UNCHANGED Sale!saleVars
BY DEF Sale!saleVars, SeatsHeld

\* The transaction of a request takes seats that are all available: the zone
\* counters cover what it reserved, and the unique index passed every seat.
LEMMA CommitIsHold ==
    ASSUME LostAck = FALSE, Inv, LedgerAgrees, NEW r \in Request, Commit(r)
    PROVE  Sale!Hold(r)
<1> DEFINE L == body[r].lines
<1>1. order[r] = "none" /\ order' = [order EXCEPT ![r] = "pending"] /\ payments' = payments
  BY DEF Commit, Reserved, WriteOrder, Inv, RequestsOpen
<1>2. L \in SUBSET Line
  BY PayloadAssumption DEF Inv, TypeOK
<1>3. SeatsHeld' = [SeatsHeld EXCEPT ![r] = L]
  <2>1. \A q \in Request \ {r} : tickets'[q] = tickets[q]
    BY DEF Commit, WriteOrder, Inv, TypeOK
  <2>2. tickets'[r] = [l \in Line |-> IF l \in L THEN "held" ELSE "none"]
    BY DEF Commit, WriteOrder, Inv, TypeOK
  <2>3. {l \in Line : tickets'[r][l] \in {"held", "valid"}} = L
    BY <1>2, <2>2
  <2>4. SeatsHeld' = [q \in Request |-> {l \in Line : tickets'[q][l] \in {"held", "valid"}}]
    BY DEF SeatsHeld
  <2>5. \A q \in Request : SeatsHeld'[q] = [SeatsHeld EXCEPT ![r] = L][q]
    BY <2>1, <2>3, <2>4 DEF SeatsHeld
  <2>6. QED
    BY <2>4, <2>5 DEF SeatsHeld
<1>4. Sale!Available(r, L)
  <2> SUFFICES ASSUME NEW z \in Zone
      PROVE /\ Cardinality(Sale!Sold(z) \cup {t \in {r} \X L : ZoneOf[t[2]] = z}) <= Capacity[z]
            /\ \A l \in L : ZoneOf[l] = z /\ SeatOf[l] # 0 =>
                  /\ \A t \in Sale!Sold(z) : SeatOf[t[2]] # SeatOf[l]
                  /\ \A m \in L \ {l} : ZoneOf[m] = z => SeatOf[m] # SeatOf[l]
    BY SameCardinality DEF Sale!Available
  <2>1. {t \in {r} \X L : ZoneOf[t[2]] = z} = TicketsIn(r, z)
    BY <1>2 DEF TicketsIn, Tix
  <2>2. TicketsIn(r, z) \subseteq InFlight(z)
    BY DEF Commit, Reserved, Wanted, InFlight, TicketsIn
  <2>3. Sale!Sold(z) \cup TicketsIn(r, z) \subseteq Claims(z)
    BY <2>2, SoldIsActive DEF Claims
  <2>4. /\ IsFiniteSet(Sale!Sold(z) \cup TicketsIn(r, z))
        /\ Cardinality(Sale!Sold(z) \cup TicketsIn(r, z)) <= Cardinality(Claims(z))
    BY <2>3, ClaimsFinite, FS_Subset
  <2>5. Cardinality(Sale!Sold(z) \cup TicketsIn(r, z)) \in Nat /\ Cardinality(Claims(z)) \in Nat
    BY <2>4, ClaimsFinite, FS_CardinalityType
  <2>6. Cardinality(Sale!Sold(z) \cup TicketsIn(r, z)) <= Capacity[z]
    BY <2>4, <2>5, CounterBounds DEF Inv, CounterInRange
  <2>7. ASSUME NEW l \in L, ZoneOf[l] = z, SeatOf[l] # 0
        PROVE  /\ \A t \in Sale!Sold(z) : SeatOf[t[2]] # SeatOf[l]
               /\ \A m \in L \ {l} : ZoneOf[m] = z => SeatOf[m] # SeatOf[l]
    <3>1. ~SeatConflict(r) /\ SeatOf[l] # NoSeat
      BY <2>7 DEF Commit, NoSeat
    <3>2. QED
      BY <2>7, <3>1, SoldIsActive DEF SeatConflict
  <2>8. QED
    BY <2>1, <2>6, <2>7
<1>5. QED
  BY <1>1, <1>2, <1>3, <1>4 DEF Sale!Hold

\* The transaction of a payment confirms its one order and charges it once.
LEMMA PayCommitIsConfirm ==
    ASSUME Inv, LedgerAgrees, PaysOne, NEW p \in Agent, PayCommit(p)
    PROVE  \E r \in Request : Sale!Confirm(r)
<1>1. PICK r \in Request : holds[p] = {r}
  BY DEF PayCommit, PaysOne
<1>2. order[r] = "pending" /\ payments[r] = 0
  BY <1>1 DEF PayCommit, ChargeAllowed, Inv, RowsLocked
<1>3. order' = [order EXCEPT ![r] = "confirmed"] /\ payments' = [payments EXCEPT ![r] = 1]
  <2>1. order \in [Request -> OrderStatus] /\ payments \in [Request -> Nat]
    BY DEF Inv, TypeOK
  <2>2. order' = [q \in Request |-> IF q = r THEN "confirmed" ELSE order[q]]
    BY <1>1 DEF PayCommit
  <2>3. payments' = [q \in Request |-> IF q = r THEN 1 ELSE payments[q]]
    BY <1>1, <1>2 DEF PayCommit
  <2>4. QED
    BY <2>1, <2>2, <2>3
<1>4. SeatsHeld' = SeatsHeld
  <2>1. \A q \in Request : \A l \in Line :
           tickets'[q][l] \in {"held", "valid"} <=> tickets[q][l] \in {"held", "valid"}
    BY DEF PayCommit, MoveHeld, Inv, TypeOK
  <2>2. QED
    BY <2>1 DEF SeatsHeld
<1>5. QED
  BY <1>2, <1>3, <1>4 DEF Sale!Confirm

\* The transaction of an expiry ends all the holds it locked.
LEMMA ExpireIsExpire ==
    ASSUME Inv, LedgerAgrees, NEW a \in Agent, at[a] = "expiring", ExpireHeld(a)
    PROVE  \E O \in SUBSET Request : Sale!Expire(O)
<1>1. holds[a] \in SUBSET Request
  BY DEF Inv, TypeOK
<1>2. \A r \in holds[a] : order[r] = "pending"
  BY DEF Inv, RowsLocked
<1>3. \A r \in holds[a] : Lines(r, "held")
  BY <1>1, <1>2 DEF LedgerAgrees
<1>4. SeatsHeld' = [r \in Request |-> IF r \in holds[a] THEN {} ELSE SeatsHeld[r]]
  <2>1. \A r \in holds[a] : \A l \in Line : tickets'[r][l] \notin {"held", "valid"}
    BY <1>1, <1>3 DEF ExpireHeld, MoveHeld, Lines
  <2>2. \A r \in Request \ holds[a] : \A l \in Line : tickets'[r][l] = tickets[r][l]
    BY DEF ExpireHeld, MoveHeld
  <2>3. QED
    BY <2>1, <2>2 DEF SeatsHeld
<1>5. Sale!Expire(holds[a])
  BY <1>2, <1>4 DEF ExpireHeld, Sale!Expire
<1>6. QED
  BY <1>1, <1>5

\* Every step is a step of the sale or invisible.
LEMMA StepIsSale ==
    ASSUME LostAck = FALSE, Inv, LedgerAgrees, PaysOne, [Next]_vars
    PROVE  [Sale!SaleNext]_Sale!saleVars
<1>1. CASE UNCHANGED <<order, tickets, payments>>
  BY <1>1, TablesQuiet
<1>2. ASSUME NEW r \in Request, RequestStep(r) \/ RequestFault(r) \/ HoldElapses(r)
      PROVE  [Sale!SaleNext]_Sale!saleVars
  <2>1. CASE Commit(r)
    BY <2>1, CommitIsHold DEF Sale!SaleNext
  <2>2. CASE ~Commit(r)
    BY <1>1, <1>2, <2>2 DEF RequestStep, RequestFault, HoldElapses, Replay, Refuse, Accept, Reserve, SoldOut,
       ReleaseReservation, Conflict, AnswerFailure, ReserveFails, PgFails, CommitAckLost, Crash, pgVars
  <2>3. QED
    BY <2>1, <2>2
<1>3. ASSUME NEW a \in Agent, NEW s \in {"idle", "done"}, GiveBackStep(a, s) \/ GiveBackFault(a, s)
      PROVE  [Sale!SaleNext]_Sale!saleVars
  BY <1>1, <1>3 DEF GiveBackStep, GiveBackFault, GiveBack, GiveBackOne, Released, GiveBackFails, ReleaseDies, pgVars
<1>4. ASSUME NEW p \in Payer, PayerStep(p) \/ PayAborts(p) \/ GiveBackFault(p, "done")
      PROVE  [Sale!SaleNext]_Sale!saleVars
  <2>1. CASE PayCommit(p)
    BY <2>1, PayCommitIsConfirm DEF Sale!SaleNext, Agent
  <2>2. CASE PayExpire(p)
    BY <2>2, ExpireIsExpire DEF PayExpire, Sale!SaleNext, Agent
  <2>3. CASE PayAborts(p) \/ \E r \in Request : PayRefused(p, r) \/ PayLock(p, r)
    BY <1>1, <2>3 DEF PayAborts, Abort, PayRefused, PayLock, pgVars
  <2>4. QED
    BY <1>3, <1>4, <2>1, <2>2, <2>3 DEF PayerStep, Agent
<1>5. ASSUME NEW s \in Sweeper, SweeperStep(s) \/ SweepAborts(s) \/ GiveBackFault(s, "idle")
      PROVE  [Sale!SaleNext]_Sale!saleVars
  <2>1. CASE SweepCommit(s)
    BY <2>1, ExpireIsExpire DEF SweepCommit, Sale!SaleNext, Agent
  <2>2. CASE SweepAborts(s) \/ SweepClaim(s) \/ SweepNothing(s)
    BY <1>1, <2>2 DEF SweepAborts, Abort, SweepClaim, SweepNothing, pgVars, vars
  <2>3. QED
    BY <1>3, <1>5, <2>1, <2>2 DEF SweeperStep, Agent
<1>6. CASE UNCHANGED vars
  BY <1>1, <1>6 DEF vars, pgVars
<1>7. QED
  BY <1>2, <1>4, <1>5, <1>6 DEF Next

\* When no COMMIT is misread, the platform implements the sale of one database:
\* every order takes all its seats at once from what is left, is charged at most
\* once, and ends for good, through all races, crashes and failed calls.
THEOREM BookingImplementsSale ==
    ASSUME LostAck = FALSE
    PROVE  Spec => ImplementsSale
<1>1. Init => PaysOne
  BY DEF Init, PaysOne
<1>2. Inv /\ PaysOne /\ [Next]_vars => PaysOne'
  BY PaysOneStep DEF Inv
<1>3. Init => Sale!SaleInit
  BY DEF Init, Sale!SaleInit, SeatsHeld
<1>4. Inv /\ LedgerAgrees /\ PaysOne /\ [Next]_vars => [Sale!SaleNext]_Sale!saleVars
  BY StepIsSale
<1>5. QED
  BY <1>1, <1>2, <1>3, <1>4, CounterSafe, LedgerSafe, PTL DEF Spec, ImplementsSale, Sale!SaleSpec

----------------------------------------------------------------------------
(* Numbered seats.                                                          *)

\* Two held or valid tickets of a zone never are for the same numbered seat.
LEMMA SeatStep ==
    ASSUME LostAck = FALSE, Inv, LedgerAgrees, [Next]_vars, SeatSoldOnce
    PROVE  SeatSoldOnce'
<1>1. ASSUME \A z \in Zone : Active(z)' \subseteq Active(z) PROVE SeatSoldOnce'
  BY <1>1 DEF SeatSoldOnce
<1>2. ASSUME NEW r \in Request, Commit(r) PROVE SeatSoldOnce'
  <2> SUFFICES ASSUME NEW z \in Zone, NEW t \in Active(z)', NEW u \in Active(z)',
                      SeatOf[t[2]] = SeatOf[u[2]], SeatOf[t[2]] # NoSeat
      PROVE t = u
    BY DEF SeatSoldOnce
  <2>1. ASSUME NEW v \in Active(z)'
        PROVE  v \in Active(z) \/ (v \in Tix /\ v[1] = r /\ v[2] \in body[r].lines /\ ZoneOf[v[2]] = z)
    BY <1>2, <2>1 DEF Commit, WriteOrder, Active, Tix, Inv, TypeOK
  <2>2. ~SeatConflict(r)
    BY <1>2 DEF Commit
  <2>3. t \in Tix /\ u \in Tix
    BY DEF Active
  <2>4. CASE t \in Active(z) /\ u \in Active(z)
    BY <2>4 DEF SeatSoldOnce
  <2>5. CASE t \notin Active(z) /\ u \in Active(z)
    <3>1. t[2] \in body[r].lines /\ ZoneOf[t[2]] = z
      BY <2>1, <2>5
    <3>2. QED
      BY <2>2, <2>5, <3>1 DEF SeatConflict
  <2>6. CASE t \in Active(z) /\ u \notin Active(z)
    <3>1. u[2] \in body[r].lines /\ ZoneOf[u[2]] = z
      BY <2>1, <2>6
    <3>2. QED
      BY <2>2, <2>6, <3>1 DEF SeatConflict
  <2>7. CASE t \notin Active(z) /\ u \notin Active(z)
    <3>1. /\ t[1] = r /\ t[2] \in body[r].lines /\ ZoneOf[t[2]] = z
          /\ u[1] = r /\ u[2] \in body[r].lines /\ ZoneOf[u[2]] = z
      BY <2>1, <2>7
    <3>2. t[2] = u[2]
      BY <2>2, <3>1 DEF SeatConflict
    <3>3. QED
      BY <2>3, <3>1, <3>2 DEF Tix
  <2>8. QED
    BY <2>4, <2>5, <2>6, <2>7
<1>3. CASE \A r \in Request : ~Commit(r)
  <2> SUFFICES ASSUME NEW z \in Zone, NEW t \in Active(z)' PROVE t \in Active(z)
    BY <1>1
  <2>1. PICK r \in Request : RowStep(r) /\ t[1] = r /\ t \in Tix /\ t[2] \in Line
    BY TableStep DEF Active, Tix
  <2>2. ~(order[r] = "none" /\ order'[r] = "pending")
    BY <1>3, CommitOnly
  <2>3. QED
    BY <2>1, <2>2 DEF RowStep, Active
<1>4. QED
  BY <1>2, <1>3

\* No numbered seat is ever held or owned twice, however it was spelled.
THEOREM SeatsSoldOnce ==
    ASSUME LostAck = FALSE
    PROVE  Spec => []SeatSoldOnce
<1>1. Init => SeatSoldOnce
  BY DEF Init, SeatSoldOnce, Active, Tix
<1>2. Inv /\ LedgerAgrees /\ [Next]_vars /\ SeatSoldOnce => SeatSoldOnce'
  BY SeatStep
<1>3. QED
  BY <1>1, <1>2, CounterSafe, LedgerSafe, PTL DEF Spec
=============================================================================
