------------------------------ MODULE SeedProofs ------------------------------
(* The seeder is all or nothing, never trips over its own labels, and leaves *)
(* counters that match the tickets, for any number of shows, zones, orders   *)
(* and runs.                                                                 *)
EXTENDS Seed, FiniteSetTheorems, TLAPS

\* The held or valid tickets of a zone among some orders.
Held(orders, k) == {t \in ActiveTickets(orders) : t.key = k}

Seeded == {o \in saved : o.no > 0}

SeedTyped ==
    /\ step \in {"off", "delete", "insert", "truncate", "users", "orders", "failed",
                 "sync", "logs", "done"}
    /\ next \in [Key -> Nat \ {0}] /\ active \in [Key -> Nat] /\ booked \in [Key -> Int]

\* Orders of the open transaction are numbered, and only the loop has some.
SessionKnown ==
    /\ IsFiniteSet(session)
    /\ \A o \in session : o.no \in 1..Cardinality(session)
    /\ session # {} => step = "orders"

\* The transaction starts on empty tables.
SavesAtOnce == AllOrNothing /\ (step \in {"users", "orders"} => Seeded = {})

SeedInv == SeedTyped /\ SessionKnown /\ SavesAtOnce

----------------------------------------------------------------------------
(* What a run keeps to that has the databases for itself.                    *)

Undisturbed == buyer.at = "idle" /\ step # "failed" /\ (step \in {"users", "orders"} => saved = {})

\* The labels given out so far are those below the counters.
LabelsBelow ==
    \A o \in session : \A t \in o.tickets :
        \E k \in Key : \E i \in 1..(next[k] - 1) : t = Ticket(k, SeatLabel(i))

Filling == {"delete", "insert", "truncate", "users", "orders"}
Filled == {"sync", "logs", "done"}

\* active_seat_counts is the number of held and valid tickets, first of the open
\* transaction, then of the tables.
ActiveCounted ==
    \A k \in Key :
        /\ step \in Filling => IsFiniteSet(Held(session, k)) /\ active[k] = Cardinality(Held(session, k))
        /\ step \in Filled => active[k] = Cardinality(Held(saved, k))

\* Counters are zero until they are set.
CountersSet ==
    /\ synced \subseteq Key
    /\ step \in Filling => synced = {}
    /\ step \in {"truncate", "users", "orders"} \cup Filled =>
           \A k \in Key : booked[k] = IF k \in synced THEN active[k] ELSE 0
    /\ step \in {"logs", "done"} => \A k \in Key : active[k] > 0 => k \in synced

OrdersNew ==
    step \in Filled =>
        /\ Cardinality(saved) = Orders
        /\ \A o \in saved : o.no > 0 /\ \A t \in o.tickets : t.catalog = catalog

LogsNew == step = "done" => logs \subseteq 1..users

Alone ==
    Undisturbed /\ LabelsBelow /\ ActiveCounted /\ CountersSet /\ OrdersNew /\ LogsNew

AloneInv == ~live => Alone

----------------------------------------------------------------------------
(* Labels.                                                                   *)

\* No two seats of a zone have the same label.
LEMMA LabelsDiffer ==
    ASSUME NEW i \in Nat \ {0}, NEW j \in Nat \ {0}, SeatLabel(i) = SeatLabel(j)
    PROVE  i = j
<1>1. RowLength \in Nat \ {0}
  BY SeedAssumption
<1>2. (i - 1) \div RowLength = (j - 1) \div RowLength /\ (i - 1) % RowLength = (j - 1) % RowLength
  BY DEF SeatLabel
<1>3. \A a \in Nat : a = RowLength * (a \div RowLength) + (a % RowLength)
  BY <1>1
<1>4. i - 1 \in Nat /\ j - 1 \in Nat
  OBVIOUS
<1>5. i - 1 = j - 1
  BY <1>2, <1>3, <1>4
<1>6. QED
  BY <1>4, <1>5

\* The places of an order's lines among those of their zone are different, and as
\* many as the order has seats there.
LEMMA PlacesDiffer ==
    ASSUME NEW n \in Nat, NEW zones \in [1..n -> ZoneName], NEW z, NEW i \in 1..n, zones[i] = z
    PROVE  /\ Before(zones, i, z) \in Nat
           /\ IsFiniteSet({j \in DOMAIN zones : zones[j] = z})
           /\ Before(zones, i, z) < Cardinality({j \in DOMAIN zones : zones[j] = z})
           /\ \A m \in 1..n : zones[m] = z /\ i < m => Before(zones, i, z) < Before(zones, m, z)
<1> DEFINE P(m) == {j \in DOMAIN zones : j < m /\ zones[j] = z}
           A == {j \in DOMAIN zones : zones[j] = z}
<1>1. IsFiniteSet(1..n) /\ DOMAIN zones = 1..n
  BY FS_Interval
<1>2. ASSUME NEW S \in SUBSET (1..n) PROVE IsFiniteSet(S) /\ Cardinality(S) \in Nat
  BY <1>1, FS_Subset, FS_CardinalityType
<1>3. ASSUME NEW S \in SUBSET (1..n), P(i) \subseteq S, i \in S PROVE Cardinality(P(i)) < Cardinality(S)
  <2>1. i \notin P(i) /\ P(i) \in SUBSET S /\ P(i) \in SUBSET (1..n)
    BY <1>1, <1>3
  <2>2. IsFiniteSet(S) /\ Cardinality(P(i)) <= Cardinality(S) /\ (Cardinality(S) = Cardinality(P(i)) => S = P(i))
    BY <1>2, <2>1, FS_Subset
  <2>3. Cardinality(S) \in Nat /\ Cardinality(P(i)) \in Nat
    BY <1>2, <2>1
  <2>4. S # P(i)
    BY <1>3, <2>1
  <2>5. QED
    BY <2>2, <2>3, <2>4
<1>4. \A m \in 1..n : P(m) \in SUBSET (1..n) /\ Before(zones, m, z) = Cardinality(P(m))
  BY <1>1 DEF Before
<1>5. A \in SUBSET (1..n) /\ P(i) \subseteq A /\ i \in A
  BY <1>1
<1>6. \A m \in 1..n : zones[m] = z /\ i < m => P(i) \subseteq P(m) /\ i \in P(m)
  BY <1>1
<1>7. \A m \in 1..n : zones[m] = z /\ i < m => Cardinality(P(i)) < Cardinality(P(m))
  BY <1>3, <1>4, <1>6
<1>8. Cardinality(P(i)) < Cardinality(A) /\ IsFiniteSet(A) /\ Cardinality(P(i)) \in Nat
  BY <1>2, <1>3, <1>4, <1>5
<1>9. QED
  BY <1>4, <1>7, <1>8

\* The tickets of an order of the seeder.
NewTickets(e, zones, n) == {Ticket(<<e, zones[i]>>, NextSeat(e, zones, i)) : i \in 1..n}

\* They have the next labels of their zones, no two the same, and are as many as
\* the order has lines, in every zone as many as it has seats there.
LEMMA NewLabels ==
    ASSUME SeedTyped, NEW e \in Event, NEW n \in Nat, NEW zones \in [1..n -> ZoneName]
    PROVE  /\ \A k \in Key : Seats(e, zones)[k] \in Nat
           /\ \A t \in NewTickets(e, zones, n) : \E k \in Key, i \in Nat \ {0} :
                 /\ next[k] <= i /\ i < next[k] + Seats(e, zones)[k]
                 /\ t = Ticket(k, SeatLabel(i))
           /\ IsFiniteSet(NewTickets(e, zones, n)) /\ Cardinality(NewTickets(e, zones, n)) = n
           /\ \A k \in Key :
                 /\ IsFiniteSet({t \in NewTickets(e, zones, n) : t.key = k})
                 /\ Cardinality({t \in NewTickets(e, zones, n) : t.key = k}) = Seats(e, zones)[k]
<1> DEFINE K(i) == <<e, zones[i]>>
           b(i) == Before(zones, i, zones[i])
           w == [i \in 1..n |-> Ticket(K(i), SeatLabel(next[K(i)] + b(i)))]
           T == NewTickets(e, zones, n)
<1>1. \A i \in 1..n : K(i) \in Key /\ next[K(i)] \in Nat \ {0} /\ b(i) \in Nat
  BY PlacesDiffer DEF SeedTyped, Key
<1>2. \A k \in Key : Seats(e, zones)[k] =
        IF k[1] = e THEN Cardinality({i \in DOMAIN zones : zones[i] = k[2]}) ELSE 0
  BY DEF Seats
<1>3. \A k \in Key : IsFiniteSet({i \in DOMAIN zones : zones[i] = k[2]}) /\ Seats(e, zones)[k] \in Nat
  <2> SUFFICES ASSUME NEW k \in Key
      PROVE IsFiniteSet({i \in DOMAIN zones : zones[i] = k[2]}) /\ Seats(e, zones)[k] \in Nat
    OBVIOUS
  <2>1. IsFiniteSet(1..n) /\ {i \in DOMAIN zones : zones[i] = k[2]} \in SUBSET (1..n)
    BY FS_Interval
  <2>2. QED
    BY <1>2, <2>1, FS_Subset, FS_CardinalityType
<1>4. \A i \in 1..n : b(i) < Seats(e, zones)[K(i)]
  <2> SUFFICES ASSUME NEW i \in 1..n PROVE b(i) < Seats(e, zones)[K(i)]
    OBVIOUS
  <2>1. b(i) < Cardinality({j \in DOMAIN zones : zones[j] = zones[i]})
    BY PlacesDiffer
  <2>2. Seats(e, zones)[K(i)] = Cardinality({j \in DOMAIN zones : zones[j] = zones[i]})
    BY <1>1, <1>2
  <2>3. QED
    BY <2>1, <2>2
<1>5. ASSUME NEW i \in 1..n, NEW j \in 1..n, w[i] = w[j] PROVE i = j
  <2>1. K(i) = K(j) /\ SeatLabel(next[K(i)] + b(i)) = SeatLabel(next[K(j)] + b(j))
    BY <1>5 DEF Ticket
  <2>2. b(i) = b(j) /\ zones[i] = zones[j]
    <3>1. next[K(i)] + b(i) \in Nat \ {0} /\ next[K(j)] + b(j) \in Nat \ {0}
      BY <1>1
    <3>2. next[K(i)] + b(i) = next[K(j)] + b(j)
      BY <2>1, <3>1, LabelsDiffer
    <3>3. QED
      BY <1>1, <2>1, <3>2
  <2>3. ASSUME NEW l \in 1..n, NEW m \in 1..n, zones[l] = zones[m], l < m PROVE b(l) < b(m)
    BY <2>3, PlacesDiffer
  <2>4. b(i) \in Nat /\ b(j) \in Nat
    BY <1>1
  <2>5. ~ (i < j) /\ ~ (j < i)
    BY <2>2, <2>3, <2>4
  <2>6. QED
    BY <2>5
<1>6. T = {w[i] : i \in 1..n}
  BY DEF NewTickets, NextSeat
<1>7. ASSUME NEW I \in SUBSET (1..n), NEW S, S = {w[i] : i \in I}
      PROVE  IsFiniteSet(S) /\ Cardinality(S) = Cardinality(I)
  <2> DEFINE f == [i \in I |-> w[i]]
  <2>1. f \in Bijection(I, S)
    BY <1>5, <1>7 DEF Bijection, Injection, Surjection, IsInjective
  <2>2. IsFiniteSet(I)
    <3>1. IsFiniteSet(1..n)
      BY FS_Interval
    <3>2. QED
      BY <3>1, FS_Subset
  <2>3. QED
    BY <2>1, <2>2, FS_Bijection DEF ExistsBijection
<1>8. IsFiniteSet(T) /\ Cardinality(T) = n
  <2>1. IsFiniteSet(T) /\ Cardinality(T) = Cardinality(1..n)
    BY <1>6, <1>7
  <2>2. QED
    BY <2>1, FS_Interval
<1>9. ASSUME NEW k \in Key
      PROVE  /\ IsFiniteSet({t \in T : t.key = k})
             /\ Cardinality({t \in T : t.key = k}) = Seats(e, zones)[k]
  <2> DEFINE I == {i \in 1..n : K(i) = k}
  <2>1. {t \in T : t.key = k} = {w[i] : i \in I}
    <3>1. \A i \in 1..n : w[i].key = K(i)
      BY DEF Ticket
    <3> HIDE DEF w, K, T
    <3>2. ASSUME NEW t \in T, t.key = k PROVE t \in {w[i] : i \in I}
      BY <1>6, <3>1, <3>2
    <3>3. ASSUME NEW i \in I PROVE w[i] \in {t \in T : t.key = k}
      BY <1>6, <3>1
    <3>4. QED
      BY <3>2, <3>3
  <2>2. IsFiniteSet({t \in T : t.key = k}) /\ Cardinality({t \in T : t.key = k}) = Cardinality(I)
    BY <1>7, <2>1
  <2>3. CASE k[1] = e
    <3>1. I = {i \in DOMAIN zones : zones[i] = k[2]}
      BY <2>3 DEF Key
    <3>2. QED
      BY <1>2, <2>2, <2>3, <3>1
  <2>4. CASE k[1] # e
    <3>1. I = {}
      BY <2>4
    <3>2. QED
      BY <1>2, <2>2, <2>4, <3>1, FS_EmptySet
  <2>5. QED
    BY <2>3, <2>4
<1>10. \A t \in T : \E k \in Key, i \in Nat \ {0} :
          /\ next[k] <= i /\ i < next[k] + Seats(e, zones)[k]
          /\ t = Ticket(k, SeatLabel(i))
  <2> SUFFICES ASSUME NEW j \in 1..n
      PROVE \E k \in Key, i \in Nat \ {0} :
              /\ next[k] <= i /\ i < next[k] + Seats(e, zones)[k]
              /\ w[j] = Ticket(k, SeatLabel(i))
    BY <1>6
  <2>1. K(j) \in Key /\ next[K(j)] + b(j) \in Nat \ {0}
    BY <1>1
  <2>2. next[K(j)] <= next[K(j)] + b(j) /\ next[K(j)] + b(j) < next[K(j)] + Seats(e, zones)[K(j)]
    <3>1. /\ next[K(j)] \in Nat /\ b(j) \in Nat /\ Seats(e, zones)[K(j)] \in Nat
          /\ b(j) < Seats(e, zones)[K(j)]
      BY <1>1, <1>3, <1>4
    <3>2. QED
      BY <3>1
  <2>3. QED
    BY <2>1, <2>2
<1>11. QED
  BY <1>3, <1>8, <1>9, <1>10

----------------------------------------------------------------------------
(* One order of the seeder.                                                  *)

\* What a round of the loop does.
RoundOf(e, status, n, zones) ==
    /\ session' = session \cup
         {[no |-> Cardinality(session) + 1, status |-> status, tickets |-> NewTickets(e, zones, n)]}
    /\ next' = [k \in Key |-> next[k] + Seats(e, zones)[k]]
    /\ active' = [k \in Key |-> active[k] + ActiveSeats(e, zones, status)[k]]
    /\ step' = step

Clash(status, n, T) == status # "expired" /\ (Taken(T) \/ Cardinality(T) < n)

\* A round adds an order or meets a seat that is taken.
LEMMA Rounds ==
    ASSUME SeedOrder
    PROVE  \E e \in Event, status \in {"confirmed", "pending", "expired"}, n \in 1..MaxTickets :
           \E zones \in [1..n -> ZoneName] :
              \/ /\ Clash(status, n, NewTickets(e, zones, n))
                 /\ step' = "failed" /\ session' = {} /\ UNCHANGED <<next, active>>
              \/ ~ Clash(status, n, NewTickets(e, zones, n)) /\ RoundOf(e, status, n, zones)
<1>1. PICK e \in OnSale, status \in {"confirmed", "pending", "expired"}, n \in 1..MaxTickets :
       \E zones \in [1..n -> ZoneName] :
          IF Clash(status, n, NewTickets(e, zones, n))
          THEN step' = "failed" /\ session' = {} /\ UNCHANGED <<next, active>>
          ELSE RoundOf(e, status, n, zones)
  BY DEF SeedOrder, RoundOf, Clash, NewTickets
<1>2. e \in Event
  BY SeedAssumption
<1>3. QED
  BY <1>1, <1>2

\* A round keeps the types and numbers its order.
LEMMA RoundKnown ==
    ASSUME SeedTyped, SessionKnown, NEW e \in Event, NEW status \in {"confirmed", "pending", "expired"},
           NEW n \in 1..MaxTickets, NEW zones \in [1..n -> ZoneName], RoundOf(e, status, n, zones)
    PROVE  /\ n \in Nat
           /\ next' \in [Key -> Nat \ {0}] /\ active' \in [Key -> Nat]
           /\ IsFiniteSet(session') /\ \A o \in session' : o.no \in 1..Cardinality(session')
<1>1. n \in Nat
  OBVIOUS
<1>2. \A k \in Key : Seats(e, zones)[k] \in Nat /\ ActiveSeats(e, zones, status)[k] \in Nat
  BY <1>1, NewLabels DEF ActiveSeats
<1>3. next' \in [Key -> Nat \ {0}] /\ active' \in [Key -> Nat]
  <2>1. \A k \in Key : /\ next[k] + Seats(e, zones)[k] \in Nat \ {0}
                        /\ active[k] + ActiveSeats(e, zones, status)[k] \in Nat
    BY <1>2 DEF SeedTyped
  <2>2. QED
    BY <2>1 DEF RoundOf
<1>4. PICK new : /\ new.no = Cardinality(session) + 1
                 /\ session' = session \cup {new}
  BY DEF RoundOf
<1>5. Cardinality(session) \in Nat /\ new \notin session
  BY <1>4, FS_CardinalityType DEF SessionKnown
<1>6. IsFiniteSet(session') /\ Cardinality(session') = Cardinality(session) + 1
  BY <1>4, <1>5, FS_AddElement DEF SessionKnown
<1>7. \A o \in session : o.no \in 1..(Cardinality(session) + 1)
  BY <1>5 DEF SessionKnown
<1>8. \A o \in session' : o.no \in 1..Cardinality(session')
  BY <1>4, <1>5, <1>6, <1>7
<1>9. QED
  BY <1>1, <1>3, <1>6, <1>8

----------------------------------------------------------------------------
(* All or nothing.                                                           *)

\* Every step keeps the transaction whole.
LEMMA SeedStepInv ==
    ASSUME SeedInv, [SeedNext]_vars
    PROVE  SeedInv'
<1> USE DEF SeedInv, SeedTyped, SessionKnown, SavesAtOnce
<1>1. CASE Start \/ DeleteEvents \/ InsertEvents
  <2>1. /\ session' = session \/ session' = {}
        /\ step' \in {"delete", "insert", "truncate"} /\ saved' = saved
        /\ next' \in [Key -> Nat \ {0}] /\ active' \in [Key -> Nat] /\ booked' \in [Key -> Int]
        /\ session = {}
    <3>1. [k \in Key |-> 1] \in [Key -> Nat \ {0}] /\ Zero \in [Key -> Nat] /\ Zero \in [Key -> Int]
      BY DEF Zero
    <3>2. CASE Start
      BY <3>1, <3>2 DEF Start, dataVars
    <3>3. CASE DeleteEvents \/ InsertEvents
      BY <3>1, <3>3 DEF DeleteEvents, InsertEvents
    <3>4. QED
      BY <1>1, <3>2, <3>3
  <2>2. live' = live
    BY <1>1 DEF SeedNext, vars
  <2>3. AllOrNothing'
    BY <2>1 DEF AllOrNothing
  <2>4. QED
    BY <2>1, <2>2, <2>3, FS_EmptySet
<1>2. CASE Truncate
  <2>1. session = {} /\ session' = {} /\ step' = "users" /\ saved' = {} /\ UNCHANGED <<next, active, booked>>
    BY <1>2 DEF Truncate
  <2>2. live' = live
    BY <1>2 DEF SeedNext, vars
  <2>3. QED
    BY <2>1, <2>2, FS_EmptySet DEF AllOrNothing, Seeded
<1>3. CASE SeedUsers \/ Sync \/ DeleteLogs \/ InsertLogs \/ Crash \/ UNCHANGED vars \/ Reserve \/ GiveBack
  <2>1. /\ session' = session \/ session' = {}
        /\ step' \in {"off", "sync", "logs", "done"} \/ (step' = "orders" /\ step = "users") \/ step' = step
        /\ session' # {} => step' = step
        /\ UNCHANGED <<next, active, saved>>
    BY <1>3 DEF SeedUsers, Sync, DeleteLogs, InsertLogs, Crash, Reserve, GiveBack, vars, dataVars, seedVars
  <2>2. booked' \in [Key -> Int]
    <3>1. CASE Sync
      BY <3>1 DEF Sync
    <3>2. CASE Reserve
      <4>1. PICK k \in Key : booked' = [booked EXCEPT ![k] = @ + 1]
        BY <3>2, SeedAssumption DEF Reserve, Key
      <4>2. QED
        BY <4>1
    <3>3. CASE GiveBack
      <4>1. PICK k : booked' = booked \/ booked' = [booked EXCEPT ![k] = @ - 1]
        BY <3>3 DEF GiveBack
      <4>2. QED
        BY <4>1
    <3>4. CASE booked' = booked
      BY <3>4
    <3>5. QED
      BY <1>3, <3>1, <3>2, <3>3, <3>4 DEF SeedUsers, DeleteLogs, InsertLogs, Crash, vars, dataVars
  <2>3. live' = live
    BY <1>3 DEF SeedNext, vars
  <2>4. AllOrNothing' /\ Seeded' = Seeded
    BY <2>1 DEF AllOrNothing, Seeded
  <2>5. QED
    BY <2>1, <2>2, <2>3, <2>4, FS_EmptySet
<1>4. CASE SeedOrder
  <2>1. UNCHANGED <<live, saved, booked>> /\ step = "orders"
    BY <1>4 DEF SeedOrder, dataVars, SeedNext, vars
  <2>2. AllOrNothing' /\ Seeded' = Seeded
    BY <2>1 DEF AllOrNothing, Seeded
  <2>3. CASE step' = "failed" /\ session' = {} /\ UNCHANGED <<next, active>>
    BY <2>1, <2>2, <2>3, FS_EmptySet
  <2>4. CASE \E e \in Event, status \in {"confirmed", "pending", "expired"}, n \in 1..MaxTickets :
             \E zones \in [1..n -> ZoneName] : RoundOf(e, status, n, zones)
    <3>1. PICK e \in Event, status \in {"confirmed", "pending", "expired"}, n \in 1..MaxTickets :
             \E zones \in [1..n -> ZoneName] : RoundOf(e, status, n, zones)
      BY <2>4
    <3>2. PICK zones \in [1..n -> ZoneName] : RoundOf(e, status, n, zones)
      BY <3>1
    <3>3. /\ next' \in [Key -> Nat \ {0}] /\ active' \in [Key -> Nat]
          /\ IsFiniteSet(session') /\ \A o \in session' : o.no \in 1..Cardinality(session')
      BY <3>2, RoundKnown
    <3>4. step' = step
      BY <3>2 DEF RoundOf
    <3>5. QED
      BY <2>1, <2>2, <3>3, <3>4
  <2>5. QED
    BY <1>4, <2>3, <2>4, Rounds
<1>5. CASE CommitOrders
  <2>1. /\ step = "orders" /\ step' = "sync" /\ saved' = saved \cup session /\ session' = {}
        /\ Cardinality(session) = Orders /\ UNCHANGED <<next, active, booked>>
    BY <1>5 DEF CommitOrders
  <2>2. live' = live
    BY <1>5 DEF SeedNext, vars
  <2>3. Seeded' = session
    <3>1. \A o \in session : o.no > 0
      BY FS_CardinalityType
    <3>2. QED
      BY <2>1, <3>1 DEF Seeded
  <2>4. AllOrNothing'
    BY <2>1, <2>3 DEF AllOrNothing, Seeded
  <2>5. QED
    BY <2>1, <2>2, <2>4, FS_EmptySet
<1>6. CASE Insert
  <2>1. UNCHANGED <<session, step, next, active, booked, live>>
    BY <1>6 DEF Insert, seedVars, SeedNext, vars
  <2>2. PICK o : o.no = 0 /\ saved' \in {saved, saved \cup {o}}
    <3>1. PICK o : o = [no |-> 0, status |-> "pending", tickets |-> {buyer.ticket}]
      OBVIOUS
    <3>2. o.no = 0 /\ saved' \in {saved, saved \cup {o}}
      BY <1>6, <3>1 DEF Insert
    <3>3. QED
      BY <3>2
  <2>3. Seeded' = Seeded
    <3>1. ~ (o.no > 0)
      BY <2>2
    <3>2. QED
      BY <2>2, <3>1 DEF Seeded
  <2>4. AllOrNothing'
    BY <2>3 DEF AllOrNothing, Seeded
  <2>5. QED
    BY <2>1, <2>3, <2>4
<1>7. QED
  BY <1>1, <1>2, <1>3, <1>4, <1>5, <1>6 DEF SeedNext, SeedStep

\* The first state has a table of at most one order of the API.
LEMMA SeedInvInit == SeedInit => SeedInv
<1> SUFFICES ASSUME SeedInit PROVE SeedInv
  OBVIOUS
<1>1. SeedTyped
  BY DEF SeedInit, SeedTyped, Zero
<1>2. SessionKnown
  BY FS_EmptySet DEF SeedInit, SessionKnown
<1>3. \A o \in saved : o.no = 0
  BY DEF SeedInit
<1>4. Seeded = {}
  BY <1>3 DEF Seeded
<1>5. SavesAtOnce
  BY <1>4 DEF SavesAtOnce, AllOrNothing, Seeded
<1>6. QED
  BY <1>1, <1>2, <1>5 DEF SeedInv

\* A run of the seeder saves all of its orders or none, wherever it dies and whatever
\* the running API does meanwhile.
THEOREM SeedsAllOrNothing == SeedSpec => []AllOrNothing
<1>1. SeedInv => AllOrNothing
  BY DEF SeedInv, SavesAtOnce
<1>2. QED
  BY <1>1, SeedInvInit, SeedStepInv, PTL DEF SeedSpec

----------------------------------------------------------------------------
(* Without orders of the API.                                                *)

\* The next labels are not among those given out.
LEMMA NewUntaken ==
    ASSUME SeedInv, LabelsBelow, NEW e \in Event, NEW n \in Nat, NEW zones \in [1..n -> ZoneName],
           NEW o \in session, NEW t \in o.tickets
    PROVE  t \notin NewTickets(e, zones, n)
<1> SUFFICES ASSUME t \in NewTickets(e, zones, n) PROVE FALSE
  OBVIOUS
<1>1. next \in [Key -> Nat \ {0}] /\ SeedTyped
  BY DEF SeedInv, SeedTyped
<1>2. PICK k \in Key : \E i \in 1..(next[k] - 1) : t = Ticket(k, SeatLabel(i))
  BY DEF LabelsBelow
<1>3. PICK i \in 1..(next[k] - 1) : t = Ticket(k, SeatLabel(i))
  BY <1>2
<1>4. PICK m \in Key, j \in Nat \ {0} :
        next[m] <= j /\ j < next[m] + Seats(e, zones)[m] /\ t = Ticket(m, SeatLabel(j))
  BY <1>1, NewLabels
<1>5. k = m /\ SeatLabel(i) = SeatLabel(j)
  BY <1>3, <1>4 DEF Ticket
<1>6. next[k] \in Nat \ {0}
  BY <1>1
<1>7. i \in Nat \ {0} /\ i < next[k]
  BY <1>6
<1>8. i = j
  BY <1>5, <1>7, LabelsDiffer
<1>9. QED
  BY <1>4, <1>5, <1>6, <1>7, <1>8

\* No round meets a seat that is taken.
LEMMA NoClash ==
    ASSUME SeedInv, LabelsBelow, saved = {}, NEW e \in Event, NEW n \in Nat, NEW zones \in [1..n -> ZoneName],
           NEW status
    PROVE  ~ Clash(status, n, NewTickets(e, zones, n))
<1>1. Cardinality(NewTickets(e, zones, n)) = n
  BY NewLabels DEF SeedInv
<1>2. ~ Taken(NewTickets(e, zones, n))
  <2> SUFFICES ASSUME NEW t \in NewTickets(e, zones, n), t \in ActiveTickets(session) PROVE FALSE
    BY DEF Taken
  <2>1. PICK o \in session : t \in o.tickets
    BY DEF ActiveTickets
  <2>2. QED
    BY <2>1, NewUntaken
<1>3. QED
  BY <1>1, <1>2 DEF Clash

\* A round gives out the next labels and counts its seats.
LEMMA RoundCounts ==
    ASSUME SeedInv, LabelsBelow, ActiveCounted, step = "orders", catalog' = catalog,
           NEW e \in Event, NEW status \in {"confirmed", "pending", "expired"}, NEW n \in Nat,
           NEW zones \in [1..n -> ZoneName], RoundOf(e, status, n, zones)
    PROVE  LabelsBelow' /\ ActiveCounted'
<1> DEFINE T == NewTickets(e, zones, n)
           TK(k) == {t \in T : t.key = k}
<1>1. /\ next \in [Key -> Nat \ {0}] /\ active \in [Key -> Nat] /\ SeedTyped
      /\ \A k \in Key : Seats(e, zones)[k] \in Nat
  BY NewLabels DEF SeedInv, SeedTyped
<1>0. \A k \in Key : IsFiniteSet(TK(k)) /\ Cardinality(TK(k)) = Seats(e, zones)[k]
  <2>1. SeedTyped
    BY DEF SeedInv
  <2>2. QED
    BY ONLY <2>1, NewLabels, e \in Event, n \in Nat, zones \in [1..n -> ZoneName]
<1>2. \A k \in Key : next'[k] = next[k] + Seats(e, zones)[k]
  BY DEF RoundOf
<1>3. PICK new : /\ new.status = status /\ new.tickets = T
                 /\ session' = session \cup {new}
  BY DEF RoundOf
<1>4. LabelsBelow'
  <2> SUFFICES ASSUME NEW o \in session', NEW t \in o.tickets
      PROVE \E k \in Key : \E i \in 1..(next'[k] - 1) : t = Ticket(k, SeatLabel(i))
    BY DEF LabelsBelow, Ticket
  <2>1. CASE o \in session
    <3>1. PICK k \in Key : \E i \in 1..(next[k] - 1) : t = Ticket(k, SeatLabel(i))
      BY <2>1 DEF LabelsBelow
    <3>2. PICK i \in 1..(next[k] - 1) : t = Ticket(k, SeatLabel(i))
      BY <3>1
    <3>3. i \in 1..(next'[k] - 1)
      BY <1>1, <1>2
    <3>4. QED
      BY <3>2, <3>3
  <2>2. CASE o = new
    <3>1. PICK k \in Key, i \in Nat \ {0} :
            next[k] <= i /\ i < next[k] + Seats(e, zones)[k] /\ t = Ticket(k, SeatLabel(i))
      BY <1>1, <1>3, <2>2, NewLabels
    <3>2. i \in 1..(next'[k] - 1)
      BY <1>1, <1>2, <3>1
    <3>3. QED
      BY <3>1, <3>2
  <2>3. QED
    BY <1>3, <2>1, <2>2
<1>5. step' = "orders"
  BY DEF RoundOf
<1>6. ASSUME NEW k \in Key
      PROVE  IsFiniteSet(Held(session', k)) /\ active'[k] = Cardinality(Held(session', k))
  <2>1. IsFiniteSet(Held(session, k)) /\ active[k] = Cardinality(Held(session, k))
    BY DEF ActiveCounted, Filling
  <2>2. active'[k] = active[k] + ActiveSeats(e, zones, status)[k]
    BY DEF RoundOf
  <2>3. ActiveTickets(session') =
          IF status \in {"confirmed", "pending"} THEN ActiveTickets(session) \cup T ELSE ActiveTickets(session)
    <3>1. {o \in session' : o.status \in {"confirmed", "pending"}} =
            {o \in session : o.status \in {"confirmed", "pending"}} \cup
            (IF status \in {"confirmed", "pending"} THEN {new} ELSE {})
      BY <1>3
    <3>2. QED
      BY <1>3, <3>1 DEF ActiveTickets
  <2>4. CASE status \in {"confirmed", "pending"}
    <3>1. Held(session', k) = Held(session, k) \cup TK(k)
      BY <2>3, <2>4 DEF Held
    <3>2. Held(session, k) \cap TK(k) = {}
      <4>1. \A t \in ActiveTickets(session) : \E o \in session : t \in o.tickets
        BY DEF ActiveTickets
      <4>2. QED
        BY <4>1, NewUntaken DEF Held
    <3>3. IsFiniteSet(TK(k)) /\ Cardinality(TK(k)) = Seats(e, zones)[k]
      BY <1>0
    <3>4. ActiveSeats(e, zones, status)[k] = Seats(e, zones)[k]
      BY <2>4 DEF ActiveSeats
    <3>5. /\ IsFiniteSet(Held(session, k) \cup TK(k))
          /\ Cardinality(Held(session, k) \cup TK(k)) =
               Cardinality(Held(session, k)) + Cardinality(TK(k)) - Cardinality({})
      <4>1. ASSUME NEW A, NEW B, IsFiniteSet(A), IsFiniteSet(B), A \cap B = {}
            PROVE  /\ IsFiniteSet(A \cup B)
                   /\ Cardinality(A \cup B) = Cardinality(A) + Cardinality(B) - Cardinality({})
        BY <4>1, FS_Union
      <4>2. QED
        BY <2>1, <3>2, <3>3, <4>1
    <3>6. QED
      BY <1>1, <2>1, <2>2, <3>1, <3>3, <3>4, <3>5, FS_EmptySet
  <2>5. CASE status \notin {"confirmed", "pending"}
    <3>1. Held(session', k) = Held(session, k)
      BY <2>3, <2>5 DEF Held
    <3>2. ActiveSeats(e, zones, status)[k] = 0
      BY <2>5 DEF ActiveSeats
    <3>3. QED
      BY <1>1, <2>1, <2>2, <3>1, <3>2
  <2>6. QED
    BY <2>4, <2>5
<1>7. ActiveCounted'
  BY <1>5, <1>6 DEF ActiveCounted, Filled
<1>8. QED
  BY <1>4, <1>7

\* Every step of the script keeps to it.
LEMMA AloneStep ==
    ASSUME SeedInv, SeedInv', Alone, SeedStep, buyer' = buyer
    PROVE  Alone'
<1> USE DEF Filling, Filled
<1>1. /\ step \in {"off", "delete", "insert", "truncate", "users", "orders", "failed", "sync", "logs", "done"}
      /\ session # {} => step = "orders"
      /\ IsFiniteSet(session) /\ \A o \in session : o.no \in 1..Cardinality(session)
      /\ next \in [Key -> Nat \ {0}] /\ active \in [Key -> Nat] /\ booked \in [Key -> Int]
  BY DEF SeedInv, SeedTyped, SessionKnown
<1>2. \A k : Held({}, k) = {}
  BY DEF Held, ActiveTickets
<1>3. CASE Start
  <2>1. step' = "delete" /\ session' = {} /\ active' = Zero /\ synced' = {}
    BY <1>3 DEF Start
  <2>2. ActiveCounted'
    BY <1>2, <2>1, FS_EmptySet DEF ActiveCounted, Zero
  <2>3. QED
    BY <2>1, <2>2 DEF Alone, Undisturbed, LabelsBelow, CountersSet, OrdersNew, LogsNew
<1>4. CASE DeleteEvents \/ InsertEvents \/ Truncate \/ SeedUsers
  <2>1. /\ session = {} /\ session' = {} /\ UNCHANGED <<active, synced>>
        /\ step \in {"delete", "insert", "truncate", "users"}
        /\ step' \in {"insert", "truncate", "users", "orders"}
        /\ step' = "users" => saved' = {}
        /\ step' = "orders" => saved' = saved /\ step = "users"
        /\ step' = "truncate" => booked' = Zero
        /\ step' \in {"users", "orders"} => booked' = booked /\ step \in {"truncate", "users"}
    BY <1>1, <1>4 DEF DeleteEvents, InsertEvents, Truncate, SeedUsers
  <2>2. Undisturbed' /\ LabelsBelow' /\ OrdersNew' /\ LogsNew'
    BY <2>1 DEF Alone, Undisturbed, LabelsBelow, OrdersNew, LogsNew
  <2>3. ActiveCounted'
    BY <2>1 DEF Alone, ActiveCounted
  <2>4. CountersSet'
    BY <2>1 DEF Alone, CountersSet, Zero
  <2>5. QED
    BY <2>2, <2>3, <2>4 DEF Alone
<1>5. CASE SeedOrder
  <2>1. step = "orders" /\ saved = {} /\ UNCHANGED <<synced, catalog, saved, booked>>
    BY <1>5 DEF SeedOrder, dataVars, Alone, Undisturbed
  <2>2. PICK e \in Event, status \in {"confirmed", "pending", "expired"}, n \in 1..MaxTickets :
           \E zones \in [1..n -> ZoneName] :
              ~ Clash(status, n, NewTickets(e, zones, n)) => RoundOf(e, status, n, zones)
    BY <1>5, Rounds
  <2>3. PICK zones \in [1..n -> ZoneName] :
              ~ Clash(status, n, NewTickets(e, zones, n)) => RoundOf(e, status, n, zones)
    BY <2>2
  <2>4. n \in Nat
    OBVIOUS
  <2>5. RoundOf(e, status, n, zones)
    BY <2>1, <2>3, <2>4, NoClash DEF Alone
  <2>6. LabelsBelow' /\ ActiveCounted'
    BY <2>1, <2>4, <2>5, RoundCounts DEF Alone
  <2>7. step' = "orders"
    BY <2>1, <2>5 DEF RoundOf
  <2>8. CountersSet'
    BY <2>1, <2>7 DEF Alone, CountersSet
  <2>9. QED
    BY <2>1, <2>6, <2>7, <2>8 DEF Alone, Undisturbed, OrdersNew, LogsNew
<1>6. CASE CommitOrders
  <2>1. /\ step = "orders" /\ step' = "sync" /\ saved' = session /\ session' = {}
        /\ Cardinality(session) = Orders /\ UNCHANGED <<active, synced, catalog, booked>>
    BY <1>6 DEF CommitOrders, Alone, Undisturbed
  <2>2. Undisturbed' /\ LabelsBelow' /\ LogsNew'
    BY <2>1 DEF Alone, Undisturbed, LabelsBelow, LogsNew
  <2>3. ActiveCounted'
    BY <2>1 DEF Alone, ActiveCounted
  <2>4. CountersSet'
    BY <2>1 DEF Alone, CountersSet
  <2>5. \A o \in session : o.no > 0
    BY <1>1, FS_CardinalityType
  <2>6. \A o \in session : \A t \in o.tickets : t.catalog = catalog
    BY DEF Alone, LabelsBelow, Ticket
  <2>7. OrdersNew'
    BY <2>1, <2>5, <2>6 DEF OrdersNew
  <2>8. QED
    BY <2>2, <2>3, <2>4, <2>7 DEF Alone
<1>7. CASE Sync
  <2>1. step = "sync" /\ step' = "sync" /\ session' = {} /\ UNCHANGED <<active, catalog, saved>>
    BY <1>1, <1>7 DEF Sync
  <2>2. PICK m \in Key : active[m] > 0 /\ booked' = [booked EXCEPT ![m] = active[m]] /\ synced' = synced \cup {m}
    BY <1>7 DEF Sync
  <2>3. CountersSet'
    BY <1>1, <2>1, <2>2 DEF Alone, CountersSet
  <2>4. Undisturbed' /\ LabelsBelow' /\ LogsNew' /\ OrdersNew'
    BY <2>1 DEF Alone, Undisturbed, LabelsBelow, LogsNew, OrdersNew
  <2>5. ActiveCounted'
    BY <2>1 DEF Alone, ActiveCounted
  <2>6. QED
    BY <2>3, <2>4, <2>5 DEF Alone
<1>8. CASE DeleteLogs \/ InsertLogs
  <2>1. /\ step \in {"sync", "logs"} /\ step' \in {"logs", "done"} /\ session' = {}
        /\ UNCHANGED <<active, synced, catalog, booked, saved>>
        /\ step = "sync" => \A k \in Key : active[k] > 0 => k \in synced
        /\ step' = "done" => logs' \subseteq 1..users'
    <3>1. CASE DeleteLogs
      BY <1>1, <3>1 DEF DeleteLogs
    <3>2. CASE InsertLogs
      BY <1>1, <3>2 DEF InsertLogs
    <3>3. QED
      BY <1>8, <3>1, <3>2
  <2>2. Undisturbed' /\ LabelsBelow' /\ LogsNew' /\ OrdersNew'
    BY <2>1 DEF Alone, Undisturbed, LabelsBelow, LogsNew, OrdersNew
  <2>3. ActiveCounted'
    BY <2>1 DEF Alone, ActiveCounted
  <2>4. CountersSet'
    BY <2>1 DEF Alone, CountersSet
  <2>5. QED
    BY <2>2, <2>3, <2>4 DEF Alone
<1>9. CASE Crash
  <2>1. step' = "off" /\ session' = {} /\ synced' = synced
    BY <1>9 DEF Crash
  <2>2. QED
    BY <2>1 DEF Alone, Undisturbed, LabelsBelow, ActiveCounted, CountersSet, OrdersNew, LogsNew
<1>10. QED
  BY <1>3, <1>4, <1>5, <1>6, <1>7, <1>8, <1>9 DEF SeedStep

\* With the databases to itself the script keeps to it.
LEMMA AloneHolds == SeedSpec => [](SeedInv /\ AloneInv)
<1>1. SeedInit => SeedInv /\ AloneInv
  <2> SUFFICES ASSUME SeedInit PROVE Alone
    BY SeedInvInit DEF AloneInv
  <2>1. step = "off" /\ session = {} /\ synced = {} /\ buyer.at = "idle"
    BY DEF SeedInit
  <2>2. QED
    BY <2>1 DEF Alone, Undisturbed, LabelsBelow, ActiveCounted, CountersSet, OrdersNew, LogsNew, Filling, Filled
<1>2. SeedInv /\ AloneInv /\ [SeedNext]_vars => SeedInv' /\ AloneInv'
  <2> SUFFICES ASSUME SeedInv, AloneInv, [SeedNext]_vars PROVE SeedInv' /\ AloneInv'
    OBVIOUS
  <2>1. SeedInv'
    BY SeedStepInv
  <2> SUFFICES ASSUME ~live' PROVE Alone'
    BY <2>1 DEF AloneInv
  <2>2. live' = live
    BY DEF SeedNext, vars
  <2>3. Alone
    BY <2>2 DEF AloneInv
  <2>4. CASE SeedStep
    <3>1. buyer' = buyer
      BY <2>4 DEF SeedStep, Start, DeleteEvents, InsertEvents, Truncate, SeedUsers, SeedOrder, CommitOrders, Sync,
         DeleteLogs, InsertLogs, Crash
    <3>2. QED
      BY <2>1, <2>3, <2>4, <3>1, AloneStep
  <2>5. CASE Reserve \/ Insert \/ GiveBack
    BY <2>2, <2>3, <2>5 DEF Alone, Undisturbed, Reserve, Insert, GiveBack
  <2>6. CASE UNCHANGED vars
    <3>1. UNCHANGED <<step, asked, session, next, active, synced, catalog, booked, users, saved, logs, buyer>>
      BY <2>6 DEF vars, seedVars, dataVars
    <3>2. Undisturbed' /\ CountersSet' /\ OrdersNew' /\ LogsNew'
      BY <2>3, <3>1 DEF Alone, Undisturbed, CountersSet, OrdersNew, LogsNew
    <3>3. LabelsBelow'
      BY <2>3, <3>1 DEF Alone, LabelsBelow, Ticket
    <3>4. ActiveCounted'
      BY <2>3, <3>1 DEF Alone, ActiveCounted
    <3>5. QED
      BY <3>2, <3>3, <3>4 DEF Alone
  <2>7. QED
    BY <2>4, <2>5, <2>6 DEF SeedNext
<1>3. QED
  BY <1>1, <1>2, PTL DEF SeedSpec

\* On a database nobody else writes to the script never trips over its own labels.
THEOREM SeedNeverFails == SeedSpec => []NeverFails
<1>1. AloneInv => NeverFails
  BY DEF AloneInv, Alone, Undisturbed, NeverFails
<1>2. QED
  BY <1>1, AloneHolds, PTL

\* A complete run leaves every counter at the number of held and valid tickets.
THEOREM SeedCountsTickets == SeedSpec => []SeedMatches
<1>1. SeedInv /\ AloneInv => SeedMatches
  <2> SUFFICES ASSUME SeedInv, Alone, step = "done", NEW k \in Key
      PROVE booked[k] = Cardinality(SeatsOf(k))
    BY DEF AloneInv, SeedMatches
  <2>1. active[k] = Cardinality(Held(saved, k))
    BY DEF Alone, ActiveCounted, Filled
  <2>2. SeatsOf(k) = Held(saved, k)
    <3>1. \A t \in ActiveTickets(saved) : t.catalog = catalog
      BY DEF Alone, OrdersNew, Filled, ActiveTickets
    <3>2. QED
      BY <3>1 DEF SeatsOf, Held
  <2>3. booked[k] = active[k]
    BY DEF Alone, CountersSet, Filled, SeedInv, SeedTyped
  <2>4. QED
    BY <2>1, <2>2, <2>3
<1>2. QED
  BY <1>1, AloneHolds, PTL

\* A complete run leaves nothing of what was there before.
THEOREM SeedStartsAfresh == SeedSpec => []NothingLeftOver
<1>1. AloneInv => NothingLeftOver
  BY DEF AloneInv, Alone, OrdersNew, LogsNew, Filled, NothingLeftOver
<1>2. QED
  BY <1>1, AloneHolds, PTL
=============================================================================
