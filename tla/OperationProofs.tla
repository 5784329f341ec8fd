--------------------------- MODULE OperationProofs ---------------------------
(* What runs beside the orders and payments.  The outbox workers handle each *)
(* row once and never delete one unhandled; the audit raises no false alarm  *)
(* and changes nothing unless asked to, and a repair with everything stopped *)
(* lasts.                                                                    *)
EXTENDS Audit, OutboxWorker, BookingProofs

----------------------------------------------------------------------------
(* The outbox.                                                              *)

\* Steps that leave the outbox variables but phase and old alone.
LEMMA OutboxStays ==
    ASSUME WorkerInv, phase' \in [Sweeper -> {"holds", "mark", "purge"}], old' \subseteq Row,
           UNCHANGED <<locked, handled, purged>>,
           \A s \in Sweeper : phase'[s] = phase[s] \/ locked[s] = {}
    PROVE  WorkerInv'
BY DEF WorkerInv, WorkerTypeOK, HandledOnce, RowsHeld

\* A worker lets go of its rows.
LEMMA OutboxUnlocks ==
    ASSUME WorkerInv, NEW s \in Sweeper, NEW ph \in {"holds", "mark", "purge"}, GoTo(s, ph),
           locked' = [locked EXCEPT ![s] = {}], UNCHANGED <<handled, old, purged>>
    PROVE  WorkerInv'
<1>1. WorkerTypeOK'
  BY DEF WorkerInv, WorkerTypeOK, GoTo
<1>2. \A t \in Sweeper : locked'[t] = (IF t = s THEN {} ELSE locked[t]) /\ (t # s => phase'[t] = phase[t])
  BY DEF WorkerInv, WorkerTypeOK, GoTo
<1>3. QED
  BY <1>1, <1>2 DEF WorkerInv, HandledOnce, RowsHeld

\* A worker locks rows nobody has locked, that are what its step looks for.
LEMMA OutboxLocks ==
    ASSUME WorkerInv, NEW s \in Sweeper, NEW S \in SUBSET (Row \ purged), NEW n, LockRows(s, S, n),
           phase[s] \in {"mark", "purge"},
           \A e \in S : handled[e] = IF phase[s] = "mark" THEN 0 ELSE 1
    PROVE  WorkerInv'
<1>1. PICK E \in SUBSET {e \in S : Unlocked(e)} :
          /\ locked' = [locked EXCEPT ![s] = E]
          /\ GoTo(s, IF E = {} THEN After(s) ELSE phase[s])
  BY DEF LockRows
<1>2. UNCHANGED <<handled, old, purged>>
  BY DEF LockRows
<1>3. CASE E = {}
  <2>1. After(s) \in {"holds", "mark", "purge"}
    BY DEF After
  <2>2. QED
    BY <1>1, <1>2, <1>3, <2>1, OutboxUnlocks
<1>4. CASE E # {}
  <2>1. phase' = phase
    BY <1>1, <1>4 DEF GoTo, WorkerInv, WorkerTypeOK
  <2>2. \A t \in Sweeper : locked'[t] = IF t = s THEN E ELSE locked[t]
    BY <1>1 DEF WorkerInv, WorkerTypeOK
  <2>3. WorkerTypeOK'
    BY <1>1, <1>2, <2>1 DEF WorkerInv, WorkerTypeOK
  <2>4. \A t \in Sweeper : E \cap locked[t] = {}
    BY <1>1 DEF Unlocked
  <2>5. RowsHeld'
    BY <1>1, <1>2, <2>1, <2>2, <2>4 DEF WorkerInv, RowsHeld
  <2>6. QED
    BY <1>2, <2>3, <2>5 DEF WorkerInv, HandledOnce
<1>5. QED
  BY <1>3, <1>4

\* MarkCommit handles rows that were not, PurgeCommit deletes rows that were.
LEMMA OutboxCommits ==
    ASSUME WorkerInv, NEW s \in Sweeper, MarkCommit(s) \/ PurgeCommit(s)
    PROVE  WorkerInv'
<1>1. /\ locked' = [locked EXCEPT ![s] = {}]
      /\ \E ph \in {phase[s], After(s)} : GoTo(s, ph)
      /\ old' = old
  BY DEF MarkCommit, PurgeCommit, Committed
<1>2. \A t \in Sweeper :
          locked'[t] = (IF t = s THEN {} ELSE locked[t]) /\ (t # s => phase'[t] = phase[t])
  BY <1>1 DEF GoTo, WorkerInv, WorkerTypeOK
<1>3. phase' \in [Sweeper -> {"holds", "mark", "purge"}] /\ locked' \in [Sweeper -> SUBSET Row]
  BY <1>1 DEF GoTo, After, WorkerInv, WorkerTypeOK
<1>4. CASE MarkCommit(s)
  <2>1. /\ handled' = [e \in Row |-> IF e \in locked[s] THEN handled[e] + 1 ELSE handled[e]]
        /\ purged' = purged
        /\ phase[s] = "mark"
    BY <1>4 DEF MarkCommit
  <2>2. \A e \in locked[s] : handled[e] = 0 /\ e \notin purged
    BY <2>1 DEF WorkerInv, RowsHeld
  <2>3. handled' \in [Row -> Nat]
    BY <2>1 DEF WorkerInv, WorkerTypeOK
  <2>4. \A e \in Row : handled'[e] = IF e \in locked[s] THEN 1 ELSE handled[e]
    BY <2>1, <2>2
  <2>5. HandledOnce'
    BY <2>1, <2>2, <2>4 DEF WorkerInv, HandledOnce
  <2>6. \A t \in Sweeper \ {s} : \A e \in locked[t] : e \in Row /\ handled'[e] = handled[e]
    BY <2>4 DEF WorkerInv, WorkerTypeOK, RowsHeld
  <2>7. RowsHeld'
    BY <1>2, <2>1, <2>6 DEF WorkerInv, RowsHeld
  <2>8. QED
    BY <1>1, <1>3, <2>1, <2>3, <2>5, <2>7 DEF WorkerInv, WorkerTypeOK
<1>5. CASE PurgeCommit(s)
  <2>1. purged' = purged \cup locked[s] /\ handled' = handled /\ phase[s] = "purge"
    BY <1>5 DEF PurgeCommit
  <2>2. \A e \in locked[s] : handled[e] = 1
    BY <2>1 DEF WorkerInv, RowsHeld
  <2>3. \A t \in Sweeper \ {s} : \A e \in locked[t] : e \notin purged'
    BY <2>1 DEF WorkerInv, RowsHeld
  <2>4. RowsHeld'
    BY <1>2, <2>1, <2>3 DEF WorkerInv, RowsHeld
  <2>5. HandledOnce'
    BY <2>1, <2>2 DEF WorkerInv, HandledOnce
  <2>6. QED
    BY <1>1, <1>3, <2>1, <2>4, <2>5 DEF WorkerInv, WorkerTypeOK
<1>6. QED
  BY <1>4, <1>5

\* Every step keeps the invariant.
LEMMA WorkerInvStep ==
    ASSUME WorkerInv, [WorkerNext]_workerVars
    PROVE  WorkerInv'
<1>1. CASE UNCHANGED outboxVars
  BY <1>1, OutboxStays DEF outboxVars, WorkerInv, WorkerTypeOK
<1>2. ASSUME NEW s \in Sweeper, phase[s] = "holds", HoldsAdvance(s) PROVE WorkerInv'
  <2>1. locked[s] = {}
    BY <1>2 DEF WorkerInv, RowsHeld
  <2>2. PICK ph \in {"holds", "mark"} : GoTo(s, ph)
    BY <1>2 DEF HoldsAdvance
  <2>3. QED
    BY <1>2, <2>1, <2>2, OutboxStays DEF HoldsAdvance, GoTo, WorkerInv, WorkerTypeOK
<1>3. ASSUME NEW s \in Sweeper, WorkerStep(s) \/ WorkerFault(s) PROVE WorkerInv'
  <2>1. CASE SweepHolds(s) \/ HoldsFault(s)
    BY <1>2, <2>1 DEF SweepHolds, HoldsFault
  <2>2. CASE MarkPending(s)
    <3>1. Pending \in SUBSET (Row \ purged) /\ \A e \in Pending : handled[e] = 0
      BY DEF Pending, Written
    <3>2. QED
      BY <2>2, <3>1, OutboxLocks DEF MarkPending
  <2>3. CASE PurgeOld(s)
    <3>1. Processed \cap old \in SUBSET (Row \ purged)
      BY DEF Processed, Written
    <3>2. \A e \in Processed \cap old : handled[e] = 1
      BY DEF Processed, Written, WorkerInv, WorkerTypeOK, HandledOnce
    <3>3. QED
      BY <2>3, <3>1, <3>2, OutboxLocks DEF PurgeOld
  <2>4. CASE MarkCommit(s) \/ PurgeCommit(s)
    BY <2>4, OutboxCommits
  <2>5. CASE StatementFails(s)
    <3>1. /\ locked' = [locked EXCEPT ![s] = {}] /\ UNCHANGED <<handled, old, purged>>
          /\ \E ph \in {"holds", "mark", "purge"} : GoTo(s, ph)
      BY <2>5 DEF StatementFails, After
    <3>2. QED
      BY <3>1, OutboxUnlocks
  <2>6. QED
    BY <1>3, <2>1, <2>2, <2>3, <2>4, <2>5 DEF WorkerStep, WorkerFault
<1>4. ASSUME NEW e \in Row, RowAges(e) PROVE WorkerInv'
  BY <1>4, OutboxStays DEF RowAges, WorkerInv, WorkerTypeOK
<1>5. QED
  BY <1>1, <1>3, <1>4 DEF WorkerNext, ClientStep, workerVars

\* However many replicas run the loop and whatever fails, each outbox row is marked
\* processed at most once, and deleted only after that.
THEOREM OutboxHandledOnce == WorkerSpec => []HandledOnce
<1>1. WorkerInit => WorkerInv
  BY DEF WorkerInit, WorkerInv, WorkerTypeOK, HandledOnce, RowsHeld
<1>2. WorkerInv /\ [WorkerNext]_workerVars => WorkerInv'
  BY WorkerInvStep
<1>3. WorkerInv => HandledOnce
  BY DEF WorkerInv
<1>4. QED
  BY <1>1, <1>2, <1>3, PTL DEF WorkerSpec

\* Marking and purging rows is invisible to the booking, but for the count of faults.
LEMMA WorkersAreBooking ==
    ASSUME [WorkerNext]_workerVars
    PROVE  \/ [Next]_vars
           \/ faults' = faults + 1 /\ UNCHANGED <<body, requestVars, booked, pgVars, agentVars>>
<1>1. CASE UNCHANGED vars
  BY <1>1
<1>2. CASE ClientStep
  BY <1>2 DEF ClientStep, Next
<1>3. ASSUME NEW s \in Sweeper, SweepHolds(s) \/ HoldsFault(s) PROVE Next
  BY <1>3 DEF SweepHolds, HoldsFault, Next
<1>4. ASSUME NEW s \in Sweeper, MarkPending(s) \/ MarkCommit(s) \/ PurgeOld(s) \/ PurgeCommit(s)
      PROVE  UNCHANGED vars
  BY <1>4 DEF MarkPending, MarkCommit, PurgeOld, PurgeCommit, LockRows, Committed
<1>5. ASSUME NEW s \in Sweeper, StatementFails(s)
      PROVE  faults' = faults + 1 /\ UNCHANGED <<body, requestVars, booked, pgVars, agentVars>>
  BY <1>5 DEF StatementFails, Fault
<1>6. QED
  BY <1>1, <1>2, <1>3, <1>4, <1>5 DEF WorkerNext, WorkerStep, WorkerFault, RowAges, workerVars

\* A fault that touches nothing keeps what holds of counters and tables.
LEMMA FaultQuiet ==
    ASSUME Inv, LedgerAgrees, OutboxTellsHistory,
           faults' = faults + 1, UNCHANGED <<body, requestVars, booked, pgVars, agentVars>>
    PROVE  Inv' /\ LedgerAgrees' /\ OutboxTellsHistory'
<1>1. UNCHANGED <<body, pc, reserved, code, given, booked, order, overdue, tickets, payments, outbox, at, holds, owed, slow>>
  BY DEF requestVars, pgVars, agentVars
<1>2. TypeOK'
  BY <1>1 DEF Inv, TypeOK
<1>3. \A z \in Zone : Claims(z)' = Claims(z)
  BY <1>1 DEF Claims, Active, InFlight, OwedIn, TicketsIn
<1>4. CounterCoversSeats' /\ CounterInRange'
  BY <1>1, <1>3 DEF Inv, CounterCoversSeats, CounterInRange
<1>5. RequestsOpen' /\ RowsLocked' /\ OwedOnce'
  BY <1>1 DEF Inv, RequestsOpen, RowsLocked, OwedOnce
<1>6. LedgerAgrees' /\ OutboxTellsHistory'
  BY <1>1 DEF LedgerAgrees, OutboxTellsHistory, Lines
<1>7. QED
  BY <1>2, <1>4, <1>5, <1>6 DEF Inv

\* Beside workers that mark and purge, counters, ledger and outbox keep to what is
\* proved of them without; the order of a worker's steps and its faults do no harm.
THEOREM WorkersKeepBooking ==
    ASSUME LostAck = FALSE
    PROVE  WorkerSpec => [](Inv /\ LedgerAgrees /\ OutboxTellsHistory)
<1>1. WorkerInit => Inv /\ LedgerAgrees /\ OutboxTellsHistory
  <2> SUFFICES ASSUME WorkerInit PROVE Inv /\ LedgerAgrees /\ OutboxTellsHistory
    OBVIOUS
  <2>1. Init
    BY DEF WorkerInit
  <2>2. QED
    BY <2>1, InvInit DEF Init, LedgerAgrees, OutboxTellsHistory
<1>2. Inv /\ LedgerAgrees /\ OutboxTellsHistory /\ [WorkerNext]_workerVars
          => Inv' /\ LedgerAgrees' /\ OutboxTellsHistory'
  BY WorkersAreBooking, FaultQuiet, InvStep, TablesStep
<1>3. QED
  BY <1>1, <1>2, PTL DEF WorkerSpec

\* So the sale of one database that Booking implements is implemented with them, too.
THEOREM WorkersKeepSale ==
    ASSUME LostAck = FALSE
    PROVE  WorkerSpec => ImplementsSale
<1>1. WorkerInit => PaysOne /\ Sale!SaleInit
  BY DEF WorkerInit, Init, PaysOne, Sale!SaleInit, SeatsHeld
<1>2. Inv /\ LedgerAgrees /\ PaysOne /\ [WorkerNext]_workerVars => PaysOne' /\ [Sale!SaleNext]_Sale!saleVars
  <2> SUFFICES ASSUME Inv, LedgerAgrees, PaysOne, [WorkerNext]_workerVars
               PROVE  PaysOne' /\ [Sale!SaleNext]_Sale!saleVars
    OBVIOUS
  <2>1. CASE [Next]_vars
    BY <2>1, PaysOneStep, StepIsSale DEF Inv
  <2>2. CASE UNCHANGED <<pgVars, agentVars>>
    <3>1. UNCHANGED <<order, tickets, payments, at, holds>>
      BY <2>2 DEF pgVars, agentVars
    <3>2. QED
      BY <3>1, TablesQuiet DEF PaysOne
  <2>3. QED
    BY <2>1, <2>2, WorkersAreBooking
<1>3. QED
  BY <1>1, <1>2, WorkersKeepBooking, PTL DEF WorkerSpec, ImplementsSale, Sale!SaleSpec

\* Row names every row of the outbox: no order ever publishes a third event, so
\* what is said of rows leaves none out.
THEOREM RowsNameEvents ==
    ASSUME LostAck = FALSE
    PROVE  WorkerSpec => [](\A r \in Request : \A i \in 1..Len(outbox[r]) : <<r, i>> \in Row)
<1>1. Inv /\ OutboxTellsHistory => \A r \in Request : \A i \in 1..Len(outbox[r]) : <<r, i>> \in Row
  <2> SUFFICES ASSUME Inv, OutboxTellsHistory, NEW r \in Request, NEW i \in 1..Len(outbox[r])
      PROVE i \in 1..2
    BY DEF Row
  <2>1. order[r] \in {"none", "pending", "confirmed", "expired"}
    BY DEF Inv, TypeOK, OrderStatus
  <2>2. Len(outbox[r]) \in {0, 1, 2}
    BY <2>1 DEF OutboxTellsHistory
  <2>3. ASSUME NEW m \in {0, 1, 2}, NEW j \in 1..m PROVE j \in 1..2
    OBVIOUS
  <2>4. QED
    BY <2>2, <2>3
<1>2. QED
  BY <1>1, WorkersKeepBooking, PTL

----------------------------------------------------------------------------
(* The audit.                                                               *)

AllStopped == conduct.stopTraffic /\ conduct.stopWorkers

AuditTyped ==
    /\ conduct \in Conduct
    /\ step \in {"off", "tables", "counters", "report", "repair"}
    /\ active \in [Zone -> Nat]
    /\ drift \subseteq Zone
    /\ repaired \in BOOLEAN /\ mended \in BOOLEAN

\* What holds of the booking also when COMMITs are misread: who does nothing has
\* locked, reserved and owes nothing, who has not written has no order yet, and only
\* orders are locked.
Loose ==
    /\ TypeOK
    /\ \A a \in Agent :
        /\ holds[a] # {} => at[a] \in {"paying", "expiring"}
        /\ \A r \in holds[a] : order[r] # "none"
        /\ owed[a] # {} => at[a] = "releasing"
        /\ slow[a] # {} => owed[a] # {}
    /\ \A r \in Request :
        /\ reserved[r] # {} => pc[r] \in {"reserve", "release"}
        /\ pc[r] \in {"new", "reserve"} => order[r] = "none"
        /\ order[r] = "none" => \A l \in Line : tickets[r][l] = "none"

\* What was stopped for the audit has come to rest.
Rests ==
    step # "off" =>
        /\ conduct.stopTraffic => TrafficQuiet
        /\ conduct.stopWorkers => WorkersQuiet

\* A repair was asked for, and nothing was repaired before.
RepairsOnce ==
    /\ step = "repair" => conduct.repair /\ ~repaired
    /\ mended => repaired

\* What the audit of a resting system has read is still true; zones it found no
\* drift in, or has repaired, have none.
CountsFresh ==
    AllStopped /\ step \in {"counters", "report", "repair"} =>
        \A z \in Zone : active[z] = Cardinality(Active(z))
DriftKnown ==
    AllStopped /\ step \in {"report", "repair"} => \A z \in Zone \ drift : booked[z] = active[z]

\* The course of the audit, whatever the operator does and whatever is lost.
CourseInv == AuditTyped /\ Loose /\ Rests /\ RepairsOnce /\ CountsFresh /\ DriftKnown

\* After a repair, and until the next fault, the counters are neither too low nor
\* too high.
StaysMended == mended /\ AllStopped => Covered /\ NoDrift

\* The operator stops everything before a repair, and no event began with seats
\* that no ticket stands for.
Careful == conduct.repair => AllStopped /\ \A z \in Zone : Prebooked[z] = 0

\* Only requests for zones of the catalog get as far as a reservation.
ZonesKnown == \A r \in Request : pc[r] \in {"reserve", "release"} \/ order[r] # "none" => Valid(r)

\* What the booking keeps to when no COMMIT is misread.
Sound == Inv /\ LedgerAgrees /\ OutboxTellsHistory /\ SeatSoldOnce /\ ZonesKnown

CountsFit == \A z \in Zone : active[z] <= Capacity[z]

\* The checks of the tables leave nothing for the drift to be mistaken for.
TablesFirst == step = "counters" => failing = {}

AlarmInv == Sound /\ CountsFit /\ TablesFirst /\ NoFalseAlarm

----------------------------------------------------------------------------
(* Steps of the system.                                                     *)

\* What the system does is a step of Booking.
LEMMA SystemIsBooking ==
    ASSUME SystemStep
    PROVE  Next /\ UNCHANGED <<conduct, step, active, failing, drift, repaired>>
BY DEF SystemStep, Traffic, Workers, Next

\* What holds at any rate of requests.
LEMMA LooseRequest ==
    ASSUME Loose, TypeOK', NEW r \in Request, RequestStep(r) \/ RequestFault(r) \/ HoldElapses(r)
    PROVE  Loose'
<1>1. UNCHANGED agentVars
  BY DEF RequestStep, RequestFault, HoldElapses, Replay, Refuse, Accept, Reserve, SoldOut, ReleaseReservation,
     Commit, Conflict, AnswerFailure, ReserveFails, PgFails, CommitAckLost, Crash
<1>2. SUFFICES ASSUME NEW q \in Request
      PROVE  /\ reserved'[q] # {} => pc'[q] \in {"reserve", "release"}
             /\ pc'[q] \in {"new", "reserve"} => order'[q] = "none"
             /\ order'[q] = "none" => order[q] = "none" /\ \A l \in Line : tickets'[q][l] = "none"
  <2>1. UNCHANGED <<at, holds, owed, slow>> /\ holds \in [Agent -> SUBSET Request]
    BY <1>1 DEF Loose, TypeOK, agentVars
  <2>2. QED
    BY <1>2, <2>1 DEF Loose
<1>3. /\ pc \in [Request -> RequestPC] /\ reserved \in [Request -> SUBSET Zone]
      /\ order \in [Request -> OrderStatus] /\ tickets \in [Request -> [Line -> TicketStatus]]
      /\ reserved[q] # {} => pc[q] \in {"reserve", "release"}
      /\ pc[q] \in {"new", "reserve"} => order[q] = "none"
      /\ order[q] = "none" => \A l \in Line : tickets[q][l] = "none"
  BY DEF Loose, TypeOK
<1>4. CASE UNCHANGED <<order, tickets>>
  <2>1. \/ pc'[q] = pc[q] /\ reserved'[q] = reserved[q]
        \/ pc'[q] = pc[q] /\ pc[q] \in {"reserve", "release"}
        \/ pc[q] = "new" /\ pc'[q] = "reserve" /\ reserved'[q] = reserved[q]
        \/ pc[q] \in {"reserve", "release"} /\ pc'[q] = "release"
        \/ pc'[q] \in {"done", "crashed"} /\ reserved'[q] = {}
    <3>1. CASE Replay(r) \/ Refuse(r)
      BY <1>3, <3>1 DEF Replay, Refuse, Answer
    <3>2. CASE Accept(r)
      BY <1>3, <3>2 DEF Accept
    <3>3. CASE \E z \in Zone : Reserve(r, z) \/ ReleaseReservation(r, z)
      BY <1>3, <3>3 DEF Reserve, ReleaseReservation
    <3>4. CASE (\E z \in Zone : SoldOut(r, z) \/ ReserveFails(r, z)) \/ Conflict(r) \/ PgFails(r) \/ CommitAckLost(r)
      <4>1. pc[r] = "reserve" /\ pc' = [pc EXCEPT ![r] = "release"] /\ reserved' = reserved
        BY <3>4 DEF SoldOut, ReserveFails, Conflict, PgFails, CommitAckLost, Reserved, Compensate
      <4>2. QED
        BY <1>3, <4>1
    <3>5. CASE Commit(r)
      BY <1>3, <3>5 DEF Commit, Answer
    <3>6. CASE AnswerFailure(r)
      <4>1. pc' = [pc EXCEPT ![r] = "done"] /\ reserved[r] = {} /\ reserved' = reserved
        BY <3>6 DEF AnswerFailure, Answer
      <4>2. QED
        BY <1>3, <4>1
    <3>7. CASE Crash(r)
      BY <1>3, <3>7 DEF Crash
    <3>8. CASE HoldElapses(r)
      BY <3>8 DEF HoldElapses, requestVars
    <3>9. QED
      BY <3>1, <3>2, <3>3, <3>4, <3>5, <3>6, <3>7, <3>8 DEF RequestStep, RequestFault
  <2>2. QED
    BY <1>3, <1>4, <2>1
<1>5. CASE Commit(r) \/ CommitAckLost(r)
  <2>1. /\ pc'[r] \in {"done", "release"} /\ \A p \in Request \ {r} : pc'[p] = pc[p]
        /\ reserved'[r] = {} \/ pc'[r] = "release"
        /\ \A p \in Request \ {r} : reserved'[p] = reserved[p]
        /\ order' = [order EXCEPT ![r] = "pending"]
        /\ \A p \in Request \ {r} : tickets'[p] = tickets[p]
    BY <1>3, <1>5 DEF Commit, CommitAckLost, WriteOrder, Answer, Compensate
  <2>2. QED
    BY <1>3, <2>1
<1>6. QED
  BY <1>4, <1>5 DEF RequestStep, RequestFault, HoldElapses, Replay, Refuse, Accept, Reserve, SoldOut,
     ReleaseReservation, Conflict, AnswerFailure, ReserveFails, PgFails, Crash, pgVars

\* What holds at any rate of payments and workers.
LEMMA LooseAgent ==
    ASSUME Loose, TypeOK', NEW a \in Agent,
           \/ a \in Payer /\ (PayerStep(a) \/ PayAborts(a) \/ GiveBackFault(a, "done"))
           \/ a \in Sweeper /\ (SweeperStep(a) \/ SweepAborts(a) \/ GiveBackFault(a, "idle"))
    PROVE  Loose'
<1>1. /\ at \in [Agent -> AgentPC] /\ holds \in [Agent -> SUBSET Request]
      /\ owed \in [Agent -> SUBSET Tix] /\ slow \in [Agent -> SUBSET Zone]
      /\ holds[a] # {} => at[a] \in {"paying", "expiring"}
      /\ \A r \in holds[a] : order[r] # "none"
      /\ owed[a] # {} => at[a] = "releasing"
      /\ slow[a] # {} => owed[a] # {}
  BY DEF Loose, TypeOK
<1> DEFINE Mine ==
      /\ holds'[a] # {} => at'[a] \in {"paying", "expiring"}
      /\ \A r \in holds'[a] : order[r] # "none"
      /\ owed'[a] # {} => at'[a] = "releasing"
      /\ slow'[a] # {} => owed'[a] # {}
      /\ \A b \in Agent \ {a} :
            at'[b] = at[b] /\ holds'[b] = holds[b] /\ owed'[b] = owed[b] /\ slow'[b] = slow[b]
<1> DEFINE Rows ==
      /\ UNCHANGED requestVars
      /\ \A r \in Request :
            /\ order'[r] = "none" <=> order[r] = "none"
            /\ order[r] = "none" => \A l \in Line : tickets'[r][l] = "none"
<1>2. Mine /\ Rows => Loose'
  <2> HAVE Mine /\ Rows
  <2>1. \A b \in Agent :
          /\ holds'[b] # {} => at'[b] \in {"paying", "expiring"}
          /\ \A r \in holds'[b] : order[r] # "none"
          /\ owed'[b] # {} => at'[b] = "releasing"
          /\ slow'[b] # {} => owed'[b] # {}
    BY DEF Loose
  <2>2. holds' \in [Agent -> SUBSET Request]
    BY DEF TypeOK
  <2>3. QED
    BY <2>1, <2>2 DEF Loose, requestVars
<1>3. UNCHANGED <<requestVars, pgVars>> => Rows
  BY DEF Loose, pgVars
<1>4. CASE (\E r \in Request : PayRefused(a, r) \/ PayLock(a, r)) \/ PayAborts(a) \/ SweepClaim(a) \/ SweepAborts(a)
  <2>1. Mine
    <3>1. CASE \E r \in Request : PayRefused(a, r)
      BY <1>1, <3>1 DEF PayRefused
    <3>2. CASE \E r \in Request : PayLock(a, r)
      BY <1>1, <3>2 DEF PayLock
    <3>3. CASE PayAborts(a) \/ SweepAborts(a)
      BY <1>1, <3>3 DEF PayAborts, SweepAborts, Abort
    <3>4. CASE SweepClaim(a)
      <4>1. PICK R \in SUBSET Request : holds' = [holds EXCEPT ![a] = R] /\ \A r \in R : order[r] = "pending"
        BY <3>4 DEF SweepClaim, Claimable
      <4>2. QED
        BY <1>1, <3>4, <4>1 DEF SweepClaim
    <3>5. QED
      BY <1>4, <3>1, <3>2, <3>3, <3>4
  <2>2. UNCHANGED <<requestVars, pgVars>>
    BY <1>4 DEF PayRefused, PayLock, PayAborts, SweepClaim, SweepAborts, Abort
  <2>3. QED
    BY <1>2, <1>3, <2>1, <2>2
<1>5. CASE SweepNothing(a)
  <2>1. Mine
    BY <1>1, <1>5 DEF SweepNothing, vars, agentVars
  <2>2. UNCHANGED <<requestVars, pgVars>>
    BY <1>5 DEF SweepNothing, vars
  <2>3. QED
    BY <1>2, <1>3, <2>1, <2>2
<1>6. CASE PayCommit(a) \/ PayExpire(a) \/ SweepCommit(a)
  <2>1. at[a] \in {"paying", "expiring"} /\ owed[a] = {} /\ slow[a] = {}
    BY <1>1, <1>6 DEF PayCommit, PayExpire, SweepCommit
  <2>2. Mine
    BY <1>1, <1>6, <2>1 DEF PayCommit, PayExpire, SweepCommit, ExpireHeld
  <2>3. Rows
    <3>1. PICK u \in {"confirmed", "expired"}, v \in {"valid", "cancelled"} :
            /\ order' = [r \in Request |-> IF r \in holds[a] THEN u ELSE order[r]]
            /\ tickets' = MoveHeld(holds[a], v)
            /\ UNCHANGED requestVars
      BY <1>6 DEF PayCommit, PayExpire, SweepCommit, ExpireHeld
    <3>2. ASSUME NEW r \in Request, order[r] = "none", NEW l \in Line PROVE tickets'[r][l] = "none"
      <4>1. tickets[r][l] = "none"
        BY <3>2 DEF Loose
      <4>2. QED
        BY <3>1, <4>1 DEF MoveHeld
    <3>3. QED
      BY <1>1, <3>1, <3>2
  <2>4. QED
    BY <1>2, <2>2, <2>3
<1>7. ASSUME NEW s \in {"idle", "done"}, GiveBackStep(a, s) \/ GiveBackFault(a, s) PROVE Loose'
  <2>1. UNCHANGED <<requestVars, pgVars, holds>>
    BY <1>7 DEF GiveBackStep, GiveBackFault, GiveBack, GiveBackOne, Released, GiveBackFails, ReleaseDies
  <2>2. at[a] = "releasing"
    BY <1>7 DEF GiveBackStep, GiveBackFault, GiveBack, GiveBackOne, Released, GiveBackFails, ReleaseDies
  <2>3. Mine
    <3>1. CASE \E z \in Zone : GiveBack(a, z)
      <4>1. PICK z \in Zone : GiveBack(a, z)
        BY <3>1
      <4>2. /\ Owes(a, z) # {} /\ Owes(a, z) \subseteq owed[a] /\ slow[a] = {} /\ at' = at
            /\ \/ owed' = [owed EXCEPT ![a] = @ \ Owes(a, z)] /\ slow' = slow
               \/ slow' = [slow EXCEPT ![a] = {z}] /\ owed' = owed
        BY <4>1 DEF GiveBack, Owes
      <4>3. QED
        BY <1>1, <2>1, <2>2, <4>2
    <3>2. CASE \E t \in Tix : GiveBackOne(a, t)
      <4>1. PICK t \in Tix : GiveBackOne(a, t)
        BY <3>2
      <4>2. PICK z : z = ZoneOf[t[2]]
        OBVIOUS
      <4>3. /\ t \in Owes(a, z) /\ Owes(a, z) \subseteq owed[a] /\ at' = at
            /\ owed' = [owed EXCEPT ![a] = @ \ {t}]
            /\ slow' = [slow EXCEPT ![a] = IF Owes(a, z) = {t} THEN {} ELSE @]
        BY <4>1, <4>2 DEF GiveBackOne, Owes
      <4>4. slow'[a] # {} => owed'[a] # {}
        BY <1>1, <4>3
      <4>5. QED
        BY <1>1, <2>1, <2>2, <4>3, <4>4
    <3>3. CASE Released(a, s)
      BY <1>1, <2>1, <2>2, <3>3 DEF Released
    <3>4. CASE \E z \in Zone : GiveBackFails(a, z)
      BY <1>1, <2>1, <2>2, <3>4 DEF GiveBackFails
    <3>5. CASE ReleaseDies(a, s)
      BY <1>1, <2>1, <2>2, <3>5 DEF ReleaseDies
    <3>6. QED
      BY <1>7, <3>1, <3>2, <3>3, <3>4, <3>5 DEF GiveBackStep, GiveBackFault
  <2>4. QED
    BY <1>2, <1>3, <2>1, <2>3
<1>8. QED
  BY <1>4, <1>5, <1>6, <1>7 DEF PayerStep, SweeperStep

\* What the system does keeps what holds at any rate.
LEMMA LooseStep ==
    ASSUME Loose, [Next]_vars
    PROVE  Loose'
<1>1. TypeOK'
  BY TypeStep DEF Loose
<1>2. CASE \E r \in Request : RequestStep(r) \/ RequestFault(r) \/ HoldElapses(r)
  BY <1>1, <1>2, LooseRequest
<1>3. CASE \E p \in Payer : PayerStep(p) \/ PayAborts(p) \/ GiveBackFault(p, "done")
  BY <1>1, <1>3, LooseAgent DEF Agent
<1>4. CASE \E s \in Sweeper : SweeperStep(s) \/ SweepAborts(s) \/ GiveBackFault(s, "idle")
  BY <1>1, <1>4, LooseAgent DEF Agent
<1>5. CASE UNCHANGED vars
  BY <1>1, <1>5 DEF Loose, vars, requestVars, pgVars, agentVars
<1>6. QED
  BY <1>2, <1>3, <1>4, <1>5 DEF Next

\* What rests stays at rest as long as it is stopped.
LEMMA RestsStay ==
    ASSUME TypeOK, Rests, SystemStep
    PROVE  Rests'
<1>1. UNCHANGED <<conduct, step>>
  BY SystemIsBooking
<1>2. ASSUME NEW s \in Sweeper, SweeperStep(s) \/ SweepAborts(s) \/ GiveBackFault(s, "idle")
      PROVE  pc' = pc /\ \A p \in Payer : at'[p] = at[p]
  <2>1. /\ pc' = pc
        /\ \/ at' = at
           \/ at' = [at EXCEPT ![s] = "expiring"]
           \/ at' = [at EXCEPT ![s] = "releasing"]
           \/ at' = [at EXCEPT ![s] = "idle"]
    <3>1. CASE SweepClaim(s) \/ SweepNothing(s) \/ SweepCommit(s) \/ SweepAborts(s)
      BY <3>1 DEF SweepClaim, SweepNothing, SweepCommit, ExpireHeld, SweepAborts, Abort, requestVars, vars, agentVars
    <3>2. CASE GiveBackStep(s, "idle") \/ GiveBackFault(s, "idle")
      BY <3>2 DEF GiveBackStep, GiveBack, GiveBackOne, Released, GiveBackFault, GiveBackFails, ReleaseDies, requestVars
    <3>3. QED
      BY <1>2, <3>1, <3>2 DEF SweeperStep
  <2>2. QED
    BY <2>1, ActorAssumption DEF TypeOK, Agent
<1>3. ASSUME NEW p \in Payer, PayerStep(p) \/ PayAborts(p) \/ GiveBackFault(p, "done")
      PROVE  \A s \in Sweeper : at'[s] = at[s]
  <2>1. at' = at \/ \E v \in AgentPC : at' = [at EXCEPT ![p] = v]
    BY <1>3 DEF PayerStep, PayRefused, PayLock, PayCommit, PayExpire, ExpireHeld, PayAborts, Abort, GiveBackStep,
       GiveBack, GiveBackOne, Released, GiveBackFault, GiveBackFails, ReleaseDies, AgentPC
  <2>2. QED
    BY <2>1, ActorAssumption DEF TypeOK, Agent
<1>4. ASSUME NEW r \in Request, RequestStep(r) \/ RequestFault(r) \/ HoldElapses(r)
      PROVE  at' = at
  BY <1>4 DEF RequestStep, RequestFault, HoldElapses, Replay, Refuse, Accept, Reserve, SoldOut, ReleaseReservation,
     Commit, Conflict, AnswerFailure, ReserveFails, PgFails, CommitAckLost, Crash, agentVars
<1>5. ASSUME step # "off", conduct.stopTraffic PROVE TrafficQuiet'
  <2>1. TrafficQuiet /\ (Workers \/ \E r \in Request : HoldElapses(r))
    BY <1>5 DEF Rests, SystemStep
  <2>2. pc' = pc /\ \A p \in Payer : at'[p] = at[p]
    BY <1>2, <1>4, <2>1 DEF Workers, HoldElapses, requestVars
  <2>3. QED
    BY <2>1, <2>2 DEF TrafficQuiet
<1>6. ASSUME step # "off", conduct.stopWorkers PROVE WorkersQuiet'
  <2>1. WorkersQuiet /\ (Traffic \/ \E r \in Request : HoldElapses(r))
    BY <1>6 DEF Rests, SystemStep
  <2>2. \A s \in Sweeper : at'[s] = at[s]
    BY <1>3, <1>4, <2>1 DEF Traffic
  <2>3. QED
    BY <2>1, <2>2 DEF WorkersQuiet
<1>7. QED
  BY <1>1, <1>5, <1>6 DEF Rests

\* While everything is stopped only time goes on: the tables and counters stay.
LEMMA StoppedStays ==
    ASSUME SystemStep, AllStopped, step # "off"
    PROVE  UNCHANGED <<tickets, booked>>
BY DEF SystemStep, AllStopped, HoldElapses

----------------------------------------------------------------------------
(* The course of the audit.                                                 *)

\* What a resting system claims are its held and valid tickets.
LEMMA QuietClaims ==
    ASSUME Loose, TrafficQuiet, WorkersQuiet, NEW z \in Zone
    PROVE  Claims(z) = Active(z)
<1>1. \A r \in Request : reserved[r] = {}
  BY DEF Loose, TrafficQuiet
<1>2. \A a \in Agent : owed[a] = {}
  BY DEF Loose, TrafficQuiet, WorkersQuiet, Agent
<1>3. InFlight(z) = {} /\ OwedIn(z) = {}
  BY <1>1, <1>2 DEF InFlight, OwedIn, Tix
<1>4. QED
  BY <1>3 DEF Claims

\* How many tickets of a zone are held or valid is a number.
LEMMA CountIsNat ==
    ASSUME TypeOK, NEW z \in Zone
    PROVE  /\ IsFiniteSet(Active(z)) /\ Cardinality(Active(z)) \in Nat
           /\ Active(z) \subseteq Claims(z)
<1>1. Active(z) \subseteq Claims(z) /\ IsFiniteSet(Claims(z))
  BY ClaimsFinite DEF Claims
<1>2. QED
  BY <1>1, FS_Subset, FS_CardinalityType

\* Steps of the system keep the course of the audit.
LEMMA SystemCourse ==
    ASSUME CourseInv, SystemStep
    PROVE  CourseInv'
<1>1. /\ Next /\ UNCHANGED <<conduct, step, active, failing, drift, repaired>>
      /\ mended' = (mended /\ faults' = faults)
  BY SystemIsBooking DEF SystemStep
<1>2. AuditTyped' /\ RepairsOnce'
  BY <1>1 DEF CourseInv, AuditTyped, RepairsOnce
<1>3. Loose'
  BY <1>1, LooseStep DEF CourseInv
<1>4. Rests'
  BY RestsStay DEF CourseInv, Loose
<1>5. CountsFresh' /\ DriftKnown'
  <2> SUFFICES ASSUME AllStopped, step # "off" PROVE CountsFresh' /\ DriftKnown'
    BY <1>1 DEF CountsFresh, DriftKnown, AllStopped
  <2>1. UNCHANGED <<tickets, booked>>
    BY StoppedStays
  <2>2. \A z \in Zone : Active(z)' = Active(z)
    BY <2>1 DEF Active
  <2>3. QED
    BY <1>1, <2>1, <2>2 DEF CourseInv, CountsFresh, DriftKnown, AllStopped
<1>6. QED
  BY <1>2, <1>3, <1>4, <1>5 DEF CourseInv

\* Steps of the audit that leave the booking alone keep its course.
LEMMA ReadCourse ==
    ASSUME CourseInv,
           Start \/ ReadTables \/ ReadCounters \/ Report \/ AuditAgain \/ UNCHANGED allVars
    PROVE  CourseInv'
<1>1. UNCHANGED vars /\ conduct' = conduct
  BY DEF Start, ReadTables, ReadCounters, Report, AuditAgain, allVars, auditVars
<1>2. UNCHANGED <<body, pc, reserved, booked, order, tickets, at, holds, owed, slow>>
  BY <1>1 DEF vars, requestVars, pgVars, agentVars
<1>3. Loose'
  BY <1>1, LooseStep DEF CourseInv
<1>4. /\ TrafficQuiet' = TrafficQuiet /\ WorkersQuiet' = WorkersQuiet
      /\ AllStopped' = AllStopped
      /\ \A z \in Zone : Active(z)' = Active(z)
  BY <1>1, <1>2 DEF TrafficQuiet, WorkersQuiet, AllStopped, Active
<1>5. Rests'
  <2>1. step' = "off" \/ step # "off" \/ (Start /\ step = "off")
    BY DEF Start, ReadTables, ReadCounters, Report, AuditAgain, allVars, auditVars
  <2>2. QED
    BY <1>1, <1>4, <2>1 DEF CourseInv, Rests, Start
<1>6. CASE Start
  BY <1>1, <1>3, <1>4, <1>5, <1>6
     DEF Start, CourseInv, AuditTyped, RepairsOnce, CountsFresh, DriftKnown
<1>7. CASE ReadTables
  <2>1. /\ active' = [z \in Zone |-> Cardinality(Active(z))] /\ step' = "counters"
        /\ UNCHANGED <<drift, repaired, mended>>
    BY <1>7 DEF ReadTables
  <2>2. active' \in [Zone -> Nat]
    BY <2>1, CountIsNat DEF CourseInv, Loose
  <2>3. QED
    BY <1>1, <1>3, <1>4, <1>5, <2>1, <2>2
       DEF CourseInv, AuditTyped, RepairsOnce, CountsFresh, DriftKnown
<1>8. CASE ReadCounters
  <2>1. /\ drift' = {z \in Zone : booked[z] # active[z]}
        /\ step' \in {"tables", "report"} /\ active' = active /\ step = "counters"
        /\ UNCHANGED <<repaired, mended>>
    BY <1>8 DEF ReadCounters
  <2>2. QED
    BY <1>1, <1>2, <1>3, <1>4, <1>5, <2>1
       DEF CourseInv, AuditTyped, RepairsOnce, CountsFresh, DriftKnown
<1>9. CASE Report
  <2>1. /\ step = "report" /\ step' \in {"repair", "off"} /\ (step' = "repair" => conduct.repair /\ ~repaired)
        /\ UNCHANGED <<active, drift, repaired, mended>>
    BY <1>9 DEF Report
  <2>2. QED
    BY <1>1, <1>2, <1>3, <1>4, <1>5, <2>1
       DEF CourseInv, AuditTyped, RepairsOnce, CountsFresh, DriftKnown
<1>10. CASE AuditAgain
  BY <1>1, <1>3, <1>4, <1>5, <1>10
     DEF AuditAgain, CourseInv, AuditTyped, RepairsOnce, CountsFresh, DriftKnown
<1>11. CASE UNCHANGED allVars
  <2>1. UNCHANGED <<step, active, drift, repaired, mended>>
    BY <1>11 DEF allVars, auditVars
  <2>2. QED
    BY <1>1, <1>2, <1>3, <1>4, <1>5, <2>1
       DEF CourseInv, AuditTyped, RepairsOnce, CountsFresh, DriftKnown
<1>12. QED
  BY <1>6, <1>7, <1>8, <1>9, <1>10, <1>11

\* A repair leaves everything but one counter as it was.
LEMMA RepairSets ==
    ASSUME AuditTyped, TypeOK, Repair
    PROVE  /\ TypeOK'
           /\ UNCHANGED <<body, pc, reserved, order, tickets, payments, outbox, at, holds, owed, slow>>
           /\ UNCHANGED <<conduct, step, active, failing, repaired, mended>>
           /\ \A y \in Zone : Claims(y)' = Claims(y) /\ Active(y)' = Active(y)
           /\ \E z \in drift : /\ drift' = drift \ {z}
                               /\ \A y \in Zone : booked'[y] = IF y = z THEN active[y] ELSE booked[y]
<1>1. PICK z \in drift : booked' = [booked EXCEPT ![z] = active[z]] /\ drift' = drift \ {z}
  BY DEF Repair
<1>2. /\ UNCHANGED <<body, requestVars, pgVars, agentVars, faults>>
      /\ UNCHANGED <<conduct, step, active, failing, repaired, mended>>
  BY DEF Repair
<1>3. /\ UNCHANGED <<pc, reserved, code, given, order, overdue, tickets, payments, outbox, at, holds, owed, slow>>
      /\ body' = body
  BY <1>2 DEF requestVars, pgVars, agentVars
<1>4. z \in Zone /\ active \in [Zone -> Nat] /\ booked \in [Zone -> Int]
  BY <1>1 DEF AuditTyped, TypeOK
<1>5. TypeOK'
  BY <1>1, <1>2, <1>3, <1>4 DEF TypeOK
<1>6. \A y \in Zone : Claims(y)' = Claims(y) /\ Active(y)' = Active(y)
  BY <1>3 DEF Claims, Active, InFlight, OwedIn, TicketsIn
<1>7. \A y \in Zone : booked'[y] = IF y = z THEN active[y] ELSE booked[y]
  BY <1>1, <1>4
<1>8. QED
  BY <1>1, <1>2, <1>3, <1>5, <1>6, <1>7

\* A repair keeps the course of the audit.
LEMMA RepairCourse ==
    ASSUME CourseInv, Repair
    PROVE  CourseInv'
<1>1. /\ TypeOK'
      /\ UNCHANGED <<body, pc, reserved, order, tickets, payments, outbox, at, holds, owed, slow>>
      /\ UNCHANGED <<conduct, step, active, failing, repaired, mended>>
      /\ \A y \in Zone : Claims(y)' = Claims(y) /\ Active(y)' = Active(y)
  BY RepairSets DEF CourseInv, Loose
<1>2. PICK z \in drift : /\ drift' = drift \ {z}
                         /\ \A y \in Zone : booked'[y] = IF y = z THEN active[y] ELSE booked[y]
  BY RepairSets DEF CourseInv, Loose
<1>3. Loose'
  BY <1>1 DEF CourseInv, Loose
<1>4. AuditTyped' /\ RepairsOnce'
  BY <1>1, <1>2 DEF CourseInv, AuditTyped, RepairsOnce
<1>5. Rests'
  BY <1>1 DEF CourseInv, Rests, TrafficQuiet, WorkersQuiet
<1>6. CountsFresh' /\ DriftKnown'
  BY <1>1, <1>2 DEF CourseInv, CountsFresh, DriftKnown, AllStopped
<1>7. QED
  BY <1>3, <1>4, <1>5, <1>6 DEF CourseInv

\* The course of the audit holds whatever runs beside it, whatever is lost.
LEMMA CourseHolds == AuditSpec => []CourseInv
<1>1. AuditInit => CourseInv
  <2> SUFFICES ASSUME AuditInit PROVE CourseInv
    OBVIOUS
  <2>1. Inv
    BY InvInit DEF AuditInit
  <2>2. Loose
    BY <2>1 DEF AuditInit, Init, Inv, Loose
  <2>3. QED
    BY <2>2 DEF AuditInit, CourseInv, AuditTyped, Rests, RepairsOnce, CountsFresh, DriftKnown
<1>2. CourseInv /\ [AuditNext]_allVars => CourseInv'
  BY SystemCourse, ReadCourse, RepairCourse DEF AuditNext, AuditStep
<1>3. QED
  BY <1>1, <1>2, PTL DEF AuditSpec

\* An audit that is not asked to repair changes nothing of the booking: beside it the
\* booking is Booking, whatever is read when.
THEOREM AuditOnlyLooks ==
    ASSUME \A c \in Conduct : ~ c.repair
    PROVE  AuditSpec => Spec
<1>1. AuditInit => Init
  BY DEF AuditInit
<1>2. CourseInv /\ [AuditNext]_allVars => [Next]_vars
  <2> SUFFICES ASSUME CourseInv, [AuditNext]_allVars PROVE [Next]_vars
    OBVIOUS
  <2>1. ~ Repair
    BY DEF Repair, CourseInv, AuditTyped, RepairsOnce
  <2>2. CASE SystemStep
    BY <2>2, SystemIsBooking
  <2>3. CASE UNCHANGED vars
    BY <2>3
  <2>4. QED
    BY <2>1, <2>2, <2>3 DEF AuditNext, AuditStep, Start, ReadTables, ReadCounters, Report, AuditAgain, allVars
<1>3. QED
  BY <1>1, <1>2, CourseHolds, PTL DEF AuditSpec, Spec

----------------------------------------------------------------------------
(* A repair lasts.                                                          *)

\* When the last zone of a resting system is repaired every counter is exact.
LEMMA RepairEnds ==
    ASSUME CourseInv, AllStopped, AuditAgain, \A z \in Zone : Prebooked[z] = 0
    PROVE  Covered' /\ NoDrift'
<1>1. /\ drift = {} /\ TrafficQuiet /\ WorkersQuiet /\ Loose
      /\ \A z \in Zone : active[z] = Cardinality(Active(z)) /\ booked[z] = active[z]
  BY DEF CourseInv, AuditAgain, Rests, CountsFresh, DriftKnown, AllStopped
<1>2. \A z \in Zone : /\ booked[z] \in Int /\ Cardinality(Claims(z)) \in Nat
                      /\ Prebooked[z] + Cardinality(Claims(z)) = booked[z]
  BY <1>1, QuietClaims, CountIsNat DEF Loose
<1>3. CounterCoversSeats /\ NoDrift
  BY <1>2, CatalogAssumption DEF CounterCoversSeats, NoDrift
<1>4. \A a \in Agent : holds[a] = {} /\ owed[a] = {} /\ slow[a] = {}
  BY <1>1 DEF Loose, TrafficQuiet, WorkersQuiet, Agent
<1>5. RequestsOpen /\ RowsLocked /\ OwedOnce
  BY <1>1, <1>4 DEF Loose, TrafficQuiet, RequestsOpen, RowsLocked, OwedOnce
<1>6. Covered
  BY <1>1, <1>3, <1>5 DEF Covered, Loose
<1>7. UNCHANGED vars
  BY DEF AuditAgain
<1>8. Covered'
  BY <1>6, <1>7, CoveredStep DEF vars
<1>9. UNCHANGED <<body, reserved, booked, tickets, owed>>
  BY <1>7 DEF vars, requestVars, pgVars, agentVars
<1>10. NoDrift'
  BY <1>3, <1>6, <1>9, DriftQuiet DEF Covered
<1>11. QED
  BY <1>8, <1>10

\* What was repaired stays repaired until the next fault.
LEMMA MendedStep ==
    ASSUME CourseInv, StaysMended, [AuditNext]_allVars, \A z \in Zone : Prebooked[z] = 0
    PROVE  StaysMended'
<1> SUFFICES ASSUME mended', AllStopped' PROVE Covered' /\ NoDrift'
  BY DEF StaysMended
<1>1. conduct' = conduct
  BY DEF AuditNext, AuditStep, Start, ReadTables, ReadCounters, Report, Repair, AuditAgain, SystemStep,
     allVars, auditVars
<1>2. AllStopped
  BY <1>1 DEF AllStopped
<1>3. CASE SystemStep
  <2>1. mended /\ faults' = faults /\ Next
    BY <1>3, SystemIsBooking DEF SystemStep
  <2>2. Covered /\ NoDrift
    BY <1>2, <2>1 DEF StaysMended
  <2>3. QED
    BY <2>1, <2>2, CoveredStep, DriftStep
<1>4. CASE Start \/ ReadTables \/ ReadCounters \/ Report \/ UNCHANGED allVars
  <2>1. mended' = mended /\ UNCHANGED vars
    BY <1>4 DEF Start, ReadTables, ReadCounters, Report, allVars, auditVars
  <2>2. Covered /\ NoDrift
    BY <1>2, <2>1 DEF StaysMended
  <2>3. faults' = faults
    BY <2>1 DEF vars
  <2>4. QED
    BY <2>1, <2>2, <2>3, CoveredStep, DriftStep
<1>5. CASE Repair
  <2>1. mended' = mended /\ ~mended
    BY <1>5 DEF Repair, CourseInv, RepairsOnce
  <2>2. QED
    BY <2>1
<1>6. CASE AuditAgain
  BY <1>2, <1>6, RepairEnds
<1>7. QED
  BY <1>3, <1>4, <1>5, <1>6 DEF AuditNext, AuditStep

\* A repair with everything stopped makes every counter exact, also where a misread
\* COMMIT had left one too low, and it stays exact until the next fault, when traffic
\* and workers run again, too; whatever else operators may do elsewhere.
THEOREM RepairsLast ==
    ASSUME \A z \in Zone : Prebooked[z] = 0
    PROVE  AuditSpec => []RepairLasts
<1>1. AuditInit => StaysMended
  BY DEF AuditInit, StaysMended
<1>2. CourseInv /\ StaysMended /\ [AuditNext]_allVars => StaysMended'
  BY MendedStep
<1>3. StaysMended => RepairLasts
  <2> SUFFICES ASSUME Covered, NoDrift, NEW z \in Zone
      PROVE booked[z] = Prebooked[z] + Cardinality(Claims(z))
    BY DEF RepairLasts, StaysMended, AllStopped
  <2>1. /\ Prebooked[z] + Cardinality(Claims(z)) <= booked[z]
        /\ booked[z] <= Prebooked[z] + Cardinality(Claims(z))
    BY DEF Covered, CounterCoversSeats, NoDrift
  <2>2. booked[z] \in Int /\ Prebooked[z] \in Nat /\ Cardinality(Claims(z)) \in Nat
    <3>1. IsFiniteSet(Claims(z))
      BY ClaimsFinite DEF Covered
    <3>2. QED
      BY <3>1, FS_CardinalityType, CatalogAssumption DEF Covered, TypeOK
  <2>3. QED
    BY <2>1, <2>2
<1>4. QED
  BY <1>1, <1>2, <1>3, CourseHolds, PTL DEF AuditSpec

----------------------------------------------------------------------------
(* No false alarm, where no COMMIT is misread.                              *)

\* A sound set of tables passes every check.
LEMMA TablesPass ==
    ASSUME Sound
    PROVE  PgChecks = {}
<1>1. \A r \in Request :
        /\ order[r] \in OrderStatus /\ body[r].lines \subseteq Line
        /\ order[r] = "none" => payments[r] = 0 /\ \A l \in Line : tickets[r][l] = "none"
        /\ order[r] = "pending" => payments[r] = 0 /\ Lines(r, "held")
        /\ order[r] = "confirmed" => payments[r] = 1 /\ Lines(r, "valid")
        /\ order[r] = "expired" => payments[r] = 0 /\ Lines(r, "cancelled")
  BY PayloadAssumption DEF Sound, Inv, TypeOK, LedgerAgrees, OrderStatus
<1>2. DuplicateActiveSeats = {}
  <2> SUFFICES ASSUME NEW t \in DuplicateActiveSeats PROVE FALSE
    OBVIOUS
  <2> DEFINE z == ZoneOf[t[2]]
  <2>1. t \in Tix /\ t \in Active(z)
    BY DEF DuplicateActiveSeats
  <2>2. PICK u \in Active(z) \ {t} : SeatOf[t[2]] = SeatOf[u[2]] /\ SeatOf[u[2]] # NoSeat
    BY DEF DuplicateActiveSeats
  <2>3. z \in Zone
    <3>1. z \in Zone \cup {NoZone}
      BY <2>1, CatalogAssumption DEF Tix
    <3>2. t[1] \in Request /\ t[2] \in Line /\ tickets[t[1]][t[2]] \in {"held", "valid"}
      BY <2>1 DEF Active, Tix
    <3>3. order[t[1]] # "none" /\ t[2] \in body[t[1]].lines
      BY <1>1, <3>2 DEF Lines, OrderStatus
    <3>4. z # NoZone
      BY <3>2, <3>3 DEF Sound, ZonesKnown, Valid
    <3>5. QED
      BY <3>1, <3>4
  <2>4. QED
    BY <2>1, <2>2, <2>3 DEF Sound, SeatSoldOnce
<1>3. DoubleCharged = {} /\ AmountMismatch = {}
  BY <1>1 DEF DoubleCharged, AmountMismatch, OrderStatus
<1>4. ConfirmedUnpaid = {}
  BY <1>1 DEF ConfirmedUnpaid
<1>5. DeadWithSeats = {} /\ StateMismatch = {}
  BY <1>1 DEF DeadWithSeats, StateMismatch, HasTicket, Lines
<1>6. TotalMismatch = {}
  BY <1>1 DEF TotalMismatch, Lines, OrderStatus
<1>7. QED
  BY <1>2, <1>3, <1>4, <1>5, <1>6 DEF PgChecks

\* Counters in range and counts within the capacity can only differ.
LEMMA CountersPass ==
    ASSUME Inv, AuditTyped, CountsFit
    PROVE  InventoryChecks \subseteq {"below", "above"}
<1>1. \A z \in Zone : /\ booked[z] \in Int /\ Capacity[z] \in Nat /\ active[z] \in Nat
                      /\ 0 <= booked[z] /\ booked[z] <= Capacity[z] /\ active[z] <= Capacity[z]
  BY CounterBounds DEF Inv, CounterInRange, AuditTyped, CountsFit
<1>2. SUFFICES ASSUME NEW c \in InventoryChecks PROVE c \in {"below", "above"}
  OBVIOUS
<1>3. c \in {"negative", "over", "oversold", "below", "above"}
  BY DEF InventoryChecks
<1>4. ASSUME c = "negative" PROVE FALSE
  BY <1>1, <1>4 DEF InventoryChecks
<1>5. ASSUME c = "over" PROVE FALSE
  BY <1>1, <1>5 DEF InventoryChecks
<1>6. ASSUME c = "oversold" PROVE FALSE
  BY <1>1, <1>6 DEF InventoryChecks
<1>7. QED
  BY <1>3, <1>4, <1>5, <1>6

\* No zone has more held and valid tickets than seats when the audit counts them.
LEMMA CountsWithin ==
    ASSUME Inv, NEW z \in Zone
    PROVE  Cardinality(Active(z)) <= Capacity[z]
BY SoldWithin DEF NoOversell

\* A step of Booking that lets a request go on has checked its zones.
LEMMA ZonesStep ==
    ASSUME LostAck = FALSE, Inv, ZonesKnown, [Next]_vars
    PROVE  ZonesKnown'
<1>1. body' = body
  BY OrderWritten
<1>2. \A r \in Request : Valid(r)' = Valid(r)
  BY <1>1 DEF Valid
<1>3. ASSUME NEW r \in Request, order'[r] # "none", order[r] = "none" PROVE Valid(r)
  <2>1. Commit(r)
    BY <1>3, OrderWritten
  <2>2. QED
    BY <2>1 DEF ZonesKnown, Commit, Reserved
<1>4. ASSUME NEW r \in Request, pc'[r] \in {"reserve", "release"}, pc[r] \notin {"reserve", "release"}
      PROVE  Valid(r)
  <2>1. ~ UNCHANGED pc
    BY <1>4
  <2>2. PICK q \in Request : RequestStep(q) \/ RequestFault(q)
    BY <2>1 DEF Next, vars, requestVars, HoldElapses, PayerStep, PayAborts, GiveBackFault, GiveBackStep, GiveBack,
       GiveBackOne, Released, GiveBackFails, ReleaseDies, PayRefused, PayLock, PayCommit, PayExpire, ExpireHeld,
       Abort, SweeperStep, SweepAborts, SweepClaim, SweepNothing, SweepCommit
  <2>3. pc \in [Request -> RequestPC] /\ pc'[r] # pc[r]
    BY <1>4 DEF Inv, TypeOK
  <2>4. CASE Accept(q)
    BY <2>3, <2>4 DEF Accept
  <2>5. CASE Replay(q) \/ Refuse(q) \/ Commit(q) \/ AnswerFailure(q)
    <3>1. pc' = [pc EXCEPT ![q] = "done"]
      BY <2>5 DEF Replay, Refuse, Commit, AnswerFailure, Answer
    <3>2. QED
      BY <1>4, <2>3, <3>1
  <2>6. CASE Crash(q)
    BY <1>4, <2>3, <2>6 DEF Crash
  <2>7. CASE (\E z \in Zone : SoldOut(q, z) \/ ReserveFails(q, z)) \/ Conflict(q) \/ PgFails(q)
    <3>1. pc[q] = "reserve" /\ pc' = [pc EXCEPT ![q] = "release"]
      BY <2>7 DEF SoldOut, ReserveFails, Conflict, PgFails, Reserved, Compensate
    <3>2. QED
      BY <1>4, <2>3, <3>1
  <2>8. CASE \E z \in Zone : Reserve(q, z) \/ ReleaseReservation(q, z)
    BY <2>1, <2>8 DEF Reserve, ReleaseReservation
  <2>9. QED
    BY <2>2, <2>4, <2>5, <2>6, <2>7, <2>8 DEF RequestStep, RequestFault, CommitAckLost
<1>5. QED
  BY <1>2, <1>3, <1>4 DEF ZonesKnown

\* A step of Booking keeps what the booking keeps to.
LEMMA SoundStays ==
    ASSUME LostAck = FALSE, Sound, [Next]_vars
    PROVE  Sound'
BY InvStep, TablesStep, SeatStep, ZonesStep DEF Sound

\* Setting a counter to the tickets counted, while everything rests, covers them.
LEMMA RepairIsSound ==
    ASSUME CourseInv, Careful, Sound, CountsFit, Repair
    PROVE  Sound'
<1>1. /\ TypeOK'
      /\ UNCHANGED <<body, pc, reserved, order, tickets, payments, outbox, at, holds, owed, slow>>
      /\ \A y \in Zone : Claims(y)' = Claims(y) /\ Active(y)' = Active(y)
  BY RepairSets DEF CourseInv, Loose
<1>2. PICK z \in drift : \A y \in Zone : booked'[y] = IF y = z THEN active[y] ELSE booked[y]
  BY RepairSets DEF CourseInv, Loose
<1>3. /\ \A y \in Zone : Prebooked[y] = 0 /\ active[y] \in Nat /\ active[y] = Cardinality(Active(y))
      /\ TrafficQuiet /\ WorkersQuiet
  BY DEF CourseInv, Careful, Repair, RepairsOnce, Rests, CountsFresh, AllStopped, AuditTyped
<1>4. CounterCoversSeats'
  <2> SUFFICES ASSUME NEW y \in Zone PROVE Prebooked[y] + Cardinality(Claims(y)) <= booked'[y]
    BY <1>1 DEF CounterCoversSeats
  <2>1. CASE y = z
    <3>1. Cardinality(Claims(y)) = active[y]
      BY <1>3, QuietClaims DEF CourseInv
    <3>2. QED
      BY <1>2, <1>3, <2>1, <3>1
  <2>2. CASE y # z
    BY <1>2, <2>2 DEF Sound, Inv, CounterCoversSeats
  <2>3. QED
    BY <2>1, <2>2
<1>5. CounterInRange'
  BY <1>2, <1>3, CatalogAssumption DEF Sound, Inv, CounterInRange, CountsFit
<1>6. RequestsOpen' /\ RowsLocked' /\ OwedOnce'
  <2>1. RequestsOpen /\ RowsLocked /\ OwedOnce
    BY DEF Sound, Inv
  <2>2. RequestsOpen'
    BY <1>1, <2>1 DEF RequestsOpen
  <2>3. RowsLocked'
    <3>1. UNCHANGED overdue
      BY DEF Repair, pgVars
    <3>2. QED
      BY <1>1, <2>1, <3>1 DEF RowsLocked
  <2>4. OwedOnce'
    BY <1>1, <2>1 DEF OwedOnce
  <2>5. QED
    BY <2>2, <2>3, <2>4
<1>7. Inv'
  BY <1>1, <1>4, <1>5, <1>6 DEF Inv
<1>8. LedgerAgrees' /\ OutboxTellsHistory'
  BY <1>1 DEF Sound, LedgerAgrees, OutboxTellsHistory, Lines
<1>9. SeatSoldOnce'
  BY <1>1 DEF Sound, SeatSoldOnce
<1>10. ZonesKnown'
  BY <1>1 DEF Sound, ZonesKnown, Valid
<1>11. QED
  BY <1>7, <1>8, <1>9, <1>10 DEF Sound

\* What is reported of a resting system stays true while it rests.
LEMMA ReportStays ==
    ASSUME CourseInv, DriftIsThere, SystemStep
    PROVE  DriftIsThere'
<1>1. UNCHANGED <<conduct, step, failing>>
  BY SystemIsBooking
<1>2. SUFFICES ASSUME AllStopped, step = "report" PROVE DriftIsThere'
  BY <1>1 DEF DriftIsThere, AllStopped
<1>3. UNCHANGED <<tickets, booked>>
  BY <1>2, StoppedStays
<1>4. \A z \in Zone : Active(z)' = Active(z)
  BY <1>3 DEF Active
<1> QED
  BY <1>1, <1>3, <1>4 DEF DriftIsThere

\* Drift is reported for zones where the counter and the tickets differ.
LEMMA ReportIsRead ==
    ASSUME CourseInv, TablesFirst, ReadCounters
    PROVE  DriftIsThere'
<1>1. SUFFICES ASSUME step' = "report", AllStopped PROVE DriftIsThere'
  BY DEF ReadCounters, DriftIsThere, AllStopped
<1>2. failing' = InventoryChecks /\ UNCHANGED <<booked, tickets>>
  BY DEF ReadCounters, TablesFirst, vars, pgVars
<1>3. \A z \in Zone : active[z] = Cardinality(Active(z)) /\ Active(z)' = Active(z)
  BY <1>1, <1>2 DEF ReadCounters, CourseInv, CountsFresh, Active
<1>4. ("below" \in InventoryChecks) <=> \E z \in Zone : booked[z] < active[z]
  BY DEF InventoryChecks
<1>5. ("above" \in InventoryChecks) <=> \E z \in Zone : booked[z] > active[z]
  BY DEF InventoryChecks
<1> QED
  BY <1>2, <1>3, <1>4, <1>5 DEF DriftIsThere

\* The audit raises no false alarm whatever runs beside it.
LEMMA AlarmStep ==
    ASSUME LostAck = FALSE, CourseInv, Careful, AlarmInv, [AuditNext]_allVars
    PROVE  AlarmInv'
<1>1. CASE SystemStep
  <2>1. [Next]_vars /\ UNCHANGED <<active, failing, step>>
    BY <1>1, SystemIsBooking
  <2>2. Sound' /\ CountsFit' /\ TablesFirst' /\ OnlyDrift'
    BY <2>1, SoundStays DEF AlarmInv, CountsFit, TablesFirst, NoFalseAlarm, OnlyDrift
  <2>3. DriftIsThere'
    BY <1>1, ReportStays DEF AlarmInv, NoFalseAlarm
  <2>4. QED
    BY <2>2, <2>3 DEF AlarmInv, NoFalseAlarm
<1>2. CASE Start \/ Report \/ AuditAgain
  <2>1. [Next]_vars /\ UNCHANGED <<active, failing>> /\ step' \notin {"counters", "report"}
    BY <1>2 DEF Start, Report, AuditAgain
  <2>2. QED
    BY <2>1, SoundStays DEF AlarmInv, CountsFit, TablesFirst, NoFalseAlarm, OnlyDrift, DriftIsThere
<1>3. CASE UNCHANGED allVars
  <2>1. UNCHANGED <<vars, conduct, step, active, failing>> /\ UNCHANGED <<booked, tickets>>
    BY <1>3 DEF allVars, auditVars, vars, pgVars
  <2>2. \A z \in Zone : Active(z)' = Active(z)
    BY <2>1 DEF Active
  <2>3. QED
    BY <2>1, <2>2, SoundStays DEF AlarmInv, CountsFit, TablesFirst, NoFalseAlarm, OnlyDrift, DriftIsThere
<1>4. CASE ReadTables
  <2>1. /\ active' = [z \in Zone |-> Cardinality(Active(z))] /\ failing' = {} /\ UNCHANGED vars
        /\ step' = "counters"
    BY <1>4, TablesPass DEF ReadTables, AlarmInv
  <2>2. CountsFit'
    BY <2>1, CountsWithin DEF AlarmInv, Sound, CountsFit
  <2>3. QED
    BY <2>1, <2>2, SoundStays DEF AlarmInv, TablesFirst, NoFalseAlarm, OnlyDrift, DriftIsThere
<1>5. CASE ReadCounters
  <2>1. failing' = failing \cup InventoryChecks /\ active' = active /\ UNCHANGED vars /\ step' # "counters"
    BY <1>5 DEF ReadCounters
  <2>2. InventoryChecks \subseteq {"below", "above"}
    BY CountersPass DEF CourseInv, AlarmInv, Sound
  <2>3. DriftIsThere'
    BY <1>5, ReportIsRead DEF AlarmInv
  <2>4. QED
    BY <2>1, <2>2, <2>3, SoundStays DEF AlarmInv, CountsFit, TablesFirst, NoFalseAlarm, OnlyDrift
<1>6. CASE Repair
  <2>1. UNCHANGED <<active, failing, step>> /\ step = "repair"
    BY <1>6 DEF Repair
  <2>2. QED
    BY <1>6, <2>1, RepairIsSound DEF AlarmInv, CountsFit, TablesFirst, NoFalseAlarm, OnlyDrift, DriftIsThere
<1>7. QED
  BY <1>1, <1>2, <1>3, <1>4, <1>5, <1>6 DEF AuditNext, AuditStep

LEMMA AlarmsHold ==
    ASSUME LostAck = FALSE,
           \A c \in Conduct : c.repair =>
               c.stopTraffic /\ c.stopWorkers /\ \A z \in Zone : Prebooked[z] = 0
    PROVE  AuditSpec => [](Careful /\ AlarmInv)
<1>1. AuditInit => Careful
  BY DEF AuditInit, Careful, AllStopped
<1>2. Careful /\ [AuditNext]_allVars => Careful'
  BY DEF Careful, AllStopped, AuditNext, AuditStep, Start, ReadTables, ReadCounters, Report, Repair, AuditAgain,
     SystemStep, allVars, auditVars
<1>3. AuditInit => AlarmInv
  <2> SUFFICES ASSUME AuditInit PROVE AlarmInv
    OBVIOUS
  <2>1. Inv
    BY InvInit DEF AuditInit
  <2>2. Sound
    BY <2>1 DEF AuditInit, Init, Sound, LedgerAgrees, OutboxTellsHistory, SeatSoldOnce, Active, Tix, ZonesKnown
  <2>3. CountsFit /\ TablesFirst /\ NoFalseAlarm
    BY CatalogAssumption DEF AuditInit, CountsFit, TablesFirst, NoFalseAlarm, OnlyDrift, DriftIsThere
  <2>4. QED
    BY <2>2, <2>3 DEF AlarmInv
<1>4. CourseInv /\ Careful /\ AlarmInv /\ [AuditNext]_allVars => AlarmInv'
  BY AlarmStep
<1>5. QED
  BY <1>1, <1>2, <1>3, <1>4, CourseHolds, PTL DEF AuditSpec

\* No check but the drift of a counter ever fails, however the audit interleaves
\* with orders, payments, workers and their crashes, and the drift an audit reports with
\* everything stopped is there; when repairs are only made while everything is stopped
\* and on a catalog that began with no seats booked.
THEOREM AlarmsAreTrue ==
    ASSUME LostAck = FALSE,
           \A c \in Conduct : c.repair =>
               c.stopTraffic /\ c.stopWorkers /\ \A z \in Zone : Prebooked[z] = 0
    PROVE  AuditSpec => []NoFalseAlarm
<1>1. AlarmInv => NoFalseAlarm
  BY DEF AlarmInv
<1>2. QED
  BY <1>1, AlarmsHold, PTL

\* Under the same conditions a repair does the sale no harm: before, beside and after
\* it no seat is sold twice and no zone oversold, and the booking implements SeatSale.
THEOREM RepairsKeepSale ==
    ASSUME LostAck = FALSE,
           \A c \in Conduct : c.repair =>
               c.stopTraffic /\ c.stopWorkers /\ \A z \in Zone : Prebooked[z] = 0
    PROVE  AuditSpec => ImplementsSale /\ []NoOversell
<1>1. AuditInit => PaysOne /\ Sale!SaleInit
  BY DEF AuditInit, Init, PaysOne, Sale!SaleInit, SeatsHeld
<1>2. AlarmInv /\ PaysOne /\ [AuditNext]_allVars => PaysOne' /\ [Sale!SaleNext]_Sale!saleVars
  <2> SUFFICES ASSUME AlarmInv, PaysOne, [AuditNext]_allVars
               PROVE  PaysOne' /\ [Sale!SaleNext]_Sale!saleVars
    OBVIOUS
  <2>1. Inv /\ LedgerAgrees
    BY DEF AlarmInv, Sound
  <2>2. CASE SystemStep
    BY <2>1, <2>2, SystemIsBooking, PaysOneStep, StepIsSale DEF Inv
  <2>3. CASE ~ SystemStep
    <3>1. UNCHANGED <<order, tickets, payments, at, holds>>
      BY <2>3 DEF AuditNext, AuditStep, Start, ReadTables, ReadCounters, Report, Repair, AuditAgain, allVars,
         vars, pgVars, agentVars
    <3>2. QED
      BY <3>1, TablesQuiet DEF PaysOne
  <2>4. QED
    BY <2>2, <2>3
<1>3. AlarmInv => NoOversell
  BY SoldWithin DEF AlarmInv, Sound
<1>4. QED
  BY <1>1, <1>2, <1>3, AlarmsHold, PTL DEF AuditSpec, ImplementsSale, Sale!SaleSpec
=============================================================================
