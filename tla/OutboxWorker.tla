---------------------------- MODULE OutboxWorker ----------------------------
(***************************************************************************)
(* The background worker of every API replica (run_worker_cycle), over the *)
(* orders of Booking: expire overdue holds, mark pending outbox rows as    *)
(* processed, delete processed rows that are old.  Each of the three steps *)
(* works in batches, skips rows another worker has locked, and may fail    *)
(* without stopping the next one.                                          *)
(***************************************************************************)
EXTENDS Booking

CONSTANTS
    MarkBatch,  \* OUTBOX_BATCH_SIZE
    PurgeBatch  \* batch_size of purge_processed_outbox_events

ASSUME BatchAssumption == MarkBatch \in Nat \ {0} /\ PurgeBatch \in Nat \ {0}

VARIABLES
    phase,   \* phase[s]: the step of run_worker_cycle worker s is in
    locked,  \* locked[s]: outbox rows of the open statement of s
    handled, \* handled[e]: how many times row e was marked processed
    old,     \* rows created more than OUTBOX_RETENTION_DAYS ago
    purged   \* rows deleted

outboxVars == <<phase, locked, handled, old, purged>>
workerVars == <<vars, outboxVars>>

\* An outbox row, named by its order and its place in the order's history: an
\* order publishes at most twice (OutboxTellsHistory).
Row == Request \X (1..2)

Written == {e \in Row : e[2] <= Len(outbox[e[1]])}
Pending == {e \in Written \ purged : handled[e] = 0}
Processed == {e \in Written \ purged : handled[e] > 0}

\* Mutant: rows locked by another worker are not skipped.
UnlockedOrNot(e) == TRUE

Unlocked(e) == \A s \in Sweeper : e \notin locked[s]

WorkerInit ==
    /\ Init
    /\ phase = [s \in Sweeper |-> "holds"]
    /\ locked = [s \in Sweeper |-> {}]
    /\ handled = [e \in Row |-> 0]
    /\ old = {}
    /\ purged = {}

----------------------------------------------------------------------------
(* run_worker_cycle                                                        *)

GoTo(s, ph) == phase' = [phase EXCEPT ![s] = ph]

\* The step after the one in progress; purging ends the cycle.
After(s) == IF phase[s] = "mark" THEN "purge" ELSE "holds"

\* cleanup_expired_seat_holds returns when nothing is claimed, and after a batch
\* may go on or return (it was short, the last allowed one, or it failed).
HoldsAdvance(s) ==
    /\ IF at[s] = "idle" /\ at'[s] = "idle" THEN GoTo(s, "mark")
       ELSE \E ph \in {"holds", "mark"} : (at'[s] = "idle" \/ ph = "holds") /\ GoTo(s, ph)
    /\ UNCHANGED <<locked, handled, old, purged>>

SweepHolds(s) == phase[s] = "holds" /\ SweeperStep(s) /\ HoldsAdvance(s)

HoldsFault(s) ==
    /\ phase[s] = "holds"
    /\ SweepAborts(s) \/ GiveBackFault(s, "idle")
    /\ HoldsAdvance(s)

\* SELECT ... LIMIT n FOR UPDATE SKIP LOCKED among the rows of S, inside an UPDATE
\* or a DELETE; a statement that finds no row ends the step.
LockRows(s, S, n) ==
    /\ locked[s] = {}
    /\ \E E \in SUBSET {e \in S : Unlocked(e)} :
          /\ Cardinality(E) <= n
          /\ Cardinality(E) < n => E = {e \in S : Unlocked(e)}
          /\ locked' = [locked EXCEPT ![s] = E]
          /\ GoTo(s, IF E = {} THEN After(s) ELSE phase[s])
    /\ UNCHANGED <<vars, handled, old, purged>>

\* COMMIT.  A short batch ends the step; a full one may be the last allowed.
Committed(s, n) ==
    /\ locked' = [locked EXCEPT ![s] = {}]
    /\ \E ph \in {phase[s], After(s)} :
          (Cardinality(locked[s]) < n => ph = After(s)) /\ GoTo(s, ph)
    /\ UNCHANGED <<vars, old>>

MarkPending(s) == phase[s] = "mark" /\ LockRows(s, Pending, MarkBatch)

MarkCommit(s) ==
    /\ phase[s] = "mark"
    /\ locked[s] # {}
    /\ handled' = [e \in Row |-> IF e \in locked[s] THEN handled[e] + 1 ELSE handled[e]]
    /\ UNCHANGED purged
    /\ Committed(s, MarkBatch)

PurgeOld(s) == phase[s] = "purge" /\ LockRows(s, Processed \cap old, PurgeBatch)

PurgeCommit(s) ==
    /\ phase[s] = "purge"
    /\ locked[s] # {}
    /\ purged' = purged \cup locked[s]
    /\ UNCHANGED handled
    /\ Committed(s, PurgeBatch)

\* Mutant: no except around the steps, the loop ends with the first exception.
StatementFailsForGood(s) ==
    /\ phase[s] \in {"mark", "purge"}
    /\ Fault
    /\ locked' = [locked EXCEPT ![s] = {}]
    /\ GoTo(s, "stopped")
    /\ UNCHANGED <<body, requestVars, booked, pgVars, agentVars, handled, old, purged>>

\* A statement fails, the step is rolled back and the next one runs; or the
\* replica dies and its worker begins a new cycle.
StatementFails(s) ==
    /\ phase[s] \in {"mark", "purge"}
    /\ Fault
    /\ locked' = [locked EXCEPT ![s] = {}]
    /\ \E ph \in {After(s), "holds"} : GoTo(s, ph)
    /\ UNCHANGED <<body, requestVars, booked, pgVars, agentVars, handled, old, purged>>

\* The clock: a row passes the retention.
RowAges(e) ==
    /\ e \in Written \ old
    /\ old' = old \cup {e}
    /\ UNCHANGED <<vars, phase, locked, handled, purged>>

----------------------------------------------------------------------------
WorkerStep(s) ==
    \/ SweepHolds(s)
    \/ MarkPending(s) \/ MarkCommit(s)
    \/ PurgeOld(s) \/ PurgeCommit(s)

WorkerFault(s) == HoldsFault(s) \/ StatementFails(s)

\* Orders and payments of Booking go on meanwhile.
ClientStep ==
    /\ \/ \E r \in Request : RequestStep(r) \/ RequestFault(r) \/ HoldElapses(r)
       \/ \E p \in Payer : PayerStep(p) \/ PayAborts(p) \/ GiveBackFault(p, "done")
    /\ UNCHANGED outboxVars

WorkerNext ==
    \/ ClientStep
    \/ \E s \in Sweeper : WorkerStep(s) \/ WorkerFault(s)
    \/ \E e \in Row : RowAges(e)

WorkerSpec == WorkerInit /\ [][WorkerNext]_workerVars

\* As in Booking: handlers run, every worker ticks, the clock goes on.
WorkerFairness ==
    /\ \A r \in Request :
          /\ WF_workerVars(RequestStep(r) /\ UNCHANGED outboxVars)
          /\ WF_workerVars(HoldElapses(r) /\ UNCHANGED outboxVars)
    /\ \A p \in Payer : WF_workerVars(PayerStep(p) /\ UNCHANGED outboxVars)
    /\ \A s \in Sweeper : WF_workerVars(WorkerStep(s))
    /\ \A e \in Row : WF_workerVars(RowAges(e))

FairWorkerSpec == WorkerSpec /\ WorkerFairness

----------------------------------------------------------------------------
(* Properties.                                                             *)

\* Every outbox variable has its type.
WorkerTypeOK ==
    /\ phase \in [Sweeper -> {"holds", "mark", "purge"}]
    /\ locked \in [Sweeper -> SUBSET Row]
    /\ handled \in [Row -> Nat]
    /\ old \subseteq Row
    /\ purged \subseteq Row

\* However many replicas run the loop, no outbox row is handled twice, and none is
\* deleted before it was handled, however old (_MARK_PROCESSED_SQL, _PURGE_SQL).
HandledOnce ==
    \A e \in Row : handled[e] <= 1 /\ (e \in purged => handled[e] = 1)

\* What a worker has locked is still as it found it, and nobody else's.
RowsHeld ==
    /\ \A s, t \in Sweeper : s # t => locked[s] \cap locked[t] = {}
    /\ \A s \in Sweeper : \A e \in locked[s] :
          /\ phase[s] \in {"mark", "purge"}
          /\ e \notin purged
          /\ handled[e] = IF phase[s] = "mark" THEN 0 ELSE 1

\* The inductive invariant of HandledOnce.
WorkerInv == WorkerTypeOK /\ HandledOnce /\ RowsHeld

\* Every event is marked processed in the end, although batches are bounded, rows
\* locked by others are skipped and any step of a cycle can fail.
EventsHandled == \A e \in Row : e \in Written ~> handled[e] > 0

\* Claimed by the repository: network failures or crashes never leave the two
\* databases permanently out of sync.
CountersRecover ==
    \A z \in Zone : []<>(booked[z] = Prebooked[z] + Cardinality(Claims(z)))
=============================================================================
