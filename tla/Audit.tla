------------------------------- MODULE Audit -------------------------------
(***************************************************************************)
(* verify_consistency.py beside the booking system: the audit reads both   *)
(* databases while orders, payments and workers go on (or after they were  *)
(* stopped), reads again while it sees drift, and with --repair sets the   *)
(* counters that drifted to the ticket counts it read.                     *)
(***************************************************************************)
EXTENDS Booking

CONSTANTS
    Retries,      \* --retries
    Conduct       \* ways the operator goes about it: is --repair given, what is
                  \* stopped first, orders and payments or the workers, too

ASSUME AuditAssumption ==
    /\ Retries \in Nat
    /\ Conduct \subseteq [repair : BOOLEAN, stopTraffic : BOOLEAN, stopWorkers : BOOLEAN]

VARIABLES
    conduct,
    step,    \* where run_audit and main are
    attempt, \* re-reads so far
    active,  \* active[z]: ticket counts as read
    failing, \* names of the checks that failed
    drift,   \* zones whose counter and ticket count differ
    repaired, \* the audit runs again, after a repair
    mended   \* history: a repair has ended and nothing failed since

auditVars == <<conduct, step, attempt, active, failing, drift, repaired, mended>>
allVars == <<vars, auditVars>>

AuditInit ==
    /\ Init
    /\ conduct \in Conduct
    /\ step = "off"
    /\ attempt = 0
    /\ active = [z \in Zone |-> 0]
    /\ failing = {}
    /\ drift = {}
    /\ repaired = FALSE
    /\ mended = FALSE

----------------------------------------------------------------------------
(* PG_CHECKS: the orders, or seats, each of them lists.                    *)

HasTicket(r, S) == \E l \in Line : tickets[r][l] \in S

DuplicateActiveSeats ==
    {t \in Tix : \E u \in Active(ZoneOf[t[2]]) \ {t} :
        t \in Active(ZoneOf[t[2]]) /\ SeatOf[t[2]] = SeatOf[u[2]] /\ SeatOf[u[2]] # NoSeat}

DoubleCharged == {r \in Request : payments[r] > 1}
ConfirmedUnpaid == {r \in Request : order[r] = "confirmed" /\ payments[r] = 0}
DeadWithSeats == {r \in Request : order[r] = "expired" /\ HasTicket(r, {"held", "valid"})}
StateMismatch ==
    {r \in Request : \/ order[r] = "pending" /\ HasTicket(r, {"valid"})
                     \/ order[r] = "confirmed" /\ HasTicket(r, {"held"})}

\* An order is written with its tickets, whose prices add up to its total, and one
\* payment is of the whole total.
TotalMismatch ==
    {r \in Request : order[r] # "none" /\ \E l \in body[r].lines : tickets[r][l] = "none"}
AmountMismatch == {r \in Request : payments[r] \notin {0, 1}}

PgChecks ==
    {c \in {"seats", "charges", "unpaid", "amount", "total", "dead", "state"} :
        CASE c = "seats" -> DuplicateActiveSeats # {}
          [] c = "charges" -> DoubleCharged # {}
          [] c = "unpaid" -> ConfirmedUnpaid # {}
          [] c = "amount" -> AmountMismatch # {}
          [] c = "total" -> TotalMismatch # {}
          [] c = "dead" -> DeadWithSeats # {}
          [] c = "state" -> StateMismatch # {}}

\* inventory_checks, with the counts of one SELECT and the counters of a later find.
InventoryChecks ==
    {c \in {"negative", "over", "oversold", "below", "above"} :
        \E z \in Zone :
            CASE c = "negative" -> booked[z] < 0
              [] c = "over" -> booked[z] > Capacity[z]
              [] c = "oversold" -> active[z] > Capacity[z]
              [] c = "below" -> booked[z] < active[z]
              [] c = "above" -> booked[z] > active[z]}

----------------------------------------------------------------------------
(* run_audit, repair and main                                              *)

\* Nobody is in the middle of a call.
TrafficQuiet ==
    /\ \A r \in Request : pc[r] \in {"new", "done", "crashed"}
    /\ \A p \in Payer : at[p] \in {"idle", "done"}
WorkersQuiet == \A s \in Sweeper : at[s] = "idle"

Start ==
    /\ step = "off" /\ ~repaired
    /\ conduct.stopTraffic => TrafficQuiet
    /\ conduct.stopWorkers => WorkersQuiet
    /\ step' = "tables"
    /\ UNCHANGED <<vars, conduct, attempt, active, failing, drift, repaired, mended>>

\* postgres_checks and the SELECT of the ticket counts.  Every check is one statement
\* that sees committed rows, and none looks at another's answer.
ReadTables ==
    /\ step = "tables"
    /\ failing' = PgChecks
    /\ active' = [z \in Zone |-> Cardinality(Active(z))]
    /\ step' = "counters"
    /\ UNCHANGED <<vars, conduct, attempt, drift, repaired, mended>>

\* The find of the counters; drift makes the audit read everything again.
ReadCounters ==
    /\ step = "counters"
    /\ failing' = failing \cup InventoryChecks
    /\ drift' = {z \in Zone : booked[z] # active[z]}
    /\ IF drift' # {} /\ attempt < Retries
       THEN step' = "tables" /\ attempt' = attempt + 1
       ELSE step' = "report" /\ UNCHANGED attempt
    /\ UNCHANGED <<vars, conduct, active, repaired, mended>>

\* main: repair only on request, and once.
Report ==
    /\ step = "report"
    /\ step' = IF conduct.repair /\ drift # {} /\ ~repaired THEN "repair" ELSE "off"
    /\ UNCHANGED <<vars, conduct, attempt, active, failing, drift, repaired, mended>>

\* Mutant: one update_one, for the zone found first.
RepairFirst ==
    /\ step = "repair"
    /\ \E z \in drift : booked' = [booked EXCEPT ![z] = active[z]]
    /\ drift' = {}
    /\ UNCHANGED <<body, requestVars, pgVars, agentVars, faults>>
    /\ UNCHANGED <<conduct, step, attempt, active, failing, repaired, mended>>

\* repair: one update_one per drifted zone, past the validator.
Repair ==
    /\ step = "repair"
    /\ \E z \in drift :
          /\ booked' = [booked EXCEPT ![z] = active[z]]
          /\ drift' = drift \ {z}
    /\ UNCHANGED <<body, requestVars, pgVars, agentVars, faults>>
    /\ UNCHANGED <<conduct, step, attempt, active, failing, repaired, mended>>

AuditAgain ==
    /\ step = "repair"
    /\ drift = {}
    /\ step' = "tables"
    /\ attempt' = 0
    /\ repaired' = TRUE
    /\ mended' = TRUE
    /\ UNCHANGED <<vars, conduct, active, failing, drift>>

AuditStep == ReadTables \/ ReadCounters \/ Report \/ Repair \/ AuditAgain

----------------------------------------------------------------------------
Traffic ==
    \/ \E r \in Request : RequestStep(r) \/ RequestFault(r)
    \/ \E p \in Payer : PayerStep(p) \/ PayAborts(p) \/ GiveBackFault(p, "done")

Workers == \E s \in Sweeper : SweeperStep(s) \/ SweepAborts(s) \/ GiveBackFault(s, "idle")

\* What was stopped stays stopped until the audit ends; time goes on.
SystemStep ==
    /\ \/ (conduct.stopTraffic => step = "off") /\ Traffic
       \/ (conduct.stopWorkers => step = "off") /\ Workers
       \/ \E r \in Request : HoldElapses(r)
    /\ mended' = (mended /\ faults' = faults)
    /\ UNCHANGED <<conduct, step, attempt, active, failing, drift, repaired>>

AuditNext == Start \/ AuditStep \/ SystemStep

AuditSpec == AuditInit /\ [][AuditNext]_allVars

----------------------------------------------------------------------------
(* Properties.                                                             *)

\* No check but the drift of a counter ever fails.
OnlyDrift == failing \subseteq {"below", "above"}

\* The drift reported of a system at rest is the drift there is, either way.
DriftIsThere ==
    step = "report" /\ conduct.stopTraffic /\ conduct.stopWorkers =>
        /\ "below" \in failing <=> \E z \in Zone : booked[z] < Cardinality(Active(z))
        /\ "above" \in failing <=> \E z \in Zone : booked[z] > Cardinality(Active(z))

\* However the audit interleaves with orders, payments, workers and their crashes, every
\* check but the two of drift stays quiet: none of them needs a retry, although the two
\* databases are read one after the other (PG_CHECKS, inventory_checks).  Drift compares
\* the two reads: beside running orders it may be no drift at all, and only the report of
\* an audit with everything stopped is what the databases say.
NoFalseAlarm == OnlyDrift /\ DriftIsThere

\* A repair with everything stopped ends every drift, upwards from crashes or
\* downwards from misread COMMITs: from then on, and until the next fault, the counter
\* is the exact sum NoLostSeat demands of a run without faults, when traffic and workers
\* run again, too.
RepairLasts ==
    mended /\ conduct.stopTraffic /\ conduct.stopWorkers =>
        \A z \in Zone : booked[z] = Prebooked[z] + Cardinality(Claims(z))
=============================================================================
