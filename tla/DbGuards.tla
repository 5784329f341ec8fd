------------------------------ MODULE DbGuards ------------------------------
(***************************************************************************)
(* Migration 0007 on a live system: it checks the data, builds a unique    *)
(* index concurrently, then adds and validates one CHECK constraint per    *)
(* table, while transactions of the API use the tables and a script or a   *)
(* bug still writes the rows the guards are to refuse.  A run can fail or  *)
(* die anywhere and is then started again.                                 *)
(***************************************************************************)
EXTENDS Integers, FiniteSets, Sequences

CONSTANTS
    Tables,     \* number of STATUS_CHECKS; tables are numbered in its order
    Payments,   \* the table that gets the unique index, too
    Api,        \* transactions of the API
    Uses,       \* [Api -> Seq(Table)]: the tables a transaction locks, in order
    Attempts,   \* ATTEMPTS
    MaxRuns,    \* bound on starts of the migration
    MaxCrashes  \* bound on runs that die

Table == 1..Tables

ASSUME GuardAssumption ==
    /\ {Tables, Attempts} \subseteq Nat \ {0} /\ {MaxRuns, MaxCrashes} \subseteq Nat
    /\ Payments \in Table
    /\ Uses \in [Api -> Seq(Table)]

VARIABLES
    step,    \* where upgrade() is, "off" when it does not run
    table,   \* the table whose constraint it works on
    attempt, \* of _ddl_with_retry
    waiting, \* its ALTER is in the lock queue of the table
    index,   \* uq_payments_order_completed
    check,   \* check[t]: constraint of t as the migration sees it
    saved,   \* saved[t]: constraint of t as committed
    locked,  \* tables the open transaction has ACCESS EXCLUSIVE
    twice,   \* some order has two completed payments
    bad,     \* tables with a status outside the vocabulary
    at,      \* at[a]: tables transaction a has locked so far
    stamped, \* alembic_version says 0007
    runs, crashes

schemaVars == <<index, check, saved, locked, stamped>>
dataVars == <<twice, bad>>
vars == <<step, table, attempt, waiting, schemaVars, dataVars, at, runs, crashes>>

GuardsInit ==
    /\ step = "off" /\ table = 1 /\ attempt = 1 /\ waiting = FALSE
    /\ index = "none"
    /\ check = [t \in Table |-> "none"] /\ saved = check
    /\ locked = {}
    /\ twice \in BOOLEAN /\ bad \in SUBSET Table
    /\ at = [a \in Api |-> 0]
    /\ stamped = FALSE /\ runs = 0 /\ crashes = 0

----------------------------------------------------------------------------
(* Locks.                                                                  *)

\* Tables that transaction a of the API has used so far.
Holds(a) == {Uses[a][i] : i \in 1..at[a]}

Wants(a, t) == at[a] < Len(Uses[a]) /\ t = Uses[a][at[a] + 1]

\* ALTER TABLE needs ACCESS EXCLUSIVE: nobody else may use the table.
Free(t) == \A a \in Api : t \notin Holds(a)

\* t is locked by the migration, or its ALTER queues for it ahead of a.
Blocked(a) ==
    \E t \in Table : Wants(a, t) /\ t \notin Holds(a) /\ (t \in locked \/ (waiting /\ t = table))

----------------------------------------------------------------------------
(* upgrade                                                                 *)

\* An exception, or the end of the connection: ROLLBACK of the open transaction.
Fail ==
    /\ step' = "off"
    /\ check' = saved
    /\ locked' = {}
    /\ waiting' = FALSE
    /\ UNCHANGED <<table, attempt, saved, stamped, dataVars, at, runs>>

Run ==
    /\ step = "off" /\ ~stamped /\ runs < MaxRuns
    /\ step' = "check"
    /\ runs' = runs + 1
    /\ UNCHANGED <<table, attempt, waiting, schemaVars, dataVars, at, crashes>>

\* _refuse_if_data_breaks_a_rule; autocommit_block then ends the transaction.
RefuseIfDataBreaksARule ==
    /\ step = "check"
    /\ IF twice \/ bad # {}
       THEN Fail /\ UNCHANGED <<index, crashes>>
       ELSE /\ step' = "drop"
            /\ UNCHANGED <<table, attempt, waiting, schemaVars, dataVars, at, runs, crashes>>

\* Mutant: an index that a dead run left behind is not looked for.
DropNothing ==
    /\ step = "drop"
    /\ step' = "create"
    /\ UNCHANGED <<table, attempt, waiting, schemaVars, dataVars, at, runs, crashes>>

DropIfInvalid ==
    /\ step = "drop"
    /\ step' = "create"
    /\ index' = IF index = "invalid" THEN "none" ELSE index
    /\ UNCHANGED <<table, attempt, waiting, check, saved, locked, stamped>>
    /\ UNCHANGED <<dataVars, at, runs, crashes>>

\* CREATE UNIQUE INDEX CONCURRENTLY IF NOT EXISTS, first phase: the index is there, but
\* neither complete nor yet in the way of new rows.
CreateIndex ==
    /\ step = "create"
    /\ IF index = "none"
       THEN index' = "invalid" /\ step' = "build"
       ELSE step' = "add" /\ UNCHANGED index
    /\ table' = 1 /\ attempt' = 1
    /\ UNCHANGED <<waiting, check, saved, locked, stamped, dataVars, at, runs, crashes>>

\* Mutant: an index that could not be built stays behind.
BuildIndexNoDrop ==
    /\ step = "build"
    /\ IF ~twice
       THEN /\ index' = "valid" /\ step' = "add"
            /\ UNCHANGED <<table, attempt, waiting, check, saved, locked, stamped>>
            /\ UNCHANGED <<dataVars, at, runs, crashes>>
       ELSE Fail /\ UNCHANGED <<index, crashes>>

\* Its last phases, or the exception and the DROP INDEX.
BuildIndex ==
    /\ step = "build"
    /\ \/ /\ ~twice
          /\ index' = "valid" /\ step' = "add"
          /\ UNCHANGED <<table, attempt, waiting, check, saved, locked, stamped>>
          /\ UNCHANGED <<dataVars, at, runs, crashes>>
       \/ Fail /\ index' = "none" /\ UNCHANGED crashes

\* ADD CONSTRAINT ... NOT VALID: queue for the lock, or have it at once.
AddConstraint ==
    /\ step = "add" /\ table <= Tables /\ check[table] = "none"
    /\ IF Free(table)
       THEN /\ check' = [check EXCEPT ![table] = "not valid"]
            /\ locked' = locked \cup {table}
            /\ waiting' = FALSE
            /\ step' = "validate"
       ELSE ~waiting /\ waiting' = TRUE /\ UNCHANGED <<check, locked, step>>
    /\ UNCHANGED <<table, attempt, index, saved, stamped, dataVars, at, runs, crashes>>

\* lock_timeout, 3 s: leave the queue and try again, ATTEMPTS times.
LockTimesOut ==
    /\ waiting
    /\ IF attempt = Attempts
       THEN Fail /\ UNCHANGED <<index, crashes>>
       ELSE /\ attempt' = attempt + 1
            /\ waiting' = FALSE
            /\ UNCHANGED <<step, table, schemaVars, dataVars, at, runs, crashes>>

\* PostgreSQL breaks a circle of the migration and a transaction of the API, which has
\* the table the ALTER waits for and waits for one the migration has.
DeadlockVictim ==
    /\ waiting
    /\ \E a \in Api : table \in Holds(a) /\ Blocked(a)
    /\ Fail
    /\ UNCHANGED <<index, crashes>>

\* VALIDATE CONSTRAINT scans the table; a bad row is an exception.
Validate ==
    /\ step = "validate"
    /\ IF table \in bad
       THEN Fail /\ UNCHANGED <<index, crashes>>
       ELSE /\ check' = [check EXCEPT ![table] = "valid"]
            /\ table' = table + 1 /\ attempt' = 1 /\ step' = "add"
            /\ UNCHANGED <<waiting, index, saved, locked, stamped, dataVars, at, runs, crashes>>

\* The end of upgrade(): alembic stamps the revision and commits.
Stamp ==
    /\ step = "add" /\ table > Tables
    /\ step' = "off" /\ stamped' = TRUE
    /\ saved' = check /\ locked' = {}
    /\ UNCHANGED <<table, attempt, waiting, index, check, dataVars, at, runs, crashes>>

\* The process or its connection dies; an index being built stays invalid.
Crash ==
    /\ step # "off" /\ crashes < MaxCrashes
    /\ Fail
    /\ crashes' = crashes + 1
    /\ UNCHANGED index

UpgradeStep ==
    \/ RefuseIfDataBreaksARule \/ DropIfInvalid \/ CreateIndex \/ BuildIndex
    \/ AddConstraint \/ LockTimesOut \/ DeadlockVictim \/ Validate \/ Stamp

----------------------------------------------------------------------------
(* Everybody else.                                                         *)

elsewhere == <<step, table, attempt, waiting, schemaVars, runs, crashes>>

\* A transaction of the API uses its next table.
Use(a) ==
    /\ at[a] < Len(Uses[a]) /\ ~Blocked(a)
    /\ at' = [at EXCEPT ![a] = @ + 1]
    /\ UNCHANGED <<elsewhere, dataVars>>

\* It commits, or is rolled back: its own limits, or a deadlock.
End(a) ==
    /\ at[a] > 0
    /\ at' = [at EXCEPT ![a] = 0]
    /\ UNCHANGED <<elsewhere, dataVars>>

\* A script, or code with a bug, writes a second payment or an unknown status.  An index
\* that is not valid may or may not be in the way already.
WriteBadRow(t) ==
    /\ t \notin locked
    /\ \/ t = Payments /\ index # "valid" /\ twice' = TRUE /\ UNCHANGED bad
       \/ saved[t] = "none" /\ bad' = bad \cup {t} /\ UNCHANGED twice
    /\ UNCHANGED <<elsewhere, at>>

\* Somebody refunds and corrects what the migration has listed.
CleanData ==
    /\ step = "off" /\ (twice \/ bad # {})
    /\ twice' = FALSE /\ bad' = {}
    /\ UNCHANGED <<elsewhere, at>>

GuardsNext ==
    \/ Run \/ UpgradeStep \/ Crash \/ CleanData
    \/ \E a \in Api : Use(a) \/ End(a)
    \/ \E t \in Table : WriteBadRow(t)

GuardsSpec == GuardsInit /\ [][GuardsNext]_vars

----------------------------------------------------------------------------
(* Properties.                                                             *)

\* Once the revision is applied the rules hold of every row and whoever writes keeps to
\* them, although the data was checked long before and several runs may have failed or
\* died on the way (0007: "so it holds whoever writes").
GuardsHold ==
    stamped => /\ ~twice /\ bad = {} /\ index = "valid"
               /\ \A t \in Table : saved[t] = "valid"

\* A run that fails leaves no half-built index that would refuse payments or slow them
\* down; only a dead process can, and the next run removes it.
NoIndexLeftOver == index = "invalid" => step = "build" \/ crashes > 0

\* 0007: VALIDATE only takes SHARE UPDATE EXCLUSIVE, reads and writes continue.
ReadsAndWritesContinue == step = "validate" => \A a \in Api : ~Blocked(a)
=============================================================================
