---------------------------- MODULE GuardProofs ----------------------------
(* The guards of migration 0007 hold once it is applied: for every number  *)
(* of tables, transactions, runs and crashes.                              *)
EXTENDS DbGuards, TLAPS

Check == [Table -> {"none", "not valid", "valid"}]

GuardsTyped ==
    /\ check \in Check /\ saved \in Check
    /\ table \in Nat \ {0}
    /\ bad \subseteq Table
    /\ index \in {"none", "invalid", "valid"}

\* A valid index has been built over payments without a second charge, and refuses it
\* from then on.
IndexTells == index = "valid" => ~twice

\* Nobody can write past a constraint: the committed ones refuse, and the table of one
\* that is not committed is locked.  A validated one has seen the whole table.
ConstraintsTell ==
    \A t \in Table :
        /\ check[t] # "none" => t \in locked \/ saved[t] # "none"
        /\ check[t] = "valid" => t \notin bad
        /\ saved[t] = "valid" => t \notin bad

\* What the steps before have finished.
Progress ==
    /\ step \in {"add", "validate"} =>
          index = "valid" /\ \A t \in Table : t < table => check[t] = "valid"
    /\ step = "validate" => table \in Table /\ check[table] = "not valid"
    /\ step = "build" => table = 1
    /\ step = "create" => index # "invalid"
    /\ stamped => step = "off" /\ index = "valid" /\ \A t \in Table : saved[t] = "valid"
    /\ step \notin {"add", "validate"} => check = saved

\* Between runs a constraint is committed with its validation or not at all.
AllOrNothing ==
    \/ \A t \in Table : saved[t] = "none"
    \/ \A t \in Table : saved[t] = "valid"

GuardsInv == GuardsTyped /\ IndexTells /\ ConstraintsTell /\ Progress /\ AllOrNothing

----------------------------------------------------------------------------
LEMMA GuardsInit_Inv == GuardsInit => GuardsInv
BY DEF GuardsInit, GuardsInv, GuardsTyped, Check, IndexTells, ConstraintsTell, Progress,
       AllOrNothing, Table

\* A run that ends early leaves the committed constraints.
LEMMA Fail_Inv ==
    ASSUME GuardsInv, Fail, ~stamped, index' \in {index, "none"}
    PROVE  GuardsInv'
BY DEF Fail, GuardsInv, GuardsTyped, Check, IndexTells, ConstraintsTell, Progress,
       AllOrNothing, dataVars

\* The steps that touch no constraint and no index.
LEMMA Quiet_Inv ==
    ASSUME GuardsInv, UNCHANGED <<schemaVars, table>>, stamped => step' = step,
           index = "valid" => ~twice',
           \A t \in bad' : t \in bad \/ (t \in Table \ locked /\ saved[t] = "none"),
           \/ step' = step
           \/ step' \in {"off", "check", "drop"} /\ step \notin {"add", "validate"}
    PROVE  GuardsInv'
<1> USE DEF GuardsInv, schemaVars
<1>1. GuardsTyped'
  BY DEF GuardsTyped
<1>2. IndexTells' /\ AllOrNothing'
  BY DEF IndexTells, AllOrNothing
<1>3. ConstraintsTell'
  BY DEF ConstraintsTell
<1>4. Progress'
  BY DEF Progress
<1> QED
  BY <1>1, <1>2, <1>3, <1>4

LEMMA Same_Inv ==
    ASSUME GuardsInv, UNCHANGED <<schemaVars, table, dataVars>>, stamped => step' = step,
           \/ step' = step
           \/ step' \in {"off", "check", "drop"} /\ step \notin {"add", "validate"}
    PROVE  GuardsInv'
<1>1. index = "valid" => ~twice'
  BY DEF GuardsInv, IndexTells, dataVars
<1>2. \A t \in bad' : t \in bad
  BY DEF dataVars
<1> QED
  BY <1>1, <1>2, Quiet_Inv

LEMMA Index_Inv ==
    ASSUME GuardsInv, CreateIndex \/ BuildIndex \/ DropIfInvalid
    PROVE  GuardsInv'
<1> USE DEF GuardsInv
<1>0. ~stamped
  BY DEF CreateIndex, BuildIndex, DropIfInvalid, Progress
<1>1. CASE CreateIndex
  <2>1. /\ step = "create" /\ table' = 1
        /\ UNCHANGED <<check, saved, locked, stamped, twice, bad>>
        /\ \/ index = "none" /\ index' = "invalid" /\ step' = "build"
           \/ index # "none" /\ index' = index /\ step' = "add"
    BY <1>1 DEF CreateIndex, dataVars
  <2>2. GuardsTyped' /\ IndexTells' /\ ConstraintsTell' /\ AllOrNothing'
    BY <2>1 DEF GuardsTyped, IndexTells, ConstraintsTell, AllOrNothing
  <2>3. \A t \in Table : ~ (t < 1)
    BY GuardAssumption DEF Table
  <2>4. Progress'
    BY <1>0, <2>1, <2>3 DEF Progress, GuardsTyped
  <2> QED
    BY <2>2, <2>4
<1>2. CASE BuildIndex
  <2>1. CASE Fail /\ index' = "none"
    BY <1>0, <2>1, Fail_Inv
  <2>2. CASE ~twice /\ index' = "valid" /\ step' = "add" /\ UNCHANGED <<table, check, saved, locked, stamped, dataVars>>
    <3>1. table = 1
      BY <1>2 DEF BuildIndex, Progress
    <3>2. UNCHANGED <<twice, bad>>
      BY <2>2 DEF dataVars
    <3>3. GuardsTyped' /\ IndexTells' /\ ConstraintsTell' /\ AllOrNothing'
      BY <2>2, <3>2 DEF GuardsTyped, IndexTells, ConstraintsTell, AllOrNothing
    <3>4. \A t \in Table : ~ (t < 1)
      BY GuardAssumption DEF Table
    <3>5. Progress'
      BY <1>0, <2>2, <3>1, <3>4 DEF Progress
    <3> QED
      BY <3>3, <3>5
  <2> QED
    BY <1>2, <2>1, <2>2 DEF BuildIndex
<1>3. CASE DropIfInvalid
  BY <1>0, <1>3
  DEF DropIfInvalid, GuardsTyped, IndexTells, ConstraintsTell, Progress, AllOrNothing,
      dataVars
<1> QED
  BY <1>1, <1>2, <1>3

LEMMA AddConstraint_Inv == GuardsInv /\ AddConstraint => GuardsInv'
<1> SUFFICES ASSUME GuardsInv, AddConstraint PROVE GuardsInv'
  OBVIOUS
<1>1. CASE UNCHANGED <<check, locked, step>>
  <2>1. UNCHANGED <<schemaVars, table, dataVars, step>>
    BY <1>1 DEF AddConstraint, schemaVars
  <2> QED
    BY <2>1, Same_Inv
<1>2. CASE /\ check' = [check EXCEPT ![table] = "not valid"]
           /\ locked' = locked \cup {table}
           /\ step' = "validate"
  <2>1. /\ step = "add" /\ table <= Tables
        /\ UNCHANGED <<table, index, saved, stamped, dataVars>>
    BY DEF AddConstraint
  <2>2. table \in Table
    BY <2>1, GuardAssumption DEF GuardsInv, GuardsTyped, Table
  <2>3. \A t \in Table : check'[t] = IF t = table THEN "not valid" ELSE check[t]
    BY <1>2 DEF GuardsInv, GuardsTyped, Check
  <2>4. GuardsTyped' /\ IndexTells' /\ AllOrNothing'
    BY <1>2, <2>1, <2>2
    DEF GuardsInv, GuardsTyped, Check, IndexTells, AllOrNothing, dataVars
  <2>5. ConstraintsTell'
    <3>1. UNCHANGED <<saved, bad>>
      BY <2>1 DEF dataVars
    <3>2. \A t \in Table : check'[t] # "none" => t \in locked' \/ saved[t] # "none"
      BY <1>2, <2>3 DEF GuardsInv, ConstraintsTell
    <3>3. \A t \in Table : check'[t] = "valid" => check[t] = "valid"
      BY <2>3
    <3> QED
      BY <3>1, <3>2, <3>3 DEF GuardsInv, ConstraintsTell
  <2>6. \A t \in Table : t < table => t # table
    BY GuardAssumption DEF GuardsInv, GuardsTyped, Table
  <2>7. Progress'
    BY <1>2, <2>1, <2>2, <2>3, <2>6 DEF GuardsInv, Progress
  <2> QED
    BY <2>4, <2>5, <2>7 DEF GuardsInv
<1> QED
  BY <1>1, <1>2 DEF AddConstraint

LEMMA Validate_Inv == GuardsInv /\ Validate => GuardsInv'
<1> SUFFICES ASSUME GuardsInv, Validate PROVE GuardsInv'
  OBVIOUS
<1>0. ~stamped
  BY DEF Validate, GuardsInv, Progress
<1>1. CASE table \in bad
  BY <1>0, <1>1, Fail_Inv DEF Validate
<1>2. CASE table \notin bad
  <2>1. /\ check' = [check EXCEPT ![table] = "valid"] /\ table' = table + 1
        /\ step' = "add" /\ UNCHANGED <<index, saved, locked, stamped, dataVars>>
        /\ step = "validate"
    BY <1>2 DEF Validate
  <2>a. table \in Table
    BY <2>1 DEF GuardsInv, Progress
  <2>2. \A t \in Table : t < table + 1 => t < table \/ t = table
    BY <2>a, GuardAssumption DEF Table
  <2>b. UNCHANGED <<twice, bad>> /\ table + 1 \in Nat \ {0}
    BY <2>1, <2>a, GuardAssumption DEF dataVars, Table
  <2>3. GuardsTyped'
    BY <2>1, <2>a, <2>b DEF GuardsInv, GuardsTyped, Check
  <2>4. IndexTells' /\ AllOrNothing'
    BY <2>1 DEF GuardsInv, IndexTells, AllOrNothing, dataVars
  <2>5. \A t \in Table : check'[t] = IF t = table THEN "valid" ELSE check[t]
    BY <2>1 DEF GuardsInv, GuardsTyped, Check
  <2>6. table \in locked \/ saved[table] # "none"
    BY <2>1, <2>a DEF GuardsInv, ConstraintsTell, Progress
  <2>7. ConstraintsTell'
    BY <1>2, <2>1, <2>b, <2>5, <2>6 DEF GuardsInv, ConstraintsTell
  <2>8. Progress'
    BY <1>0, <2>1, <2>2, <2>5 DEF GuardsInv, Progress
  <2> QED
    BY <2>3, <2>4, <2>7, <2>8 DEF GuardsInv
<1> QED
  BY <1>1, <1>2

LEMMA Stamp_Inv == GuardsInv /\ Stamp => GuardsInv'
<1> SUFFICES ASSUME GuardsInv, Stamp PROVE GuardsInv'
  OBVIOUS
<1>1. \A t \in Table : check[t] = "valid"
  BY GuardAssumption DEF Stamp, GuardsInv, GuardsTyped, Progress, Table
<1> QED
  BY <1>1
  DEF Stamp, GuardsInv, GuardsTyped, IndexTells, ConstraintsTell, Progress, AllOrNothing,
      dataVars

LEMMA Next_Inv == GuardsInv /\ [GuardsNext]_vars => GuardsInv'
<1> SUFFICES ASSUME GuardsInv, [GuardsNext]_vars PROVE GuardsInv'
  OBVIOUS
<1>1. CASE Run
  BY <1>1, Same_Inv DEF Run
<1>2. CASE RefuseIfDataBreaksARule
  <2>1. ~stamped
    BY <1>2 DEF RefuseIfDataBreaksARule, GuardsInv, Progress
  <2>2. CASE Fail /\ UNCHANGED index
    BY <2>1, <2>2, Fail_Inv
  <2>3. CASE step = "check" /\ step' = "drop" /\ UNCHANGED <<table, schemaVars, dataVars>>
    BY <2>1, <2>3, Same_Inv
  <2> QED
    BY <1>2, <2>2, <2>3 DEF RefuseIfDataBreaksARule
<1>3. CASE DropIfInvalid \/ CreateIndex \/ BuildIndex
  BY <1>3, Index_Inv
<1>4. CASE AddConstraint
  BY <1>4, AddConstraint_Inv
<1>5. CASE LockTimesOut \/ DeadlockVictim \/ Crash
  <2>1. CASE Fail /\ UNCHANGED index
    <3>1. CASE stamped
      BY <1>5, <2>1, <3>1
      DEF Fail, GuardsInv, GuardsTyped, Check, IndexTells, ConstraintsTell, Progress,
          AllOrNothing, dataVars
    <3> QED
      BY <2>1, <3>1, Fail_Inv
  <2>2. CASE UNCHANGED <<step, table, schemaVars, dataVars>>
    BY <2>2, Same_Inv
  <2> QED
    BY <1>5, <2>1, <2>2 DEF LockTimesOut, DeadlockVictim, Crash
<1>6. CASE Validate
  BY <1>6, Validate_Inv
<1>7. CASE Stamp
  BY <1>7, Stamp_Inv
<1>8. CASE CleanData
  <2>1. UNCHANGED <<schemaVars, table, step>> /\ twice' = FALSE /\ bad' = {}
    BY <1>8 DEF CleanData, elsewhere
  <2> QED
    BY <2>1, Quiet_Inv
<1>9. ASSUME NEW a \in Api, Use(a) \/ End(a) PROVE GuardsInv'
  <2>1. UNCHANGED <<schemaVars, table, step, dataVars>>
    BY <1>9 DEF Use, End, elsewhere
  <2> QED
    BY <2>1, Same_Inv
<1>10. ASSUME NEW t \in Table, WriteBadRow(t) PROVE GuardsInv'
  <2>1. /\ UNCHANGED <<schemaVars, table, step>> /\ t \notin locked
        /\ \/ index # "valid" /\ UNCHANGED bad
           \/ saved[t] = "none" /\ bad' = bad \cup {t} /\ UNCHANGED twice
    BY <1>10 DEF WriteBadRow, elsewhere
  <2>2. index = "valid" => ~twice'
    BY <2>1 DEF GuardsInv, IndexTells
  <2> QED
    BY <2>1, <2>2, Quiet_Inv
<1>11. CASE UNCHANGED vars
  BY <1>11, Same_Inv DEF vars
<1> QED
  BY <1>1, <1>2, <1>3, <1>4, <1>5, <1>6, <1>7, <1>8, <1>9, <1>10, <1>11
  DEF GuardsNext, UpgradeStep

\* Once the migration is applied no order is charged twice and no row has an unknown
\* status, and the index and the constraints that keep it so are valid.
THEOREM GuardsAlwaysHold == GuardsSpec => []GuardsHold
<1>1. GuardsInv => GuardsHold
  <2> SUFFICES ASSUME GuardsInv, stamped PROVE GuardsHold
    BY DEF GuardsHold
  <2>1. index = "valid" /\ ~twice /\ \A t \in Table : saved[t] = "valid" /\ t \notin bad
    BY DEF GuardsInv, Progress, IndexTells, ConstraintsTell
  <2>2. bad \subseteq Table
    BY DEF GuardsInv, GuardsTyped
  <2> QED
    BY <2>1, <2>2 DEF GuardsHold
<1> QED
  BY <1>1, GuardsInit_Inv, Next_Inv, PTL DEF GuardsSpec

----------------------------------------------------------------------------
(* No index is left over.                                                  *)

\* An ALTER is in a lock queue only while its constraint is being added: no failure of
\* the lock can happen while the index is built.
WaitsToAdd == waiting => step = "add" /\ table <= Tables

LeftOverInv == WaitsToAdd /\ crashes \in Nat /\ NoIndexLeftOver

LEMMA LeftOverStep == GuardsInv /\ LeftOverInv /\ [GuardsNext]_vars => LeftOverInv'
<1> SUFFICES ASSUME GuardsInv, LeftOverInv, [GuardsNext]_vars PROVE LeftOverInv'
  OBVIOUS
<1>0. table \in Nat /\ Tables \in Nat
  BY GuardAssumption DEF GuardsInv, GuardsTyped
<1> USE DEF LeftOverInv, WaitsToAdd, NoIndexLeftOver, schemaVars
<1>1. CASE RefuseIfDataBreaksARule \/ DropIfInvalid \/ CreateIndex \/ BuildIndex
  BY <1>1 DEF RefuseIfDataBreaksARule, DropIfInvalid, CreateIndex, BuildIndex, Fail
<1>2. CASE AddConstraint
  BY <1>2 DEF AddConstraint
<1>3. CASE LockTimesOut \/ DeadlockVictim
  BY <1>3 DEF LockTimesOut, DeadlockVictim, Fail
<1>4. CASE Validate \/ Stamp \/ Run
  BY <1>0, <1>4 DEF Validate, Stamp, Run, Fail
<1>5. CASE Crash
  BY <1>5 DEF Crash, Fail
<1>6. ASSUME NEW a \in Api, Use(a) \/ End(a) PROVE LeftOverInv'
  BY <1>6 DEF Use, End, elsewhere
<1>7. ASSUME NEW t \in Table, WriteBadRow(t) PROVE LeftOverInv'
  BY <1>7 DEF WriteBadRow, elsewhere
<1>8. CASE CleanData
  BY <1>8 DEF CleanData, elsewhere
<1>9. CASE UNCHANGED vars
  BY <1>9 DEF vars
<1> QED
  BY <1>1, <1>2, <1>3, <1>4, <1>5, <1>6, <1>7, <1>8, <1>9 DEF GuardsNext, UpgradeStep

\* Only a run that died while it built the index can leave an invalid one behind: every
\* failure that _build_unique_index sees ends with the index dropped.
THEOREM NoIndexIsLeft == GuardsSpec => []NoIndexLeftOver
<1>1. GuardsInit => LeftOverInv
  BY DEF GuardsInit, LeftOverInv, WaitsToAdd, NoIndexLeftOver
<1>2. LeftOverInv => NoIndexLeftOver
  BY DEF LeftOverInv
<1> QED
  BY <1>1, <1>2, LeftOverStep, GuardsInit_Inv, Next_Inv, PTL DEF GuardsSpec
=============================================================================
