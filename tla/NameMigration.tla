--------------------------- MODULE NameMigration ---------------------------
(***************************************************************************)
(* The split of users.full_name into first_name and last_name while the    *)
(* API takes writes: requests of several replicas that may see different   *)
(* flags, the backfill job, the operator who moves the flags through the   *)
(* phases of docs/cp2_migration_scenario.md, and the contract migration    *)
(* with its downgrade.  A replica sees the flags as its cache does         *)
(* (FlagCache): some earlier content, never going back.                    *)
(*                                                                         *)
(* A step is a SQL transaction, or its first half when it locks rows.      *)
(***************************************************************************)
EXTENDS NameRules, Integers, FiniteSets

CONSTANTS
    Replica, Request, \* Request: the threads that serve users.py
    Home,             \* Home[w]: the replica of thread w
    User,             \* user ids, 1..n
    OldName,          \* OldName[u]: full_name of the users there at first
    Course,           \* ways a migration may go: the write mode it starts from on every
                      \* replica, whether the documented ways back are taken, and
                      \* the names that requests send
    BatchSize, MaxSweeps, RefillBatch,
    MaxWrites,        \* bound: POST and PUT requests
    MaxStops,         \* bound: stops of the backfill job and aborted requests
    NoRow, Job, Nobody

\* The fields of a request body, and of a row.
Body == [full : Part, first : Part, last : Part]

ASSUME NamesAssumption ==
    /\ Home \in [Request -> Replica]
    /\ IsFiniteSet(User) /\ User \in SUBSET Nat /\ DOMAIN OldName \subseteq User
    /\ OldName \in [DOMAIN OldName -> Name \ {<< >>}]
    /\ \A c \in Course :
          c.start \in {"legacy", "dual"} /\ c.back \in BOOLEAN /\ c.bodies \subseteq Body
    /\ Null \notin Name /\ NoRow \notin Body
    /\ {BatchSize, MaxSweeps, RefillBatch} \subseteq Nat \ {0}
    /\ Job # Nobody /\ {Job, Nobody} \cap Request = {}

VARIABLES
    row,        \* row[u]: the name columns of users
    column,     \* does users.full_name exist?
    flags,      \* the feature_flags table
    cached,     \* cached[p]: the flags replica p answers from
    pc, op,     \* pc[w], op[w]: the step and the locals of a request
    locked,     \* locked[u]: who holds the row FOR UPDATE
    job,        \* the backfill: its step, last_id, sweep and the rows of its batch as read
    checkpoint, \* backfill_checkpoints.last_id
    contract,   \* the step of 0005: "no", "checked", "done" or "refill"
    course,     \* the way it goes
    refilled,   \* the refill has passed the ids below this one
    saved,      \* history: saved[u], the name the clients were told is saved
    failed,     \* history: a request met a missing column (HTTP 500)
    writes, stops

tableVars == <<row, column>>
requestVars == <<pc, op>>
jobVars == <<job, checkpoint>>
operatorVars == <<contract, refilled, course>>
nameVars == <<tableVars, flags, cached, requestVars, locked, jobVars, operatorVars,
              saved, failed, writes, stops>>

Flags == [write : {"legacy", "dual", "new"}, read : {"legacy", "new"}]
At(write, read) == [write |-> write, read |-> read]

Exists(u) == row[u] # NoRow
NoLocks == \A u \in User : locked[u] = Nobody

\* The start: 0004 has been applied, the users have the old name only.
NamesInit ==
    /\ row = [u \in User |-> IF u \in DOMAIN OldName
                             THEN [full |-> OldName[u], first |-> Null, last |-> Null]
                             ELSE NoRow]
    /\ column = TRUE
    /\ course \in Course
    /\ flags = At(course.start, "legacy")
    /\ cached = [p \in Replica |-> flags]
    /\ pc = [w \in Request |-> "idle"]
    /\ op = [w \in Request |-> Nobody]
    /\ locked = [u \in User |-> Nobody]
    /\ job = [step |-> "off", last |-> 0, sweep |-> 0, batch |-> << >>]
    /\ checkpoint = 0
    /\ contract = "no"
    /\ refilled = 0
    /\ saved = [u \in User |-> IF u \in DOMAIN OldName THEN SplitFullName(OldName[u]) ELSE NoRow]
    /\ failed = FALSE
    /\ writes = 0
    /\ stops = 0

----------------------------------------------------------------------------
(* create_user and update_user                                             *)

\* The cache of a replica is refreshed: get_flag.
Refresh(p) ==
    /\ cached[p] # flags
    /\ cached' = [cached EXCEPT ![p] = flags]
    /\ UNCHANGED <<tableVars, flags, requestVars, locked, jobVars, operatorVars, saved, failed, writes, stops>>

\* Does a request with these flags name the column full_name?
IncludeLegacy(o) == o.write # "new" \/ o.read # "new"
MissesColumn(w) == IncludeLegacy(op[w]) /\ ~column

\* A request arrives and asks for both flags; the cache may be refreshed between
\* the two questions.
Begin(w) ==
    /\ pc[w] = "idle"
    /\ writes < MaxWrites
    /\ writes' = writes + 1
    /\ \E kind \in {"create", "update"}, u \in User, b \in course.bodies, f \in {cached[Home[w]], flags} :
          /\ IF kind = "create" THEN CreateValid(b) ELSE UpdateValid(b)
          /\ Exists(u) <=> kind = "update"
          /\ op' = [op EXCEPT ![w] = [user |-> u, body |-> b, seen |-> NoRow,
                                     write |-> cached[Home[w]].write, read |-> f.read]]
          /\ cached' = [cached EXCEPT ![Home[w]] = f]
          /\ pc' = [pc EXCEPT ![w] = kind]
    /\ UNCHANGED <<tableVars, flags, locked, jobVars, operatorVars, saved, failed, stops>>

\* The request ends.
End(w) ==
    /\ pc' = [pc EXCEPT ![w] = "idle"]
    /\ op' = [op EXCEPT ![w] = Nobody]

\* The name a request asks for: fields it does not send keep their value.
Asked(b, old) ==
    IF b.first = Null /\ b.last = Null
    THEN IF b.full = Null THEN old ELSE SplitFullName(b.full)
    ELSE [first |-> IF b.first = Null THEN old.first ELSE b.first,
          last |-> IF b.last = Null THEN old.last ELSE b.last]

NewUser == [first |-> << >>, last |-> << >>]

\* INSERT; a taken username answers 409, a missing column 500.
Create(w) ==
    /\ pc[w] = "create"
    /\ LET o == op[w]
           exists == Exists(o.user)
           fails == o.write # "new" /\ ~column
       IN  /\ row' = IF exists \/ fails THEN row
                     ELSE [row EXCEPT ![o.user] = ResolveNames(o.body, o.write)]
           /\ saved' = IF exists \/ fails THEN saved
                       ELSE [saved EXCEPT ![o.user] = Asked(o.body, NewUser)]
           /\ failed' = (failed \/ (fails /\ ~exists))
    /\ End(w)
    /\ UNCHANGED <<column, flags, cached, locked, jobVars, operatorVars, writes, stops>>

\* Mutant: SELECT without FOR UPDATE.
LockNothing(w) ==
    /\ pc[w] = "update"
    /\ pc' = [pc EXCEPT ![w] = "save"]
    /\ op' = [op EXCEPT ![w].seen = row[op[w].user]]
    /\ UNCHANGED <<tableVars, locked, failed, flags, cached, jobVars, operatorVars, saved, writes, stops>>

\* SELECT ... FOR UPDATE waits for the row; a missing column answers 500.
Lock(w) ==
    /\ pc[w] = "update"
    /\ IF MissesColumn(w)
       THEN /\ failed' = TRUE
            /\ End(w)
            /\ UNCHANGED locked
       ELSE /\ locked[op[w].user] = Nobody
            /\ locked' = [locked EXCEPT ![op[w].user] = w]
            /\ pc' = [pc EXCEPT ![w] = "save"]
            /\ op' = [op EXCEPT ![w].seen = row[op[w].user]]
            /\ UNCHANGED failed
    /\ UNCHANGED <<tableVars, flags, cached, jobVars, operatorVars, saved, writes, stops>>

\* Mutant: the parts not sent are not taken from the row.
PatchOnly(o) ==
    LET old == o.seen
        names == ResolveNames(o.body, o.write)
    IN  IF o.body = [full |-> Null, first |-> Null, last |-> Null] THEN old ELSE
        [full |-> IF o.write = "new" THEN old.full ELSE names.full,
         first |-> IF o.write = "legacy" THEN old.first ELSE names.first,
         last |-> IF o.write = "legacy" THEN old.last ELSE names.last]

\* The row a PUT leaves: the parts not sent come from what is stored.
Patch(o) ==
    LET b == o.body
        old == o.seen
        stored == IF old.first = Null /\ IncludeLegacy(o) /\ Clean(old.full) # Null
                  THEN SplitFullName(old.full) ELSE old
        split == b.first # Null \/ b.last # Null
        names == ResolveNames(
            [full |-> b.full,
             first |-> IF split /\ b.first = Null THEN stored.first ELSE b.first,
             last |-> IF split /\ b.last = Null THEN stored.last ELSE b.last], o.write)
    IN  IF b.full = Null /\ ~split THEN old
        ELSE [full |-> IF o.write = "new" THEN old.full ELSE names.full,
              first |-> IF o.write = "legacy" THEN old.first ELSE names.first,
              last |-> IF o.write = "legacy" THEN old.last ELSE names.last]

\* COMMIT.
Save(w) ==
    /\ pc[w] = "save"
    /\ LET u == op[w].user
       IN  /\ row' = [row EXCEPT ![u] = Patch(op[w])]
           /\ saved' = [saved EXCEPT ![u] = Asked(op[w].body, saved[u])]
           /\ locked' = [locked EXCEPT ![u] = Nobody]
    /\ pc' = [pc EXCEPT ![w] = "answer"]
    /\ UNCHANGED <<column, op, flags, cached, jobVars, operatorVars, failed, writes, stops>>

\* db.refresh reads the row again for the answer.
Answer(w) ==
    /\ pc[w] = "answer"
    /\ failed' = (failed \/ MissesColumn(w))
    /\ End(w)
    /\ UNCHANGED <<tableVars, flags, cached, locked, jobVars, operatorVars, saved, writes, stops>>

\* The e-mail is taken, the connection breaks or the replica dies before COMMIT.
Aborts(w) ==
    /\ pc[w] \in {"create", "update", "save"}
    /\ stops < MaxStops
    /\ stops' = stops + 1
    /\ locked' = [u \in User |-> IF locked[u] = w THEN Nobody ELSE locked[u]]
    /\ End(w)
    /\ UNCHANGED <<tableVars, flags, cached, jobVars, operatorVars, saved, failed, writes>>

----------------------------------------------------------------------------
(* backfill.py                                                             *)

Remaining == {u \in User : Exists(u) /\ NeedsBackfill(row[u])}

JobAt(step, last, sweep, batch) == job' = [step |-> step, last |-> last, sweep |-> sweep, batch |-> batch]

RestOfJob == UNCHANGED <<column, flags, cached, requestVars, operatorVars, saved, failed, writes>>

\* Phase 2 is over: every replica reports dual write.
DualEverywhere == \A p \in Replica : cached[p].write = "dual"

\* main: run or resume, in Phase 3; --restart ignores the checkpoint.
StartJob ==
    /\ job.step = "off" /\ Remaining # {} /\ column
    /\ DualEverywhere
    /\ \E last \in {0, checkpoint} : JobAt("select", last, 1, << >>)
    /\ UNCHANGED <<row, locked, checkpoint, stops>>
    /\ RestOfJob

\* SELECT ... WHERE id > last_id ORDER BY id LIMIT n FOR UPDATE SKIP LOCKED.
NextBatch ==
    LET found == {u \in Remaining : u > job.last /\ locked[u] = Nobody}
    IN  {u \in found : Cardinality({v \in found : v < u}) < BatchSize}

SelectBatch ==
    /\ job.step = "select" /\ NextBatch # {}
    /\ JobAt("update", job.last, job.sweep, [u \in NextBatch |-> row[u]])
    /\ locked' = [u \in User |-> IF u \in NextBatch THEN Job ELSE locked[u]]
    /\ UNCHANGED <<row, checkpoint, stops>>
    /\ RestOfJob

\* The updates, with the names of the rows as they were read, the checkpoint and COMMIT.
UpdateBatch ==
    /\ job.step = "update"
    /\ row' = [u \in User |-> IF u \in DOMAIN job.batch THEN Fill(row[u], NamesFor(job.batch[u])) ELSE row[u]]
    /\ LET last == CHOOSE u \in DOMAIN job.batch : \A v \in DOMAIN job.batch : v <= u
       IN  JobAt("select", last, job.sweep, << >>) /\ checkpoint' = last
    /\ locked' = [u \in User |-> IF locked[u] = Job THEN Nobody ELSE locked[u]]
    /\ UNCHANGED stops
    /\ RestOfJob

\* Mutant: the next sweep goes on after the cursor.
EndSweepKeepsCursor ==
    /\ job.step = "select" /\ NextBatch = {}
    /\ IF Remaining = {} \/ job.sweep = MaxSweeps
       THEN JobAt("off", 0, 0, << >>)
       ELSE JobAt("select", job.last, job.sweep + 1, << >>)
    /\ UNCHANGED <<row, locked, checkpoint, stops>>
    /\ RestOfJob

\* An empty batch ends the sweep; rows left over start another one from id 0.
EndSweep ==
    /\ job.step = "select" /\ NextBatch = {}
    /\ IF Remaining = {} \/ job.sweep = MaxSweeps
       THEN JobAt("off", 0, 0, << >>)
       ELSE JobAt("select", 0, job.sweep + 1, << >>)
    /\ UNCHANGED <<row, locked, checkpoint, stops>>
    /\ RestOfJob

\* The job is stopped; its transaction is rolled back.
StopJob ==
    /\ job.step # "off"
    /\ stops < MaxStops
    /\ stops' = stops + 1
    /\ JobAt("off", 0, 0, << >>)
    /\ locked' = [u \in User |-> IF locked[u] = Job THEN Nobody ELSE locked[u]]
    /\ UNCHANGED <<row, checkpoint>>
    /\ RestOfJob

----------------------------------------------------------------------------
(* The operator, in the phases of the scenario.                            *)

\* "Every replica reports" the flags of the table, and answered what began before.
Settled ==
    /\ \A p \in Replica : cached[p] = flags
    /\ \A w \in Request : pc[w] # "idle" => At(op[w].write, op[w].read) = flags

\* Mutant: the switch does not wait for the backfill.
AnythingVerified == TRUE

\* verify_migration.py --stage after-backfill; should_skip leaves the comparison of
\* the two representations out in mode "new".
AfterBackfill ==
    \A u \in User : Exists(u) =>
        /\ row[u].full # Null \/ row[u].first # Null
        /\ flags.write # "new" => ~Disagree(row[u])
        /\ ~NeedsBackfill(row[u])
        /\ row[u].first # << >>

\* set_flag: forward through the phases, and back.
Forward(f) ==
    \/ f = At("dual", "legacy") /\ flags = At("legacy", "legacy")
    \/ f = At("dual", "new") /\ flags = At("dual", "legacy") /\ AfterBackfill
    \/ f = At("new", "new") /\ flags = At("dual", "new")

Back(f) ==
    \/ f = At("dual", "new") /\ flags = At("new", "new")
    \/ f = At("dual", "legacy") /\ flags = At("dual", "new")
    \/ f = At("legacy", "legacy") /\ flags = At("dual", "legacy")

SetFlags ==
    /\ contract = "no"
    /\ Settled
    /\ \E f \in Flags : (Forward(f) \/ (course.back /\ Back(f))) /\ flags' = f
    /\ UNCHANGED <<tableVars, cached, requestVars, locked, jobVars, operatorVars, saved, failed, writes, stops>>

----------------------------------------------------------------------------
(* 0005_contract_user_full_name                                            *)

RestOfContract == UNCHANGED <<course, flags, cached, requestVars, locked, jobVars, saved, failed, writes, stops>>

\* Mutant: only the flags of the table are checked, nobody waits for the replicas.
CheckHasty ==
    /\ contract = "no" /\ column
    /\ flags = At("new", "new") /\ Remaining = {}
    /\ contract' = "checked"
    /\ UNCHANGED <<tableVars, refilled>>
    /\ RestOfContract

\* _check_ready_to_contract; the operator deploys in order, so it is run when
\* every replica is at "new".
Check ==
    /\ contract = "no" /\ column
    /\ Settled
    /\ flags = At("new", "new") /\ Remaining = {}
    /\ contract' = "checked"
    /\ UNCHANGED <<tableVars, refilled>>
    /\ RestOfContract

\* ALTER TABLE needs the table for itself: it waits for open transactions.
Drop ==
    /\ contract = "checked"
    /\ NoLocks
    /\ row' = [u \in User |-> IF Exists(u) THEN [row[u] EXCEPT !.full = Null] ELSE NoRow]
    /\ column' = FALSE
    /\ contract' = "done"
    /\ UNCHANGED refilled
    /\ RestOfContract

\* All attempts met a lock timeout.
GivesUp ==
    /\ contract = "checked"
    /\ contract' = "no"
    /\ UNCHANGED <<tableVars, refilled>>
    /\ RestOfContract

\* downgrade(): the column is back, empty.
AddColumn ==
    /\ course.back
    /\ contract = "done" /\ NoLocks
    /\ column' = TRUE
    /\ contract' = "refill"
    /\ refilled' = 0
    /\ UNCHANGED row
    /\ RestOfContract

\* One range of ids, one committed statement; it waits for locked rows.
Refill ==
    /\ contract = "refill"
    /\ LET range == {u \in User : u > refilled /\ u <= refilled + RefillBatch}
       IN  /\ \A u \in range : locked[u] = Nobody
           /\ row' = [u \in User |-> IF u \in range /\ Exists(u) /\ row[u].full = Null
                                     THEN [row[u] EXCEPT !.full = JoinNames(row[u].first, row[u].last)]
                                     ELSE row[u]]
    /\ refilled' = refilled + RefillBatch
    /\ contract' = IF \E u \in User : u > refilled' THEN "refill" ELSE "no"
    /\ UNCHANGED column
    /\ RestOfContract

----------------------------------------------------------------------------
RequestStep(w) == Create(w) \/ Lock(w) \/ Save(w) \/ Answer(w)
JobStep == SelectBatch \/ UpdateBatch \/ EndSweep

NamesNext ==
    \/ \E p \in Replica : Refresh(p)
    \/ \E w \in Request : Begin(w) \/ RequestStep(w) \/ Aborts(w)
    \/ StartJob \/ JobStep \/ StopJob
    \/ SetFlags
    \/ Check \/ Drop \/ GivesUp \/ AddColumn \/ Refill

NamesSpec == NamesInit /\ [][NamesNext]_nameVars

\* Handlers run, and the operator runs the job again while it ends with rows
\* remaining.
FairNamesSpec ==
    /\ NamesSpec
    /\ \A w \in Request : WF_nameVars(RequestStep(w))
    /\ WF_nameVars(StartJob \/ JobStep)

----------------------------------------------------------------------------
(* Properties.                                                             *)

\* Type invariant; only the job and requests that reached "save" hold row locks, and
\* the checkpoint never runs ahead of the ids.
NamesTypeOK ==
    /\ flags \in Flags /\ cached \in [Replica -> Flags]
    /\ \A u \in User : Exists(u) => column \/ row[u].full = Null
    /\ \A u \in User, w \in Request : locked[u] = w => pc[w] = "save" /\ op[w].user = u
    /\ \A u \in User : locked[u] = Job <=> u \in DOMAIN job.batch
    /\ checkpoint \in User \cup {0}
    /\ contract \in {"no", "checked", "done", "refill"}

\* The public name of a user is the one the last acknowledged POST or PUT asked for,
\* whatever flags the replica that answers a GET sees, on the way forward (create_user,
\* update_user, the backfill, 0005, build_user_response).
ShownIsSaved ==
    ~course.back => \A u \in User, p \in Replica : Exists(u) =>
        BuildUserResponse(row[u], cached[p].read).full = JoinNames(saved[u].first, saved[u].last)

ForwardFromDual == course.start = "dual" /\ ~course.back

\* Once 0004 is in and dual write is everywhere, every response is sound in the sense
\* of check_user_body: a name and a first name, which agree, on every replica.
BodiesSound ==
    ForwardFromDual => \A u \in User, p \in Replica : Exists(u) => Sound(BuildUserResponse(row[u], cached[p].read))

\* No request and no read names users.full_name when the contract has dropped it: the
\* HTTP 500 the docstring of 0005 warns of.
NoRequestFails ==
    /\ ~failed
    /\ \A p \in Replica : cached[p].read = "legacy" => column

\* legacy_new_disagree, expected to be 0 at every stage: two writers of one row, the
\* backfill among them, never leave columns that spell different names.
NoneDisagree ==
    ForwardFromDual /\ flags.write = "dual" => \A u \in User : Exists(u) => ~Disagree(row[u])

\* users_without_any_name, "DATA LOSS": whatever phase the migration is in or went back
\* to, each row keeps a name and every replica answers with one.
NobodyNameless ==
    \A u \in User : Exists(u) =>
        /\ row[u].full # Null \/ row[u].first # Null
        /\ \A p \in Replica : BuildUserResponse(row[u], cached[p].read).full # Null

\* With dual write on every replica the backfill, run again while it reports remaining
\* rows, fills every row: locked rows it skipped, rows created below its cursor, and
\* rows a batch it was stopped in did not commit.
EveryRowMigrated == ~course.back /\ DualEverywhere ~> (Remaining = {})
=============================================================================
