# Ticket booking: TLA+ models, checks and proofs

A ticket-booking platform keeps its sales in PostgreSQL and the seat counters of
its event catalog in MongoDB, and has no transaction over both. It runs in several
replicas that share feature flags, changes its user table while it takes requests,
and guards its tables with locks, limits and constraints. This directory models
those parts, checks them with TLC on small instances and proves their main
properties with TLAPS for every instance.

    cd tla
    tlc -workers 2 -config booking.cfg MCBooking
    tlapm BookingProofs.tla    # then OperationProofs, SeedProofs, NameProofs,
                               # FlagProofs, WaitsProofs, GuardProofs, PageProofs

## Inventory

| Part | State | Operations | What makes it correct |
|---|---|---|---|
| Order placement (`order_service.create_order_dual_db`) | `orders`, `tickets`, `outbox_events` rows; `zones[].booked_count` in MongoDB | idempotency check, validation, one conditional update per zone, one SQL transaction, compensation | no oversell, no seat twice, all or nothing, a retry gets its first order |
| Payment (`payment_service.process_order_payment`) | the order row and what hangs on it, `payments` | lock, refuse, expire late, or confirm and charge | one charge, never for an expired order |
| Hold expiry (`order_service.cleanup_expired_seat_holds`, run by `outbox_worker`) | the same rows and counters | claim with SKIP LOCKED, expire, count, give seats back | every hold ends, seats come back exactly once |
| Outbox worker | `outbox_events.status` | mark pending rows processed, purge old ones | each row once, none purged before it is processed |
| Feature flags (`core/flags.py`) | table rows; per replica a cache, its age, two locks | stale-while-revalidate read, upsert, invalidate | bounded staleness, no way back to older flags, every flip arrives |
| Users and the name migration (`user_service`, `backfill.py`, `0005`) | `full_name`, `first_name`, `last_name`; checkpoint; flags | create and update in three write modes, batch backfill, contract, downgrade | no name lost or overwritten through expand, migrate, contract and rollback |
| Audit and repair (`verify_consistency.py`) | none of its own | re-read while drifting, `--repair` | no check but drift ever fails; what is reported of a system at rest is there; a repair makes the counters right for good |
| Sessions, pool and locks (`core/database.py`, `core/db_errors.py`) | connections, row locks, unique index entries | check out, lock, wait, time out, classify | nobody waits in a circle, every wait ends, the answer is what the tables hold |
| Guard migration (`0007_db_guards.py`) | an index, five constraints, the revision | check, build concurrently, add, validate, retry | a stamped database is guarded; no failed run leaves an index behind |
| Seeding (`seed.py`) | everything above | delete, insert, TRUNCATE, refill, copy the counts | a complete run leaves counters equal to tickets, whatever died before |
| Seat map page (`seats.js`) | picks and their copy in the session, greyed seats, idempotency key | pick, submit, retry, reload | a retry finds its order, the checkout shows seats picked |
| Checkout page (`checkout.js`) | order shown, countdown | load, pay, expire | what it shows agrees with the answer |
| Event catalog (`event_service`) | `events` documents | create; no update endpoint | capacity never changes under sold seats |
| Pages, load and measurement tools, plain DDL | - | - | not part of a protocol |

How they meet. An order request calls MongoDB, then PostgreSQL, then MongoDB
again if PostgreSQL refused. Payments and workers meet on the order row's lock,
commit PostgreSQL first and then give seats back in MongoDB. Orders meet each
other on the zone counter, the unique key index and the unique seat index. All
three leave outbox rows. The user endpoints ask the flag cache of their replica
which columns to use, and meet the backfill on row locks and the contract on the
table lock. Every call needs a connection of the pool, a flag refresh one more. The audit,
the seed script and the migrations work on the same tables from outside the
API. There are no messages and no distributed transaction.

What is hard: the gap between the two databases (a crash, a lost reply or a
failed call in it), the races on one order row, retries under one idempotency
key, a COMMIT of unknown outcome, counters that have drifted, replicas that see
different flags over one table, scripts that take several transactions and can die between
them, and waits that could close a circle. The list with lines is in
`PROJECT.json`, "hazards".

## Modules

| Module | What it is |
|---|---|
| `Booking` | order placement, payment and hold expiry over both databases; properties, inductive invariant |
| `SeatSale` | abstract specification: the sale as one database would run it |
| `BookingRefinement` | the refinement mapping from `Booking` to `SeatSale` |
| `OutboxWorker` | composes `Booking` with the whole cycle of the background workers |
| `Audit` | composes `Booking` with the audit and its repair |
| `FlagCache` | the flag caches of the replicas and the table behind them |
| `NameRules` | the pure name rules: split, join, resolve, fill, respond, verify |
| `NameMigration` | user requests, backfill, operator and contract over one users table |
| `PgWaits` | connections, locks and the flag refresh: who waits for whom and is answered what; a second implementation of `SeatSale` |
| `DbGuards` | migration 0007 on a live system |
| `Seed` | the seed script, its deaths, and an order in between |
| `SeatsPage` | the seat page of one fan against the API |
| `MC*` | the small instances |
| `BookingProofs` | theorems: no oversell, ledger, exact counters, true answers; `Booking` implements `SeatSale` |
| `OperationProofs` | theorems: workers and audit beside `Booking`: rows handled once, alarms true, repairs last |
| `SeedProofs` | theorems: all or nothing, labels and counters of a run are right |
| `NameProofs` | theorems: no name lost, no column missed, every replica shows the saved name |
| `FlagProofs` | theorems: flags are recent, and never go back |
| `WaitsProofs` | theorems: no deadlock, true answers; a transaction of many locks is atomic |
| `GuardProofs` | theorems: a stamped database is guarded; no index is left behind |
| `PageProofs` | theorems: a retry finds its order, the checkout shows what was picked |

### Booking and the code

One action is one step another process can see: a MongoDB `update_one` or a
PostgreSQL transaction.

- **Requests.** `pc[r]` follows `create_order_dual_db`: `new` (steps 1 and 2,
  actions `Replay`, `Refuse`, `Accept`), `reserve` (step 3, one `Reserve` per zone
  in sorted order, `SoldOut`, `ReserveFails`, then step 4, `Commit`, `Conflict`,
  `PgFails`, `CommitAckLost`), `release` (`_release_reservations`, one zone per
  step) and `done`. `reserved[r]` is `mongo_reserved`; `code[r]` is the answer.
  A conflict is answered after the release, as in the code, so the
  winning order is looked up then (`AnswerFailure`).
- **Tables.** `order`, `tickets`, `payments` and `outbox` are the rows; an order
  is named by the request that wrote it. `overdue[r]` is `expires_at < now`. A
  payment clears it, as it clears `expires_at`.
- **Payments and workers.** `at[a]` is where they are, `holds[a]` the rows they
  hold `FOR UPDATE`, `owed[a]` the cancelled tickets they counted and must still
  give back, `slow[a]` the zone in the one-by-one fallback of
  `_release_counted_seats`. `SweepClaim` skips locked rows.
  `cleanup_expired_seat_holds` repeats batches: a worker does `SweepClaim` again.
  The endpoint that triggers a cleanup by hand is one more such worker.
- **Faults.** `MaxFaults` bounds crashes and failed calls together. A failed
  reservation may have been applied (`ReserveFails`). A failed release may have
  been applied too: that is the successful step. `LostAck` lets a COMMIT
  take effect and look failed. For a sweep this is `SweepCommit` followed by
  `ReleaseDies`: the worker sees an exception and does not release. A process that
  dies after its commit leaves the state of `Commit`; only the client's answer is
  missing.

Abstractions: a payload is a user, a key and a set of lines, where two tickets of
one zone are two lines. `ZoneOf` and `SeatOf` stand for the matching of zone names
(strip, lower case), event ids and seat numbers (strip): two lines may be
spellings of one seat. Prices, order numbers, telemetry and read-only endpoints are left out. The
oldest-first choice of a batch is any choice of that size. A payment refused for
a wrong amount, for an unknown order, for a resolved one, or by a lock wait
that timed out changes nothing: one action, `PayRefused`. The waits on a unique
index are inside the transaction; an aborted wait is `PgFails`. The collection
validator of MongoDB is taken as installed. Statuses the code never writes
(`paid`, `cancelled` orders; `used`, `refunded` tickets) do not occur.

### OutboxWorker and the code

`phase[s]` is the step of `run_worker_cycle` worker `s` is in: `holds` (the sweep
of `Booking`, `SweepHolds`, `HoldsFault`), `mark` (`process_pending_outbox_events`)
or `purge` (`purge_processed_outbox_events`). The last two run one SQL statement
at a time: `LockRows` is its `SELECT ... LIMIT n FOR UPDATE SKIP LOCKED`,
`MarkCommit` or `PurgeCommit` its effect and COMMIT. `StatementFails` is the
`except` of the cycle, or the death of the replica. `handled[e]` counts how often a
row was marked; `purged` are the rows deleted; `old` those past the retention (a
retention of 0 is a clock that never gets there). Abstractions: a batch is any of its
size, not the oldest; after a sweep the worker may go on or not, since whether its
batch was full is not remembered; and `max_batches` is a free choice to stop.

### Audit and the code

`step` is where `main` and `run_audit` are: `tables` (`postgres_checks` and the
SELECT of the ticket counts), `counters` (the later find in MongoDB), `report`,
`repair` (one `update_one` per drifted zone). The steps of `Booking` fall between
any two of them. `conduct` is the operator's choice: does he repair, and has he
stopped the traffic or the workers. Abstractions: the checks of one pass read the
same tables, since each is a property of every committed state;
`tickets_for_unknown_zone` has no counterpart, for `Booking` loses no zone.

### FlagCache and the code

`pc[t]` is the line of `get_all_flags` thread `t` is at; each look at the clock, at
`_cache` or at a lock is a step of its own, because threads of one replica share
them without a common lock. `age[p]` is the time since `_loaded_at`,
`refreshing[p]` the holder of `_refresh_lock`. `Publish` is the part of `_refresh`
under `_lock`, `Stamp` the write of `_loaded_at` outside it, also after a failed
read. A content of the table is the number of the `set_flag` that made it. Time is
counted in ticks and passes only while a thread waits for the database, for
a lock, or for a caller; a read ends within `MaxRead`.

### NameRules, NameMigration and the code

A name is the sequence of its words. `Derive` and `ResolveNames` are
`resolve_names`, `Patch` the body of `update_user`, `NamesFor` and `Fill` the backfill's
rules, `BuildUserResponse` what a GET answers. `op[w]` keeps the flags a request
began with: the two questions for flags are two calls, between which the cache
may change. `Lock`, `Save` and `Answer` are the SELECT FOR UPDATE, the COMMIT and
the read after it. The job works batch by batch: `SelectBatch` skips locked rows,
`UpdateBatch` writes, moves the checkpoint and commits. The operator follows
`docs/cp2_migration_scenario.md`: he waits until all replicas report the flags
(`Settled`) and verifies before he switches (`AfterBackfill`). `Course` says how
it goes: from legacy writes with whole-name bodies, from dual write with any body
of the tests, or there and back, the downgrade of `0005` included. Abstractions: replicas get flags
by `Refresh`, what `FlagCache` promises and no more; passwords and the uniqueness
of e-mails are one way to abort; a lock timeout of `0005` is `GivesUp`.

### PgWaits and the code

`Booking` takes a PostgreSQL transaction as one step; here it takes its locks one
by one: order rows, entries of keys, entries of seats in the order of
`_lock_order_key`. `Kind` tells these apart, and the empty key from a key. A call
first gets a connection (`Connect`), a signup then asks for the flags and holds it
meanwhile, a read asks first. The thread that refreshes needs one more connection
(`RefreshConnects`); others answer from the old values, or wait if there are none.

An order with a key looks for the order that has it (`LookUp`: replayed, or refused
as reused) before it locks anything. When it meets a committed row it ends
(`Refused`, answered by `Verdict`: 409 for a seat or a paid order, 500 for any other
constraint, which is the empty key's), unless the row is that of its key
(`Raced`): then it rolls back, which puts its connection back, waits for another one,
and looks again (`LookAgain`: the winning order, or 500 when there is none).
`outcome[c]` is how a call ended, `Answer` its status: the one the service chooses or,
for the ends of `PoolTimesOut`, `LockTimesOut` and `ConnectionLost`, that of
`classify_db_error` (`Classify`). A lost connection has no SQLSTATE, or 57P01
when it is the server that ends the session. `RefreshTimesOut` is swallowed by
`_refresh`. `foreign` are entries locked by a session outside, as `resilience_lab.py`
does it. `Setting` says which calls come, with which limits, flags and sessions
outside. Abstractions: unknown and foreign users are `Booking`'s, and the
fingerprint of a key is the number of items.

With a pool of one connection a signup that finds the flags expired waits for itself
until the pool timeout; `PoolAssumption` asks for two. Before the very first load,
signups that hold all connections can wait for the one that refreshes: then only
the pool timeout helps, and `NoDeadlock` exempts exactly the circles through such a
wait.

### DbGuards and the code

`step` follows `upgrade()` of `0007`: refuse if the data breaks a rule, drop an
invalid index, build the unique index concurrently, then one `ALTER` and one
`VALIDATE` per table in one transaction, with retries when the lock is not had
in time. `check` is what the migration sees, `saved` what is committed, `locked` the tables it holds
ACCESS EXCLUSIVE; an `ALTER` that queues blocks whoever comes after it. `WriteBadRow` is a script or a bug of the kind the guards are
for; `CleanData` the correction the error message asks for.

### Seed and the code

`step` follows `main()`; the orders of one run are one transaction (`session`),
everything else is committed at once. `next` and `active` are
`seat_label_counters` and `active_seat_counts`. A label is a row and a place, so
that `SeatLabel` shows what counting up does at the end of a row. `live` says
whether an order of the API falls in between. Names, prices and the choice of
shows are abstract; so is the capacity, which the script does not look at.

### SeatsPage and the code

`selected`, `taken`, `booked` and `key` are fields of `state`, `stored` the copy in
`sessionStorage`. Each POST is a record in `calls` with what it asks, where the
API is with it (`sent`, `checked`, `done`) and whether the page still `waits` for
it: a reload stops waiting, and the request goes on. `IsTaken` keeps the rule of the page: a
seat is grey if it was refused or if its hash falls below the booked share. The
API is `CheckKey` and `Insert`, the two looks at the key that `Booking` has, with
holds that expire and rivals who book. `edited` and `again` are history: was anything
picked or dropped by the fan since the last click, and so is a call a retry.
`accused` are the seats of the order that was refused; `taken` those the page greyed
for it, which are the picks at the time the refusal arrives.

## Runs

| Run | Question | Size, time |
|---|---|---|
| `booking` | do two requests, two payments and two workers oversell, lose or double-sell seats, answer falsely, or differ from the sale of one database, with two faults anywhere? | 138k states, 35 s |
| `booking_live` | does every request and release end, and the counter stay in range when COMMITs are misread? | 40k, 90 s |
| `outbox` | do two workers handle a row twice or forget one, and does every hold end? | 13k, 15 s |
| `flags` | how old can an answer be, can a replica go back, does the last flip arrive? | 338k, 60 s |
| `names` | does any user lose a name, or any request fail, through the phases and back; does the backfill reach every row? | 336k, 130 s |
| `audit` | does any check but drift fail in full traffic, is the drift reported of a resting system there, and does a repair last? | 423k, 40 s |
| `waits` | do calls wait in a circle, does every call end, is its answer what the tables hold, is a transaction atomic? | 84k, 90 s |
| `guards` | is a stamped database guarded, however the migration failed before? | 50k, 10 s |
| `seed` | does a complete run leave the databases consistent, and a dead one nothing half-done? | 2.9M, 40 s |
| `seats_page` | does a retry compete with its own order, does the page lead to an order never picked? | 245k, 15 s |
| `oversell_lost_ack` | finding: can a lost COMMIT answer oversell? Yes. | violation |
| `late_refusal` | finding: can a refused seat be picked again? Yes. | violation |

Bounds.

- *Booking.* Zone 1 has two seats and zone 2 one, so a zone can be filled by one
  order or shared by two, and an order can be refused in its second zone with the
  first in hand. There are two spellings of one numbered seat, general tickets in
  both zones and a zone the event does not have. Payloads include retries of a
  keyed purchase, a different purchase under the same key, an unknown user and an
  empty key. Two requests make every race of two orders, two payments and two
  workers every race on one row; two faults let the compensation of a failed step
  fail, too. `Batch` is 1, so that batches are full, and empty. Requests, payers and
  workers are symmetric, except in liveness runs, which use no symmetry.
- *OutboxWorker* takes the smallest catalog, an order of at most two rows, and
  batches of one and two.
- *Audit* has two requests, a payment and a worker over two zones, so that one
  death can make two counters drift, one re-read, and two faults, of which one can
  come after the repair.
- *FlagCache*: two threads that race in one replica and one in another; one flip,
  a time to live and a read of one tick each, one fault.
- *NameMigration*: one user from before and one new, two replicas with a thread
  each, two requests, one stop; batches of one row and two sweeps, so that a sweep
  can end with rows behind it.
- *PgWaits*: two connections and up to four calls at once. With a session outside that
  may never end, a cold replica and all limits: two orders that list the same two
  seats in opposite order and a signup, or an order, two signups (they can hold all
  connections) and a read. On a warm replica without any timeout: the two orders
  and two signups, or a purchase, its retry and a signup. With the limits, for the
  answers: a purchase and its retry beside another purchase under the key, or beside an
  order without a key that wants the same seats, so that a key and a seat can be
  lost in one race; and two empty keys and two payments of one order, three of them
  at a time.
- *DbGuards*: three tables, one of them `payments`, two transactions that use two
  tables in either order, five attempts as in the code, four runs, two deaths.
- *Seed*: a show on sale and one that is not, two zones, two orders of up to two
  tickets, rows of two seats (so that labels reach a second row), two runs.
- *SeatsPage*: two seats of one zone, two requests, two loads: the second request can be
  a retry, or the first one's late answer can meet other picks. `late_refusal` needs one
  request and no load.

Fairness. `FairSpec`: weak fairness of the steps of each request, payment and
worker, since the server runs the handlers it started and a worker wakes up on
every tick (`start_outbox_and_cleanup_worker` catches every error and goes on); and
of the clock. `FairWorkerSpec` asks the same, of the whole cycle of a worker.
`FairFlagSpec`: threads do not stop between two steps, requests keep coming to
each replica, and time goes on; that reads succeed is not assumed, only that faults
are finitely many. `FairNamesSpec`: handlers run, and the operator starts the
backfill again while it ends with rows remaining, which is what the exit code and the
scenario ask of him. `FairWaitsSpec`: the server runs every call, PostgreSQL grants
a free lock and enforces its limits; that somebody calls, that a connection breaks
or that the session outside ends is not assumed. Faults are never fair.

Deadlock is checked in `booking`, `booking_live`, `outbox`, `audit` and `flags`, where workers,
clocks or callers never stop. In `names`, `waits`, `guards`, `seed` and `seats_page`
the bounded work really ends, and `CHECK_DEADLOCK` is off; what must not get stuck
there is stated as `EveryRowMigrated`, `EveryCallEnds` and `NoDeadlock`.

What the two findings show:

1. `oversell_lost_ack`. `create_order_dual_db` treats an exception out of
   `commit()` as "nothing was written". If the COMMIT took effect, the order keeps
   its tickets and the counter gives their seats to the next one. With `LostAck`
   FALSE the same property is proved, so this is the only door.
2. `late_refusal`. `handleOrderError` greys out the picks of the moment, not those of the
   request (`seats.js:384`). Edit them while it runs, and the refusal greys seats that
   are free; the one that was refused stays free to pick, where `seats.js:11` says
   that the page "then greys that seat out". The next checkout with it is refused again.

### Further divergences met while modelling

These are not runs of their own. Where a property is named, its definition is in
the module, and TLC finds it violated when the cfg checks it instead of its own
properties.

- **An empty key ends in a 500.** `''` is no key for the code (`order_service.py:104`
  and 312) and a key for the unique column, so the second order sent with an empty
  Idempotency-Key header is answered 500. `README.md:378`: "A collision is a 409 and an
  overload is a 503, never a 500". `CollisionIsNotServerError` in `booking.cfg`.
- **A restart is not always a 503.** A server that stops tells a session in its
  transaction so, with SQLSTATE 57P01, which `db_errors.py:36` does not list; only an
  error without a SQLSTATE counts as an unreachable server (line 59). The answer is 500.
  `README.md:593`: a restart "makes PostgreSQL-backed endpoints answer `503` for the
  duration". `RestartIsUnavailable` in `waits.cfg`. `AnswersTell` says that this and the
  empty key are the only ways a call of `PgWaits` is answered 500.
- **A raced key is not compared.** The loser of two requests with one key gets the
  winning order with 201 and no fingerprint check (`order_service.py:319`); the
  docstring says "If payload differs, return 409" (line 90).
  `ReplayMatchesPayload` in `booking.cfg`.
- **Drift stays.** The worker marks outbox rows processed and reads none of
  them (`outbox_worker.py:55`), so a count left by a request that died stays until an
  operator repairs it. `README.md:197`: "ensuring network failures or crashes never leave
  the databases permanently out of sync". `CountersRecover` in `outbox.cfg`.
- **Flags can be older than their time to live.** After a quiet period the first
  caller refreshes and every other one gets the previous values, however old
  (`flags.py:68`). Line 59: "Flag values, at most FLAG_CACHE_SECONDS old".
  `AtMostTtlOld` in `flags.cfg` with `MaxRead` and `MaxFaults` 0. What does hold is
  `AnswersInTime`, proved as `FlagsInTime`.
- **A field not sent can lose its newest value.** While replicas differ, a
  legacy replica writes `full_name` only, and a later PUT of one part fills the
  other from the older columns (`user_service.py:296`). Line 261: "unspecified
  parts keep their stored value". The runs of `names` let the first fans send
  whole names; give `Way` "legacy" the bodies of one part and `ShownIsSaved` fails.
- **Old and new name in one answer.** A legacy update leaves the split columns of
  a dual replica, and `build_user_response` returns both (line 304).
  `traffic_gen.py:6` counts "a response with missing fields or inconsistent name
  mapping" as a failure. For that reason `BodiesSound` is stated for the courses in which
  legacy replicas have finished.
- **A rollback can show an old name.** In mode new a PUT leaves `full_name` as
  it was, and the read source legacy prefers it (line 138), although the docstring
  says such rows are derived (line 131). `ShownIsSaved` says so of every course but
  the one that goes back; without that exception it fails.
- **A name in two shapes.** `UserCreate` accepts `full_name` "Ann" with
  `last_name` "Berg", `resolve_names` stores both (line 52), and the verification
  of Phase 3, which "expects 0 rows" for `legacy_new_disagree`
  (`verify_users_migration.sql:47`), then fails.
- **A repair next to running workers.** `--repair` writes a count read earlier
  (`verify_consistency.py:178`); a worker that has committed an expiry and not yet told
  MongoDB subtracts it once more, and the next order oversells. `README.md:398`
  asks only "stop traffic first". `NoOversell` in `audit.cfg` with a `Conduct` of
  `stopWorkers |-> FALSE`; `RepairLasts` requires the workers to be stopped, too.
- **A pool timeout that is no 503.** `_refresh` swallows it (`flags.py:49`) and the
  call goes on with old or default flags. `README.md:459`: a request waits "at
  most `POSTGRES_POOL_TIMEOUT` (5 s) and then gets `503`". See `RefreshTimesOut`
  in `PgWaits`.
- **VALIDATE blocks.** `0007` adds and validates the constraints of all tables in
  one transaction, which keeps its ACCESS EXCLUSIVE locks while it scans
  (line 128). Line 20: "reads and writes continue". `ReadsAndWritesContinue` in
  `guards.cfg`.
- **Seeding a live system.** An order between the new catalog and the TRUNCATE, or
  after it, loses its rows or its count (`seed.py:216`). Line 16: "booked_count
  precisely matches active held & valid tickets". `SeedMatches` is stated for runs
  without such an order; without that exception it fails.
- **Organizers that do not exist.** `ORGANIZER_IDS` is 2..15 while `--users` takes
  any number (`seed.py:134`), so fewer users leave events with owners of no account.
  Read from the source; not in the model.
- **A key outlives its picks.** `load()` after "sold out" replaces the selection and
  keeps the key (`seats.js:140`); the next checkout can be answered with the order
  of other seats. Line 298: "a different set of seats is a different order".
  `ShownIsAsked` in `seats_page.cfg` with `MaxCalls` 3.
- **One's own seats are refused.** After a lost answer and a reload the page meets
  its own order and greys out the fan's seats (`seats.js:383`: "somebody else
  holds at least one of these seats"). `SomebodyElseHolds` in `seats_page.cfg`.

## Proofs

Every invariant and action property of the passing runs, and both refinements, are
proved for every value of the constants within the assumptions: all sets of
requests, payers, workers, zones, lines and payloads, of threads and replicas, of
users and bodies, of calls, seats and keys, of tables and shows, and every
capacity, batch size, limit and number of faults.

| Theorem | Establishes | Needs |
|---|---|---|
| **`BookingProofs`** | | |
| `TypeCorrect` | `Spec => []TypeOK` | |
| `CounterStaysInRange` | `Spec => []CounterInRange` | |
| `CounterSafe` | `Spec => []Inv` | `LostAck = FALSE`, as all below in this module |
| `NeverOversold` | `Spec => []NoOversell` | |
| `LedgerSafe` | `Spec => [](LedgerAgrees /\ OutboxTellsHistory)` | |
| `ResolvedForever` | `Spec => ResolvedOrdersStay` | |
| `BookingImplementsSale` | `Spec => ImplementsSale` | |
| `SeatsSoldOnce` | `Spec => []SeatSoldOnce` | |
| `NoSeatLost` | `Spec => []NoLostSeat` | |
| `AnswersAreTrue` | `Spec => []AnswerIsStoredOrder` | |
| `ErrorsSaveNothing` | `Spec => []ErrorSavesNothing` | |
| **`OperationProofs`** | | |
| `OutboxHandledOnce` | `WorkerSpec => []HandledOnce` | |
| `WorkersKeepBooking` | `WorkerSpec => [](Inv /\ LedgerAgrees /\ OutboxTellsHistory)` | `LostAck = FALSE` |
| `WorkersKeepSale` | `WorkerSpec => ImplementsSale` | `LostAck = FALSE` |
| `RowsNameEvents` | no order has a third outbox row, so `HandledOnce` speaks of all | `LostAck = FALSE` |
| `AuditOnlyLooks` | `AuditSpec => Spec` | nobody repairs |
| `AlarmsAreTrue` | `AuditSpec => []NoFalseAlarm` | `LostAck = FALSE`; who repairs stops traffic and workers, and `Prebooked` is 0 |
| `RepairsKeepSale` | `AuditSpec => ImplementsSale /\ []NoOversell` | as `AlarmsAreTrue` |
| `RepairsLast` | `AuditSpec => []RepairLasts` | `Prebooked` is 0 |
| **`SeedProofs`** | | |
| `SeedsAllOrNothing` | `SeedSpec => []AllOrNothing` | |
| `SeedNeverFails` | `SeedSpec => []NeverFails` | |
| `SeedCountsTickets` | `SeedSpec => []SeedMatches` | |
| `SeedStartsAfresh` | `SeedSpec => []NothingLeftOver` | |
| **`NameProofs`** | | |
| `NamesTyped` | `NamesSpec => []NamesTypeOK` | |
| `ColumnIsThere` | `NamesSpec => []NoRequestFails` | |
| `NoNameIsLost` | `NamesSpec => []NobodyNameless` | |
| `NamesAreShown` | `NamesSpec => []ShownIsSaved` | `OneShape`, `WholeNames` |
| `ResponsesAreSound` | `NamesSpec => []BodiesSound` | `OneShape` |
| `ColumnsAgree` | `NamesSpec => []NoneDisagree` | `OneShape` |
| **`FlagProofs`** | | |
| `FlagCacheSafe` | `FlagSpec => []FlagInv` | |
| `FlagsInTime` | no answer is older than time to live, read and lateness allow | |
| `FlagsNeverGoBack` | `FlagSpec => NeverGoesBack` | |
| **`WaitsProofs`** | | |
| `CallsNeverDeadlock` | `WaitsSpec => []NoDeadlock` | |
| `AnswersAreTrue` | `WaitsSpec => []AnswersTell` | |
| `TransactionsAreAtomic` | `WaitsSpec => TransactionIsAtomic` | |
| **`GuardProofs`** | | |
| `GuardsAlwaysHold` | `GuardsSpec => []GuardsHold` | |
| `NoIndexIsLeft` | `GuardsSpec => []NoIndexLeftOver` | |
| **`PageProofs`** | | |
| `KeysTellPicks` | `PageSpec => []PageInv` | |
| `CheckoutShowsPicks` | `PageSpec => ShownWasPicked` | |
| `RetriesFindTheirOrder` | `PageSpec => RetryFindsItsOrder` | |

Assumptions on the constants, named in the modules that declare them:
`ActorAssumption`, `CatalogAssumption`, `PayloadAssumption` and `BoundAssumption` of
`Booking` (finitely many requests and lines, a preset count within capacity),
`BatchAssumption` of `OutboxWorker`, `AuditAssumption`, `SeedAssumption`,
`NamesAssumption` (finitely many users, ids are numbers), `CacheAssumption`,
`WaitAssumption` and `PoolAssumption` (at least two connections), `GuardAssumption`,
`PageAssumption`. TLC evaluates them on every run.

What the third column asks beyond that, and why.

- `LostAck = FALSE`: no COMMIT takes effect and looks failed. The finding
  `oversell_lost_ack` shows that it is needed.
- `Prebooked` is 0: no event began with seats that no ticket stands for. A repair
  writes the number of tickets, so where other seats were booked it makes the counter
  too low; such an event is also `drift` from its first audit on.
- Who repairs stops everything: the divergence "A repair next to running workers".
- `OneShape`: a body that gives a full name gives no parts with it, or both parts
  of the same name; "A name in two shapes" shows why. `WholeNames`: on a way that
  begins with legacy writes, a body gives both parts or none; "A field not sent can lose
  its newest value" shows why. The bodies of the run obey both. The page
  `frontend/client.js` sends whole names in one shape or the same name in both; the
  schemas of the API ask for neither.

### The booking

`NoOversell` is not inductive: it says nothing of the counter. `Inv` says that in
each zone the preset count plus the seats of active tickets, of reservations in
progress and of releases still owed (`Claims`, one finite set of tickets) is at
most the counter, and the counter at most the capacity. Each step moves tickets
between those three parts, adds them together with the counter, or takes them out
before or together with it. For that the parts must not overlap: a request in
progress has no order (`RequestsOpen`), a row is locked by one agent at a time and
stays pending (`RowsLocked`), a ticket is owed by one agent and is cancelled
(`OwedOnce`). The lemmas `CounterStays`, `CounterDrops` and `CounterRises` do the
counting once; each action has a lemma that says which of them applies. `OwedOnce`
also shows that, without misread COMMITs, the one-by-one fallback of
`_release_counted_seats` is never needed. `TableStep` says what any step can do to
one row; `LedgerSafe` and `ResolvedForever` follow from it. `CounterStaysInRange`
needs none of this: each update of the counter has its own guard in the filter of the
`update_one`, and these suffice also when everything else is wrong.

The refinement needs `PaysOne`: a payment about to charge holds one row, so its
`PayCommit` is one abstract `Confirm`. `NoSeatLost` needs the other half of the
counter's equation, `NoDrift`, which only faults break. `AnswersAreTrue` needs
`KeysUnique` (one order per key) and `GivenIsStored` (who was given an order has
ended, and that order is in the table), since a request told of a stored order
stays right only if no second order of that key can follow.

### Workers and audit

`HandledOnce` needs `RowsHeld`: a row between the two halves of a statement is
locked by one worker and still has the status it was selected for. What `Booking`
proves survives the composition: `WorkersAreBooking` and `FaultQuiet` say that a
step of a worker is a step of `Booking` or touches nothing of it but the fault count.
`WorkersKeepSale` follows with `PaysOne` as in `Booking`.

An audit without repair changes nothing, so `AuditOnlyLooks` is a refinement and all
theorems of `Booking` hold beside it. A repair writes counters, and then the
argument starts anew. `CourseInv` says how an audit goes whatever is lost: who was
asked to stop is at rest (`Rests`) while it runs, so the tickets it counted are
those there are (`CountsFresh`), and every zone not in `drift` is right
(`DriftKnown`). `Loose` is what is left of `Inv` when COMMITs are misread, just
enough to say that a resting system claims nothing but tickets. At the end of
the repair every counter is then exact, and `StaysMended` keeps it so: `Covered` and
`NoDrift`, the two halves of the equation, are preserved by every step of the
booking but faults, and faults end the promise. It needs no bound on what went
wrong before the repair, which is why `RepairsLast` allows misread COMMITs.

`AlarmsAreTrue` carries `Inv`, the ledger and `SeatSoldOnce` through the repair: a
resting system has no claims but its tickets, these fit the capacity, and so do the
counts written. The tables a repair does not touch, so with the same invariant every
step is a step of the sale or none: `RepairsKeepSale`. That `active` was read earlier
than the counter it is compared with raises only `below` and `above`, the drift the
audit re-reads for; beside running orders these two may name a drift that no moment
had. With everything stopped they name what is there (`ReportIsRead`,
`ReportStays`): the counts are fresh, and the checks of the tables leave nothing
behind that could be taken for drift (`TablesFirst`).

### Seeding

The labels a run gives out are those below its counters `next` (`LabelsBelow`), and
`SeatLabel` gives different labels to different numbers (`LabelsDiffer`, from
uniqueness of quotient and remainder): so the next ticket is new (`NewUntaken`) and
`SeedNeverFails`. `active` counts the tickets of the open transaction, and after the
COMMIT those of the tables (`ActiveCounted`), each show and zone apart; the counters
are zero until each is set to that number once (`CountersSet`), which gives
`SeedCountsTickets`. `AllOrNothing` needs no rest of the API: the orders
of a run are numbered within their own transaction (`SessionKnown`), which starts on
tables the TRUNCATE has emptied of earlier ones (`SavesAtOnce`).

### Names

`Control` is about who does what. The flags any replica or request goes by are those
of the table or the ones the operator moved on from (`Near`), because he waits until all
replicas report the new ones; `0005` starts when all go by the last phase
(`Contracted`), so nobody asks for the dropped column. Whoever holds a row `FOR
UPDATE` has it as it is (`Held`, `Batched`), so nothing is written over what was read
before. `Rows` says that a row has a name, both parts of it or none, and both
once somebody may answer from them (`NewInUse`). That is what the verification before the
switch to the new columns is for: rows counted as migrated stay so, since then
nobody writes the old column only. These give the first three theorems, for
every body and on the way back, too.

The other three need `Told`, the relation of a row to the name last saved, on the
way forward: the old column spells it while it is written (`FullTold`), so do the
new ones once in use (`PartsTold`), and from dual write on they are exactly the
parts, or not there and the old column splits into them (`PartsAgree`). The lemmas on
`NameRules` (`Derive`, `Patch`, `Fill` and `BuildUserResponse` applied to names that
agree) say what a write does to these; the split of a joined name is the one
place where spelling, and not parts, is what survives.

### Flags, waits, guards and the page

`FlagInv` bounds the age of what a cache holds and of what a refresh has read and
not yet published; it needs that only the holder of `_refresh_lock` has read
something. That nobody gets an empty answer before the first load is one of
its conjuncts.

`CallsNeverDeadlock` follows each circle of waits to its largest waited-for entry:
order rows come before keys, keys before seats, seats in the global order, and a
call that waits for an entry holds only smaller ones. A call that waits for a
connection holds none, except the one refresher of a replica, and with two
connections, as long as no signup waits for the first load, one of the others is
about to run. `TransactionsAreAtomic` maps the waiting calls to `SeatSale`: an
entry is held by one transaction and by none once it is committed (`HeldAlone`), so
the COMMIT takes at once only what nobody had, and an abort takes nothing.
`AnswersAreTrue` adds what a call knows when it ends: it met a committed row of
somebody else, found one by its key, or lost what it held; committed rows stay, so the
answer is still so whatever happens later. A call that is to look again was beaten by
a committed order of its key, so `LookAgain` never comes back empty.

`GuardsAlwaysHold` needs that what a stamp commits was checked under the locks
the migration still holds, whichever earlier run died. `NoIndexIsLeft` adds that the
handler of each failure drops the index in the same run.

`PageInv` says that a key lives as long as the picks of the session (`KeyTellsPicks`):
calls with one key were made with the same picks, though perhaps for fewer of
them, and every order was asked for by a call of its key (`OrdersWereAsked`). So
whatever order a retry is answered with, the fan had picked its seats.
`RetriesFindTheirOrder` needs that a click after no edit takes the key of the one before
(`RetriesShareKey`): both looks of the API at the key then come before any look at the
seats.

### Only model-checked

Liveness, which is out of the prover's reach: `RequestsEnd`, `SeatsComeBack`,
`EventsHandled`, `HoldsEnd`, `FlipsArrive`, `EveryRowMigrated`, `EveryCallEnds`. The two
findings and the divergences are counterexamples, not theorems.

## Plan left

`CheckoutPage` (countdown, payment and a late answer); the databases `migrate.py`
can find when it starts; the orphan check of the audit; the downgrade of `0007`. For
the proofs: what replicas show on the way back, and a lower bound on the counter
when COMMITs are misread.

## Not modelled

The capacity the seed script ignores and its organizer ids; the health checks; the
connection pool of the MongoDB client; presentation, pagination and caching headers;
password hashing; field validation; load, measurement and fault tools, which
observe the system and keep none of its state; static DDL. `PROJECT.json`,
"components", lists every part with its status.
