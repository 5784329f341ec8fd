------------------------------ MODULE PgWaits ------------------------------
(***************************************************************************)
(* What the API calls of one replica wait for inside PostgreSQL and its    *)
(* connection pool: a connection, the lock of an order row or the unique   *)
(* index entry of a seat that an uncommitted transaction holds, and the    *)
(* one thread that refreshes the feature flags.  The other modules take a  *)
(* PostgreSQL transaction as one step; here it takes its locks one by one. *)
(***************************************************************************)
EXTENDS Integers, FiniteSets, Sequences

CONSTANTS
    Writer,     \* POST /orders and payment calls
    Register,   \* POST /users calls: they query before they ask for the flags
    Reader,     \* GET /users calls: they ask for the flags before they query
    Conn,       \* connections: POSTGRES_POOL_SIZE + POSTGRES_MAX_OVERFLOW
    Entries,    \* order rows, entries of idempotency keys and of seats, the seats
                \* last and numbered in the order of _lock_order_key
    Kind,       \* [Entry -> {"row", "key", "empty", "seat"}]: what an entry is; "empty"
                \* is the key '', a value for the column and no key for the code
    Asked,      \* [Writer -> Seq(Entry)]: what a call locks, as its body lists it
    Setting,    \* what a run begins with: which calls will come, are the timeouts set, have
                \* the flags been loaded before, which entries has a session outside locked
    Nobody

Entry == 1..Entries
Call == Writer \cup Register \cup Reader
Use == Call \X {"request", "flags"}

ASSUME WaitAssumption ==
    /\ Writer \cap (Register \cup Reader) = {} /\ Register \cap Reader = {}
    /\ Nobody \notin Call
    /\ Entries \in Nat
    /\ Kind \in [Entry -> {"row", "key", "empty", "seat"}]
    /\ Asked \in [Writer -> Seq(Entry)]
    /\ Setting \subseteq [calls : SUBSET Call, limits : BOOLEAN, warm : BOOLEAN,
                          foreign : SUBSET Entry]

\* A replica has more than one connection (20 + 10 in config.py).
ASSUME PoolAssumption ==
    /\ \E k, m \in Conn : k # m
    /\ Nobody \notin Use

VARIABLES
    pc,         \* pc[c]: where call c is
    conn,       \* conn[k]: who uses connection k, for what
    held,       \* held[c]: entries the open transaction of c has taken
    taken,      \* taken[e]: the call whose committed row has entry e
    foreign,    \* entries a session outside still holds
    limits,     \* the pool, lock and statement timeouts are set
    stale,      \* the flag values are older than FLAG_CACHE_SECONDS
    loaded,     \* _cache is not empty
    refreshing, \* the thread that holds _refresh_lock
    outcome     \* outcome[c]: how the call ended

flagVars == <<stale, loaded, refreshing>>
vars == <<pc, conn, held, taken, foreign, limits, flagVars, outcome>>

Items(c) == IF c \in Writer THEN {Asked[c][i] : i \in 1..Len(Asked[c])} ELSE {}

WaitsInit ==
    /\ conn = [k \in Conn |-> Nobody]
    /\ held = [c \in Call |-> {}]
    /\ taken = [e \in Entry |-> Nobody]
    /\ \E s \in Setting :
          /\ pc = [c \in Call |-> IF c \in s.calls THEN "new" ELSE "away"]
          /\ limits = s.limits /\ loaded = s.warm /\ foreign = s.foreign
    /\ stale = TRUE
    /\ refreshing = Nobody
    /\ outcome = [c \in Call |-> "none"]

----------------------------------------------------------------------------
(* Connections, answers and errors.                                        *)

Idle(k) == conn[k] = Nobody

\* c uses an idle connection for w; c puts back what it uses for w.
CheckOut(c, w) == \E k \in Conn : Idle(k) /\ conn' = [conn EXCEPT ![k] = <<c, w>>]
PutBack(c, w) == conn' = [k \in Conn |-> IF conn[k] = <<c, w>> THEN Nobody ELSE conn[k]]

Go(c, where) == pc' = [pc EXCEPT ![c] = where]

\* The errors that say a concurrent transaction got in the way, and those that say the
\* database is busy or away: a pool timeout, an error without a SQLSTATE, three SQLSTATEs.
\* 57P01, with which a server that stops ends its sessions, is not one of the three.
Retryable == {"deadlock", "serialization", "lock_timeout"}
Unavailable == {"pool_timeout", "unreachable", "statement_timeout", "too_many", "starting"}

\* classify_db_error, where None becomes a 500.
Classify(x) ==
    CASE x \in Retryable -> "409" [] x \in Unavailable -> "503" [] OTHER -> "500"

\* The status of the answer: those the services choose themselves come first.
Answer(x) ==
    CASE x \in {"committed", "replayed"} -> "2xx"
      [] x \in {"refused", "reused"} -> "409"
      [] OTHER -> Classify(x)

\* ROLLBACK, or no transaction at all: every lock and the connection come free.
Rollback(c) ==
    /\ held' = [held EXCEPT ![c] = {}]
    /\ PutBack(c, "request")
    /\ UNCHANGED <<taken, foreign, limits, flagVars>>

Abort(c, x) ==
    /\ Rollback(c)
    /\ outcome' = [outcome EXCEPT ![c] = x]
    /\ Go(c, "done")

Arrive(c) ==
    /\ pc[c] = "new"
    /\ Go(c, IF c \in Reader THEN "flags" ELSE "pool")
    /\ UNCHANGED <<conn, held, taken, foreign, limits, flagVars, outcome>>

\* The idempotency keys of c, one or none; an order that has one of them.
Keys(c) == {e \in Items(c) : Kind[e] = "key"}
Winner(c, d) == \E e \in Keys(c) : taken[e] = d

\* What a call does with its connection: a call with a key looks for an order that has it.
FirstQuery(c) ==
    IF c \in Register THEN "flags"
    ELSE IF Keys(c) = {} THEN "run"
    ELSE IF pc[c] = "pool" THEN "look" ELSE "relook"

\* The first statement of the session of get_db, or the first after a ROLLBACK.
Connect(c) ==
    /\ pc[c] \in {"pool", "repool"}
    /\ CheckOut(c, "request")
    /\ Go(c, FirstQuery(c))
    /\ UNCHANGED <<held, taken, foreign, limits, flagVars, outcome>>

PoolTimesOut(c) ==
    /\ limits
    /\ pc[c] \in {"pool", "repool"}
    /\ \A k \in Conn : ~Idle(k)
    /\ Abort(c, "pool_timeout")

----------------------------------------------------------------------------
(* get_flag, for the calls that need it.                                   *)

\* Where a call goes with its flag values in hand.
Onward(c) == Go(c, IF c \in Reader THEN "pool" ELSE "run")

\* Fresh values, or somebody else refreshes them: answer at once with what there is;
\* before the very first load there is nothing, so wait for it.
AnswerFlags(c) ==
    /\ pc[c] = "flags"
    /\ \/ ~stale /\ Onward(c)
       \/ stale /\ refreshing # Nobody /\ (IF loaded THEN Onward(c) ELSE Go(c, "wait"))
    /\ UNCHANGED <<conn, held, taken, foreign, limits, flagVars, outcome>>

\* _refresh_lock is free: take it, and look again whether the values are expired.
Refresh(c) ==
    /\ pc[c] \in {"flags", "wait"}
    /\ pc[c] = "flags" => stale
    /\ refreshing = Nobody
    /\ IF stale THEN Go(c, "refresh") /\ refreshing' = c
       ELSE Onward(c) /\ UNCHANGED refreshing
    /\ UNCHANGED <<conn, held, taken, foreign, limits, stale, loaded, outcome>>

\* _refresh reads the table on a session of its own: a second connection for a
\* call that has one already.
RefreshConnects(c) ==
    /\ pc[c] = "refresh"
    /\ CheckOut(c, "flags")
    /\ Go(c, "read")
    /\ UNCHANGED <<held, taken, foreign, limits, flagVars, outcome>>

Stamp(c) ==
    /\ stale' = FALSE
    /\ loaded' = TRUE
    /\ refreshing' = Nobody
    /\ Onward(c)
    /\ UNCHANGED <<held, taken, foreign, limits, outcome>>

ReadFlags(c) ==
    /\ pc[c] = "read"
    /\ PutBack(c, "flags")
    /\ Stamp(c)

\* The pool timeout is one of the exceptions _refresh swallows: the cached values,
\* or the defaults, count as just loaded and the call goes on.
RefreshTimesOut(c) ==
    /\ limits
    /\ pc[c] = "refresh"
    /\ \A k \in Conn : ~Idle(k)
    /\ Stamp(c)
    /\ UNCHANGED conn

\* FLAG_CACHE_SECONDS pass.
Expire ==
    /\ ~stale
    /\ stale' = TRUE
    /\ UNCHANGED <<pc, conn, held, taken, foreign, limits, loaded, refreshing, outcome>>

----------------------------------------------------------------------------
(* The transaction.                                                        *)

\* Mutant: validated_items are not sorted.
NextListed(c, e) ==
    /\ c \in Writer
    /\ \E i \in 1..Len(Asked[c]) :
          Asked[c][i] = e /\ \A j \in 1..i : Asked[c][j] \in held[c] <=> j < i

\* The lock the transaction takes next: validated_items are sorted by _lock_order_key.
NextLock(c, e) == e \in Items(c) \ held[c] /\ \A f \in Items(c) \ held[c] : e <= f

\* Mutant: the index does not look at rows that are not committed.
LockedOutside(c, e) == e \in foreign

\* Somebody's uncommitted transaction has e.
Locked(c, e) == e \in foreign \/ \E d \in Call \ {c} : e \in held[d]

\* 1. Idempotency check: the order that has the key, unless the fingerprint differs, of
\* which this module has the number of items.
LookUp(c) ==
    /\ pc[c] = "look"
    /\ \/ /\ ~\E d \in Writer : Winner(c, d)
          /\ Go(c, "run")
          /\ UNCHANGED <<conn, held, taken, foreign, limits, flagVars, outcome>>
       \/ \E d \in Writer :
             /\ Winner(c, d)
             /\ Abort(c, IF Len(Asked[d]) = Len(Asked[c]) THEN "replayed" ELSE "reused")

TakeLock(c) ==
    /\ pc[c] = "run"
    /\ \E e \in Entry :
          /\ NextLock(c, e) /\ ~Locked(c, e) /\ taken[e] = Nobody
          /\ held' = [held EXCEPT ![c] = @ \cup {e}]
    /\ UNCHANGED <<pc, conn, taken, foreign, limits, flagVars, outcome>>

\* The entry c needs next belongs to a committed row: IntegrityError of an INSERT, or an
\* order row that is paid by now.
Collides(c, e) == NextLock(c, e) /\ ~Locked(c, e) /\ taken[e] # Nobody

\* Mutant: every IntegrityError is a double booking, as once in the code.
VerdictAnyConstraint(e) == "refused"

\* A paid order and the seat index are told apart from all other constraints.
Verdict(e) == IF Kind[e] \in {"row", "seat"} THEN "refused" ELSE "integrity"

Refused(c) ==
    /\ pc[c] = "run"
    /\ \E e \in Entry : Collides(c, e) /\ Kind[e] # "key" /\ Abort(c, Verdict(e))

\* The key was raced: ROLLBACK, and then a query, which needs a connection again.
Raced(c) ==
    /\ pc[c] = "run"
    /\ \E e \in Entry : Collides(c, e) /\ Kind[e] = "key"
    /\ Rollback(c)
    /\ Go(c, "repool")
    /\ UNCHANGED outcome

\* The winning order, whatever it is for.
LookAgain(c) ==
    /\ pc[c] = "relook"
    /\ Abort(c, IF \E d \in Writer : Winner(c, d) THEN "replayed" ELSE "integrity")

\* Mutant: the limits of _pg_connect_args do not reach the connection.
NeverTimesOut(c) ==
    /\ limits
    /\ pc[c] = "run"
    /\ \E e \in Entry : NextLock(c, e) /\ Locked(c, e) /\ e \notin foreign
    /\ \E x \in {"lock_timeout", "statement_timeout"} : Abort(c, x)

LockTimesOut(c) ==
    /\ limits
    /\ pc[c] = "run"
    /\ \E e \in Entry : NextLock(c, e) /\ Locked(c, e)
    /\ \E x \in {"lock_timeout", "statement_timeout"} : Abort(c, x)

\* The server stops or the network fails: a new connection is refused; a transaction is
\* rolled back, and its next statement reports 57P01 or that the connection is gone.
ConnectionLost(c) ==
    \/ pc[c] \in {"pool", "repool"} /\ Abort(c, "unreachable")
    \/ /\ pc[c] \in {"look", "relook", "run"}
       /\ \E x \in {"unreachable", "admin_shutdown"} : Abort(c, x)

Commit(c) ==
    /\ pc[c] = "run"
    /\ held[c] = Items(c)
    /\ taken' = [e \in Entry |-> IF e \in held[c] THEN c ELSE taken[e]]
    /\ held' = [held EXCEPT ![c] = {}]
    /\ PutBack(c, "request")
    /\ outcome' = [outcome EXCEPT ![c] = "committed"]
    /\ Go(c, "done")
    /\ UNCHANGED <<foreign, limits, flagVars>>

\* The session outside commits without having written.
ForeignEnds ==
    /\ foreign # {}
    /\ foreign' = {}
    /\ UNCHANGED <<pc, conn, held, taken, limits, flagVars, outcome>>

----------------------------------------------------------------------------
CallStep(c) ==
    \/ Connect(c) \/ PoolTimesOut(c)
    \/ AnswerFlags(c) \/ Refresh(c) \/ RefreshConnects(c) \/ ReadFlags(c)
    \/ RefreshTimesOut(c)
    \/ LookUp(c) \/ TakeLock(c) \/ Refused(c) \/ Raced(c) \/ LookAgain(c)
    \/ LockTimesOut(c) \/ Commit(c)

WaitsNext ==
    \/ \E c \in Call : Arrive(c) \/ CallStep(c) \/ ConnectionLost(c)
    \/ Expire \/ ForeignEnds

WaitsSpec == WaitsInit /\ [][WaitsNext]_vars

\* The server runs every call it has a thread for, PostgreSQL grants a free lock and
\* enforces its limits.  Nobody has to call, lose a connection or end a session.
FairWaitsSpec == WaitsSpec /\ \A c \in Call : WF_vars(CallStep(c))

----------------------------------------------------------------------------
(* Properties.                                                             *)

\* Type invariant.
WaitsTypeOK ==
    /\ pc \in [Call -> {"new", "away", "pool", "look", "flags", "wait", "refresh", "read", "run",
                        "repool", "relook", "done"}]
    /\ conn \in [Conn -> Use \cup {Nobody}]
    /\ held \in [Call -> SUBSET Entry]
    /\ taken \in [Entry -> Call \cup {Nobody}]
    /\ foreign \subseteq Entry
    /\ {limits, stale, loaded} \subseteq BOOLEAN
    /\ refreshing \in Call \cup {Nobody}
    /\ outcome \in [Call -> {"none", "committed", "replayed", "reused", "refused", "integrity",
                             "lock_timeout", "statement_timeout", "pool_timeout",
                             "unreachable", "admin_shutdown"}]

\* An order with entry e is committed, and c has no part in it.
Others(c, e) == taken[e] \in Writer \ {c} /\ outcome[taken[e]] = "committed"

\* What an answer says is so, whoever raced, waited, gave up or rolled back meanwhile: a
\* call that committed has all it asked for and every other one nothing; an order given in
\* reply exists; "already reserved" and "already paid" are said only of a seat or an order
\* that a committed transaction has, never of one that is merely being tried; and a 500
\* means the empty key of another order, or a server that ended the session.
AnswersTell ==
    \A c \in Call : pc[c] = "done" =>
        /\ \A e \in Items(c) : outcome[c] = "committed" <=> taken[e] = c
        /\ outcome[c] \in {"replayed", "reused"} => \E e \in Keys(c) : Others(c, e)
        /\ outcome[c] = "refused" =>
              \E e \in Items(c) : Kind[e] \in {"row", "seat"} /\ Others(c, e)
        /\ Answer(outcome[c]) = "500" =>
              \/ outcome[c] = "admin_shutdown"
              \/ \E e \in Items(c) : Kind[e] = "empty" /\ Others(c, e)

\* README: while PostgreSQL restarts, the endpoints that need it answer 503.
RestartIsUnavailable ==
    \A c \in Call : outcome[c] \in {"unreachable", "admin_shutdown"} =>
        Answer(outcome[c]) = "503"

\* c waits for something that only calls of D can set free.
StuckIn(c, D) ==
    \/ /\ pc[c] = "run"
       /\ \E e \in Entry : NextLock(c, e) /\ \E d \in D \ {c} : e \in held[d]
    \/ /\ pc[c] \in {"pool", "repool", "refresh"}
       /\ \A k \in Conn : \E d \in D, w \in {"request", "flags"} : conn[k] = <<d, w>>
    \/ pc[c] = "wait" /\ refreshing \in D

\* No group of calls waits for each other, whatever they wait for, unless one of them
\* waits for the very first load of the flags: the sort of create_order_dual_db keeps
\* two orders from holding one seat each, and no later refresh makes a call wait.
NoDeadlock ==
    \A D \in SUBSET {c \in Call : pc[c] \in {"run", "pool", "repool", "refresh", "wait"}} :
        D # {} /\ (\A c \in D : StuckIn(c, D)) => \E c \in D : pc[c] = "wait"

\* Every call is answered: without any timeout when no session outside holds a lock and
\* the flags were loaded, and with the timeouts of config.py even when such a session
\* never lets go (README: every wait has a limit).  A call comes once, so that all
\* end means that some day none is under way.
EveryCallEnds == <>[](\A c \in Call : pc[c] \in {"new", "away", "done"})

\* What SeatSale sees of the calls: the orders committed, and the entries of their rows.
Status == [c \in Call |-> IF outcome[c] = "committed" THEN "pending" ELSE "none"]
Rows == [c \in Call |-> {e \in Entry : taken[e] = c}]

\* A transaction that takes its index entries one by one is the one atomic step of
\* SeatSale and of Booking: the seats of a committed order are all its seats, and no
\* seat is committed twice.
Sale == INSTANCE SeatSale
            WITH Order <- Call, Zone <- {1}, Capacity <- [z \in {1} |-> Cardinality(Entry)],
                 Line <- Entry, ZoneOf <- [e \in Entry |-> 1], SeatOf <- [e \in Entry |-> e],
                 status <- Status, seats <- Rows, charged <- [c \in Call |-> 0]

TransactionIsAtomic == Sale!SaleSpec
=============================================================================
