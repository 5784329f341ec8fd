----------------------------- MODULE SeatsPage ------------------------------
(***************************************************************************)
(* The seat page of one fan (frontend/app/seats/seats.js): the picked      *)
(* seats, the copy of them in sessionStorage, the seats greyed out, the    *)
(* Idempotency-Key, and any number of POST /orders under way.  A request   *)
(* can outlive the page's interest in it; its answer can be lost.  The API *)
(* is placed behind two steps: it looks the key up, later it inserts.      *)
(***************************************************************************)
EXTENDS Integers, FiniteSets, Sequences

CONSTANTS
    Zone,
    Seats,      \* seats of a zone; a seat's number is its rank by hash()
    MaxTickets, \* MAX_TICKETS
    MaxCalls,   \* bound on clicks on checkout
    MaxLoads    \* bound on loads of the page or of the counts

Seat == Zone \X (1..Seats)

ASSUME PageAssumption == {Seats, MaxTickets} \subseteq Nat \ {0} /\ {MaxCalls, MaxLoads} \subseteq Nat

VARIABLES
    selected, \* state.selected
    stored,   \* sessionStorage STORE_KEY
    taken,    \* state.taken and its copy in sessionStorage
    booked,   \* booked_count of the zones as last loaded
    key,      \* state.idemKey, 0 for null
    keys,     \* keys made so far
    edited,   \* picks were edited, or the page loaded, since the last click on checkout
    enabled,  \* the checkout button
    loading,  \* load() was called again and has not answered
    calls,    \* calls[i]: the i-th POST, what it asks and what became of it
    orders,   \* orders of this fan in PostgreSQL
    rivals,   \* seats others hold
    shown,    \* seats of the order the checkout page shows, {} on the seat page
    accused,  \* seats of the last "Someone just took one of those seats"
    loads

pageVars == <<selected, stored, taken, booked, key, keys, edited, enabled, loading, loads>>
apiVars == <<orders, rivals>>
endVars == <<shown, accused>>
vars == <<pageVars, calls, apiVars, endVars>>

\* isTaken: a seat is grey if the API refused it, or if its hash is below the
\* share of the zone that is booked.
IsTaken(s, gone, counts) == s \in gone \/ s[2] <= counts[s[1]]

\* The picks of the session that init() puts back.
Restore(gone, counts) == {s \in stored : ~IsTaken(s, gone, counts)}

PageInit ==
    /\ selected = {} /\ stored = {} /\ taken = {}
    /\ booked = [z \in Zone |-> 0]
    /\ key = 0 /\ keys = 0 /\ edited = TRUE /\ enabled = FALSE /\ loading = FALSE /\ loads = 0
    /\ calls = <<>> /\ orders = {} /\ rivals = {} /\ shown = {} /\ accused = {}

OnPage == shown = {}

----------------------------------------------------------------------------
(* The fan.                                                                *)

\* Mutant: the key lives as long as the page.
ChangedKeepsKey(picks) ==
    /\ selected' = picks /\ stored' = picks /\ key' = key
    /\ edited' = TRUE /\ enabled' = (picks # {})

\* selectionChanged(): a new set of seats gets a new key, and the button that
\* a request under way had disabled works again.
SelectionChanged(picks) ==
    /\ selected' = picks /\ stored' = picks /\ key' = 0
    /\ edited' = TRUE /\ enabled' = (picks # {})

ToggleSeat ==
    /\ OnPage
    /\ \E s \in Seat :
        \/ s \in selected /\ SelectionChanged(selected \ {s})
        \/ /\ s \notin selected /\ ~IsTaken(s, taken, booked)
           /\ Cardinality(selected) < MaxTickets
           /\ SelectionChanged(selected \cup {s})
    /\ UNCHANGED <<taken, booked, keys, loading, loads, calls, apiVars, endVars>>

ClearAll ==
    /\ OnPage /\ selected # {} /\ SelectionChanged({})
    /\ UNCHANGED <<taken, booked, keys, loading, loads, calls, apiVars, endVars>>

\* Mutant: every click makes a key of its own.
KeyOfEveryClick == keys + 1

\* The same key on a retry of the same picks.
KeyOfClick == IF key = 0 THEN keys + 1 ELSE key

Checkout ==
    /\ OnPage /\ enabled /\ selected # {} /\ Len(calls) < MaxCalls
    /\ key' = KeyOfClick
    /\ keys' = IF KeyOfClick > keys THEN KeyOfClick ELSE keys
    /\ calls' = Append(calls, [key |-> key', seats |-> selected, picks |-> stored, again |-> ~edited,
                               at |-> "sent", answer |-> "none", got |-> {}, waits |-> TRUE])
    /\ edited' = FALSE /\ enabled' = FALSE
    /\ UNCHANGED <<selected, stored, taken, booked, loading, loads, apiVars, endVars>>

\* The page is opened again, or the fan comes back from the checkout: picks
\* and refused seats come from the session, the key does not.
Reload ==
    /\ loads < MaxLoads /\ loads' = loads + 1
    /\ \E counts \in [Zone -> 0..Seats] :
        booked' = counts /\ selected' = Restore(taken, counts)
    /\ key' = 0 /\ edited' = TRUE /\ loading' = FALSE /\ enabled' = (selected' # {})
    /\ calls' = [i \in DOMAIN calls |-> [calls[i] EXCEPT !.waits = FALSE]]
    /\ shown' = {} /\ accused' = {}
    /\ UNCHANGED <<stored, taken, keys, apiVars>>

\* load() after "sold out" has the new counts: init() drops picks that look
\* taken by them, and brings back others; the key stays.
Loaded ==
    /\ OnPage /\ loading /\ loads < MaxLoads /\ loads' = loads + 1
    /\ \E counts \in [Zone -> 0..Seats] :
        booked' = counts /\ selected' = Restore(taken, counts)
    /\ loading' = FALSE /\ enabled' = (selected' # {})
    /\ UNCHANGED <<stored, taken, key, keys, edited, calls, apiVars, endVars>>

----------------------------------------------------------------------------
(* The API: create_order as the page can see it.                           *)

Held == UNION {o.seats : o \in {p \in orders : p.live}}

\* What a replay compares: the number of tickets per zone.
Fingerprint(S) == [z \in Zone |-> Cardinality({s \in S : s[1] = z})]

Answer(i, answer, got) ==
    calls' = [calls EXCEPT ![i].at = "done", ![i].answer = answer, ![i].got = got]

CheckKey(i) ==
    /\ calls[i].at = "sent"
    /\ \/ \E o \in orders :
            /\ o.key = calls[i].key
            /\ IF Fingerprint(o.seats) = Fingerprint(calls[i].seats)
               THEN Answer(i, "ok", o.seats) ELSE Answer(i, "error", {})
       \/ /\ \A o \in orders : o.key # calls[i].key
          /\ calls' = [calls EXCEPT ![i].at = "checked"]
    /\ UNCHANGED <<pageVars, apiVars, endVars>>

\* The unique columns decide: of the key first, whose order is the answer
\* whatever it holds, then of the seats.
Insert(i) ==
    /\ calls[i].at = "checked"
    /\ \/ \E o \in orders :
            o.key = calls[i].key /\ Answer(i, "ok", o.seats) /\ UNCHANGED orders
       \/ /\ \A o \in orders : o.key # calls[i].key
          /\ IF calls[i].seats \cap (Held \cup rivals) = {}
             THEN /\ Answer(i, "ok", calls[i].seats)
                  /\ orders' = orders \cup
                       {[key |-> calls[i].key, seats |-> calls[i].seats, live |-> TRUE]}
             ELSE Answer(i, "taken", {}) /\ UNCHANGED orders
    /\ UNCHANGED <<pageVars, rivals, endVars>>

\* No capacity left, seats of requests under way included; or 503 or 500,
\* which saves nothing.
Refuse(i) ==
    /\ calls[i].at = "checked"
    /\ Answer(i, "sold out", {}) \/ Answer(i, "error", {})
    /\ UNCHANGED <<pageVars, apiVars, endVars>>

\* A hold runs out; its key stays.  Others book.
Expire ==
    /\ \E o \in orders : o.live /\ orders' = (orders \ {o}) \cup {[o EXCEPT !.live = FALSE]}
    /\ UNCHANGED <<pageVars, calls, rivals, endVars>>

OthersBook ==
    /\ \E s \in Seat \ (Held \cup rivals) : rivals' = rivals \cup {s}
    /\ UNCHANGED <<pageVars, calls, orders, endVars>>

----------------------------------------------------------------------------
(* The answer arrives.                                                     *)

\* Over: the finally block enables the button by the selection of now.
Over(i) == calls' = [calls EXCEPT ![i].waits = FALSE]

ReceiveOk(i) ==
    /\ OnPage /\ calls[i].waits /\ calls[i].answer = "ok"
    /\ stored' = {} /\ shown' = calls[i].got
    /\ calls' = [j \in DOMAIN calls |-> [calls[j] EXCEPT !.waits = FALSE]]
    /\ UNCHANGED <<selected, taken, booked, key, keys, edited, enabled, loading, loads, apiVars, accused>>

\* Every seat picked now is greyed out and no longer picked.
ReceiveTaken(i) ==
    /\ OnPage /\ calls[i].waits /\ calls[i].answer = "taken" /\ Over(i)
    /\ taken' = taken \cup selected /\ accused' = calls[i].seats
    /\ SelectionChanged({})
    /\ UNCHANGED <<booked, keys, loading, loads, apiVars, shown>>

ReceiveSoldOut(i) ==
    /\ OnPage /\ calls[i].waits /\ calls[i].answer = "sold out" /\ Over(i)
    /\ loading' = TRUE /\ enabled' = (selected # {})
    /\ UNCHANGED <<selected, stored, taken, booked, key, keys, edited, loads, apiVars, endVars>>

\* Any other error, or no answer: the request may still be running.
ReceiveError(i) ==
    /\ OnPage /\ calls[i].waits /\ Over(i)
    /\ enabled' = (selected # {})
    /\ UNCHANGED <<selected, stored, taken, booked, key, keys, edited, loading, loads, apiVars, endVars>>

PageNext ==
    \/ ToggleSeat \/ ClearAll \/ Checkout \/ Reload \/ Loaded \/ Expire \/ OthersBook
    \/ \E i \in DOMAIN calls :
        \/ CheckKey(i) \/ Insert(i) \/ Refuse(i)
        \/ ReceiveOk(i) \/ ReceiveTaken(i) \/ ReceiveSoldOut(i) \/ ReceiveError(i)

PageSpec == PageInit /\ [][PageNext]_vars

----------------------------------------------------------------------------
(* Properties.                                                             *)

\* A click that repeats the last one ("same key on a retry of the same seats -> no duplicate
\* order") never competes with the order of that one: if it is there, whatever became of its
\* answer and of its hold, the retry makes no second order and is not told that the seats
\* are taken.  A reload in between is an edit: it loses the key.
RetryFindsItsOrder ==
    [][\A i \in DOMAIN calls :
        /\ calls[i].again /\ calls[i].at # "done" /\ calls'[i].at = "done"
        /\ \E o \in orders : o.key = calls[i - 1].key
        => calls'[i].answer # "taken" /\ orders' = orders]_vars

\* The page leads to the checkout only of seats the fan had picked when he
\* clicked: an order that comes back for a key, replayed or raced, holds no seat
\* from before the last edit.
ShownWasPicked ==
    [][shown' # {} /\ shown = {} =>
        \E i \in DOMAIN calls : calls[i].waits /\ shown' = calls[i].got /\ shown' \subseteq calls[i].picks]_vars

\* The checkout shows exactly the seats of the click that led to it ("a
\* different set of seats is a different order").
ShownIsAsked ==
    [][shown' # {} /\ shown = {} =>
        \E i \in DOMAIN calls : calls[i].waits /\ shown' = calls[i].got /\ shown' = calls[i].seats]_vars

\* The seats somebody else holds of an order that was refused are greyed out ("409 for a
\* seat that is really taken, and this page then greys that seat out").
RefusedIsGreyed == accused \cap rivals \subseteq taken

\* When the page says that someone just took a seat of the order, somebody else
\* holds one of them ("somebody else holds at least one of these seats").
SomebodyElseHolds == accused # {} => accused \cap rivals # {}
=============================================================================
