----------------------------- MODULE PageProofs -----------------------------
(* The seat page: the checkout shows nothing the fan had not picked when he *)
(* clicked, and a retry never competes with its own order.                  *)
EXTENDS SeatsPage, SequenceTheorems, TLAPS

----------------------------------------------------------------------------
(* Keys and picks.                                                          *)

POST ==
    [key : Nat, seats : SUBSET Seat, picks : SUBSET Seat, again : BOOLEAN, at : {"sent", "checked", "done"},
     answer : {"none", "ok", "taken", "sold out", "error"}, got : SUBSET Seat, waits : BOOLEAN]

PageTyped ==
    /\ selected \in SUBSET Seat /\ stored \in SUBSET Seat
    /\ key \in Nat /\ keys \in Nat /\ key <= keys
    /\ calls \in Seq(POST)
    /\ orders \in SUBSET [key : Nat, seats : SUBSET Seat, live : BOOLEAN]

\* What is picked is in the session, unless the session was emptied on the way
\* to the checkout.
PicksAreStored == OnPage => selected \subseteq stored

\* A key lives as long as the picks of the session: calls with one key were made
\* with the same picks, though perhaps for fewer of them.
KeyTellsPicks ==
    /\ \A i \in DOMAIN calls : calls[i].key \in 1..keys
    /\ \A i, j \in DOMAIN calls : calls[i].key = calls[j].key => calls[i].picks = calls[j].picks
    /\ OnPage => \A i \in DOMAIN calls : calls[i].key = key => calls[i].picks = stored

\* A call asks for something that was picked, and so does what it is answered.
AsksForPicks ==
    \A i \in DOMAIN calls :
        /\ calls[i].seats # {} /\ calls[i].seats \subseteq calls[i].picks
        /\ calls[i].answer = "ok" => calls[i].got # {} /\ calls[i].got \subseteq calls[i].picks

\* Every order was made by a call with its key.
OrdersWereAsked ==
    \A o \in orders :
        o.seats # {} /\ \E i \in DOMAIN calls : calls[i].key = o.key /\ o.seats \subseteq calls[i].picks

PageInv == PageTyped /\ PicksAreStored /\ KeyTellsPicks /\ AsksForPicks /\ OrdersWereAsked

\* The calls go on as they were sent.
CallsKept ==
    /\ calls' \in Seq(POST) /\ DOMAIN calls' = DOMAIN calls
    /\ \A i \in DOMAIN calls :
        /\ calls'[i].key = calls[i].key
        /\ calls'[i].seats = calls[i].seats
        /\ calls'[i].picks = calls[i].picks
        /\ calls'[i].again = calls[i].again

\* No call gets an answer.
AnswersKept ==
    /\ CallsKept
    /\ \A i \in DOMAIN calls : calls'[i].answer = calls[i].answer /\ calls'[i].got = calls[i].got

\* One call gets on.
LEMMA OneCall ==
    ASSUME PageTyped, NEW i \in DOMAIN calls, NEW c \in POST, calls' = [calls EXCEPT ![i] = c],
           c.key = calls[i].key, c.seats = calls[i].seats, c.picks = calls[i].picks,
           c.again = calls[i].again
    PROVE  /\ CallsKept
           /\ \A j \in DOMAIN calls : calls'[j] = IF j = i THEN c ELSE calls[j]
<1>1. calls \in Seq(POST) /\ i \in 1..Len(calls) /\ DOMAIN calls = 1..Len(calls)
  BY DEF PageTyped
<1>2. calls' \in Seq(POST) /\ Len(calls') = Len(calls)
  BY <1>1, ExceptSeq
<1>3. DOMAIN calls' = DOMAIN calls
  BY <1>1, <1>2
<1>4. \A j \in DOMAIN calls : calls'[j] = IF j = i THEN c ELSE calls[j]
  OBVIOUS
<1>5. QED
  BY <1>2, <1>3, <1>4 DEF CallsKept

\* The record of a call has the fields of one.
LEMMA CallFields ==
    ASSUME PageTyped, NEW i \in DOMAIN calls
    PROVE  calls[i] \in POST
BY ElementOfSeq DEF PageTyped

\* A call that is answered keeps what it asked for.
LEMMA AnswerKeeps ==
    ASSUME PageTyped, NEW i \in DOMAIN calls, NEW a \in {"none", "ok", "taken", "sold out", "error"},
           NEW g \in SUBSET Seat, Answer(i, a, g)
    PROVE  /\ CallsKept
           /\ calls'[i].answer = a /\ calls'[i].got = g
           /\ \A j \in DOMAIN calls \ {i} : calls'[j] = calls[j]
<1> DEFINE c == [[[calls[i] EXCEPT !.at = "done"] EXCEPT !.answer = a] EXCEPT !.got = g]
<1>1. calls[i] \in POST
  BY CallFields
<1>2. /\ c \in POST /\ c.key = calls[i].key /\ c.seats = calls[i].seats /\ c.picks = calls[i].picks /\ c.again = calls[i].again
      /\ c.answer = a /\ c.got = g
  BY <1>1 DEF POST
<1>3. calls' = [calls EXCEPT ![i] = c]
  BY Zenon DEF Answer
<1> HIDE DEF c
<1>4. QED
  BY <1>2, <1>3, OneCall

\* A step that leaves the calls as they were sent, and changes the picks only
\* along with the key.
LEMMA KeptInv ==
    ASSUME PageInv, CallsKept, keys' = keys,
           \/ key' = 0
           \/ key' = key /\ stored' = stored /\ (OnPage' => OnPage)
           \/ key' = key /\ ~OnPage',
           selected' \in SUBSET Seat, stored' \in SUBSET Seat, PicksAreStored', AsksForPicks',
           orders' \in SUBSET [key : Nat, seats : SUBSET Seat, live : BOOLEAN], OrdersWereAsked'
    PROVE  PageInv'
<1>1. PageTyped'
  BY DEF PageInv, PageTyped, CallsKept
<1>2. KeyTellsPicks'
  BY DEF PageInv, PageTyped, KeyTellsPicks, CallsKept
<1>3. QED
  BY <1>1, <1>2 DEF PageInv

\* What was right about calls and orders stays right when nobody is answered.
LEMMA AnswersKeptAsk ==
    ASSUME PageInv, AnswersKept
    PROVE  AsksForPicks' /\ (orders' = orders => OrdersWereAsked')
<1>1. AsksForPicks'
  BY DEF AnswersKept, CallsKept, PageInv, AsksForPicks
<1>2. orders' = orders => OrdersWereAsked'
  BY DEF AnswersKept, CallsKept, PageInv, OrdersWereAsked
<1>3. QED
  BY <1>1, <1>2

\* Calls that stay as they are, or whose answers nobody waits for any more.
LEMMA WaitsKeep ==
    ASSUME PageTyped,
           \/ calls' = calls
           \/ \E i \in DOMAIN calls : Over(i)
           \/ calls' = [i \in DOMAIN calls |-> [calls[i] EXCEPT !.waits = FALSE]]
    PROVE  AnswersKept
<1>1. CASE calls' = calls
  BY <1>1 DEF AnswersKept, CallsKept, PageTyped
<1>2. ASSUME NEW i \in DOMAIN calls, Over(i) PROVE AnswersKept
  <2> DEFINE c == [calls[i] EXCEPT !.waits = FALSE]
  <2>1. calls[i] \in POST
    BY CallFields
  <2>2. /\ c \in POST /\ c.key = calls[i].key /\ c.seats = calls[i].seats /\ c.picks = calls[i].picks /\ c.again = calls[i].again
        /\ c.answer = calls[i].answer /\ c.got = calls[i].got
    BY <2>1 DEF POST
  <2>3. calls' = [calls EXCEPT ![i] = c]
    BY <1>2 DEF Over
  <2> HIDE DEF c
  <2>4. QED
    BY <2>2, <2>3, OneCall DEF AnswersKept
<1>3. CASE calls' = [i \in DOMAIN calls |-> [calls[i] EXCEPT !.waits = FALSE]]
  <2>1. DOMAIN calls = 1..Len(calls) /\ Len(calls) \in Nat
    BY DEF PageTyped
  <2>2. ASSUME NEW i \in DOMAIN calls
        PROVE  /\ calls'[i] \in POST /\ calls'[i].key = calls[i].key /\ calls'[i].seats = calls[i].seats
               /\ calls'[i].picks = calls[i].picks /\ calls'[i].again = calls[i].again
               /\ calls'[i].answer = calls[i].answer /\ calls'[i].got = calls[i].got
    BY <1>3, CallFields DEF POST
  <2>3. calls' \in Seq(POST)
    BY <1>3, <2>1, <2>2, SeqDef
  <2>4. DOMAIN calls' = DOMAIN calls
    BY <1>3
  <2>5. QED
    BY <2>2, <2>3, <2>4 DEF AnswersKept, CallsKept
<1>4. QED
  BY <1>1, <1>2, <1>3

\* The fan edits the picks, or the page is refused some: there is no key then.
LEMMA EditInv ==
    ASSUME PageInv, NEW S \in SUBSET Seat, SelectionChanged(S), AnswersKept, UNCHANGED <<keys, orders>>
    PROVE  PageInv'
<1>1. PicksAreStored'
  BY DEF SelectionChanged, PicksAreStored
<1>2. QED
  BY <1>1, AnswersKeptAsk, KeptInv DEF SelectionChanged, AnswersKept, PageInv, PageTyped

\* A click on checkout sends what is selected, under the key of these picks.
LEMMA CheckoutInv ==
    ASSUME PageInv, Checkout
    PROVE  PageInv'
<1> DEFINE n == Len(calls)
           c == [key |-> key', seats |-> selected, picks |-> stored, again |-> ~edited, at |-> "sent",
                 answer |-> "none", got |-> {}, waits |-> TRUE]
<1>1. /\ calls \in Seq(POST) /\ n \in Nat /\ DOMAIN calls = 1..n
      /\ OnPage /\ OnPage' /\ selected # {} /\ selected \subseteq stored
      /\ UNCHANGED <<selected, stored, orders>>
  BY DEF Checkout, PageInv, PageTyped, PicksAreStored, OnPage, endVars, apiVars
<1>2. key' \in 1..keys' /\ keys' \in Nat /\ keys <= keys' /\ (key' = key \/ key' > keys)
  BY DEF Checkout, KeyOfClick, PageInv, PageTyped
<1>3. c \in POST
  <2>1. key' \in Nat /\ selected \in SUBSET Seat /\ stored \in SUBSET Seat /\ {} \in SUBSET Seat
    BY <1>2 DEF PageInv, PageTyped
  <2>2. QED
    BY <2>1 DEF POST
<1>4. calls' = Append(calls, c)
  BY DEF Checkout
<1>5. c.key = key' /\ c.seats = selected /\ c.picks = stored /\ c.answer = "none"
  OBVIOUS
<1> HIDE DEF c
<1>6. /\ calls' \in Seq(POST) /\ DOMAIN calls' = 1..(n + 1)
      /\ \A i \in 1..n : calls'[i] = calls[i]
      /\ calls'[n + 1] = c
  BY <1>1, <1>3, <1>4, AppendProperties
<1>7. PageTyped'
  BY <1>1, <1>2, <1>6 DEF PageInv, PageTyped
<1>8. PicksAreStored'
  BY <1>1 DEF PicksAreStored
<1>9. \A i \in 1..n : calls[i].key \in 1..keys /\ (calls[i].key = key' => calls[i].picks = stored)
  <2>1. \A i \in 1..n : calls[i].key \in 1..keys /\ (calls[i].key = key => calls[i].picks = stored)
    BY <1>1 DEF PageInv, KeyTellsPicks
  <2>2. QED
    BY <1>2, <2>1 DEF PageInv, PageTyped
<1>10. KeyTellsPicks'
  <2>1. \A i \in 1..(n + 1) : calls'[i].key \in 1..keys' /\ (calls'[i].key = key' => calls'[i].picks = stored)
    BY <1>1, <1>2, <1>5, <1>6, <1>9 DEF PageInv, PageTyped
  <2>2. \A i, j \in 1..n : calls[i].key = calls[j].key => calls[i].picks = calls[j].picks
    BY <1>1 DEF PageInv, KeyTellsPicks
  <2>3. \A i, j \in 1..(n + 1) : calls'[i].key = calls'[j].key => calls'[i].picks = calls'[j].picks
    BY <1>1, <1>5, <1>6, <1>9, <2>2
  <2>4. QED
    BY <1>1, <1>6, <2>1, <2>3 DEF KeyTellsPicks
<1>11. AsksForPicks'
  BY <1>1, <1>5, <1>6 DEF PageInv, AsksForPicks
<1>12. OrdersWereAsked'
  BY <1>1, <1>6 DEF PageInv, OrdersWereAsked
<1>13. QED
  BY <1>7, <1>8, <1>10, <1>11, <1>12 DEF PageInv

\* Whatever the API answers was asked for under the key of the call.
LEMMA AnswerInv ==
    ASSUME PageInv, NEW i \in DOMAIN calls, CheckKey(i) \/ Insert(i) \/ Refuse(i)
    PROVE  PageInv'
<1>1. UNCHANGED <<selected, stored, key, keys, shown>>
  BY DEF CheckKey, Insert, Refuse, pageVars, endVars
<1>2. PicksAreStored' /\ (OnPage' => OnPage)
  BY <1>1 DEF PageInv, PicksAreStored, OnPage
<1> DEFINE Kept == CallsKept /\ AsksForPicks' /\ orders' \in SUBSET [key : Nat, seats : SUBSET Seat, live : BOOLEAN]
                   /\ OrdersWereAsked'
<1>3. Kept => PageInv'
  BY <1>1, <1>2, KeptInv DEF PageInv, PageTyped
<1> HIDE DEF Kept
<1>4. ASSUME NEW a \in {"none", "ok", "taken", "sold out", "error"}, NEW g \in SUBSET Seat, Answer(i, a, g),
             a = "ok" => g # {} /\ g \subseteq calls[i].picks
      PROVE  CallsKept /\ AsksForPicks' /\ (orders' = orders => Kept)
  <2>1. /\ CallsKept /\ calls'[i].answer = a /\ calls'[i].got = g
        /\ \A j \in DOMAIN calls \ {i} : calls'[j] = calls[j]
    <3>1. PageTyped
      BY DEF PageInv
    <3>2. Answer(i, a, g)
      BY <1>4
    <3>3. QED
      BY <3>1, <3>2, AnswerKeeps
  <2>2. AsksForPicks'
    BY <1>4, <2>1 DEF PageInv, AsksForPicks, CallsKept
  <2>3. orders' = orders => OrdersWereAsked'
    <3>1. CallsKept
      BY <2>1
    <3>2. QED
      BY <3>1 DEF PageInv, OrdersWereAsked, CallsKept
  <2>4. QED
    BY <2>1, <2>2, <2>3 DEF Kept, PageInv, PageTyped
<1>5. ASSUME NEW o \in orders, o.key = calls[i].key
      PROVE  o.seats \in SUBSET Seat /\ o.seats # {} /\ o.seats \subseteq calls[i].picks
  BY <1>5 DEF PageInv, PageTyped, OrdersWereAsked, KeyTellsPicks
<1>6. CASE CheckKey(i)
  <2>1. ASSUME NEW o \in orders, o.key = calls[i].key, Answer(i, "ok", o.seats) PROVE PageInv'
    BY <1>3, <1>4, <1>5, <1>6, <2>1 DEF CheckKey, apiVars
  <2>2. CASE Answer(i, "error", {})
    <3>1. orders' = orders /\ {} \in SUBSET Seat
      BY <1>6 DEF CheckKey, apiVars
    <3>2. QED
      BY <1>3, <1>4, <2>2, <3>1
  <2>3. CASE calls' = [calls EXCEPT ![i].at = "checked"]
    <3> DEFINE c == [calls[i] EXCEPT !.at = "checked"]
    <3>1. calls[i] \in POST
      BY CallFields DEF PageInv
    <3>2. /\ c \in POST /\ c.key = calls[i].key /\ c.seats = calls[i].seats /\ c.picks = calls[i].picks /\ c.again = calls[i].again
          /\ c.answer = calls[i].answer /\ c.got = calls[i].got
      BY <3>1 DEF POST
    <3>3. calls' = [calls EXCEPT ![i] = c]
      BY <2>3
    <3> HIDE DEF c
    <3>4. AnswersKept
      BY <3>2, <3>3, OneCall DEF AnswersKept, PageInv
    <3>5. QED
      BY <1>3, <1>6, <3>4, AnswersKeptAsk DEF Kept, AnswersKept, CheckKey, apiVars, PageInv, PageTyped
  <2>4. QED
    BY <1>6, <2>1, <2>2, <2>3 DEF CheckKey
<1>7. CASE Insert(i)
  <2>1. ASSUME NEW o \in orders, o.key = calls[i].key, Answer(i, "ok", o.seats), UNCHANGED orders PROVE PageInv'
    BY <1>3, <1>4, <1>5, <2>1
  <2>2. CASE Answer(i, "taken", {}) /\ UNCHANGED orders
    <3>1. {} \in SUBSET Seat
      OBVIOUS
    <3>2. QED
      BY <1>3, <1>4, <2>2, <3>1
  <2>3. CASE /\ Answer(i, "ok", calls[i].seats)
             /\ orders' = orders \cup {[key |-> calls[i].key, seats |-> calls[i].seats, live |-> TRUE]}
    <3> DEFINE o == [key |-> calls[i].key, seats |-> calls[i].seats, live |-> TRUE]
    <3>1. calls[i] \in POST /\ calls[i].seats # {} /\ calls[i].seats \subseteq calls[i].picks
      BY CallFields DEF PageInv, AsksForPicks
    <3>2. CallsKept /\ AsksForPicks'
      BY <1>4, <2>3, <3>1 DEF POST
    <3>3. o \in [key : Nat, seats : SUBSET Seat, live : BOOLEAN] /\ o.key = calls[i].key /\ o.seats = calls[i].seats
      BY <3>1 DEF POST
    <3>4. orders' = orders \cup {o}
      BY <2>3
    <3> HIDE DEF o
    <3>5. OrdersWereAsked'
      BY <3>1, <3>2, <3>3, <3>4 DEF PageInv, OrdersWereAsked, CallsKept
    <3>6. QED
      BY <1>3, <3>2, <3>3, <3>4, <3>5 DEF Kept, PageInv, PageTyped
  <2>4. QED
    BY <1>7, <2>1, <2>2, <2>3 DEF Insert
<1>8. CASE Refuse(i)
  <2>1. orders' = orders /\ {} \in SUBSET Seat
    BY <1>8 DEF Refuse, apiVars
  <2>2. Answer(i, "sold out", {}) \/ Answer(i, "error", {})
    BY <1>8 DEF Refuse
  <2>3. QED
    BY <1>3, <1>4, <2>1, <2>2
<1>9. QED
  BY <1>6, <1>7, <1>8

\* An answer that arrives.
LEMMA ReceiveInv ==
    ASSUME PageInv, NEW i \in DOMAIN calls,
           ReceiveOk(i) \/ ReceiveTaken(i) \/ ReceiveSoldOut(i) \/ ReceiveError(i)
    PROVE  PageInv'
<1>1. AnswersKept
  BY WaitsKeep DEF ReceiveOk, ReceiveTaken, ReceiveSoldOut, ReceiveError, PageInv
<1>2. CASE ReceiveOk(i)
  <2>1. ~OnPage' /\ UNCHANGED <<selected, key, keys, orders>> /\ stored' = {}
    BY <1>2 DEF ReceiveOk, OnPage, apiVars, PageInv, AsksForPicks
  <2>2. PicksAreStored'
    BY <2>1 DEF PicksAreStored
  <2>3. QED
    BY <1>1, <2>1, <2>2, AnswersKeptAsk, KeptInv DEF AnswersKept, PageInv, PageTyped
<1>3. CASE ReceiveTaken(i)
  BY <1>1, <1>3, EditInv DEF ReceiveTaken, apiVars
<1>4. CASE ReceiveSoldOut(i) \/ ReceiveError(i)
  <2>1. UNCHANGED <<selected, stored, key, keys, orders, shown>>
    BY <1>4 DEF ReceiveSoldOut, ReceiveError, apiVars, endVars
  <2>2. PicksAreStored' /\ (OnPage' => OnPage)
    BY <2>1 DEF PageInv, PicksAreStored, OnPage
  <2>3. QED
    BY <1>1, <2>1, <2>2, AnswersKeptAsk, KeptInv DEF AnswersKept, PageInv, PageTyped
<1>5. QED
  BY <1>2, <1>3, <1>4

\* Every step keeps the invariant of the page.
LEMMA PageStep ==
    ASSUME PageInv, [PageNext]_vars
    PROVE  PageInv'
<1>1. CASE ToggleSeat \/ ClearAll
  <2>1. PICK S \in SUBSET Seat : SelectionChanged(S)
    BY <1>1 DEF ToggleSeat, ClearAll, PageInv, PageTyped
  <2>2. calls' = calls /\ UNCHANGED <<keys, orders>>
    BY <1>1 DEF ToggleSeat, ClearAll, apiVars
  <2>3. QED
    BY <2>1, <2>2, EditInv, WaitsKeep DEF PageInv
<1>2. CASE Reload
  <2>1. /\ key' = 0 /\ UNCHANGED <<stored, keys, orders>>
        /\ calls' = [i \in DOMAIN calls |-> [calls[i] EXCEPT !.waits = FALSE]]
        /\ selected' \subseteq stored
    BY <1>2 DEF Reload, Restore, apiVars
  <2>2. AnswersKept /\ PicksAreStored'
    BY <2>1, WaitsKeep DEF PageInv, PicksAreStored
  <2>3. QED
    BY <2>1, <2>2, AnswersKeptAsk, KeptInv DEF AnswersKept, PageInv, PageTyped
<1>3. CASE Loaded
  <2>1. OnPage /\ calls' = calls /\ UNCHANGED <<stored, key, keys, orders, shown>> /\ selected' \subseteq stored
    BY <1>3 DEF Loaded, Restore, apiVars, endVars
  <2>2. AnswersKept /\ PicksAreStored'
    BY <2>1, WaitsKeep DEF PageInv, PicksAreStored
  <2>3. QED
    BY <2>1, <2>2, AnswersKeptAsk, KeptInv DEF AnswersKept, PageInv, PageTyped
<1>4. CASE Checkout
  BY <1>4, CheckoutInv
<1>5. CASE Expire
  <2>1. PICK o \in orders : orders' = (orders \ {o}) \cup {[o EXCEPT !.live = FALSE]}
    BY <1>5 DEF Expire
  <2>2. UNCHANGED <<selected, stored, key, keys, calls, shown>>
    BY <1>5 DEF Expire, pageVars, endVars
  <2> DEFINE q == [o EXCEPT !.live = FALSE]
  <2>3. q \in [key : Nat, seats : SUBSET Seat, live : BOOLEAN] /\ q.key = o.key /\ q.seats = o.seats
    BY DEF PageInv, PageTyped
  <2>4. orders' = (orders \ {o}) \cup {q}
    BY <2>1
  <2> HIDE DEF q
  <2>5. OrdersWereAsked' /\ PicksAreStored' /\ (OnPage' => OnPage)
    BY <2>2, <2>3, <2>4 DEF PageInv, OrdersWereAsked, PicksAreStored, OnPage
  <2>6. AnswersKept /\ orders' \in SUBSET [key : Nat, seats : SUBSET Seat, live : BOOLEAN]
    BY <2>2, <2>3, <2>4, WaitsKeep DEF PageInv, PageTyped
  <2>7. QED
    BY <2>2, <2>5, <2>6, AnswersKeptAsk, KeptInv DEF AnswersKept, PageInv, PageTyped
<1>6. CASE OthersBook \/ UNCHANGED vars
  <2>1. UNCHANGED <<selected, stored, key, keys, calls, orders, shown>>
    BY <1>6 DEF OthersBook, pageVars, endVars, vars, apiVars
  <2>2. AnswersKept /\ PicksAreStored' /\ (OnPage' => OnPage)
    BY <2>1, WaitsKeep DEF PageInv, PicksAreStored, OnPage
  <2>3. QED
    BY <2>1, <2>2, AnswersKeptAsk, KeptInv DEF AnswersKept, PageInv, PageTyped
<1>7. QED
  BY <1>1, <1>2, <1>3, <1>4, <1>5, <1>6, AnswerInv, ReceiveInv DEF PageNext

\* Keys, picks and orders fit each other in every reachable state.
THEOREM KeysTellPicks == PageSpec => []PageInv
<1>1. PageInit => PageInv
  <2> SUFFICES ASSUME PageInit PROVE PageInv
    OBVIOUS
  <2>1. calls = <<>> /\ calls \in Seq(POST) /\ DOMAIN calls = {}
    BY DEF PageInit
  <2>2. QED
    BY <2>1 DEF PageInit, PageInv, PageTyped, PicksAreStored, KeyTellsPicks, AsksForPicks, OrdersWereAsked
<1>2. PageInv /\ [PageNext]_vars => PageInv'
  BY PageStep
<1>3. QED
  BY <1>1, <1>2, PTL DEF PageSpec

\* The page leads to the checkout only of seats that the fan had picked when he
\* clicked, whatever order comes back for the key of that click.
THEOREM CheckoutShowsPicks == PageSpec => ShownWasPicked
<1>1. ASSUME PageInv, [PageNext]_vars, shown' # {}, shown = {}
      PROVE  \E i \in DOMAIN calls :
                calls[i].waits /\ shown' = calls[i].got /\ shown' \subseteq calls[i].picks
  <2>1. shown' # shown
    BY <1>1
  <2>2. ~ (ToggleSeat \/ ClearAll \/ Checkout \/ Reload \/ Loaded \/ Expire \/ OthersBook \/ UNCHANGED vars)
    BY <1>1 DEF ToggleSeat, ClearAll, Checkout, Reload, Loaded, Expire, OthersBook, vars, endVars
  <2>3. PICK i \in DOMAIN calls : ReceiveOk(i)
    BY <1>1, <2>2 DEF PageNext, CheckKey, Insert, Refuse, ReceiveTaken, ReceiveSoldOut, ReceiveError, endVars
  <2>4. QED
    BY <1>1, <2>3 DEF ReceiveOk, PageInv, AsksForPicks
<1>2. QED
  BY <1>1, KeysTellPicks, PTL DEF PageSpec, ShownWasPicked

----------------------------------------------------------------------------
(* Retries.                                                                 *)

\* Without an edit the key of the last click is still there, and the next click takes it.
RetriesShareKey ==
    /\ ~edited => Len(calls) > 0 /\ key = calls[Len(calls)].key
    /\ \A i \in DOMAIN calls : calls[i].again => i > 1 /\ calls[i].key = calls[i - 1].key

\* The calls go on as they were sent, and the key goes only with the picks.
LEMMA KeptRetries ==
    ASSUME PageTyped, RetriesShareKey, CallsKept,
           edited' = TRUE \/ (edited' = edited /\ key' = key)
    PROVE  RetriesShareKey'
<1>1. DOMAIN calls = 1..Len(calls) /\ DOMAIN calls' = 1..Len(calls') /\ Len(calls) \in Nat /\ Len(calls') \in Nat
  BY DEF PageTyped, CallsKept
<1>2. Len(calls') = Len(calls)
  BY <1>1 DEF CallsKept
<1>3. ~edited' => Len(calls') > 0 /\ key' = calls'[Len(calls')].key
  BY <1>1, <1>2 DEF RetriesShareKey, CallsKept
<1>4. \A i \in DOMAIN calls' : calls'[i].again => i > 1 /\ calls'[i].key = calls'[i - 1].key
  BY <1>1, <1>2 DEF RetriesShareKey, CallsKept
<1> QED
  BY <1>3, <1>4 DEF RetriesShareKey

\* What the API does to a call leaves its request alone.
LEMMA ApiKeepsCalls ==
    ASSUME PageTyped, NEW i \in DOMAIN calls, CheckKey(i) \/ Insert(i) \/ Refuse(i)
    PROVE  CallsKept
<1>1. ASSUME NEW a \in {"none", "ok", "taken", "sold out", "error"}, NEW g \in SUBSET Seat, Answer(i, a, g)
      PROVE  CallsKept
  BY <1>1, AnswerKeeps
<1>2. \A o \in orders : o.seats \in SUBSET Seat
  BY DEF PageTyped
<1>3. {} \in SUBSET Seat /\ calls[i].seats \in SUBSET Seat
  BY CallFields DEF POST
<1>4. CASE CheckKey(i)
  <2>1. CASE calls' = [calls EXCEPT ![i].at = "checked"]
    <3> DEFINE c == [calls[i] EXCEPT !.at = "checked"]
    <3>1. calls[i] \in POST
      BY CallFields
    <3>2. /\ c \in POST /\ c.key = calls[i].key /\ c.seats = calls[i].seats /\ c.picks = calls[i].picks
          /\ c.again = calls[i].again
      BY <3>1 DEF POST
    <3>3. calls' = [calls EXCEPT ![i] = c]
      BY <2>1
    <3> HIDE DEF c
    <3> QED
      BY <3>2, <3>3, OneCall
  <2> QED
    BY <1>1, <1>2, <1>3, <1>4, <2>1 DEF CheckKey
<1>5. CASE Insert(i)
  BY <1>1, <1>2, <1>3, <1>5 DEF Insert
<1>6. CASE Refuse(i)
  BY <1>1, <1>3, <1>6 DEF Refuse
<1> QED
  BY <1>4, <1>5, <1>6

LEMMA CheckoutRetries ==
    ASSUME PageInv, RetriesShareKey, Checkout
    PROVE  RetriesShareKey'
<1> DEFINE n == Len(calls)
           c == [key |-> key', seats |-> selected, picks |-> stored, again |-> ~edited, at |-> "sent",
                 answer |-> "none", got |-> {}, waits |-> TRUE]
<1>1. calls \in Seq(POST) /\ n \in Nat /\ DOMAIN calls = 1..n
  BY DEF PageInv, PageTyped
<1>2. calls' = Append(calls, c) /\ edited' = FALSE /\ key' = KeyOfClick
  BY DEF Checkout
<1>3. c.key = key' /\ c.again = ~edited
  OBVIOUS
<1>4. ~edited => n > 0 /\ key' = calls[n].key
  <2> SUFFICES ASSUME ~edited PROVE n > 0 /\ key' = calls[n].key
    OBVIOUS
  <2>1. n > 0 /\ key = calls[n].key
    BY DEF RetriesShareKey
  <2>2. key \in 1..keys /\ keys \in Nat
    BY <1>1, <2>1 DEF PageInv, PageTyped, KeyTellsPicks
  <2> QED
    BY <1>2, <2>1, <2>2 DEF KeyOfClick
<1> HIDE DEF c
<1>5. /\ Len(calls') = n + 1 /\ DOMAIN calls' = 1..(n + 1)
      /\ \A i \in 1..n : calls'[i] = calls[i]
      /\ calls'[n + 1] = c
  BY <1>1, <1>2
<1>6. \A i \in 1..(n + 1) : calls'[i].again => i > 1 /\ calls'[i].key = calls'[i - 1].key
  <2> SUFFICES ASSUME NEW i \in 1..(n + 1), calls'[i].again
               PROVE  i > 1 /\ calls'[i].key = calls'[i - 1].key
    OBVIOUS
  <2>1. CASE i = n + 1
    <3>1. c.again /\ calls'[i] = c
      BY <2>1, <1>5
    <3>2. n > 0 /\ key' = calls[n].key
      BY <3>1, <1>3, <1>4
    <3>3. i - 1 = n /\ n \in 1..n /\ i > 1
      BY <3>2, <2>1, <1>1
    <3>4. calls'[i - 1] = calls[n]
      BY <3>3, <1>5
    <3> QED
      BY <3>1, <3>2, <3>3, <3>4, <1>3
  <2>2. CASE i \in 1..n
    <3>1. i > 1 /\ calls[i].key = calls[i - 1].key
      BY <2>2, <1>1, <1>5 DEF RetriesShareKey
    <3> QED
      BY <2>2, <3>1, <1>1, <1>5
  <2> QED
    BY <2>1, <2>2, <1>1
<1> QED
  BY <1>1, <1>2, <1>3, <1>5, <1>6 DEF RetriesShareKey

LEMMA RetryStep ==
    ASSUME PageInv, RetriesShareKey, [PageNext]_vars
    PROVE  RetriesShareKey'
<1>1. CASE ToggleSeat \/ ClearAll
  <2>1. calls' = calls /\ edited' = TRUE
    BY <1>1 DEF ToggleSeat, ClearAll, SelectionChanged
  <2> QED
    BY <2>1, WaitsKeep, KeptRetries DEF AnswersKept, PageInv
<1>2. CASE Checkout
  BY <1>2, CheckoutRetries
<1>3. CASE Reload
  <2>1. calls' = [i \in DOMAIN calls |-> [calls[i] EXCEPT !.waits = FALSE]] /\ edited' = TRUE
    BY <1>3 DEF Reload
  <2> QED
    BY <2>1, WaitsKeep, KeptRetries DEF AnswersKept, PageInv
<1>4. CASE Loaded \/ Expire \/ OthersBook \/ UNCHANGED vars
  <2>1. calls' = calls /\ edited' = edited /\ key' = key
    BY <1>4 DEF Loaded, Expire, OthersBook, vars, pageVars
  <2> QED
    BY <2>1, WaitsKeep, KeptRetries DEF AnswersKept, PageInv
<1>5. ASSUME NEW i \in DOMAIN calls, CheckKey(i) \/ Insert(i) \/ Refuse(i) PROVE RetriesShareKey'
  <2>1. edited' = edited /\ key' = key
    BY <1>5 DEF CheckKey, Insert, Refuse, pageVars
  <2> QED
    BY <1>5, <2>1, ApiKeepsCalls, KeptRetries DEF PageInv
<1>6. ASSUME NEW i \in DOMAIN calls,
             ReceiveOk(i) \/ ReceiveTaken(i) \/ ReceiveSoldOut(i) \/ ReceiveError(i)
      PROVE  RetriesShareKey'
  <2>1. CallsKept
    BY <1>6, WaitsKeep DEF ReceiveOk, ReceiveTaken, ReceiveSoldOut, ReceiveError, AnswersKept, PageInv
  <2>2. edited' = TRUE \/ (edited' = edited /\ key' = key)
    BY <1>6 DEF ReceiveOk, ReceiveTaken, ReceiveSoldOut, ReceiveError, SelectionChanged
  <2> QED
    BY <2>1, <2>2, KeptRetries DEF PageInv
<1> QED
  BY <1>1, <1>2, <1>3, <1>4, <1>5, <1>6 DEF PageNext

\* Only the API ends a call.
LEMMA OnlyApiEnds ==
    ASSUME PageTyped, [PageNext]_vars, NEW i \in DOMAIN calls, calls[i].at # "done", calls'[i].at = "done"
    PROVE  CheckKey(i) \/ Insert(i) \/ Refuse(i)
<1>1. ASSUME NEW j \in DOMAIN calls PROVE [calls[j] EXCEPT !.waits = FALSE].at = calls[j].at
  BY CallFields DEF POST
<1>2. calls'[i] # calls[i]
  OBVIOUS
<1>3. ~(ToggleSeat \/ ClearAll \/ Loaded \/ Expire \/ OthersBook \/ UNCHANGED vars)
  BY <1>2 DEF ToggleSeat, ClearAll, Loaded, Expire, OthersBook, vars
<1>4. ~Checkout
  <2>1. \A c : calls' = Append(calls, c) => calls'[i] = calls[i]
    BY DEF PageTyped
  <2> QED
    BY <1>2, <2>1 DEF Checkout
<1>5. calls' # [j \in DOMAIN calls |-> [calls[j] EXCEPT !.waits = FALSE]]
  BY <1>1
<1>6. ASSUME NEW j \in DOMAIN calls, Over(j) PROVE FALSE
  BY <1>1, <1>6 DEF Over
<1>7. ~Reload
  BY <1>5 DEF Reload
<1>8. ASSUME NEW j \in DOMAIN calls PROVE ~(ReceiveOk(j) \/ ReceiveTaken(j) \/ ReceiveSoldOut(j) \/ ReceiveError(j))
  BY <1>5, <1>6 DEF ReceiveOk, ReceiveTaken, ReceiveSoldOut, ReceiveError
<1>9. ASSUME NEW j \in DOMAIN calls \ {i}, CheckKey(j) \/ Insert(j) \/ Refuse(j) PROVE FALSE
  <2>1. \A a, g : Answer(j, a, g) => calls'[i] = calls[i]
    BY DEF Answer
  <2>2. calls' = [calls EXCEPT ![j].at = "checked"] => calls'[i] = calls[i]
    OBVIOUS
  <2> QED
    BY <1>2, <1>9, <2>1, <2>2 DEF CheckKey, Insert, Refuse
<1> QED
  BY <1>3, <1>4, <1>7, <1>8, <1>9 DEF PageNext

\* The order of a click is found by every retry of that click, late answers, expired holds
\* and other fans' bookings notwithstanding: no second order, no refusal on its account.
THEOREM RetriesFindTheirOrder == PageSpec => RetryFindsItsOrder
<1>1. PageInit => RetriesShareKey
  BY DEF PageInit, RetriesShareKey
<1>2. PageInv /\ RetriesShareKey /\ [PageNext]_vars => RetriesShareKey'
  BY RetryStep
<1>3. ASSUME PageInv, RetriesShareKey, [PageNext]_vars, NEW i \in DOMAIN calls, calls[i].again,
             calls[i].at # "done", calls'[i].at = "done", \E o \in orders : o.key = calls[i - 1].key
      PROVE  calls'[i].answer # "taken" /\ orders' = orders
  <2>1. PICK o \in orders : o.key = calls[i].key
    BY <1>3 DEF RetriesShareKey
  <2>2. CheckKey(i) \/ Insert(i) \/ Refuse(i)
    BY <1>3, OnlyApiEnds DEF PageInv
  <2>3. orders' = orders
    BY <2>1, <2>2 DEF CheckKey, Insert, Refuse, apiVars
  <2>4. ASSUME NEW a \in {"none", "ok", "sold out", "error"}, NEW g \in SUBSET Seat, Answer(i, a, g)
        PROVE  calls'[i].answer # "taken"
    BY <1>3, <2>4, AnswerKeeps DEF PageInv
  <2>5. {} \in SUBSET Seat /\ \A p \in orders : p.seats \in SUBSET Seat
    BY <1>3 DEF PageInv, PageTyped
  <2>6. CASE CheckKey(i)
    BY <2>1, <2>3, <2>4, <2>5, <2>6 DEF CheckKey
  <2>7. CASE Insert(i)
    BY <2>1, <2>3, <2>4, <2>5, <2>7 DEF Insert
  <2>8. CASE Refuse(i)
    BY <2>3, <2>4, <2>5, <2>8 DEF Refuse
  <2> QED
    BY <2>2, <2>3, <2>6, <2>7, <2>8
<1>4. PageInv /\ RetriesShareKey /\ [PageNext]_vars =>
        [\A i \in DOMAIN calls :
            /\ calls[i].again /\ calls[i].at # "done" /\ calls'[i].at = "done"
            /\ \E o \in orders : o.key = calls[i - 1].key
            => calls'[i].answer # "taken" /\ orders' = orders]_vars
  BY <1>3
<1> QED
  BY <1>1, <1>2, <1>4, KeysTellPicks, PTL DEF PageSpec, RetryFindsItsOrder
=============================================================================
