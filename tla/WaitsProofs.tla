---------------------------- MODULE WaitsProofs ----------------------------
(***************************************************************************)
(* No deadlock among the calls of a replica, a transaction of many locks   *)
(* as one step, and true answers, for every number of calls, connections   *)
(* and entries and every order in which the calls list them.               *)
(***************************************************************************)
EXTENDS PgWaits, WellFoundedInduction, FiniteSetTheorems, TLAPS

USE DEF Call, Use

\* The entries a transaction holds come before those it still has to take.
Sorted == \A c \in Call : \A e \in held[c], f \in Items(c) \ held[c] : e < f

\* Only a transaction holds entries, and only a refresh a second connection.
Uses ==
    /\ \A c \in Call : held[c] # {} => pc[c] = "run"
    /\ \A k \in Conn, c \in Call :
          /\ conn[k] = <<c, "flags">> => pc[c] = "read"
          /\ conn[k] = <<c, "request">> =>
                \/ pc[c] \in {"look", "run", "relook"}
                \/ pc[c] \in {"flags", "wait", "refresh", "read"} /\ c \notin Reader

\* A call has one connection for its requests.
OneEach ==
    \A k, m \in Conn, c \in Call :
        conn[k] = <<c, "request">> /\ conn[m] = <<c, "request">> => k = m

\* One thread refreshes the flags.
OneRefresh == \A c \in Call : pc[c] \in {"refresh", "read"} => refreshing = c

WaitsTyped ==
    /\ pc \in [Call -> {"new", "away", "pool", "look", "flags", "wait", "refresh", "read", "run",
                        "repool", "relook", "done"}]
    /\ conn \in [Conn -> Use \cup {Nobody}]
    /\ held \in [Call -> SUBSET Entry]
    /\ {stale, loaded} \subseteq BOOLEAN
    /\ refreshing \in Call \cup {Nobody}

WaitsInv == WaitsTyped /\ Sorted /\ Uses /\ OneEach /\ OneRefresh

----------------------------------------------------------------------------
LEMMA ItemsType == \A c \in Call : Items(c) \in SUBSET Entry
BY WaitAssumption DEF Items

\* A nonempty set of entries has a largest one.
LEMMA LargestEntry ==
    ASSUME NEW S \in SUBSET Entry, S # {}
    PROVE  \E e \in S : \A f \in S : f <= e
<1> DEFINE T == {Entries - e : e \in S}
<1>0. Entries \in Nat /\ \A e \in S : e \in 1..Entries
  BY WaitAssumption DEF Entry
<1>a. \A e \in S : Entries - e \in Nat
  BY <1>0
<1>1. T \subseteq Nat /\ T # {}
  BY <1>a
<1>2. \E x \in T : \A y \in T : ~ (<<y, x>> \in OpToRel(<, Nat))
  BY <1>1, WFMin, NatLessThanWellFounded
<1>3. PICK x \in T : \A y \in T : ~ (y < x)
  BY <1>1, <1>2 DEF OpToRel
<1>4. PICK e \in S : x = Entries - e
  OBVIOUS
<1>5. \A f \in S : f <= e
  <2> TAKE f \in S
  <2>1. Entries - f \in T
    OBVIOUS
  <2>2. ~ (Entries - f < Entries - e)
    BY <2>1, <1>3, <1>4
  <2> QED
    BY <2>2, WaitAssumption DEF Entry
<1> QED
  BY <1>5

----------------------------------------------------------------------------
(* The invariant is inductive.                                             *)

LEMMA WaitsInit_Inv == WaitsInit => WaitsInv
<1> SUFFICES ASSUME WaitsInit PROVE WaitsInv
  OBVIOUS
<1>1. WaitsTyped
  BY WaitAssumption DEF WaitsInit, WaitsTyped
<1>2. Sorted
  BY DEF WaitsInit, Sorted
<1>3. Uses /\ OneEach
  <2>1. \A k \in Conn : conn[k] = Nobody
    BY DEF WaitsInit
  <2>2. \A c \in Call, w \in {"request", "flags"} : <<c, w>> # Nobody
    BY PoolAssumption
  <2> QED
    BY <2>1, <2>2 DEF WaitsInit, Uses, OneEach
<1>4. OneRefresh
  BY DEF WaitsInit, OneRefresh
<1> QED
  BY <1>1, <1>2, <1>3, <1>4 DEF WaitsInv

\* What the steps of c leave alone about the other calls.
LEMMA Go_Others ==
    ASSUME WaitsTyped, NEW c \in Call, NEW where, Go(c, where)
    PROVE  pc'[c] = where /\ \A d \in Call \ {c} : pc'[d] = pc[d]
BY DEF WaitsTyped, Go

\* A connection taken is one that was idle; every other one keeps its user.
LEMMA CheckOut_Conn ==
    ASSUME WaitsTyped, NEW c \in Call, NEW w \in {"request", "flags"}, CheckOut(c, w)
    PROVE  \E k \in Conn : /\ conn[k] = Nobody /\ conn'[k] = <<c, w>>
                           /\ \A m \in Conn \ {k} : conn'[m] = conn[m]
BY DEF WaitsTyped, CheckOut, Idle

\* What is put back is idle; every other connection keeps its user.
LEMMA PutBack_Conn ==
    ASSUME WaitsTyped, NEW c \in Call, NEW w \in {"request", "flags"}, PutBack(c, w)
    PROVE  /\ conn' \in [Conn -> Use \cup {Nobody}]
           /\ \A k \in Conn : conn'[k] = IF conn[k] = <<c, w>> THEN Nobody ELSE conn[k]
BY DEF WaitsTyped, PutBack

----------------------------------------------------------------------------
\* The steps that move no connection and no entry.
LEMMA Move_Inv ==
    ASSUME WaitsInv, NEW c \in Call, NEW where,
           Go(c, where), UNCHANGED <<conn, held, loaded, refreshing>>, stale' \in BOOLEAN,
           where \in {"pool", "flags", "wait", "run"},
           pc[c] \notin {"read", "run", "relook"},
           where = "wait" => pc[c] = "flags",
           where = "flags" => pc[c] = "new",
           where = "pool" => \A k \in Conn : conn[k] # <<c, "request">>
    PROVE  WaitsInv'
<1> USE DEF WaitsInv
<1>1. pc'[c] = where /\ \A d \in Call \ {c} : pc'[d] = pc[d]
  BY Go_Others
<1>2. WaitsTyped'
  BY DEF WaitsTyped, Go
<1>3. Sorted'
  BY DEF Sorted, Items
<1>4. Uses'
  BY <1>1 DEF Uses
<1>5. OneEach'
  BY DEF OneEach
<1>6. OneRefresh'
  BY <1>1 DEF OneRefresh
<1> QED
  BY <1>2, <1>3, <1>4, <1>5, <1>6

LEMMA Arrive_Inv == \A c \in Call : WaitsInv /\ Arrive(c) => WaitsInv'
<1> SUFFICES ASSUME NEW c \in Call, WaitsInv, Arrive(c) PROVE WaitsInv'
  OBVIOUS
<1> DEFINE where == IF c \in Reader THEN "flags" ELSE "pool"
<1>1. Go(c, where) /\ pc[c] = "new" /\ UNCHANGED <<conn, held, loaded, refreshing, stale>>
  BY DEF Arrive, flagVars
<1>2. stale' \in BOOLEAN
  BY <1>1 DEF WaitsInv, WaitsTyped
<1>3. \A k \in Conn : conn[k] # <<c, "request">>
  BY <1>1 DEF WaitsInv, Uses
<1>4. where \in {"pool", "flags"}
  OBVIOUS
<1> QED
  BY <1>1, <1>2, <1>3, <1>4, Move_Inv

LEMMA AnswerFlags_Inv == \A c \in Call : WaitsInv /\ AnswerFlags(c) => WaitsInv'
<1> SUFFICES ASSUME NEW c \in Call, WaitsInv, AnswerFlags(c) PROVE WaitsInv'
  OBVIOUS
<1>1. pc[c] = "flags" /\ UNCHANGED <<conn, held, loaded, refreshing, stale>>
  BY DEF AnswerFlags, flagVars
<1>2. stale' \in BOOLEAN
  BY <1>1 DEF WaitsInv, WaitsTyped
<1>3. CASE Onward(c)
  <2> DEFINE where == IF c \in Reader THEN "pool" ELSE "run"
  <2>1. where \in {"pool", "run"} /\ Go(c, where)
    BY <1>3 DEF Onward
  <2>2. where = "pool" => \A k \in Conn : conn[k] # <<c, "request">>
    BY <1>1 DEF WaitsInv, Uses
  <2> QED
    BY <2>1, <2>2, <1>1, <1>2, Move_Inv
<1>4. CASE ~loaded /\ Go(c, "wait")
  BY <1>1, <1>2, <1>4, Move_Inv
<1> QED
  BY <1>3, <1>4 DEF AnswerFlags

LEMMA Refresh_Inv == \A c \in Call : WaitsInv /\ Refresh(c) => WaitsInv'
<1> SUFFICES ASSUME NEW c \in Call, WaitsInv, Refresh(c) PROVE WaitsInv'
  OBVIOUS
<1> USE DEF WaitsInv
<1>1. /\ pc[c] \in {"flags", "wait"} /\ refreshing = Nobody
      /\ UNCHANGED <<conn, held, stale, loaded>>
  BY DEF Refresh
<1>2. CASE stale /\ Go(c, "refresh") /\ refreshing' = c
  <2>1. pc'[c] = "refresh" /\ \A d \in Call \ {c} : pc'[d] = pc[d]
    BY <1>2, Go_Others
  <2>2. WaitsTyped'
    BY <1>1, <1>2 DEF WaitsTyped, Go
  <2>3. Sorted' /\ OneEach'
    BY <1>1 DEF Sorted, Items, OneEach
  <2>4. Uses'
    BY <1>1, <2>1 DEF Uses
  <2>5. OneRefresh'
    BY <1>1, <1>2, <2>1, WaitAssumption DEF OneRefresh
    <2> QED
    BY <2>2, <2>3, <2>4, <2>5
<1>3. CASE ~stale /\ Onward(c) /\ UNCHANGED refreshing
  <2> DEFINE where == IF c \in Reader THEN "pool" ELSE "run"
  <2>1. where \in {"pool", "run"} /\ Go(c, where)
    BY <1>3 DEF Onward
  <2>2. where = "pool" => \A k \in Conn : conn[k] # <<c, "request">>
    BY <1>1 DEF Uses
  <2>3. stale' \in BOOLEAN
    BY <1>1 DEF WaitsTyped
  <2> QED
    BY <2>1, <2>2, <2>3, <1>1, <1>3, Move_Inv
<1> QED
  BY <1>2, <1>3 DEF Refresh

\* A signup asks for the flags, every other call looks for its key or starts.
LEMMA FirstQueryType ==
    ASSUME NEW c
    PROVE  \/ FirstQuery(c) \in {"look", "run", "relook"}
           \/ FirstQuery(c) = "flags" /\ c \in Register
BY DEF FirstQuery

LEMMA Connect_Inv == \A c \in Call : WaitsInv /\ Connect(c) => WaitsInv'
<1> SUFFICES ASSUME NEW c \in Call, WaitsInv, Connect(c) PROVE WaitsInv'
  OBVIOUS
<1> USE DEF WaitsInv
<1> DEFINE where == FirstQuery(c)
<1>1. /\ pc[c] \in {"pool", "repool"} /\ CheckOut(c, "request") /\ Go(c, where)
      /\ UNCHANGED <<held, stale, loaded, refreshing>>
  BY DEF Connect, flagVars
<1>a. \/ where \in {"look", "run", "relook"}
      \/ where = "flags" /\ c \in Register
  BY FirstQueryType
<1> HIDE DEF where
<1>2. pc'[c] = where /\ \A d \in Call \ {c} : pc'[d] = pc[d]
  BY <1>1, Go_Others
<1>3. PICK k \in Conn : /\ conn[k] = Nobody /\ conn'[k] = <<c, "request">>
                       /\ \A m \in Conn \ {k} : conn'[m] = conn[m]
  BY <1>1, CheckOut_Conn
<1>4. WaitsTyped'
  BY <1>1, <1>a DEF WaitsTyped, Go, CheckOut
<1>5. Sorted'
  BY <1>1 DEF Sorted, Items
<1>6. \A m \in Conn : conn[m] # <<c, "request">> /\ conn[m] # <<c, "flags">>
  BY <1>1 DEF Uses
<1>7. Uses'
  <2>1. \A d \in Call : held'[d] # {} => pc'[d] = "run"
    BY <1>1, <1>2 DEF Uses
  <2>2. \A m \in Conn, d \in Call : conn'[m] = <<d, "flags">> => pc'[d] = "read"
    BY <1>2, <1>3, <1>6, <1>a DEF Uses
  <2>3. c \in Register => c \notin Reader
    BY WaitAssumption
  <2>4. \A m \in Conn, d \in Call : conn'[m] = <<d, "request">> =>
            \/ pc'[d] \in {"look", "run", "relook"}
            \/ pc'[d] \in {"flags", "wait", "refresh", "read"} /\ d \notin Reader
    BY <1>2, <1>3, <1>a, <2>3 DEF Uses
  <2> QED
    BY <2>1, <2>2, <2>4 DEF Uses
<1>8. OneEach'
  BY <1>3, <1>6 DEF OneEach
<1>9. OneRefresh'
  BY <1>1, <1>2, <1>a DEF OneRefresh
<1> QED
  BY <1>4, <1>5, <1>7, <1>8, <1>9

LEMMA RefreshConnects_Inv == \A c \in Call : WaitsInv /\ RefreshConnects(c) => WaitsInv'
<1> SUFFICES ASSUME NEW c \in Call, WaitsInv, RefreshConnects(c) PROVE WaitsInv'
  OBVIOUS
<1> USE DEF WaitsInv
<1>1. /\ pc[c] = "refresh" /\ CheckOut(c, "flags") /\ Go(c, "read")
      /\ UNCHANGED <<held, stale, loaded, refreshing>>
  BY DEF RefreshConnects, flagVars
<1>2. pc'[c] = "read" /\ \A d \in Call \ {c} : pc'[d] = pc[d]
  BY <1>1, Go_Others
<1>3. PICK k \in Conn : /\ conn[k] = Nobody /\ conn'[k] = <<c, "flags">>
                       /\ \A m \in Conn \ {k} : conn'[m] = conn[m]
  BY <1>1, CheckOut_Conn
<1>4. WaitsTyped'
  BY <1>1 DEF WaitsTyped, Go, CheckOut
<1>5. Sorted'
  BY <1>1 DEF Sorted, Items
<1>6. Uses'
  BY <1>1, <1>2, <1>3 DEF Uses
<1>7. OneEach'
  BY <1>3 DEF OneEach
<1>8. OneRefresh'
  BY <1>1, <1>2 DEF OneRefresh
<1> QED
  BY <1>4, <1>5, <1>6, <1>7, <1>8

\* The end of a refresh, with or without the connection it waited for.
LEMMA Stamp_Inv ==
    ASSUME WaitsInv, NEW c \in Call, Stamp(c), pc[c] \in {"refresh", "read"},
           conn' \in [Conn -> Use \cup {Nobody}],
           \A k \in Conn : \/ conn'[k] = conn[k] /\ conn[k] # <<c, "flags">>
                           \/ conn'[k] = Nobody
    PROVE  WaitsInv'
<1> USE DEF WaitsInv
<1> DEFINE where == IF c \in Reader THEN "pool" ELSE "run"
<1>1. /\ Go(c, where) /\ stale' = FALSE /\ loaded' = TRUE /\ refreshing' = Nobody
      /\ UNCHANGED held
  BY DEF Stamp, Onward
<1>2. pc'[c] = where /\ \A d \in Call \ {c} : pc'[d] = pc[d]
  BY <1>1, Go_Others
<1>3. WaitsTyped'
  BY <1>1 DEF WaitsTyped, Go
<1>4. Sorted'
  BY <1>1 DEF Sorted, Items
<1>5. \A d \in Call, w \in {"request", "flags"} : <<d, w>> # Nobody
  BY PoolAssumption
<1>6. Uses'
  <2>1. \A d \in Call : held'[d] # {} => pc'[d] = "run"
    BY <1>1, <1>2 DEF Uses
  <2>2. \A m \in Conn, d \in Call : conn'[m] = <<d, "flags">> => pc'[d] = "read"
    BY <1>2, <1>5 DEF Uses
  <2>3. \A m \in Conn, d \in Call : conn'[m] = <<d, "request">> =>
            \/ pc'[d] \in {"look", "run", "relook"}
            \/ pc'[d] \in {"flags", "wait", "refresh", "read"} /\ d \notin Reader
    BY <1>2, <1>5 DEF Uses
  <2> QED
    BY <2>1, <2>2, <2>3 DEF Uses
<1>7. OneEach'
  BY <1>5 DEF OneEach
<1>8. OneRefresh'
  BY <1>2 DEF OneRefresh
<1> QED
  BY <1>3, <1>4, <1>6, <1>7, <1>8

LEMMA ReadFlags_Inv == \A c \in Call : WaitsInv /\ ReadFlags(c) => WaitsInv'
<1> SUFFICES ASSUME NEW c \in Call, WaitsInv, ReadFlags(c) PROVE WaitsInv'
  OBVIOUS
<1>1. pc[c] = "read" /\ PutBack(c, "flags") /\ Stamp(c)
  BY DEF ReadFlags
<1>2. /\ conn' \in [Conn -> Use \cup {Nobody}]
      /\ \A k \in Conn : conn'[k] = IF conn[k] = <<c, "flags">> THEN Nobody ELSE conn[k]
  BY <1>1, PutBack_Conn DEF WaitsInv
<1> QED
  BY <1>1, <1>2, Stamp_Inv

LEMMA RefreshTimesOut_Inv == \A c \in Call : WaitsInv /\ RefreshTimesOut(c) => WaitsInv'
<1> SUFFICES ASSUME NEW c \in Call, WaitsInv, RefreshTimesOut(c) PROVE WaitsInv'
  OBVIOUS
<1>1. pc[c] = "refresh" /\ Stamp(c) /\ UNCHANGED conn
  BY DEF RefreshTimesOut
<1>2. \A k \in Conn : conn[k] # <<c, "flags">>
  BY <1>1 DEF WaitsInv, Uses
<1>3. conn' \in [Conn -> Use \cup {Nobody}]
  BY <1>1 DEF WaitsInv, WaitsTyped
<1> QED
  BY <1>1, <1>2, <1>3, Stamp_Inv

LEMMA TakeLock_Inv == \A c \in Call : WaitsInv /\ TakeLock(c) => WaitsInv'
<1> SUFFICES ASSUME NEW c \in Call, WaitsInv, TakeLock(c) PROVE WaitsInv'
  OBVIOUS
<1> USE DEF WaitsInv
<1>1. PICK e \in Entry : NextLock(c, e) /\ held' = [held EXCEPT ![c] = @ \cup {e}]
  BY DEF TakeLock
<1>2. pc[c] = "run" /\ UNCHANGED <<pc, conn, stale, loaded, refreshing>>
  BY DEF TakeLock, flagVars
<1>3. WaitsTyped'
  BY <1>1, <1>2 DEF WaitsTyped
<1>4. /\ held'[c] = held[c] \cup {e}
      /\ \A d \in Call \ {c} : held'[d] = held[d]
  BY <1>1 DEF WaitsTyped
<1>5. Sorted'
  <2> SUFFICES ASSUME NEW d \in Call, NEW f \in held'[d], NEW g \in Items(d) \ held'[d]
               PROVE  f < g
    BY DEF Sorted, Items
  <2>1. CASE d # c
    BY <2>1, <1>4 DEF Sorted
  <2>2. CASE d = c /\ f \in held[c]
    BY <2>2, <1>4 DEF Sorted
  <2>3. CASE d = c /\ f = e
    <3>1. e <= g /\ g # e
      BY <2>3, <1>1, <1>4 DEF NextLock
    <3>2. e \in Nat /\ g \in Nat
      BY ItemsType, WaitAssumption DEF Entry
    <3> QED
      BY <2>3, <3>1, <3>2
  <2> QED
    BY <2>1, <2>2, <2>3, <1>4
<1>6. Uses'
  BY <1>2, <1>4 DEF Uses
<1>7. OneEach' /\ OneRefresh'
  BY <1>2 DEF OneEach, OneRefresh
<1> QED
  BY <1>3, <1>5, <1>6, <1>7

\* The end of a transaction, and mostly of its call: it has no lock and no connection.
LEMMA End_Inv ==
    ASSUME WaitsInv, NEW c \in Call, pc[c] \in {"pool", "look", "run", "repool", "relook"},
           NEW where \in {"done", "repool"}, Go(c, where), PutBack(c, "request"), held' = [held EXCEPT ![c] = {}],
           UNCHANGED flagVars
    PROVE  WaitsInv'
<1> USE DEF WaitsInv
<1>1. pc'[c] = where /\ \A d \in Call \ {c} : pc'[d] = pc[d]
  BY Go_Others
<1>2. /\ conn' \in [Conn -> Use \cup {Nobody}]
      /\ \A k \in Conn : conn'[k] = IF conn[k] = <<c, "request">> THEN Nobody ELSE conn[k]
  BY PutBack_Conn
<1>3. held'[c] = {} /\ \A d \in Call \ {c} : held'[d] = held[d]
  BY DEF WaitsTyped
<1>4. \A d \in Call, w \in {"request", "flags"} : <<d, w>> # Nobody
  BY PoolAssumption
<1>5. WaitsTyped'
  BY <1>2 DEF WaitsTyped, Go, flagVars
<1>6. Sorted'
  BY <1>3 DEF Sorted, Items
<1>7. Uses'
  <2>1. \A d \in Call : held'[d] # {} => pc'[d] = "run"
    BY <1>1, <1>3 DEF Uses
  <2>2. \A m \in Conn, d \in Call : conn'[m] = <<d, "flags">> => pc'[d] = "read"
    BY <1>1, <1>2, <1>4 DEF Uses
  <2>3. \A m \in Conn, d \in Call : conn'[m] = <<d, "request">> =>
            \/ pc'[d] \in {"look", "run", "relook"}
            \/ pc'[d] \in {"flags", "wait", "refresh", "read"} /\ d \notin Reader
    BY <1>1, <1>2, <1>4 DEF Uses
  <2> QED
    BY <2>1, <2>2, <2>3 DEF Uses
<1>8. OneEach'
  BY <1>2, <1>4 DEF OneEach
<1>9. OneRefresh'
  BY <1>1 DEF OneRefresh, flagVars
<1> QED
  BY <1>5, <1>6, <1>7, <1>8, <1>9

LEMMA Abort_Inv ==
    ASSUME WaitsInv, NEW c \in Call, NEW x,
           pc[c] \in {"pool", "look", "run", "repool", "relook"}, Abort(c, x)
    PROVE  WaitsInv'
BY End_Inv DEF Abort, Rollback

\* The calls whose step can end in Abort, with the outcome it gives them.
LEMMA Aborts ==
    ASSUME NEW c \in Call,
           \/ PoolTimesOut(c) \/ Refused(c) \/ LookAgain(c) \/ LockTimesOut(c) \/ ConnectionLost(c)
    PROVE  /\ pc[c] \in {"pool", "look", "run", "repool", "relook"}
           /\ \E x : Abort(c, x)
<1>1. CASE PoolTimesOut(c)
  BY <1>1 DEF PoolTimesOut
<1>2. CASE Refused(c)
  BY <1>2 DEF Refused
<1>3. CASE LookAgain(c)
  BY <1>3 DEF LookAgain
<1>4. CASE LockTimesOut(c)
  BY <1>4 DEF LockTimesOut
<1>5. CASE ConnectionLost(c)
  BY <1>5 DEF ConnectionLost
<1> QED
  BY <1>1, <1>2, <1>3, <1>4, <1>5

LEMMA LookUp_Inv == \A c \in Call : WaitsInv /\ LookUp(c) => WaitsInv'
<1> SUFFICES ASSUME NEW c \in Call, WaitsInv, LookUp(c) PROVE WaitsInv'
  OBVIOUS
<1>1. pc[c] = "look"
  BY DEF LookUp
<1>2. CASE Go(c, "run") /\ UNCHANGED <<conn, held, flagVars>>
  <2>1. stale' \in BOOLEAN /\ UNCHANGED <<conn, held, loaded, refreshing>>
    BY <1>2 DEF WaitsInv, WaitsTyped, flagVars
  <2> QED
    BY <1>1, <1>2, <2>1, Move_Inv
<1>3. CASE \E x : Abort(c, x)
  BY <1>1, <1>3, Abort_Inv
<1> QED
  BY <1>2, <1>3 DEF LookUp

LEMMA Next_Inv == WaitsInv /\ [WaitsNext]_vars => WaitsInv'
<1> SUFFICES ASSUME WaitsInv, [WaitsNext]_vars PROVE WaitsInv'
  OBVIOUS
<1>1. ASSUME NEW c \in Call, Arrive(c) PROVE WaitsInv'
  BY <1>1, Arrive_Inv
<1>2. ASSUME NEW c \in Call, Connect(c) PROVE WaitsInv'
  BY <1>2, Connect_Inv
<1>3. ASSUME NEW c \in Call, LookUp(c) PROVE WaitsInv'
  BY <1>3, LookUp_Inv
<1>4. ASSUME NEW c \in Call, AnswerFlags(c) PROVE WaitsInv'
  BY <1>4, AnswerFlags_Inv
<1>5. ASSUME NEW c \in Call, Refresh(c) PROVE WaitsInv'
  BY <1>5, Refresh_Inv
<1>6. ASSUME NEW c \in Call, RefreshConnects(c) PROVE WaitsInv'
  BY <1>6, RefreshConnects_Inv
<1>7. ASSUME NEW c \in Call, ReadFlags(c) PROVE WaitsInv'
  BY <1>7, ReadFlags_Inv
<1>8. ASSUME NEW c \in Call, RefreshTimesOut(c) PROVE WaitsInv'
  BY <1>8, RefreshTimesOut_Inv
<1>9. ASSUME NEW c \in Call, TakeLock(c) PROVE WaitsInv'
  BY <1>9, TakeLock_Inv
<1>10. ASSUME NEW c \in Call, \/ PoolTimesOut(c) \/ Refused(c) \/ LookAgain(c)
                             \/ LockTimesOut(c) \/ ConnectionLost(c)
       PROVE  WaitsInv'
  BY <1>10, Aborts, Abort_Inv
<1>11. ASSUME NEW c \in Call, Raced(c) PROVE WaitsInv'
  BY <1>11, End_Inv DEF Raced, Rollback
<1>12. ASSUME NEW c \in Call, Commit(c) PROVE WaitsInv'
  BY <1>12, End_Inv DEF Commit
<1>14. CASE UNCHANGED <<pc, conn, held, loaded, refreshing>> /\ stale' \in BOOLEAN
  BY <1>14 DEF WaitsInv, WaitsTyped, Sorted, Items, Uses, OneEach, OneRefresh
<1>15. CASE Expire \/ ForeignEnds \/ UNCHANGED vars
  <2>1. UNCHANGED <<pc, conn, held, loaded, refreshing>>
    BY <1>15 DEF Expire, ForeignEnds, vars, flagVars
  <2>2. stale' \in BOOLEAN
    BY <1>15 DEF WaitsInv, WaitsTyped, Expire, ForeignEnds, vars, flagVars
  <2> QED
    BY <2>1, <2>2, <1>14
<1> QED
  BY <1>1, <1>2, <1>3, <1>4, <1>5, <1>6, <1>7, <1>8, <1>9, <1>10, <1>11, <1>12,
     <1>15 DEF WaitsNext, CallStep

----------------------------------------------------------------------------
(* The invariant leaves no room for a group of calls that wait for each    *)
(* other.                                                                  *)

\* A call that waits for an entry waits for one beyond all it holds itself, so the one
\* that waits for the largest entry waits for nobody of the group.
LEMMA NobodyWaitsForEntry ==
    ASSUME WaitsInv, NEW D \in SUBSET Call, \A c \in D : StuckIn(c, D)
    PROVE  \A c \in D : pc[c] # "run"
<1> USE DEF WaitsInv
<1> DEFINE W == {e \in Entry : \E c \in D : pc[c] = "run" /\ NextLock(c, e)}
<1>1. \A c \in D : pc[c] = "run" =>
          \E e \in W : NextLock(c, e) /\ \E d \in D \ {c} : e \in held[d]
  BY DEF StuckIn
<1> SUFFICES ASSUME W # {} PROVE FALSE
  BY <1>1
<1>2. PICK top \in W : \A f \in W : f <= top
  BY LargestEntry
<1>3. PICK c \in D : pc[c] = "run" /\ NextLock(c, top)
  OBVIOUS
<1>4. PICK e \in W : NextLock(c, e) /\ \E d \in D \ {c} : e \in held[d]
  BY <1>1, <1>3
<1>5. e = top
  <2>1. e \in Nat /\ top \in Nat
    BY WaitAssumption DEF Entry
  <2>2. e <= top /\ top <= e
    BY <1>3, <1>4 DEF NextLock
  <2> QED
    BY <2>1, <2>2
<1>6. PICK d \in D : top \in held[d]
  BY <1>4, <1>5
<1>7. pc[d] = "run"
  BY <1>6 DEF Uses
<1>8. PICK f \in W : NextLock(d, f)
  BY <1>1, <1>7
<1>9. top < f
  BY <1>6, <1>8 DEF Sorted, NextLock
<1>10. f <= top
  BY <1>2
<1> QED
  BY <1>9, <1>10, WaitAssumption DEF Entry

\* No deadlock over seats, order rows, connections and the flags: those who could wait
\* in a circle for entries hold a connection each and never ask for a second one, and
\* of those who ask for a second one there is only one at a time.
THEOREM CallsNeverDeadlock == WaitsSpec => []NoDeadlock
<1>1. WaitsInv => NoDeadlock
  <2> SUFFICES ASSUME WaitsInv, NEW D \in SUBSET Call, D # {}, \A c \in D : StuckIn(c, D),
                      \A c \in D : pc[c] # "wait"
               PROVE  FALSE
    BY DEF NoDeadlock
  <2> USE DEF WaitsInv
  <2>1. \A c \in D : pc[c] # "run" /\ pc[c] # "wait"
    BY NobodyWaitsForEntry
  <2>2. \A c \in D : /\ pc[c] \in {"pool", "repool", "refresh"}
                    /\ \A k \in Conn : \E d \in D, w \in {"request", "flags"} : conn[k] = <<d, w>>
    BY <2>1 DEF StuckIn
  <2>3. \A k \in Conn : \E d \in D : conn[k] = <<d, "request">> /\ refreshing = d
    <3> TAKE k \in Conn
    <3>1. PICK d \in D, w \in {"request", "flags"} : conn[k] = <<d, w>>
      BY <2>2
    <3>2. w = "request" /\ pc[d] = "refresh"
      BY <3>1, <2>2 DEF Uses
    <3> QED
      BY <3>1, <3>2 DEF OneRefresh
  <2>4. PICK k, m \in Conn : k # m
    BY PoolAssumption
  <2>5. k = m
    BY <2>3, <2>4 DEF OneEach
  <2> QED
    BY <2>4, <2>5
<1>2. QED
  BY <1>1, WaitsInit_Inv, Next_Inv, PTL DEF WaitsSpec

----------------------------------------------------------------------------
(* Types.                                                                  *)

Outcomes == {"replayed", "reused", "refused", "integrity", "lock_timeout",
             "statement_timeout", "pool_timeout", "unreachable", "admin_shutdown"}

\* A call that ends without COMMIT gets one of these outcomes.
LEMMA AbortsKnown ==
    ASSUME NEW c \in Call,
           \/ PoolTimesOut(c) \/ Refused(c) \/ LookAgain(c) \/ LockTimesOut(c) \/ ConnectionLost(c)
    PROVE  \E x \in Outcomes : Abort(c, x)
<1> USE DEF Outcomes
<1>1. CASE PoolTimesOut(c)
  BY <1>1 DEF PoolTimesOut
<1>2. CASE Refused(c)
  BY <1>2 DEF Refused, Verdict
<1>3. CASE LookAgain(c)
  BY <1>3 DEF LookAgain
<1>4. CASE LockTimesOut(c)
  BY <1>4 DEF LockTimesOut
<1>5. CASE ConnectionLost(c)
  BY <1>5 DEF ConnectionLost
<1> QED
  BY <1>1, <1>2, <1>3, <1>4, <1>5

LEMMA AbortTypes ==
    ASSUME WaitsTypeOK, NEW c \in Call, NEW x \in Outcomes, Abort(c, x)
    PROVE  WaitsTypeOK'
BY DEF Abort, Rollback, WaitsTypeOK, PutBack, Go, flagVars, Outcomes

LEMMA LookUpTypes ==
    ASSUME WaitsTypeOK, NEW c \in Call, LookUp(c)
    PROVE  WaitsTypeOK'
<1>1. CASE Go(c, "run") /\ UNCHANGED <<conn, held, taken, foreign, limits, flagVars, outcome>>
  BY <1>1 DEF WaitsTypeOK, Go, flagVars
<1>2. CASE \E x \in {"replayed", "reused"} : Abort(c, x)
  BY <1>2, AbortTypes DEF Outcomes
<1> QED
  BY <1>1, <1>2 DEF LookUp

LEMMA TypesStep == WaitsTypeOK /\ [WaitsNext]_vars => WaitsTypeOK'
<1> SUFFICES ASSUME WaitsTypeOK, [WaitsNext]_vars PROVE WaitsTypeOK'
  OBVIOUS
<1>1. ASSUME NEW c \in Call, Arrive(c) PROVE WaitsTypeOK'
  BY <1>1 DEF WaitsTypeOK, Arrive, Go, flagVars
<1>2. ASSUME NEW c \in Call, Connect(c) PROVE WaitsTypeOK'
  <2>1. /\ CheckOut(c, "request")
        /\ \E where \in {"flags", "look", "run", "relook"} : Go(c, where)
        /\ UNCHANGED <<held, taken, foreign, limits, flagVars, outcome>>
    BY <1>2 DEF Connect, FirstQuery
  <2> QED
    BY <2>1 DEF WaitsTypeOK, CheckOut, Go, flagVars
<1>3. ASSUME NEW c \in Call, LookUp(c) PROVE WaitsTypeOK'
  BY <1>3, LookUpTypes
<1>4. ASSUME NEW c \in Call, AnswerFlags(c) PROVE WaitsTypeOK'
  BY <1>4 DEF WaitsTypeOK, AnswerFlags, Onward, Go, flagVars
<1>5. ASSUME NEW c \in Call, Refresh(c) PROVE WaitsTypeOK'
  BY <1>5 DEF WaitsTypeOK, Refresh, Onward, Go
<1>6. ASSUME NEW c \in Call, RefreshConnects(c) PROVE WaitsTypeOK'
  BY <1>6 DEF WaitsTypeOK, RefreshConnects, CheckOut, Go, flagVars
<1>7. ASSUME NEW c \in Call, ReadFlags(c) \/ RefreshTimesOut(c) PROVE WaitsTypeOK'
  BY <1>7 DEF WaitsTypeOK, ReadFlags, RefreshTimesOut, Stamp, PutBack, Onward, Go
<1>8. ASSUME NEW c \in Call, TakeLock(c) PROVE WaitsTypeOK'
  BY <1>8 DEF WaitsTypeOK, TakeLock, flagVars
<1>9. ASSUME NEW c \in Call, \/ PoolTimesOut(c) \/ Refused(c) \/ LookAgain(c)
                             \/ LockTimesOut(c) \/ ConnectionLost(c)
      PROVE  WaitsTypeOK'
  BY <1>9, AbortsKnown, AbortTypes
<1>10. ASSUME NEW c \in Call, Raced(c) PROVE WaitsTypeOK'
  BY <1>10 DEF WaitsTypeOK, Raced, Rollback, PutBack, Go, flagVars
<1>11. ASSUME NEW c \in Call, Commit(c) PROVE WaitsTypeOK'
  BY <1>11 DEF WaitsTypeOK, Commit, PutBack, Go, flagVars
<1>12. CASE Expire \/ ForeignEnds \/ UNCHANGED vars
  BY <1>12 DEF WaitsTypeOK, Expire, ForeignEnds, vars, flagVars
<1> QED
  BY <1>1, <1>2, <1>3, <1>4, <1>5, <1>6, <1>7, <1>8, <1>9, <1>10, <1>11, <1>12
  DEF WaitsNext, CallStep

LEMMA TypesHold == WaitsSpec => []WaitsTypeOK
<1>1. WaitsInit => WaitsTypeOK
  BY WaitAssumption DEF WaitsInit, WaitsTypeOK
<1> QED
  BY <1>1, TypesStep, PTL DEF WaitsSpec

----------------------------------------------------------------------------
(* A transaction that takes its locks one by one is one atomic step.        *)

\* One open transaction at a time has an entry that it needs, and none has one that is
\* committed.
HeldAlone ==
    /\ \A c, d \in Call : \A e \in held[c] : e \in held[d] => c = d
    /\ \A c \in Call : \A e \in held[c] : e \in Items(c) /\ taken[e] = Nobody

\* A committed row belongs to a call that committed, and a call that ended is over.
TakenTold ==
    /\ \A e \in Entry : taken[e] # Nobody =>
          e \in Items(taken[e]) /\ outcome[taken[e]] = "committed"
    /\ \A c \in Call : pc[c] = "done" <=> outcome[c] # "none"

LocksInv == HeldAlone /\ TakenTold

\* The steps of a call before its end.
LEMMA Underway_Locks ==
    ASSUME WaitsTypeOK, LocksInv, NEW c \in Call, pc[c] # "done",
           \/ pc' = pc
           \/ \E where \in {"pool", "look", "flags", "wait", "refresh", "read", "run", "repool",
                            "relook"} : Go(c, where),
           \/ held' = held
           \/ held' = [held EXCEPT ![c] = {}],
           UNCHANGED <<taken, outcome>>
    PROVE  LocksInv'
BY DEF WaitsTypeOK, LocksInv, HeldAlone, TakenTold, Go, Items

LEMMA Abort_Locks ==
    ASSUME WaitsTypeOK, LocksInv, NEW c \in Call, pc[c] # "done", NEW x \in Outcomes, Abort(c, x)
    PROVE  LocksInv' /\ UNCHANGED Sale!saleVars
<1>1. outcome[c] = "none"
  BY DEF LocksInv, TakenTold
<1>2. \A d \in Call \ {c} : outcome'[d] = outcome[d] /\ pc'[d] = pc[d] /\ held'[d] = held[d]
  BY DEF Abort, Rollback, Go, WaitsTypeOK
<1>3. /\ held'[c] = {} /\ pc'[c] = "done" /\ outcome'[c] = x
      /\ taken' = taken
  BY DEF Abort, Rollback, Go, WaitsTypeOK
<1>4. x # "committed" /\ x # "none"
  BY DEF Outcomes
<1>5. \A e \in Entry : taken[e] # c
  BY <1>1, WaitAssumption DEF LocksInv, TakenTold
<1>6. LocksInv'
  <2>1. HeldAlone'
    BY <1>2, <1>3 DEF LocksInv, HeldAlone, Items
  <2>2. \A e \in Entry : taken[e] # Nobody => taken[e] \in Call \ {c}
    BY <1>5 DEF WaitsTypeOK
  <2>3. TakenTold'
    BY <1>2, <1>3, <1>4, <2>2 DEF LocksInv, TakenTold, Items
  <2> QED
    BY <2>1, <2>3 DEF LocksInv
<1>7. Status' = Status
  BY <1>1, <1>2, <1>3, <1>4 DEF Status
<1>8. Rows' = Rows
  BY <1>3 DEF Rows
<1> QED
  BY <1>6, <1>7, <1>8 DEF Sale!saleVars

LEMMA SameCardinality == ASSUME NEW S PROVE Sale!Cardinality(S) = Cardinality(S)
BY DEF Sale!Cardinality, Cardinality

\* Pairs of a call and an entry that no two calls share are as few as the entries.
LEMMA OneOwnerEach ==
    ASSUME NEW S \in SUBSET (Call \X Entry), \A t, u \in S : t[2] = u[2] => t = u
    PROVE  Cardinality(S) <= Cardinality(Entry)
<1> DEFINE f == [t \in S |-> t[2]]
<1>1. IsFiniteSet(Entry)
  BY FS_Interval, WaitAssumption DEF Entry
<1>2. f \in Injection(S, Entry)
  BY DEF Injection, IsInjective
<1> QED
  BY <1>1, <1>2, FS_Injection

\* COMMIT takes all entries of a call at once, from those that nobody had.
LEMMA CommitIsHold ==
    ASSUME WaitsTypeOK, LocksInv, NEW c \in Call, Commit(c)
    PROVE  Sale!Hold(c) /\ LocksInv'
<1> DEFINE L == held[c]
<1>1. /\ L \in SUBSET Entry /\ L = Items(c) /\ pc[c] = "run" /\ outcome[c] = "none"
      /\ \A e \in L : taken[e] = Nobody
  BY DEF Commit, WaitsTypeOK, LocksInv, HeldAlone, TakenTold
<1>2. \A e \in Entry : taken[e] # c
  BY <1>1, WaitAssumption DEF LocksInv, TakenTold
<1>3. /\ held'[c] = {} /\ pc'[c] = "done" /\ outcome'[c] = "committed"
      /\ \A d \in Call \ {c} : outcome'[d] = outcome[d] /\ pc'[d] = pc[d] /\ held'[d] = held[d]
      /\ \A e \in Entry : taken'[e] = IF e \in L THEN c ELSE taken[e]
  BY DEF Commit, Go, WaitsTypeOK
<1>4. LocksInv'
  <2>1. HeldAlone'
    BY <1>3 DEF LocksInv, HeldAlone, WaitsTypeOK, Items
  <2>2. \A e \in Entry : taken[e] # Nobody => taken[e] \in Call \ {c}
    BY <1>2 DEF WaitsTypeOK
  <2>3. TakenTold'
    BY <1>1, <1>3, <2>2 DEF LocksInv, TakenTold, Items
  <2> QED
    BY <2>1, <2>3 DEF LocksInv
<1>5. Status[c] = "none" /\ Status' = [Status EXCEPT ![c] = "pending"]
  BY <1>1, <1>3 DEF Status
<1>6. Rows' = [Rows EXCEPT ![c] = L]
  <2>1. Rows' = [d \in Call |-> {e \in Entry : taken'[e] = d}]
    BY DEF Rows
  <2>2. \A d \in Call : {e \in Entry : taken'[e] = d} = IF d = c THEN L ELSE Rows[d]
    BY <1>1, <1>2, <1>3, WaitAssumption DEF Rows
  <2>3. Rows = [d \in Call |-> Rows[d]]
    BY DEF Rows
  <2> QED
    BY <2>1, <2>2, <2>3
<1>7. Sale!Available(c, L)
  <2> DEFINE sold == Sale!Sold(1)
             asks == {t \in {c} \X L : [e \in Entry |-> 1][t[2]] = 1}
  <2>1. \A t \in sold : t \in Call \X Entry /\ taken[t[2]] = t[1]
    BY DEF Sale!Sold, Rows
  <2>2. \A t \in asks : t \in Call \X Entry /\ t[1] = c /\ t[2] \in L /\ taken[t[2]] = Nobody
    BY <1>1
  <2>3. \A t, u \in sold \cup asks : t[2] = u[2] => t = u
    BY <2>1, <2>2, WaitAssumption
  <2>4. Cardinality(sold \cup asks) <= Cardinality(Entry)
    BY <2>1, <2>2, <2>3, OneOwnerEach
  <2>5. \A l \in L : \A t \in sold : t[2] # l
    BY <1>1, <2>1, WaitAssumption
  <2>6. \A l \in L : [e \in Entry |-> e][l] = l
    BY <1>1
  <2>7. \A t \in sold : [e \in Entry |-> e][t[2]] = t[2]
    BY <2>1
  <2> HIDE DEF sold, asks
  <2>8. \A z \in {1} :
           /\ Sale!Cardinality(sold \cup asks) <= [y \in {1} |-> Cardinality(Entry)][z]
           /\ \A l \in L : /\ \A t \in sold : [e \in Entry |-> e][t[2]] # [e \in Entry |-> e][l]
                           /\ \A m \in L \ {l} : [e \in Entry |-> e][m] # [e \in Entry |-> e][l]
    BY <2>4, <2>5, <2>6, <2>7, SameCardinality
  <2> QED
    BY <2>8 DEF Sale!Available, sold, asks
<1> QED
  BY <1>1, <1>4, <1>5, <1>6, <1>7 DEF Sale!Hold

LEMMA StepIsSale ==
    ASSUME WaitsTypeOK, LocksInv, [WaitsNext]_vars
    PROVE  LocksInv' /\ [Sale!SaleNext]_Sale!saleVars
<1> DEFINE Goal == LocksInv' /\ [Sale!SaleNext]_Sale!saleVars
<1>1. ASSUME UNCHANGED <<taken, outcome>> PROVE UNCHANGED Sale!saleVars
  BY <1>1 DEF Sale!saleVars, Status, Rows
<1>2. ASSUME NEW c \in Call, \/ Arrive(c) \/ Connect(c) \/ AnswerFlags(c) \/ Refresh(c)
                             \/ RefreshConnects(c) \/ ReadFlags(c) \/ RefreshTimesOut(c) \/ Raced(c)
      PROVE  Goal
  <2>1. pc[c] # "done" /\ UNCHANGED <<taken, outcome>>
    BY <1>2 DEF Arrive, Connect, AnswerFlags, Refresh, RefreshConnects, ReadFlags, RefreshTimesOut,
                Stamp, Raced, Rollback
  <2>2. held' = held \/ held' = [held EXCEPT ![c] = {}]
    BY <1>2 DEF Arrive, Connect, AnswerFlags, Refresh, RefreshConnects, ReadFlags, RefreshTimesOut,
                Stamp, Raced, Rollback
  <2>3. \E where \in {"pool", "look", "flags", "wait", "refresh", "read", "run", "repool", "relook"} :
            Go(c, where)
    <3>1. CASE Arrive(c) \/ Connect(c)
      BY <3>1 DEF Arrive, Connect, FirstQuery
    <3>2. CASE AnswerFlags(c) \/ Refresh(c)
      BY <3>2 DEF AnswerFlags, Refresh, Onward
    <3>3. CASE RefreshConnects(c) \/ ReadFlags(c) \/ RefreshTimesOut(c) \/ Raced(c)
      BY <3>3 DEF RefreshConnects, ReadFlags, RefreshTimesOut, Stamp, Onward, Raced
    <3> QED
      BY <1>2, <3>1, <3>2, <3>3
  <2> QED
    BY <1>1, <2>1, <2>2, <2>3, Underway_Locks
<1>3. ASSUME NEW c \in Call, TakeLock(c) PROVE Goal
  <2>1. PICK e \in Entry : /\ e \in Items(c) /\ ~Locked(c, e) /\ taken[e] = Nobody
                          /\ held' = [held EXCEPT ![c] = @ \cup {e}]
    BY <1>3 DEF TakeLock, NextLock
  <2>2. held'[c] = held[c] \cup {e} /\ \A d \in Call \ {c} : held'[d] = held[d] /\ e \notin held[d]
    BY <2>1 DEF WaitsTypeOK, Locked
  <2>3. UNCHANGED <<pc, taken, outcome>>
    BY <1>3 DEF TakeLock
  <2>4. HeldAlone'
    BY <2>1, <2>2, <2>3 DEF LocksInv, HeldAlone, Items
  <2>5. TakenTold'
    BY <2>3 DEF LocksInv, TakenTold, Items
  <2> QED
    BY <1>1, <2>3, <2>4, <2>5 DEF LocksInv
<1>4. ASSUME NEW c \in Call, \/ PoolTimesOut(c) \/ Refused(c) \/ LookAgain(c)
                             \/ LockTimesOut(c) \/ ConnectionLost(c)
      PROVE  Goal
  <2>1. pc[c] # "done"
    BY <1>4, Aborts
  <2>2. PICK x \in Outcomes : Abort(c, x)
    BY <1>4, AbortsKnown
  <2> QED
    BY <2>1, <2>2, Abort_Locks
<1>a. ASSUME NEW c \in Call, LookUp(c) PROVE Goal
  <2>1. pc[c] = "look"
    BY <1>a DEF LookUp
  <2>2. CASE Go(c, "run") /\ UNCHANGED <<held, taken, outcome>>
    BY <1>1, <2>1, <2>2, Underway_Locks
  <2>3. CASE \E x \in {"replayed", "reused"} : Abort(c, x)
    BY <2>1, <2>3, Abort_Locks DEF Outcomes
  <2> QED
    BY <1>a, <2>2, <2>3 DEF LookUp
<1>5. ASSUME NEW c \in Call, Commit(c) PROVE Goal
  BY <1>5, CommitIsHold DEF Sale!SaleNext
<1>6. CASE Expire \/ ForeignEnds \/ UNCHANGED vars
  <2>1. UNCHANGED <<pc, held, taken, outcome>>
    BY <1>6 DEF Expire, ForeignEnds, vars
  <2> QED
    BY <1>1, <2>1 DEF LocksInv, HeldAlone, TakenTold, Items
<1> QED
  BY <1>2, <1>3, <1>4, <1>5, <1>6, <1>a DEF WaitsNext, CallStep

\* The index entries and row locks that a transaction collects one at a time, waiting
\* in between, make it the one atomic step that SeatSale and Booking take it for.
THEOREM TransactionsAreAtomic == WaitsSpec => TransactionIsAtomic
<1>1. WaitsInit => LocksInv /\ Sale!SaleInit
  BY WaitAssumption DEF WaitsInit, LocksInv, HeldAlone, TakenTold, Sale!SaleInit, Status, Rows
<1>2. WaitsTypeOK /\ LocksInv /\ [WaitsNext]_vars => LocksInv' /\ [Sale!SaleNext]_Sale!saleVars
  BY StepIsSale
<1> QED
  BY <1>1, <1>2, TypesHold, PTL DEF WaitsSpec, TransactionIsAtomic, Sale!SaleSpec

----------------------------------------------------------------------------
(* Every answer is true.                                                   *)

\* What an outcome says of the entries the call asked for.
TrueOf(c, x) ==
    /\ x \in {"replayed", "reused"} => \E e \in Keys(c) : Others(c, e)
    /\ x = "refused" => \E e \in Items(c) : Kind[e] \in {"row", "seat"} /\ Others(c, e)
    /\ Answer(x) = "500" =>
          x = "admin_shutdown" \/ \E e \in Items(c) : Kind[e] = "empty" /\ Others(c, e)

\* Nothing committed is taken back, so that what was true when a call ended stays true;
\* and a call whose key was raced will find the winner.
AnswersInv ==
    /\ \A c \in Call : pc[c] = "done" => TrueOf(c, outcome[c])
    /\ \A c \in Call : outcome[c] = "committed" => \A e \in Items(c) : taken[e] = c
    /\ \A c \in Call : pc[c] \in {"repool", "relook"} => \E e \in Keys(c) : Others(c, e)

LEMMA CommittedIsOther ==
    ASSUME WaitsTypeOK, LocksInv, NEW c \in Call, pc[c] # "done", NEW e \in Entry, taken[e] # Nobody
    PROVE  Others(c, e)
<1>1. taken[e] \in Call /\ outcome[taken[e]] = "committed" /\ e \in Items(taken[e])
  BY DEF WaitsTypeOK, LocksInv, TakenTold
<1>2. taken[e] \in Writer
  BY <1>1 DEF Items
<1>3. taken[e] # c
  BY <1>1 DEF LocksInv, TakenTold
<1> QED
  BY <1>1, <1>2, <1>3 DEF Others

\* A step that ends no call but that of c, and takes only what is free, keeps the truth of
\* all answers, if its own is true and a key it says is raced is.
LEMMA Truth_Stays ==
    ASSUME WaitsTypeOK, LocksInv, AnswersInv, NEW c \in Call,
           \A d \in Call \ {c} : outcome'[d] = outcome[d] /\ pc'[d] = pc[d],
           \A e \in Entry : taken[e] # Nobody => taken'[e] = taken[e],
           \A e \in Entry : taken[e] = c => outcome'[c] = outcome[c],
           pc'[c] = "done" => TrueOf(c, outcome'[c]),
           outcome'[c] = "committed" => \A e \in Items(c) : taken'[e] = c,
           pc'[c] \in {"repool", "relook"} => \E e \in Keys(c) : Others(c, e)
    PROVE  AnswersInv'
<1>1. \A d \in Call, e \in Entry : Others(d, e) => Others(d, e)'
  <2> SUFFICES ASSUME NEW d \in Call, NEW e \in Entry, Others(d, e) PROVE Others(d, e)'
    OBVIOUS
  <2>1. taken[e] \in Call /\ taken[e] # Nobody /\ taken'[e] = taken[e]
    BY WaitAssumption DEF Others
  <2>2. outcome'[taken[e]] = outcome[taken[e]]
    BY <2>1
  <2> QED
    BY <2>1, <2>2 DEF Others
<1>2. \A d \in Call : Keys(d) \subseteq Entry /\ Items(d) \subseteq Entry
  BY ItemsType DEF Keys
<1>3. \A d \in Call : pc'[d] = "done" => TrueOf(d, outcome[d])'
  <2> SUFFICES ASSUME NEW d \in Call, pc'[d] = "done" PROVE TrueOf(d, outcome[d])'
    OBVIOUS
  <2>1. TrueOf(d, outcome'[d])
    BY DEF AnswersInv
  <2>2. outcome'[d] \in {"replayed", "reused"} => \E e \in Keys(d) : Others(d, e)'
    BY <1>1, <1>2, <2>1 DEF TrueOf
  <2>3. outcome'[d] = "refused" =>
            \E e \in Items(d) : Kind[e] \in {"row", "seat"} /\ Others(d, e)'
    BY <1>1, <1>2, <2>1 DEF TrueOf
  <2>4. Answer(outcome'[d]) = "500" =>
            \/ outcome'[d] = "admin_shutdown"
            \/ \E e \in Items(d) : Kind[e] = "empty" /\ Others(d, e)'
    BY <1>1, <1>2, <2>1 DEF TrueOf
  <2> QED
    BY <2>2, <2>3, <2>4 DEF TrueOf, Keys, Items, Answer, Classify
<1>5. \A d \in Call : outcome'[d] = "committed" => \A e \in Items(d) : taken'[e] = d
  BY <1>2, WaitAssumption DEF AnswersInv
<1>6. \A d \in Call : pc'[d] \in {"repool", "relook"} => \E e \in Keys(d) : Others(d, e)'
  BY <1>1, <1>2 DEF AnswersInv
<1> QED
  BY <1>3, <1>5, <1>6 DEF AnswersInv, Keys, Items

LEMMA Abort_Answers ==
    ASSUME WaitsTypeOK, LocksInv, AnswersInv, NEW c \in Call, pc[c] # "done",
           NEW x \in Outcomes, TrueOf(c, x), Abort(c, x)
    PROVE  AnswersInv'
<1>1. /\ \A d \in Call \ {c} : outcome'[d] = outcome[d] /\ pc'[d] = pc[d]
      /\ outcome'[c] = x /\ pc'[c] = "done" /\ taken' = taken
  BY DEF Abort, Rollback, Go, WaitsTypeOK
<1>2. outcome[c] = "none"
  BY DEF LocksInv, TakenTold
<1>3. \A e \in Entry : taken[e] # c
  BY <1>2, WaitAssumption DEF LocksInv, TakenTold
<1>4. x # "committed"
  BY DEF Outcomes
<1> QED
  BY <1>1, <1>3, <1>4, Truth_Stays

\* What each end without COMMIT says is true when it happens.
LEMMA EndsTrue ==
    ASSUME WaitsTypeOK, LocksInv, AnswersInv, NEW c \in Call,
           \/ PoolTimesOut(c) \/ Refused(c) \/ LookAgain(c) \/ LockTimesOut(c) \/ ConnectionLost(c)
    PROVE  AnswersInv'
<1>1. pc[c] # "done"
  BY Aborts
<1>2. \A x \in {"pool_timeout", "unreachable", "lock_timeout", "statement_timeout", "admin_shutdown"} :
          TrueOf(c, x) /\ x \in Outcomes
  BY DEF TrueOf, Answer, Classify, Retryable, Unavailable, Outcomes
<1>3. CASE PoolTimesOut(c)
  BY <1>1, <1>2, <1>3, Abort_Answers DEF PoolTimesOut
<1>4. CASE LockTimesOut(c)
  <2>1. PICK x \in {"lock_timeout", "statement_timeout"} : Abort(c, x)
    BY <1>4 DEF LockTimesOut
  <2> QED
    BY <2>1, <1>1, <1>2, Abort_Answers
<1>5. CASE ConnectionLost(c)
  <2>1. PICK x \in {"unreachable", "admin_shutdown"} : Abort(c, x)
    BY <1>5 DEF ConnectionLost
  <2> QED
    BY <2>1, <1>1, <1>2, Abort_Answers
<1>6. CASE Refused(c)
  <2>1. PICK e \in Entry : Collides(c, e) /\ Kind[e] # "key" /\ Abort(c, Verdict(e))
    BY <1>6 DEF Refused
  <2>2. e \in Items(c) /\ Others(c, e)
    BY <2>1, <1>1, CommittedIsOther DEF Collides, NextLock
  <2>3. CASE Kind[e] \in {"row", "seat"}
    <3>1. Verdict(e) = "refused" /\ TrueOf(c, "refused")
      BY <2>2, <2>3 DEF Verdict, TrueOf, Answer
    <3> QED
      BY <1>1, <2>1, <3>1, Abort_Answers DEF Outcomes
  <2>4. CASE Kind[e] = "empty"
    <3>1. Verdict(e) = "integrity" /\ TrueOf(c, "integrity")
      BY <2>2, <2>4 DEF Verdict, TrueOf
    <3> QED
      BY <1>1, <2>1, <3>1, Abort_Answers DEF Outcomes
  <2> QED
    BY <2>1, <2>3, <2>4, WaitAssumption
<1>7. CASE LookAgain(c)
  <2>1. pc[c] = "relook"
    BY <1>7 DEF LookAgain
  <2>2. PICK e \in Keys(c) : Others(c, e)
    BY <2>1 DEF AnswersInv
  <2>3. \E d \in Writer : Winner(c, d)
    BY <2>2 DEF Others, Winner
  <2>4. Abort(c, "replayed")
    BY <1>7, <2>3 DEF LookAgain
  <2>5. TrueOf(c, "replayed")
    BY <2>2 DEF TrueOf, Answer
  <2> QED
    BY <1>1, <2>4, <2>5, Abort_Answers DEF Outcomes
<1> QED
  BY <1>3, <1>4, <1>5, <1>6, <1>7

LEMMA LookUp_Answers ==
    ASSUME WaitsTypeOK, LocksInv, AnswersInv, NEW c \in Call, LookUp(c)
    PROVE  AnswersInv'
<1>1. pc[c] = "look"
  BY DEF LookUp
<1>2. CASE Go(c, "run") /\ UNCHANGED <<taken, outcome>>
  <2>1. \A d \in Call \ {c} : outcome'[d] = outcome[d] /\ pc'[d] = pc[d]
    BY <1>2 DEF Go, WaitsTypeOK
  <2>2. pc'[c] = "run" /\ outcome'[c] = outcome[c] /\ taken' = taken
    BY <1>2 DEF Go, WaitsTypeOK
  <2>3. outcome[c] = "none"
    BY <1>1 DEF LocksInv, TakenTold, WaitsTypeOK
  <2> QED
    BY <2>1, <2>2, <2>3, Truth_Stays
<1>3. CASE \E d \in Writer : Winner(c, d) /\ \E x \in {"replayed", "reused"} : Abort(c, x)
  <2>1. PICK d \in Writer, x \in {"replayed", "reused"} : Winner(c, d) /\ Abort(c, x)
    BY <1>3
  <2>2. PICK e \in Keys(c) : taken[e] = d
    BY <2>1 DEF Winner
  <2>3. e \in Entry /\ taken[e] # Nobody
    BY <2>2, ItemsType, WaitAssumption DEF Keys
  <2>4. Others(c, e)
    BY <1>1, <2>3, CommittedIsOther
  <2>5. TrueOf(c, x)
    BY <2>1, <2>2, <2>4 DEF TrueOf, Answer
  <2> QED
    BY <1>1, <2>1, <2>5, Abort_Answers DEF Outcomes
<1> QED
  BY <1>2, <1>3 DEF LookUp

\* The steps of a call that end nothing and commit nothing.
LEMMA Underway_Answers ==
    ASSUME WaitsTypeOK, LocksInv, AnswersInv, NEW c \in Call, pc[c] # "done",
           UNCHANGED <<taken, outcome>>,
           NEW where, Go(c, where) \/ (pc' = pc /\ where = pc[c]), where # "done",
           where \in {"repool", "relook"} => \E e \in Keys(c) : Others(c, e)
    PROVE  AnswersInv'
<1>1. \A d \in Call \ {c} : outcome'[d] = outcome[d] /\ pc'[d] = pc[d]
  BY DEF Go, WaitsTypeOK
<1>2. pc'[c] = where /\ outcome'[c] = outcome[c] /\ taken' = taken
  BY DEF Go, WaitsTypeOK
<1>3. outcome[c] = "none"
  BY DEF LocksInv, TakenTold
<1> QED
  BY <1>1, <1>2, <1>3, Truth_Stays

LEMMA AnswersStep ==
    ASSUME WaitsTypeOK, LocksInv, AnswersInv, [WaitsNext]_vars
    PROVE  AnswersInv'
<1>1. ASSUME NEW c \in Call, \/ Arrive(c) \/ AnswerFlags(c) \/ Refresh(c)
                             \/ RefreshConnects(c) \/ ReadFlags(c) \/ RefreshTimesOut(c)
      PROVE  AnswersInv'
  <2>1. pc[c] # "done" /\ UNCHANGED <<taken, outcome>>
    BY <1>1 DEF Arrive, AnswerFlags, Refresh, RefreshConnects, ReadFlags, RefreshTimesOut, Stamp
  <2>2. PICK where \in {"pool", "flags", "wait", "refresh", "read", "run"} : Go(c, where)
    <3>1. CASE Arrive(c)
      BY <3>1 DEF Arrive
    <3>2. CASE AnswerFlags(c) \/ Refresh(c)
      BY <3>2 DEF AnswerFlags, Refresh, Onward
    <3>3. CASE RefreshConnects(c) \/ ReadFlags(c) \/ RefreshTimesOut(c)
      BY <3>3 DEF RefreshConnects, ReadFlags, RefreshTimesOut, Stamp, Onward
    <3> QED
      BY <1>1, <3>1, <3>2, <3>3
  <2> QED
    BY <2>1, <2>2, Underway_Answers
<1>2. ASSUME NEW c \in Call, Connect(c) PROVE AnswersInv'
  <2>1. pc[c] \in {"pool", "repool"} /\ UNCHANGED <<taken, outcome>> /\ Go(c, FirstQuery(c))
    BY <1>2 DEF Connect
  <2>2. FirstQuery(c) \in {"look", "run", "relook", "flags"}
    BY FirstQueryType
  <2>3. FirstQuery(c) = "relook" => pc[c] = "repool"
    BY <2>1 DEF FirstQuery
  <2>4. FirstQuery(c) \in {"repool", "relook"} => \E e \in Keys(c) : Others(c, e)
    BY <2>2, <2>3 DEF AnswersInv
  <2> QED
    BY <2>1, <2>2, <2>4, Underway_Answers
<1>3. ASSUME NEW c \in Call, TakeLock(c) PROVE AnswersInv'
  <2>1. pc[c] = "run" /\ pc' = pc /\ UNCHANGED <<taken, outcome>>
    BY <1>3 DEF TakeLock
  <2> QED
    BY <2>1, Underway_Answers
<1>4. ASSUME NEW c \in Call, Raced(c) PROVE AnswersInv'
  <2>1. PICK e \in Entry : Collides(c, e) /\ Kind[e] = "key"
    BY <1>4 DEF Raced
  <2>2. pc[c] = "run" /\ Go(c, "repool") /\ UNCHANGED <<taken, outcome>>
    BY <1>4 DEF Raced, Rollback
  <2>3. e \in Keys(c) /\ Others(c, e)
    BY <2>1, <2>2, CommittedIsOther DEF Collides, NextLock, Keys
  <2> QED
    BY <2>2, <2>3, Underway_Answers
<1>5. ASSUME NEW c \in Call, \/ PoolTimesOut(c) \/ Refused(c) \/ LookAgain(c)
                             \/ LockTimesOut(c) \/ ConnectionLost(c)
      PROVE  AnswersInv'
  BY <1>5, EndsTrue
<1>6. ASSUME NEW c \in Call, LookUp(c) PROVE AnswersInv'
  BY <1>6, LookUp_Answers
<1>7. ASSUME NEW c \in Call, Commit(c) PROVE AnswersInv'
  <2>1. /\ \A d \in Call \ {c} : outcome'[d] = outcome[d] /\ pc'[d] = pc[d]
        /\ outcome'[c] = "committed" /\ pc'[c] = "done" /\ held[c] = Items(c)
    BY <1>7 DEF Commit, Go, WaitsTypeOK
  <2>2. \A e \in Entry : taken'[e] = IF e \in held[c] THEN c ELSE taken[e]
    BY <1>7 DEF Commit, WaitsTypeOK
  <2>3. \A e \in Entry : taken[e] # Nobody => taken'[e] = taken[e]
    BY <2>2 DEF LocksInv, HeldAlone
  <2>4. outcome[c] = "none"
    BY <1>7 DEF Commit, LocksInv, TakenTold
  <2>5. \A e \in Entry : taken[e] # c
    BY <2>4, WaitAssumption DEF LocksInv, TakenTold
  <2>6. TrueOf(c, "committed")
    BY DEF TrueOf, Answer
  <2>7. \A e \in Items(c) : taken'[e] = c
    BY <2>1, <2>2, ItemsType
  <2> QED
    BY <2>1, <2>3, <2>5, <2>6, <2>7, Truth_Stays
<1>8. CASE Expire \/ ForeignEnds \/ UNCHANGED vars
  <2>1. UNCHANGED <<pc, taken, outcome>>
    BY <1>8 DEF Expire, ForeignEnds, vars
  <2> QED
    BY <2>1 DEF AnswersInv, TrueOf, Others, Keys, Items
<1> QED
  BY <1>1, <1>2, <1>3, <1>4, <1>5, <1>6, <1>7, <1>8 DEF WaitsNext, CallStep

\* What a call is told is so, for any number of calls and entries and any way in which they
\* race, wait, time out and lose connections: all it asked for or nothing, another order of
\* its key, a committed owner of what it was refused, and 500 only after the empty key or a
\* session that the server ended.
THEOREM AnswersAreTrue == WaitsSpec => []AnswersTell
<1>1. WaitsInit => LocksInv /\ AnswersInv
  BY WaitAssumption DEF WaitsInit, LocksInv, HeldAlone, TakenTold, AnswersInv
<1>2. WaitsTypeOK /\ LocksInv /\ AnswersInv /\ [WaitsNext]_vars => LocksInv' /\ AnswersInv'
  BY StepIsSale, AnswersStep
<1>3. WaitsTypeOK /\ LocksInv /\ AnswersInv => AnswersTell
  <2> SUFFICES ASSUME LocksInv, AnswersInv, NEW c \in Call, pc[c] = "done"
               PROVE  /\ \A e \in Items(c) : outcome[c] = "committed" <=> taken[e] = c
                      /\ TrueOf(c, outcome[c])
    BY DEF AnswersTell, TrueOf
  <2>1. \A e \in Items(c) : taken[e] = c => outcome[c] = "committed"
    BY ItemsType, WaitAssumption DEF LocksInv, TakenTold
  <2> QED
    BY <2>1 DEF AnswersInv
<1> QED
  BY <1>1, <1>2, <1>3, TypesHold, PTL DEF WaitsSpec
=============================================================================
