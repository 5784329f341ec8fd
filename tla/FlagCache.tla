----------------------------- MODULE FlagCache -----------------------------
(***************************************************************************)
(* The feature flags of the API replicas (core/flags.py): a table in       *)
(* PostgreSQL that an administrator changes, and in every replica a cache  *)
(* that its request threads share, refresh when it is FLAG_CACHE_SECONDS   *)
(* old, and invalidate after a change.                                     *)
(*                                                                         *)
(* A content of the table is named by its number: the n-th set_flag writes *)
(* content n, and content 0 is the defaults, which the migration inserts.  *)
(* Time passes in ticks, and only while a thread waits for the database or *)
(* for a lock: the other steps take microseconds.                          *)
(***************************************************************************)
EXTENDS Integers

CONSTANTS
    Replica,   \* API processes
    Thread,    \* their request threads
    Home,      \* Home[t]: the replica thread t belongs to
    Ttl,       \* FLAG_CACHE_SECONDS, in ticks
    MaxRead,   \* bound: ticks a read of the table may take
    MaxFlips,  \* bound: calls of set_flag
    MaxFaults, \* bound: failed reads and restarts
    NoThread   \* nobody

ASSUME CacheAssumption ==
    /\ Home \in [Thread -> Replica]
    /\ Ttl \in Nat /\ MaxRead \in Nat /\ MaxFlips \in Nat /\ MaxFaults \in Nat
    /\ NoThread \notin Thread

VARIABLES
    version,    \* the content of the table
    gone,       \* history: ticks since content v was replaced, up to LongGone
    cache,      \* cache[p]: _cache
    age,        \* age[p]: time.monotonic() - _loaded_at, up to Expired
    refreshing, \* refreshing[p]: the thread that holds _refresh_lock
    failed,     \* history: p has failed to refresh since it last succeeded
    pc,         \* pc[t]: the step thread t is at
    first,      \* first[t]: its local first_load
    got,        \* got[t]: the rows it has read
    took,       \* took[t]: ticks since it began to read
    faults      \* faults so far

replicaVars == <<cache, age, refreshing, failed>>
threadVars == <<pc, first, got, took>>
flagVars == <<version, gone, replicaVars, threadVars, faults>>

Content == 0..MaxFlips
Defaults == 0
Empty == -1           \* no content: an empty _cache
Expired == Ttl + 1    \* also the age of an invalidated cache, _loaded_at = 0.0
LongGone == Ttl + MaxRead + 1

Holding == {"recheck", "read", "publish", "stamp", "release"}
Waiting == {"idle", "blocked", "read", "publish"}

FlagInit ==
    /\ version = Defaults
    /\ gone = [v \in Content |-> 0]
    /\ cache = [p \in Replica |-> Empty]
    /\ age = [p \in Replica |-> Expired]
    /\ refreshing = [p \in Replica |-> NoThread]
    /\ failed = [p \in Replica |-> FALSE]
    /\ pc = [t \in Thread |-> "idle"]
    /\ first = [t \in Thread |-> FALSE]
    /\ got = [t \in Thread |-> Defaults]
    /\ took = [t \in Thread |-> 0]
    /\ faults = 0

----------------------------------------------------------------------------
(* get_all_flags                                                           *)

GoTo(t, step) == pc' = [pc EXCEPT ![t] = step]

TableUnchanged == UNCHANGED <<version, gone, faults>>

\* The first look at the clock, and at the cache when it has expired.
Call(t) ==
    /\ pc[t] = "idle"
    /\ IF age[Home[t]] > Ttl
       THEN /\ GoTo(t, "expired")
            /\ first' = [first EXCEPT ![t] = cache[Home[t]] = Empty]
       ELSE GoTo(t, "answer") /\ UNCHANGED first
    /\ TableUnchanged
    /\ UNCHANGED <<replicaVars, got, took>>

TakeLock(t) ==
    /\ refreshing[Home[t]] = NoThread
    /\ refreshing' = [refreshing EXCEPT ![Home[t]] = t]
    /\ GoTo(t, "recheck")

\* Mutant: the lock is not tried, every thread that finds it taken reads too.
NoLock(t) ==
    /\ pc[t] = "expired"
    /\ refreshing' = [refreshing EXCEPT ![Home[t]] = t]
    /\ GoTo(t, "recheck")
    /\ TableUnchanged
    /\ UNCHANGED <<cache, age, failed, first, got, took>>

\* Mutant: blocking=False for every load, the first one included.
NeverWait(t) ==
    /\ pc[t] = "expired"
    /\ \/ TakeLock(t)
       \/ refreshing[Home[t]] # NoThread /\ GoTo(t, "answer") /\ UNCHANGED refreshing
    /\ TableUnchanged
    /\ UNCHANGED <<cache, age, failed, first, got, took>>

\* _refresh_lock.acquire(blocking=first_load).
TryLock(t) ==
    /\ pc[t] = "expired"
    /\ \/ TakeLock(t)
       \/ /\ refreshing[Home[t]] # NoThread
          /\ GoTo(t, IF first[t] THEN "blocked" ELSE "answer")
          /\ UNCHANGED refreshing
    /\ TableUnchanged
    /\ UNCHANGED <<cache, age, failed, first, got, took>>

\* The lock a first load waited for is free.
Unblock(t) ==
    /\ pc[t] = "blocked"
    /\ TakeLock(t)
    /\ TableUnchanged
    /\ UNCHANGED <<cache, age, failed, first, got, took>>

\* Mutant: the second look is at the cache, not at its age.
RecheckCache(t) ==
    /\ pc[t] = "recheck"
    /\ GoTo(t, IF cache[Home[t]] = Empty THEN "read" ELSE "release")
    /\ TableUnchanged
    /\ UNCHANGED <<replicaVars, first, got, took>>

\* Another thread may have refreshed meanwhile.
Recheck(t) ==
    /\ pc[t] = "recheck"
    /\ GoTo(t, IF age[Home[t]] > Ttl THEN "read" ELSE "release")
    /\ TableUnchanged
    /\ UNCHANGED <<replicaVars, first, got, took>>

----------------------------------------------------------------------------
(* _refresh                                                                *)

ReadTable(t) ==
    /\ pc[t] = "read"
    /\ got' = [got EXCEPT ![t] = version]
    /\ GoTo(t, "publish")
    /\ TableUnchanged
    /\ UNCHANGED <<replicaVars, first, took>>

Publish(t) ==
    /\ pc[t] = "publish"
    /\ cache' = [cache EXCEPT ![Home[t]] = got[t]]
    /\ failed' = [failed EXCEPT ![Home[t]] = FALSE]
    /\ GoTo(t, "stamp")
    /\ TableUnchanged
    /\ UNCHANGED <<age, refreshing, first, got, took>>

\* The read raises: the old content stays, or the defaults if there is none.
ReadFails(t) ==
    /\ pc[t] = "read"
    /\ faults < MaxFaults
    /\ faults' = faults + 1
    /\ cache' = [cache EXCEPT ![Home[t]] = IF @ = Empty THEN Defaults ELSE @]
    /\ failed' = [failed EXCEPT ![Home[t]] = TRUE]
    /\ GoTo(t, "stamp")
    /\ UNCHANGED <<version, gone, age, refreshing, first, got, took>>

\* _loaded_at = time.monotonic(), outside _lock and after a failure too.
Stamp(t) ==
    /\ pc[t] = "stamp"
    /\ age' = [age EXCEPT ![Home[t]] = 0]
    /\ GoTo(t, "release")
    /\ TableUnchanged
    /\ UNCHANGED <<cache, refreshing, failed, first, got, took>>

\* Mutant: the release is not in a finally, and a failed refresh skips it.
ReleaseUnlessFailed(t) ==
    /\ pc[t] = "release"
    /\ refreshing' = [refreshing EXCEPT ![Home[t]] = IF failed[Home[t]] THEN @ ELSE NoThread]
    /\ GoTo(t, "answer")
    /\ TableUnchanged
    /\ UNCHANGED <<cache, age, failed, first, got, took>>

Release(t) ==
    /\ pc[t] = "release"
    /\ refreshing' = [refreshing EXCEPT ![Home[t]] = NoThread]
    /\ GoTo(t, "answer")
    /\ TableUnchanged
    /\ UNCHANGED <<cache, age, failed, first, got, took>>

\* The call returns cache[Home[t]], and its locals are gone.
Answer(t) ==
    /\ pc[t] = "answer"
    /\ GoTo(t, "idle")
    /\ first' = [first EXCEPT ![t] = FALSE]
    /\ got' = [got EXCEPT ![t] = Defaults]
    /\ took' = [took EXCEPT ![t] = 0]
    /\ TableUnchanged
    /\ UNCHANGED replicaVars

----------------------------------------------------------------------------
(* set_flag, by the thread that serves PUT /admin/flags/{key}              *)

Flip(t) ==
    /\ pc[t] = "idle"
    /\ version < MaxFlips
    /\ version' = version + 1
    /\ gone' = [gone EXCEPT ![version] = 0]
    /\ GoTo(t, "invalidate")
    /\ UNCHANGED <<replicaVars, first, got, took, faults>>

Invalidate(t) ==
    /\ pc[t] = "invalidate"
    /\ age' = [age EXCEPT ![Home[t]] = Expired]
    /\ GoTo(t, "idle")
    /\ TableUnchanged
    /\ UNCHANGED <<cache, refreshing, failed, first, got, took>>

----------------------------------------------------------------------------
(* The environment                                                         *)

\* A replica dies with its threads and is started again.
Restart(p) ==
    /\ faults < MaxFaults
    /\ faults' = faults + 1
    /\ cache' = [cache EXCEPT ![p] = Empty]
    /\ age' = [age EXCEPT ![p] = Expired]
    /\ refreshing' = [refreshing EXCEPT ![p] = NoThread]
    /\ failed' = [failed EXCEPT ![p] = FALSE]
    /\ pc' = [t \in Thread |-> IF Home[t] = p THEN "idle" ELSE pc[t]]
    /\ first' = [t \in Thread |-> Home[t] # p /\ first[t]]
    /\ got' = [t \in Thread |-> IF Home[t] = p THEN Defaults ELSE got[t]]
    /\ took' = [t \in Thread |-> IF Home[t] = p THEN 0 ELSE took[t]]
    /\ UNCHANGED <<version, gone>>

\* Time passes; a read ends within MaxRead.
Tick ==
    /\ \A t \in Thread :
          /\ pc[t] \in Waiting
          /\ pc[t] \in {"read", "publish"} => took[t] < MaxRead
    /\ age' = [p \in Replica |-> IF age[p] = Expired THEN Expired ELSE age[p] + 1]
    /\ gone' = [v \in Content |->
          IF v < version /\ gone[v] < LongGone THEN gone[v] + 1 ELSE gone[v]]
    /\ took' = [t \in Thread |-> IF pc[t] \in {"read", "publish"} THEN took[t] + 1 ELSE took[t]]
    /\ UNCHANGED <<version, cache, refreshing, failed, pc, first, got, faults>>

----------------------------------------------------------------------------
\* The steps of a thread that do not wait for the database.
LocalStep(t) ==
    \/ TryLock(t) \/ Unblock(t) \/ Recheck(t)
    \/ Publish(t) \/ Stamp(t) \/ Release(t) \/ Answer(t)
    \/ Invalidate(t)

FlagNext ==
    \/ \E t \in Thread : Call(t) \/ LocalStep(t) \/ ReadTable(t) \/ ReadFails(t) \/ Flip(t)
    \/ \E p \in Replica : Restart(p)
    \/ Tick

FlagSpec == FlagInit /\ [][FlagNext]_flagVars

\* What a thread does while requests keep coming and the database answers.
ThreadStep(t) == Call(t) \/ LocalStep(t) \/ ReadTable(t)

\* Threads do not stop between two steps, and the clock goes on.
FairFlagSpec ==
    /\ FlagSpec
    /\ \A t \in Thread : WF_flagVars(ThreadStep(t))
    /\ []<><<Tick>>_flagVars

----------------------------------------------------------------------------
(* Properties.                                                             *)

\* Every variable has its type.
FlagTypeOK ==
    /\ version \in Content
    /\ gone \in [Content -> 0..LongGone]
    /\ cache \in [Replica -> Content \cup {Empty}]
    /\ age \in [Replica -> 0..Expired]
    /\ refreshing \in [Replica -> Thread \cup {NoThread}]
    /\ failed \in [Replica -> BOOLEAN]
    /\ pc \in [Thread -> Holding \cup {"idle", "expired", "blocked", "answer", "invalidate"}]
    /\ first \in [Thread -> BOOLEAN]
    /\ got \in [Thread -> Content]
    /\ took \in [Thread -> 0..MaxRead]
    /\ faults \in 0..MaxFaults

\* The content of replica p was in the table within the last n ticks.
Recent(p, n) == cache[p] = version \/ (cache[p] \in Content /\ gone[cache[p]] <= n)

\* A thread never answers from an empty cache: whatever the order in which
\* threads check the age, look at the cache and find the lock taken, the "else
\* _defaults()" of get_all_flags is never needed.
NeverEmptyAnswer == \A t \in Thread : pc[t] = "answer" => cache[Home[t]] # Empty

\* What a call returns was in the table at most Ttl + MaxRead ago (an
\* invalidation that a running refresh stamps over included), unless a refresh
\* is in progress, or the last one failed.
AnswersInTime ==
    \A t \in Thread : pc[t] = "answer" =>
        \/ Recent(Home[t], Ttl + MaxRead)
        \/ refreshing[Home[t]] # NoThread
        \/ failed[Home[t]]

\* While a replica runs, its flags never go back to an older content: a slow
\* refresh cannot publish over a later one.
NeverGoesBack == [][\A p \in Replica : cache'[p] >= cache[p] \/ cache'[p] = Empty]_flagVars

\* The last change of the flags reaches every replica for good, although
\* invalidations can be stamped over, reads can fail and replicas can restart.
FlipsArrive == version = MaxFlips ~> [](\A p \in Replica : cache[p] = MaxFlips)

\* Claimed by the docstring of get_all_flags: "Flag values, at most
\* FLAG_CACHE_SECONDS old" (when no read takes time or fails).
AtMostTtlOld == \A t \in Thread : pc[t] = "answer" => Recent(Home[t], Ttl)

----------------------------------------------------------------------------
(* The inductive invariant of the safety properties.                       *)

\* One thread of a replica refreshes, and the lock says which.
OneRefresher == \A t \in Thread : pc[t] \in Holding <=> refreshing[Home[t]] = t

\* A cache that has been stamped has content, and so has a thread's fallback.
LoadedBeforeStamped ==
    /\ \A p \in Replica : age[p] <= Ttl => cache[p] # Empty
    /\ \A t \in Thread :
          /\ pc[t] \in {"stamp", "release"} => cache[Home[t]] # Empty
          /\ pc[t] = "expired" /\ ~first[t] => cache[Home[t]] # Empty

\* What is read is not older than what is cached, nor newer than the table.
ReadsAdvance ==
    /\ \A p \in Replica : cache[p] <= version
    /\ \A t \in Thread : pc[t] = "publish" => cache[Home[t]] <= got[t] /\ got[t] <= version

\* How long ago a content was replaced is bounded by the age of the cache.
AgesTell ==
    /\ \A p \in Replica : age[p] <= Ttl => failed[p] \/ Recent(p, age[p] + MaxRead)
    /\ \A t \in Thread :
          /\ pc[t] = "publish" => got[t] = version \/ gone[got[t]] <= took[t]
          /\ pc[t] \in {"stamp", "release"} => failed[Home[t]] \/ Recent(Home[t], Ttl + MaxRead)
          /\ pc[t] = "stamp" => failed[Home[t]] \/ Recent(Home[t], MaxRead)

FlagInv ==
    /\ FlagTypeOK
    /\ OneRefresher
    /\ LoadedBeforeStamped
    /\ ReadsAdvance
    /\ AgesTell
    /\ NeverEmptyAnswer
    /\ AnswersInTime
=============================================================================
