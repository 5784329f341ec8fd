----------------------------- MODULE FlagProofs -----------------------------
(***************************************************************************)
(* The flag cache is safe for any number of replicas and threads, any      *)
(* FLAG_CACHE_SECONDS, any time a read may take, and any number of changes *)
(* and faults.  One lemma per action: what it does, then why each part of  *)
(* the invariant survives.                                                 *)
(***************************************************************************)
EXTENDS FlagCache, TLAPS

\* What a step of thread t leaves alone.
OthersStay(t) ==
    /\ \A u \in Thread : u # t =>
          pc'[u] = pc[u] /\ first'[u] = first[u] /\ got'[u] = got[u] /\ took'[u] = took[u]
    /\ \A p \in Replica : p # Home[t] =>
          /\ cache'[p] = cache[p] /\ age'[p] = age[p]
          /\ refreshing'[p] = refreshing[p] /\ failed'[p] = failed[p]

SameTable == version' = version /\ gone' = gone
SameCache == cache' = cache /\ age' = age /\ refreshing' = refreshing /\ failed' = failed

\* The types in the form the arithmetic needs.
LEMMA Numbers ==
    ASSUME FlagTypeOK
    PROVE  /\ version \in Nat /\ Ttl \in Nat /\ MaxRead \in Nat
           /\ \A v \in Content : gone[v] \in Nat
           /\ \A p \in Replica : age[p] \in Nat /\ cache[p] \in Int /\ cache[p] >= Empty
           /\ \A p \in Replica : cache[p] # Empty => cache[p] \in Content
           /\ \A t \in Thread : /\ Home[t] \in Replica /\ got[t] \in Content /\ got[t] \in Nat
                                /\ took[t] \in Nat /\ took[t] <= MaxRead
           /\ NoThread \notin Thread
BY CacheAssumption DEF FlagTypeOK, Content, Empty, Expired, LongGone

\* At the first look: a fallback exists if the cache is young, or not empty.
LEMMA CallKeeps ==
    ASSUME FlagInv, NEW t \in Thread, Call(t)
    PROVE  FlagInv'
<1>1. FlagTypeOK'
  BY CacheAssumption DEF FlagInv, FlagTypeOK, Call, GoTo, TableUnchanged, replicaVars, Content, Defaults, Empty, Expired, LongGone, Holding
<1>2. /\ OthersStay(t)
      /\ SameTable
      /\ SameCache
      /\ pc'[t] \in {"expired", "answer"} /\ pc[t] = "idle"
      /\ pc'[t] = "answer" => age[Home[t]] <= Ttl
      /\ pc'[t] = "expired" => (first'[t] <=> cache[Home[t]] = Empty)
      /\ got'[t] = got[t] /\ took'[t] = took[t]
  <2>1. CASE age[Home[t]] > Ttl
    BY <2>1, CacheAssumption DEF FlagInv, FlagTypeOK, Call, GoTo, TableUnchanged, replicaVars, OthersStay, SameTable, SameCache, Content
  <2>2. CASE ~(age[Home[t]] > Ttl)
    BY <2>2, CacheAssumption DEF FlagInv, FlagTypeOK, Call, GoTo, TableUnchanged, replicaVars, OthersStay, SameTable, SameCache, Content
  <2>3. QED
    BY <2>1, <2>2
<1>3. FlagTypeOK
  BY DEF FlagInv
<1>4. OneRefresher'
  BY <1>2, <1>3, Numbers DEF OthersStay, SameTable, SameCache, FlagInv, OneRefresher, Holding
<1>5. LoadedBeforeStamped'
  BY <1>2, <1>3, Numbers DEF OthersStay, SameTable, SameCache, FlagInv, OneRefresher, LoadedBeforeStamped, Holding, Empty, Defaults, Expired
<1>6. ReadsAdvance'
  BY <1>2, <1>3, Numbers DEF OthersStay, SameTable, SameCache, FlagInv, OneRefresher, ReadsAdvance, Holding, Empty, Defaults
<1>7. AgesTell'
  BY <1>2, <1>3, Numbers DEF OthersStay, SameTable, SameCache, FlagInv, OneRefresher, LoadedBeforeStamped, ReadsAdvance, AgesTell, Recent, Holding, Expired
<1>8. NeverEmptyAnswer'
  BY <1>2, <1>3, Numbers DEF OthersStay, SameTable, SameCache, FlagInv, OneRefresher, LoadedBeforeStamped, NeverEmptyAnswer, Holding, Empty, Defaults
<1>9. AnswersInTime'
  BY <1>2, <1>3, Numbers DEF OthersStay, SameTable, SameCache, FlagInv, OneRefresher, LoadedBeforeStamped, AgesTell, AnswersInTime, Recent, Holding
<1>10. QED
  BY <1>1, <1>4, <1>5, <1>6, <1>7, <1>8, <1>9 DEF FlagInv

\* The loser of the lock falls back on a cache that another thread refreshes.
LEMMA TryLockKeeps ==
    ASSUME FlagInv, NEW t \in Thread, TryLock(t)
    PROVE  FlagInv'
<1>1. FlagTypeOK'
  <2>1. pc' \in [Thread -> Holding \cup {"idle", "expired", "blocked", "answer", "invalidate"}]
    BY CacheAssumption DEF FlagInv, FlagTypeOK, TryLock, TakeLock, GoTo, TableUnchanged, replicaVars, Holding
  <2>2. refreshing' \in [Replica -> Thread \cup {NoThread}]
    BY CacheAssumption DEF FlagInv, FlagTypeOK, TryLock, TakeLock, GoTo, TableUnchanged, replicaVars
  <2>3. QED
    BY <2>1, <2>2 DEF FlagInv, FlagTypeOK, TryLock, TakeLock, GoTo, TableUnchanged, replicaVars
<1>2. /\ OthersStay(t)
      /\ SameTable
      /\ cache' = cache /\ age' = age /\ failed' = failed
      /\ pc[t] = "expired"
      /\ \/ refreshing[Home[t]] = NoThread /\ refreshing'[Home[t]] = t /\ pc'[t] = "recheck"
         \/ refreshing[Home[t]] # NoThread /\ refreshing' = refreshing /\ pc'[t] = "blocked"
         \/ refreshing[Home[t]] # NoThread /\ refreshing' = refreshing /\ pc'[t] = "answer" /\ ~first[t]
      /\ first' = first /\ got' = got /\ took' = took
  <2>0. UNCHANGED <<version, gone, cache, age, failed, first, got, took>> /\ pc[t] = "expired"
    BY DEF TryLock, TableUnchanged
  <2>1. CASE refreshing[Home[t]] = NoThread
    <3>1. refreshing' = [refreshing EXCEPT ![Home[t]] = t] /\ pc' = [pc EXCEPT ![t] = "recheck"]
      BY <2>1, CacheAssumption DEF FlagInv, FlagTypeOK, TryLock, TakeLock, GoTo
    <3>2. /\ pc'[t] = "recheck" /\ refreshing'[Home[t]] = t
          /\ \A u \in Thread : u # t => pc'[u] = pc[u]
          /\ \A p \in Replica : p # Home[t] => refreshing'[p] = refreshing[p]
      BY <3>1, CacheAssumption DEF FlagInv, FlagTypeOK
    <3>3. OthersStay(t)
      BY <2>0, <3>2 DEF OthersStay
    <3>4. QED
      BY <2>0, <2>1, <3>2, <3>3 DEF SameTable
  <2>2. CASE refreshing[Home[t]] # NoThread /\ first[t]
    <3>1. refreshing' = refreshing /\ pc' = [pc EXCEPT ![t] = "blocked"]
      BY <2>2, CacheAssumption DEF FlagInv, FlagTypeOK, TryLock, TakeLock, GoTo
    <3>2. pc'[t] = "blocked" /\ (\A u \in Thread : u # t => pc'[u] = pc[u])
      BY <3>1 DEF FlagInv, FlagTypeOK
    <3>3. OthersStay(t)
      BY <2>0, <3>1, <3>2 DEF OthersStay
    <3>4. QED
      BY <2>0, <2>2, <3>1, <3>2, <3>3 DEF SameTable
  <2>3. CASE refreshing[Home[t]] # NoThread /\ ~first[t]
    BY <2>3, CacheAssumption DEF FlagInv, FlagTypeOK, TryLock, TakeLock, GoTo, TableUnchanged, replicaVars, OthersStay, SameTable, SameCache, Content
  <2>4. QED
    BY <2>1, <2>2, <2>3
<1>3. FlagTypeOK
  BY DEF FlagInv
<1>4. OneRefresher'
  BY <1>2, <1>3, Numbers DEF OthersStay, SameTable, SameCache, FlagInv, OneRefresher, Holding
<1>5. LoadedBeforeStamped'
  BY <1>2, <1>3, Numbers DEF OthersStay, SameTable, SameCache, FlagInv, OneRefresher, LoadedBeforeStamped, Holding, Empty, Defaults, Expired
<1>6. ReadsAdvance'
  BY <1>2, <1>3, Numbers DEF OthersStay, SameTable, SameCache, FlagInv, OneRefresher, ReadsAdvance, Holding, Empty, Defaults
<1>7. AgesTell'
  BY <1>2, <1>3, Numbers DEF OthersStay, SameTable, SameCache, FlagInv, OneRefresher, LoadedBeforeStamped, ReadsAdvance, AgesTell, Recent, Holding, Expired
<1>8. NeverEmptyAnswer'
  BY <1>2, <1>3, Numbers DEF OthersStay, SameTable, SameCache, FlagInv, OneRefresher, LoadedBeforeStamped, NeverEmptyAnswer, Holding, Empty, Defaults
<1>9. AnswersInTime'
  BY <1>2, <1>3, Numbers DEF OthersStay, SameTable, SameCache, FlagInv, OneRefresher, LoadedBeforeStamped, AgesTell, AnswersInTime, Recent, Holding
<1>10. QED
  BY <1>1, <1>4, <1>5, <1>6, <1>7, <1>8, <1>9 DEF FlagInv

\* A first load that waited takes the lock.
LEMMA UnblockKeeps ==
    ASSUME FlagInv, NEW t \in Thread, Unblock(t)
    PROVE  FlagInv'
<1>1. FlagTypeOK'
  BY CacheAssumption DEF FlagInv, FlagTypeOK, Unblock, TakeLock, GoTo, TableUnchanged, replicaVars, Content, Defaults, Empty, Expired, LongGone, Holding
<1>2. /\ OthersStay(t)
      /\ SameTable
      /\ cache' = cache /\ age' = age /\ failed' = failed
      /\ pc[t] = "blocked" /\ pc'[t] = "recheck"
      /\ refreshing[Home[t]] = NoThread /\ refreshing'[Home[t]] = t
      /\ first' = first /\ got' = got /\ took' = took
  BY CacheAssumption DEF FlagInv, FlagTypeOK, Unblock, TakeLock, GoTo, TableUnchanged, replicaVars, OthersStay, SameTable, SameCache, Content
<1>3. FlagTypeOK
  BY DEF FlagInv
<1>4. OneRefresher'
  BY <1>2, <1>3, Numbers DEF OthersStay, SameTable, SameCache, FlagInv, OneRefresher, Holding
<1>5. LoadedBeforeStamped'
  BY <1>2, <1>3, Numbers DEF OthersStay, SameTable, SameCache, FlagInv, OneRefresher, LoadedBeforeStamped, Holding, Empty, Defaults, Expired
<1>6. ReadsAdvance'
  BY <1>2, <1>3, Numbers DEF OthersStay, SameTable, SameCache, FlagInv, OneRefresher, ReadsAdvance, Holding, Empty, Defaults
<1>7. AgesTell'
  BY <1>2, <1>3, Numbers DEF OthersStay, SameTable, SameCache, FlagInv, OneRefresher, LoadedBeforeStamped, ReadsAdvance, AgesTell, Recent, Holding, Expired
<1>8. NeverEmptyAnswer'
  BY <1>2, <1>3, Numbers DEF OthersStay, SameTable, SameCache, FlagInv, OneRefresher, LoadedBeforeStamped, NeverEmptyAnswer, Holding, Empty, Defaults
<1>9. AnswersInTime'
  BY <1>2, <1>3, Numbers DEF OthersStay, SameTable, SameCache, FlagInv, OneRefresher, LoadedBeforeStamped, AgesTell, AnswersInTime, Recent, Holding
<1>10. QED
  BY <1>1, <1>4, <1>5, <1>6, <1>7, <1>8, <1>9 DEF FlagInv

\* A thread that need not read any more leaves a cache that is young.
LEMMA RecheckKeeps ==
    ASSUME FlagInv, NEW t \in Thread, Recheck(t)
    PROVE  FlagInv'
<1>1. FlagTypeOK'
  BY CacheAssumption DEF FlagInv, FlagTypeOK, Recheck, GoTo, TableUnchanged, replicaVars, Content, Defaults, Empty, Expired, LongGone, Holding
<1>2. /\ OthersStay(t)
      /\ SameTable
      /\ SameCache
      /\ pc[t] = "recheck" /\ pc'[t] \in {"read", "release"}
      /\ pc'[t] = "release" => age[Home[t]] <= Ttl
      /\ first' = first /\ got' = got /\ took' = took
  <2>1. CASE age[Home[t]] > Ttl
    BY <2>1, CacheAssumption DEF FlagInv, FlagTypeOK, Recheck, GoTo, TableUnchanged, replicaVars, OthersStay, SameTable, SameCache, Content
  <2>2. CASE ~(age[Home[t]] > Ttl)
    <3>1. pc' = [pc EXCEPT ![t] = "release"]
      BY <2>2, CacheAssumption DEF FlagInv, FlagTypeOK, Recheck, GoTo
    <3>2. age[Home[t]] <= Ttl
      BY <2>2, CacheAssumption DEF FlagInv, FlagTypeOK, Expired
    <3>3. QED
      BY <3>1, <3>2, <2>2, CacheAssumption DEF FlagInv, FlagTypeOK, Recheck, GoTo, TableUnchanged, replicaVars, OthersStay, SameTable, SameCache, Content
  <2>3. QED
    BY <2>1, <2>2
<1>3. FlagTypeOK
  BY DEF FlagInv
<1>4. OneRefresher'
  BY <1>2, <1>3, Numbers DEF OthersStay, SameTable, SameCache, FlagInv, OneRefresher, Holding
<1>5. LoadedBeforeStamped'
  BY <1>2, <1>3, Numbers DEF OthersStay, SameTable, SameCache, FlagInv, OneRefresher, LoadedBeforeStamped, Holding, Empty, Defaults, Expired
<1>6. ReadsAdvance'
  BY <1>2, <1>3, Numbers DEF OthersStay, SameTable, SameCache, FlagInv, OneRefresher, ReadsAdvance, Holding, Empty, Defaults
<1>7. AgesTell'
  BY <1>2, <1>3, Numbers DEF OthersStay, SameTable, SameCache, FlagInv, OneRefresher, LoadedBeforeStamped, ReadsAdvance, AgesTell, Recent, Holding, Expired
<1>8. NeverEmptyAnswer'
  BY <1>2, <1>3, Numbers DEF OthersStay, SameTable, SameCache, FlagInv, OneRefresher, LoadedBeforeStamped, NeverEmptyAnswer, Holding, Empty, Defaults
<1>9. AnswersInTime'
  BY <1>2, <1>3, Numbers DEF OthersStay, SameTable, SameCache, FlagInv, OneRefresher, LoadedBeforeStamped, AgesTell, AnswersInTime, Recent, Holding
<1>10. QED
  BY <1>1, <1>4, <1>5, <1>6, <1>7, <1>8, <1>9 DEF FlagInv

\* What is read is the content of the table, newer than any cache.
LEMMA ReadTableKeeps ==
    ASSUME FlagInv, NEW t \in Thread, ReadTable(t)
    PROVE  FlagInv'
<1>1. FlagTypeOK'
  BY CacheAssumption DEF FlagInv, FlagTypeOK, ReadTable, GoTo, TableUnchanged, replicaVars, Content, Defaults, Empty, Expired, LongGone, Holding
<1>2. /\ OthersStay(t)
      /\ SameTable
      /\ SameCache
      /\ pc[t] = "read" /\ pc'[t] = "publish" /\ got'[t] = version
      /\ first' = first /\ took' = took
  BY CacheAssumption DEF FlagInv, FlagTypeOK, ReadTable, GoTo, TableUnchanged, replicaVars, OthersStay, SameTable, SameCache, Content
<1>3. FlagTypeOK
  BY DEF FlagInv
<1>4. OneRefresher'
  BY <1>2, <1>3, Numbers DEF OthersStay, SameTable, SameCache, FlagInv, OneRefresher, Holding
<1>5. LoadedBeforeStamped'
  BY <1>2, <1>3, Numbers DEF OthersStay, SameTable, SameCache, FlagInv, OneRefresher, LoadedBeforeStamped, Holding, Empty, Defaults, Expired
<1>6. ReadsAdvance'
  BY <1>2, <1>3, Numbers DEF OthersStay, SameTable, SameCache, FlagInv, OneRefresher, ReadsAdvance, Holding, Empty, Defaults
<1>7. AgesTell'
  BY <1>2, <1>3, Numbers DEF OthersStay, SameTable, SameCache, FlagInv, OneRefresher, LoadedBeforeStamped, ReadsAdvance, AgesTell, Recent, Holding, Expired
<1>8. NeverEmptyAnswer'
  BY <1>2, <1>3, Numbers DEF OthersStay, SameTable, SameCache, FlagInv, OneRefresher, LoadedBeforeStamped, NeverEmptyAnswer, Holding, Empty, Defaults
<1>9. AnswersInTime'
  BY <1>2, <1>3, Numbers DEF OthersStay, SameTable, SameCache, FlagInv, OneRefresher, LoadedBeforeStamped, AgesTell, AnswersInTime, Recent, Holding
<1>10. QED
  BY <1>1, <1>4, <1>5, <1>6, <1>7, <1>8, <1>9 DEF FlagInv

\* What is published is not older than what it replaces.
LEMMA PublishKeeps ==
    ASSUME FlagInv, NEW t \in Thread, Publish(t)
    PROVE  FlagInv'
<1>1. FlagTypeOK'
  BY CacheAssumption DEF FlagInv, FlagTypeOK, Publish, GoTo, TableUnchanged, replicaVars, Content, Defaults, Empty, Expired, LongGone, Holding
<1>2. /\ OthersStay(t)
      /\ SameTable
      /\ age' = age /\ refreshing' = refreshing
      /\ pc[t] = "publish" /\ pc'[t] = "stamp"
      /\ cache'[Home[t]] = got[t] /\ ~failed'[Home[t]]
      /\ first' = first /\ got' = got /\ took' = took
  BY CacheAssumption DEF FlagInv, FlagTypeOK, Publish, GoTo, TableUnchanged, replicaVars, OthersStay, SameTable, SameCache, Content
<1>3. FlagTypeOK
  BY DEF FlagInv
<1>4. OneRefresher'
  BY <1>2, <1>3, Numbers DEF OthersStay, SameTable, SameCache, FlagInv, OneRefresher, Holding
<1>5. LoadedBeforeStamped'
  BY <1>2, <1>3, Numbers DEF OthersStay, SameTable, SameCache, FlagInv, OneRefresher, LoadedBeforeStamped, Holding, Empty, Defaults, Expired
<1>6. ReadsAdvance'
  BY <1>2, <1>3, Numbers DEF OthersStay, SameTable, SameCache, FlagInv, OneRefresher, ReadsAdvance, Holding, Empty, Defaults
<1>7. AgesTell'
  BY <1>2, <1>3, Numbers DEF OthersStay, SameTable, SameCache, FlagInv, OneRefresher, LoadedBeforeStamped, ReadsAdvance, AgesTell, Recent, Holding, Expired
<1>8. NeverEmptyAnswer'
  BY <1>2, <1>3, Numbers DEF OthersStay, SameTable, SameCache, FlagInv, OneRefresher, LoadedBeforeStamped, NeverEmptyAnswer, Holding, Empty, Defaults
<1>9. AnswersInTime'
  BY <1>2, <1>3, Numbers DEF OthersStay, SameTable, SameCache, FlagInv, OneRefresher, LoadedBeforeStamped, AgesTell, AnswersInTime, Recent, Holding
<1>10. QED
  BY <1>1, <1>4, <1>5, <1>6, <1>7, <1>8, <1>9 DEF FlagInv

\* A failed read leaves a cache that is not empty, and is remembered.
LEMMA ReadFailsKeeps ==
    ASSUME FlagInv, NEW t \in Thread, ReadFails(t)
    PROVE  FlagInv'
<1>1. FlagTypeOK'
  <2>1. pc' \in [Thread -> Holding \cup {"idle", "expired", "blocked", "answer", "invalidate"}]
    BY CacheAssumption DEF FlagInv, FlagTypeOK, ReadFails, GoTo, TableUnchanged, replicaVars, Holding
  <2>2. cache' \in [Replica -> Content \cup {Empty}]
    <3>1. Defaults \in Content
      BY CacheAssumption DEF Defaults, Content
    <3>2. QED
      BY <3>1, CacheAssumption DEF FlagInv, FlagTypeOK, ReadFails, GoTo, TableUnchanged, replicaVars
  <2>3. failed' \in [Replica -> BOOLEAN]
    BY CacheAssumption DEF FlagInv, FlagTypeOK, ReadFails, GoTo, TableUnchanged, replicaVars
  <2>4. faults' \in 0..MaxFaults
    BY CacheAssumption DEF FlagInv, FlagTypeOK, ReadFails, GoTo, TableUnchanged, replicaVars
  <2>5. QED
    BY <2>1, <2>2, <2>3, <2>4 DEF FlagInv, FlagTypeOK, ReadFails, GoTo, TableUnchanged, replicaVars
<1>2. /\ OthersStay(t)
      /\ SameTable
      /\ age' = age /\ refreshing' = refreshing
      /\ pc[t] = "read" /\ pc'[t] = "stamp"
      /\ cache'[Home[t]] = (IF cache[Home[t]] = Empty THEN Defaults ELSE cache[Home[t]]) /\ failed'[Home[t]]
      /\ first' = first /\ got' = got /\ took' = took
  BY CacheAssumption DEF FlagInv, FlagTypeOK, ReadFails, GoTo, TableUnchanged, replicaVars, OthersStay, SameTable, SameCache, Content
<1>3. FlagTypeOK
  BY DEF FlagInv
<1>4. OneRefresher'
  BY <1>2, <1>3, Numbers DEF OthersStay, SameTable, SameCache, FlagInv, OneRefresher, Holding
<1>5. LoadedBeforeStamped'
  BY <1>2, <1>3, Numbers DEF OthersStay, SameTable, SameCache, FlagInv, OneRefresher, LoadedBeforeStamped, Holding, Empty, Defaults, Expired
<1>6. ReadsAdvance'
  BY <1>2, <1>3, Numbers DEF OthersStay, SameTable, SameCache, FlagInv, OneRefresher, ReadsAdvance, Holding, Empty, Defaults
<1>7. AgesTell'
  BY <1>2, <1>3, Numbers DEF OthersStay, SameTable, SameCache, FlagInv, OneRefresher, LoadedBeforeStamped, ReadsAdvance, AgesTell, Recent, Holding, Expired
<1>8. NeverEmptyAnswer'
  BY <1>2, <1>3, Numbers DEF OthersStay, SameTable, SameCache, FlagInv, OneRefresher, LoadedBeforeStamped, NeverEmptyAnswer, Holding, Empty, Defaults
<1>9. AnswersInTime'
  BY <1>2, <1>3, Numbers DEF OthersStay, SameTable, SameCache, FlagInv, OneRefresher, LoadedBeforeStamped, AgesTell, AnswersInTime, Recent, Holding
<1>10. QED
  BY <1>1, <1>4, <1>5, <1>6, <1>7, <1>8, <1>9 DEF FlagInv

\* The stamp starts the age of what was just published.
LEMMA StampKeeps ==
    ASSUME FlagInv, NEW t \in Thread, Stamp(t)
    PROVE  FlagInv'
<1>1. FlagTypeOK'
  <2>1. pc' \in [Thread -> Holding \cup {"idle", "expired", "blocked", "answer", "invalidate"}]
    BY CacheAssumption DEF FlagInv, FlagTypeOK, Stamp, GoTo, TableUnchanged, replicaVars, Holding
  <2>2. age' \in [Replica -> 0..Expired]
    <3>1. 0 \in 0..Expired
      BY CacheAssumption DEF Expired
    <3>2. QED
      BY <3>1, CacheAssumption DEF FlagInv, FlagTypeOK, Stamp, GoTo, TableUnchanged, replicaVars
  <2>3. QED
    BY <2>1, <2>2 DEF FlagInv, FlagTypeOK, Stamp, GoTo, TableUnchanged, replicaVars
<1>2. /\ OthersStay(t)
      /\ SameTable
      /\ cache' = cache /\ refreshing' = refreshing /\ failed' = failed
      /\ pc[t] = "stamp" /\ pc'[t] = "release" /\ age'[Home[t]] = 0
      /\ first' = first /\ got' = got /\ took' = took
  BY CacheAssumption DEF FlagInv, FlagTypeOK, Stamp, GoTo, TableUnchanged, replicaVars, OthersStay, SameTable, SameCache, Content
<1>3. FlagTypeOK
  BY DEF FlagInv
<1>4. OneRefresher'
  BY <1>2, <1>3, Numbers DEF OthersStay, SameTable, SameCache, FlagInv, OneRefresher, Holding
<1>5. LoadedBeforeStamped'
  BY <1>2, <1>3, Numbers DEF OthersStay, SameTable, SameCache, FlagInv, OneRefresher, LoadedBeforeStamped, Holding, Empty, Defaults, Expired
<1>6. ReadsAdvance'
  BY <1>2, <1>3, Numbers DEF OthersStay, SameTable, SameCache, FlagInv, OneRefresher, ReadsAdvance, Holding, Empty, Defaults
<1>7. AgesTell'
  BY <1>2, <1>3, Numbers DEF OthersStay, SameTable, SameCache, FlagInv, OneRefresher, LoadedBeforeStamped, ReadsAdvance, AgesTell, Recent, Holding, Expired
<1>8. NeverEmptyAnswer'
  BY <1>2, <1>3, Numbers DEF OthersStay, SameTable, SameCache, FlagInv, OneRefresher, LoadedBeforeStamped, NeverEmptyAnswer, Holding, Empty, Defaults
<1>9. AnswersInTime'
  BY <1>2, <1>3, Numbers DEF OthersStay, SameTable, SameCache, FlagInv, OneRefresher, LoadedBeforeStamped, AgesTell, AnswersInTime, Recent, Holding
<1>10. QED
  BY <1>1, <1>4, <1>5, <1>6, <1>7, <1>8, <1>9 DEF FlagInv

\* The lock is released over a cache that is in time.
LEMMA ReleaseKeeps ==
    ASSUME FlagInv, NEW t \in Thread, Release(t)
    PROVE  FlagInv'
<1>1. FlagTypeOK'
  BY CacheAssumption DEF FlagInv, FlagTypeOK, Release, GoTo, TableUnchanged, replicaVars, Content, Defaults, Empty, Expired, LongGone, Holding
<1>2. /\ OthersStay(t)
      /\ SameTable
      /\ cache' = cache /\ age' = age /\ failed' = failed
      /\ pc[t] = "release" /\ pc'[t] = "answer" /\ refreshing'[Home[t]] = NoThread
      /\ first' = first /\ got' = got /\ took' = took
  BY CacheAssumption DEF FlagInv, FlagTypeOK, Release, GoTo, TableUnchanged, replicaVars, OthersStay, SameTable, SameCache, Content
<1>3. FlagTypeOK
  BY DEF FlagInv
<1>4. OneRefresher'
  BY <1>2, <1>3, Numbers DEF OthersStay, SameTable, SameCache, FlagInv, OneRefresher, Holding
<1>5. LoadedBeforeStamped'
  BY <1>2, <1>3, Numbers DEF OthersStay, SameTable, SameCache, FlagInv, OneRefresher, LoadedBeforeStamped, Holding, Empty, Defaults, Expired
<1>6. ReadsAdvance'
  BY <1>2, <1>3, Numbers DEF OthersStay, SameTable, SameCache, FlagInv, OneRefresher, ReadsAdvance, Holding, Empty, Defaults
<1>7. AgesTell'
  BY <1>2, <1>3, Numbers DEF OthersStay, SameTable, SameCache, FlagInv, OneRefresher, LoadedBeforeStamped, ReadsAdvance, AgesTell, Recent, Holding, Expired
<1>8. NeverEmptyAnswer'
  BY <1>2, <1>3, Numbers DEF OthersStay, SameTable, SameCache, FlagInv, OneRefresher, LoadedBeforeStamped, NeverEmptyAnswer, Holding, Empty, Defaults
<1>9. AnswersInTime'
  BY <1>2, <1>3, Numbers DEF OthersStay, SameTable, SameCache, FlagInv, OneRefresher, LoadedBeforeStamped, AgesTell, AnswersInTime, Recent, Holding
<1>10. QED
  BY <1>1, <1>4, <1>5, <1>6, <1>7, <1>8, <1>9 DEF FlagInv

\* A thread that answered is idle.
LEMMA AnswerKeeps ==
    ASSUME FlagInv, NEW t \in Thread, Answer(t)
    PROVE  FlagInv'
<1>1. FlagTypeOK'
  BY CacheAssumption DEF FlagInv, FlagTypeOK, Answer, GoTo, TableUnchanged, replicaVars, Content, Defaults, Empty, Expired, LongGone, Holding
<1>2. /\ OthersStay(t)
      /\ SameTable
      /\ SameCache
      /\ pc[t] = "answer" /\ pc'[t] = "idle"
  BY CacheAssumption DEF FlagInv, FlagTypeOK, Answer, GoTo, TableUnchanged, replicaVars, OthersStay, SameTable, SameCache, Content
<1>3. FlagTypeOK
  BY DEF FlagInv
<1>4. OneRefresher'
  BY <1>2, <1>3, Numbers DEF OthersStay, SameTable, SameCache, FlagInv, OneRefresher, Holding
<1>5. LoadedBeforeStamped'
  BY <1>2, <1>3, Numbers DEF OthersStay, SameTable, SameCache, FlagInv, OneRefresher, LoadedBeforeStamped, Holding, Empty, Defaults, Expired
<1>6. ReadsAdvance'
  BY <1>2, <1>3, Numbers DEF OthersStay, SameTable, SameCache, FlagInv, OneRefresher, ReadsAdvance, Holding, Empty, Defaults
<1>7. AgesTell'
  BY <1>2, <1>3, Numbers DEF OthersStay, SameTable, SameCache, FlagInv, OneRefresher, LoadedBeforeStamped, ReadsAdvance, AgesTell, Recent, Holding, Expired
<1>8. NeverEmptyAnswer'
  BY <1>2, <1>3, Numbers DEF OthersStay, SameTable, SameCache, FlagInv, OneRefresher, LoadedBeforeStamped, NeverEmptyAnswer, Holding, Empty, Defaults
<1>9. AnswersInTime'
  BY <1>2, <1>3, Numbers DEF OthersStay, SameTable, SameCache, FlagInv, OneRefresher, LoadedBeforeStamped, AgesTell, AnswersInTime, Recent, Holding
<1>10. QED
  BY <1>1, <1>4, <1>5, <1>6, <1>7, <1>8, <1>9 DEF FlagInv

\* The content that a flip replaces has been gone for no time.
LEMMA FlipKeeps ==
    ASSUME FlagInv, NEW t \in Thread, Flip(t)
    PROVE  FlagInv'
<1>1. FlagTypeOK'
  BY CacheAssumption DEF FlagInv, FlagTypeOK, Flip, GoTo, TableUnchanged, replicaVars, Content, Defaults, Empty, Expired, LongGone, Holding
<1>2. /\ OthersStay(t)
      /\ SameCache
      /\ version' = version + 1 /\ gone'[version] = 0
      /\ \A v \in Content : v # version => gone'[v] = gone[v]
      /\ pc[t] = "idle" /\ pc'[t] = "invalidate"
      /\ first' = first /\ got' = got /\ took' = took
  BY CacheAssumption DEF FlagInv, FlagTypeOK, Flip, GoTo, TableUnchanged, replicaVars, OthersStay, SameTable, SameCache, Content
<1>3. FlagTypeOK
  BY DEF FlagInv
<1>4. OneRefresher'
  BY <1>2, <1>3, Numbers DEF OthersStay, SameTable, SameCache, FlagInv, OneRefresher, Holding
<1>5. LoadedBeforeStamped'
  BY <1>2, <1>3, Numbers DEF OthersStay, SameTable, SameCache, FlagInv, OneRefresher, LoadedBeforeStamped, Holding, Empty, Defaults, Expired
<1>6. ReadsAdvance'
  BY <1>2, <1>3, Numbers DEF OthersStay, SameTable, SameCache, FlagInv, OneRefresher, ReadsAdvance, Holding, Empty, Defaults
<1>7. AgesTell'
  BY <1>2, <1>3, Numbers DEF OthersStay, SameTable, SameCache, FlagInv, OneRefresher, LoadedBeforeStamped, ReadsAdvance, AgesTell, Recent, Holding, Expired
<1>8. NeverEmptyAnswer'
  BY <1>2, <1>3, Numbers DEF OthersStay, SameTable, SameCache, FlagInv, OneRefresher, LoadedBeforeStamped, NeverEmptyAnswer, Holding, Empty, Defaults
<1>9. AnswersInTime'
  <2>1. \A p \in Replica : Recent(p, Ttl + MaxRead) => Recent(p, Ttl + MaxRead)'
    BY <1>2, <1>3, Numbers DEF SameCache, Recent, FlagTypeOK
  <2>2. QED
    BY <1>2, <1>3, <2>1, Numbers DEF OthersStay, SameCache, FlagInv, AnswersInTime
<1>10. QED
  BY <1>1, <1>4, <1>5, <1>6, <1>7, <1>8, <1>9 DEF FlagInv

\* An invalidation makes a cache old.
LEMMA InvalidateKeeps ==
    ASSUME FlagInv, NEW t \in Thread, Invalidate(t)
    PROVE  FlagInv'
<1>1. FlagTypeOK'
  <2>1. pc' \in [Thread -> Holding \cup {"idle", "expired", "blocked", "answer", "invalidate"}]
    BY CacheAssumption DEF FlagInv, FlagTypeOK, Invalidate, GoTo, TableUnchanged, replicaVars, Holding
  <2>2. age' \in [Replica -> 0..Expired]
    <3>1. Expired \in 0..Expired
      BY CacheAssumption DEF Expired
    <3>2. QED
      BY <3>1, CacheAssumption DEF FlagInv, FlagTypeOK, Invalidate, GoTo, TableUnchanged, replicaVars
  <2>3. QED
    BY <2>1, <2>2 DEF FlagInv, FlagTypeOK, Invalidate, GoTo, TableUnchanged, replicaVars
<1>2. /\ OthersStay(t)
      /\ SameTable
      /\ cache' = cache /\ refreshing' = refreshing /\ failed' = failed
      /\ pc[t] = "invalidate" /\ pc'[t] = "idle" /\ age'[Home[t]] = Expired
      /\ first' = first /\ got' = got /\ took' = took
  BY CacheAssumption DEF FlagInv, FlagTypeOK, Invalidate, GoTo, TableUnchanged, replicaVars, OthersStay, SameTable, SameCache, Content
<1>3. FlagTypeOK
  BY DEF FlagInv
<1>4. OneRefresher'
  BY <1>2, <1>3, Numbers DEF OthersStay, SameTable, SameCache, FlagInv, OneRefresher, Holding
<1>5. LoadedBeforeStamped'
  BY <1>2, <1>3, Numbers DEF OthersStay, SameTable, SameCache, FlagInv, OneRefresher, LoadedBeforeStamped, Holding, Empty, Defaults, Expired
<1>6. ReadsAdvance'
  BY <1>2, <1>3, Numbers DEF OthersStay, SameTable, SameCache, FlagInv, OneRefresher, ReadsAdvance, Holding, Empty, Defaults
<1>7. AgesTell'
  BY <1>2, <1>3, Numbers DEF OthersStay, SameTable, SameCache, FlagInv, OneRefresher, LoadedBeforeStamped, ReadsAdvance, AgesTell, Recent, Holding, Expired
<1>8. NeverEmptyAnswer'
  BY <1>2, <1>3, Numbers DEF OthersStay, SameTable, SameCache, FlagInv, OneRefresher, LoadedBeforeStamped, NeverEmptyAnswer, Holding, Empty, Defaults
<1>9. AnswersInTime'
  BY <1>2, <1>3, Numbers DEF OthersStay, SameTable, SameCache, FlagInv, OneRefresher, LoadedBeforeStamped, AgesTell, AnswersInTime, Recent, Holding
<1>10. QED
  BY <1>1, <1>4, <1>5, <1>6, <1>7, <1>8, <1>9 DEF FlagInv

\* A replica that starts again has nothing to answer from, and no thread that would.
LEMMA RestartKeeps ==
    ASSUME FlagInv, NEW p \in Replica, Restart(p)
    PROVE  FlagInv'
<1>1. FlagTypeOK'
  <2>1. Defaults \in Content /\ 0 \in 0..MaxRead /\ Expired \in 0..Expired
    BY CacheAssumption DEF Defaults, Content, Expired
  <2>2. pc' \in [Thread -> Holding \cup {"idle", "expired", "blocked", "answer", "invalidate"}]
    BY DEF FlagInv, FlagTypeOK, Restart
  <2>3. faults' \in 0..MaxFaults
    BY CacheAssumption DEF FlagInv, FlagTypeOK, Restart
  <2>4. QED
    BY <2>1, <2>2, <2>3 DEF FlagInv, FlagTypeOK, Restart
<1>2. /\ SameTable
      /\ \A t \in Thread : Home[t] = p => pc'[t] = "idle"
      /\ \A t \in Thread : Home[t] # p =>
            pc'[t] = pc[t] /\ first'[t] = first[t] /\ got'[t] = got[t] /\ took'[t] = took[t]
      /\ \A q \in Replica : q # p =>
            /\ cache'[q] = cache[q] /\ age'[q] = age[q]
            /\ refreshing'[q] = refreshing[q] /\ failed'[q] = failed[q]
      /\ cache'[p] = Empty /\ age'[p] = Expired /\ refreshing'[p] = NoThread
  BY DEF FlagInv, FlagTypeOK, Restart, SameTable
<1>3. FlagTypeOK
  BY DEF FlagInv
<1>4. OneRefresher'
  BY <1>2, <1>3, Numbers DEF FlagInv, OneRefresher, Holding
<1>5. LoadedBeforeStamped' /\ NeverEmptyAnswer'
  BY <1>2, <1>3, Numbers DEF FlagInv, LoadedBeforeStamped, NeverEmptyAnswer, Expired
<1>6. ReadsAdvance'
  BY <1>2, <1>3, Numbers DEF SameTable, FlagInv, ReadsAdvance, Empty
<1>7. AgesTell'
  BY <1>2, <1>3, Numbers DEF SameTable, FlagInv, AgesTell, Recent, Expired
<1>8. AnswersInTime'
  BY <1>2, <1>3, Numbers DEF SameTable, FlagInv, AnswersInTime, Recent
<1>9. QED
  BY <1>1, <1>4, <1>5, <1>6, <1>7, <1>8 DEF FlagInv

\* A tick ages the caches as much as the contents they hold, and the reads under way.
LEMMA TickKeeps ==
    ASSUME FlagInv, Tick
    PROVE  FlagInv'
<1>1. FlagTypeOK
  BY DEF FlagInv
<1>2. FlagTypeOK'
  <2>1. age' \in [Replica -> 0..Expired]
    BY CacheAssumption DEF FlagInv, FlagTypeOK, Tick, Expired
  <2>2. gone' \in [Content -> 0..LongGone]
    BY CacheAssumption DEF FlagInv, FlagTypeOK, Tick, LongGone
  <2>3. took' \in [Thread -> 0..MaxRead]
    BY CacheAssumption DEF FlagInv, FlagTypeOK, Tick
  <2>4. QED
    BY <2>1, <2>2, <2>3 DEF FlagInv, FlagTypeOK, Tick
<1>3. /\ version' = version /\ cache' = cache /\ refreshing' = refreshing
      /\ failed' = failed /\ pc' = pc /\ first' = first /\ got' = got
      /\ \A t \in Thread : pc[t] \in Waiting
  BY DEF Tick
<1>4. \A p \in Replica : age'[p] <= Ttl => age'[p] = age[p] + 1
  BY CacheAssumption DEF FlagInv, FlagTypeOK, Tick, Expired
<1>5. \A v \in Content : gone'[v] <= gone[v] + 1
  BY <1>1, Numbers DEF Tick
<1>6. \A t \in Thread : pc[t] = "publish" => took'[t] = took[t] + 1
  BY DEF Tick
<1>7. OneRefresher' /\ NeverEmptyAnswer' /\ AnswersInTime'
  BY <1>3 DEF FlagInv, OneRefresher, NeverEmptyAnswer, AnswersInTime, Waiting
<1>8. LoadedBeforeStamped' /\ ReadsAdvance'
  BY <1>1, <1>3, <1>4, Numbers DEF FlagInv, LoadedBeforeStamped, ReadsAdvance, Waiting
<1>9. AgesTell'
  <2>1. ASSUME NEW p \in Replica, age'[p] <= Ttl, ~failed[p]
        PROVE  cache[p] = version \/ (cache[p] \in Content /\ gone'[cache[p]] <= age[p] + 1 + MaxRead)
    <3>1. Recent(p, age[p] + MaxRead)
      BY <1>1, <1>4, <2>1, Numbers DEF FlagInv, AgesTell
    <3>2. QED
      BY <1>1, <1>2, <1>5, <2>1, <3>1, Numbers DEF Recent, FlagTypeOK, LongGone
  <2>2. ASSUME NEW t \in Thread, pc[t] = "publish", got[t] # version PROVE gone'[got[t]] <= took'[t]
    <3>1. gone[got[t]] <= took[t]
      BY <2>2 DEF FlagInv, AgesTell
    <3>2. gone'[got[t]] \in Int
      BY <1>1, <1>2, Numbers DEF FlagTypeOK, LongGone
    <3>3. QED
      BY <1>1, <1>5, <1>6, <2>2, <3>1, <3>2, Numbers
  <2>3. QED
    BY <1>3, <1>4, <2>1, <2>2 DEF AgesTell, Recent, Waiting
<1>10. QED
  BY <1>2, <1>7, <1>8, <1>9 DEF FlagInv

\* Every step keeps the invariant.
LEMMA FlagInvStep ==
    ASSUME FlagInv, [FlagNext]_flagVars
    PROVE  FlagInv'
<1>1. CASE FlagNext
  <2>1. ASSUME NEW t \in Thread, Call(t) \/ LocalStep(t) \/ ReadTable(t) \/ ReadFails(t) \/ Flip(t)
        PROVE  FlagInv'
    BY <2>1, CallKeeps, TryLockKeeps, UnblockKeeps, RecheckKeeps, ReadTableKeeps, PublishKeeps,
       ReadFailsKeeps, StampKeeps, ReleaseKeeps, AnswerKeeps, FlipKeeps, InvalidateKeeps DEF LocalStep
  <2>2. QED
    BY <1>1, <2>1, RestartKeeps, TickKeeps DEF FlagNext
<1>2. CASE UNCHANGED flagVars
  BY <1>2 DEF flagVars, replicaVars, threadVars, FlagInv, FlagTypeOK, OneRefresher,
     LoadedBeforeStamped, ReadsAdvance, AgesTell, NeverEmptyAnswer, AnswersInTime, Recent
<1>3. QED
  BY <1>1, <1>2

\* At the start all caches are empty and no thread is in a call.
LEMMA FlagInvStart ==
    ASSUME FlagInit
    PROVE  FlagInv
<1>1. FlagTypeOK
  <2>1. Defaults \in Content /\ 0 \in 0..LongGone /\ 0 \in 0..MaxRead /\ 0 \in 0..MaxFaults
    BY CacheAssumption DEF Defaults, Content, LongGone
  <2>2. Expired \in 0..Expired
    BY CacheAssumption DEF Expired
  <2>3. QED
    BY <2>1, <2>2 DEF FlagInit, FlagTypeOK
<1>2. QED
  BY <1>1, CacheAssumption DEF FlagInit, FlagInv, OneRefresher, LoadedBeforeStamped, ReadsAdvance, AgesTell,
     NeverEmptyAnswer, AnswersInTime, Holding, Empty, Expired, Defaults

\* The inductive invariant of the cache (core/flags.py).
THEOREM FlagCacheSafe == FlagSpec => []FlagInv
<1>1. QED
  BY FlagInvStart, FlagInvStep, PTL DEF FlagSpec

\* Whatever the interleaving of readers, flips, failures and restarts, a thread
\* of a replica answers from a content that was in the table at most
\* FLAG_CACHE_SECONDS and one read ago, unless a refresh is in progress or has failed.
THEOREM FlagsInTime == FlagSpec => [](AnswersInTime /\ NeverEmptyAnswer)
<1>1. FlagInv => AnswersInTime /\ NeverEmptyAnswer
  BY DEF FlagInv
<1>2. QED
  BY <1>1, FlagCacheSafe, PTL

\* The cached flags of a running replica never go back to an older content.
THEOREM FlagsNeverGoBack == FlagSpec => NeverGoesBack
<1>1. ASSUME FlagInv, [FlagNext]_flagVars
      PROVE  [\A p \in Replica : cache'[p] >= cache[p] \/ cache'[p] = Empty]_flagVars
  <2>1. FlagTypeOK
    BY <1>1 DEF FlagInv
  <2>2. CASE cache' = cache
    BY <2>1, <2>2, Numbers
  <2>3. ASSUME NEW t \in Thread, Publish(t)
        PROVE  \A p \in Replica : cache'[p] >= cache[p]
    <3>1. cache[Home[t]] <= got[t]
      BY <1>1, <2>3 DEF FlagInv, ReadsAdvance, Publish
    <3>2. \A p \in Replica : cache'[p] = IF p = Home[t] THEN got[t] ELSE cache[p]
      BY <2>1, <2>3 DEF Publish, FlagTypeOK
    <3>3. QED
      BY <2>1, <3>1, <3>2, Numbers
  <2>4. ASSUME NEW t \in Thread, ReadFails(t)
        PROVE  \A p \in Replica : cache'[p] >= cache[p]
    <3>1. \A p \in Replica : cache'[p] = cache[p] \/ (cache'[p] = Defaults /\ cache[p] = Empty)
      BY <2>1, <2>4 DEF ReadFails, FlagTypeOK
    <3>2. QED
      BY <2>1, <3>1, Numbers DEF Defaults, Empty
  <2>5. ASSUME NEW r \in Replica, Restart(r)
        PROVE  \A p \in Replica : cache'[p] >= cache[p] \/ cache'[p] = Empty
    <3>1. \A p \in Replica : cache'[p] = IF p = r THEN Empty ELSE cache[p]
      BY <2>1, <2>5 DEF Restart, FlagTypeOK
    <3>2. QED
      BY <2>1, <3>1, Numbers
  <2>6. CASE FlagNext
    <3>1. \/ cache' = cache
          \/ \E t \in Thread : Publish(t) \/ ReadFails(t)
          \/ \E r \in Replica : Restart(r)
      BY <2>6 DEF FlagNext, LocalStep, Call, TryLock, Unblock, Recheck, ReadTable, Stamp, Release, Answer,
         Flip, Invalidate, Tick, replicaVars
    <3>2. QED
      BY <2>2, <2>3, <2>4, <2>5, <3>1
  <2>7. QED
    BY <1>1, <2>6
<1>2. QED
  BY <1>1, FlagCacheSafe, PTL DEF FlagSpec, NeverGoesBack
=============================================================================
