--------------------------- MODULE CveCacheProofs ---------------------------
(* Theorems about CveCache: no lookup misses what OSV has listed for longer *)
(* than both caches may keep an older answer.                               *)
EXTENDS CveCache, TLAPS

\* The sums of hours the proofs compare are naturals.
LEMMA HoursAreNat ==
  /\ MaxNow \in Nat \ {0} /\ HotTtl \in Nat \ {0} /\ Staleness \in Nat
  /\ Hours \subseteq Nat
  /\ 0 .. MaxNow + HotTtl \subseteq Nat
BY ClockConstants, CacheConstants DEF Hours

\* The variables keep their types, whichever step is taken.
LEMMA TypeStep ==
  ASSUME CacheTypeOK, [CacheNext]_cacheVars
  PROVE  CacheTypeOK'
<1> USE HoursAreNat DEF CacheTypeOK, Goto, Result, sources, Hours
<1>1. ASSUME NEW c \in Cves, Publish(c) PROVE CacheTypeOK'
  BY <1>1 DEF Publish
<1>2. ASSUME NEW c \in Cves, Withdraw(c) PROVE CacheTypeOK'
  BY <1>2 DEF Withdraw
<1>3. CASE CacheHour
  BY <1>3 DEF CacheHour, NextHour
<1>4. ASSUME NEW l \in Lookups, LookupStep(l) PROVE CacheTypeOK'
  <2>1. CASE RedisHit(l)
    BY <2>1 DEF RedisHit
  <2>2. CASE RedisMiss(l)
    BY <2>2 DEF RedisMiss
  <2>3. CASE SqliteLookup(l)
    BY <2>3 DEF SqliteLookup, Stored
  <2>4. CASE SqliteInsertBatch(l)
    BY <2>4 DEF SqliteInsertBatch
  <2>5. CASE SqliteRaises(l)
    BY <2>5 DEF SqliteRaises
  <2>6. CASE FetchFromOsv(l)
    <3>1. PICK cves \in IF osv = {} THEN {{}, advisory} ELSE {osv} : Result(l, cves)
      BY <2>6 DEF FetchFromOsv
    <3>2. cves \subseteq Cves
      BY <3>1
    <3> QED BY <2>6, <3>1, <3>2 DEF FetchFromOsv
  <2>7. CASE FetchFails(l)
    BY <2>7 DEF FetchFails
  <2>8. CASE RedisSet(l)
    <3>1. now + HotTtl \in 0 .. MaxNow + HotTtl
      OBVIOUS
    <3> QED BY <2>8, <3>1 DEF RedisSet
  <2>9. CASE Return(l)
    BY <2>9 DEF Return
  <2> QED
    BY <1>4, <2>1, <2>2, <2>3, <2>4, <2>5, <2>6, <2>7, <2>8, <2>9 DEF LookupStep
<1>5. CASE UNCHANGED cacheVars
  BY <1>5 DEF cacheVars
<1> QED
  BY <1>1, <1>2, <1>3, <1>4, <1>5 DEF CacheNext

\* A fresh cache is well typed.
LEMMA TypeStarts == CacheInit => CacheTypeOK
BY HoursAreNat DEF CacheInit, CacheTypeOK, ClockInit, Hours

\* Type correctness of the cache (CVECache and its three tiers).
THEOREM CacheTypeOKHolds == CacheSpec => []CacheTypeOK
BY TypeStarts, TypeStep, PTL DEF CacheSpec

-----------------------------------------------------------------------------
\* How old an answer may be that lacks an advisory OSV lists, at every place it may be kept: in a
\* lookup before and after the insert, in SQLite, in Redis.
Age ==
    /\ hot.until <= now + HotTtl
    /\ \A d \in Cves : rows[d] <= now
    /\ \A c \in osv :
        /\ listed[c] <= now
        /\ c \notin hot.cves => hot.until <= listed[c] + Staleness + HotTtl
        /\ rows[c] = 0 => \A d \in Cves : rows[d] <= listed[c]
        /\ \A l \in Lookups : c \notin got[l] =>
            /\ at[l] = "insert" => now <= listed[c]
            /\ at[l] = "promote" => now <= listed[c] + Staleness
            /\ at[l] = "answered" => now < listed[c] + Staleness + HotTtl

\* Age is inductive.
LEMMA AgeStep ==
  ASSUME CacheTypeOK, Age, [CacheNext]_cacheVars
  PROVE  Age'
<1> USE HoursAreNat DEF CacheTypeOK, Goto, Result, sources, Hours
<1>1. ASSUME NEW c \in Cves, Publish(c) PROVE Age'
  BY <1>1 DEF Publish, Age
<1>2. ASSUME NEW c \in Cves, Withdraw(c) PROVE Age'
  BY <1>2 DEF Withdraw, Age
<1>3. CASE CacheHour
  BY <1>3 DEF CacheHour, NextHour, Age
<1>4. ASSUME NEW l \in Lookups, LookupStep(l) PROVE Age'
  <2>1. CASE RedisHit(l)
    BY <2>1 DEF RedisHit, Age
  <2>2. CASE RedisMiss(l)
    BY <2>2 DEF RedisMiss, Age
  <2>3. CASE SqliteLookup(l)
    <3>1. CASE RowsFresh
      <4>1. \A c \in osv : c \notin Stored => now <= listed[c] + Staleness
        BY <3>1 DEF RowsFresh, Stored, Age
      <4> QED BY <2>3, <3>1, <4>1 DEF SqliteLookup, Age
    <3>2. CASE ~RowsFresh
      BY <2>3, <3>2 DEF SqliteLookup, Age
    <3> QED BY <3>1, <3>2
  <2>4. CASE SqliteInsertBatch(l)
    BY <2>4 DEF SqliteInsertBatch, Age
  <2>5. CASE SqliteRaises(l)
    BY <2>5 DEF SqliteRaises, Age
  <2>6. CASE FetchFromOsv(l)
    <3>1. PICK cves \in IF osv = {} THEN {{}, advisory} ELSE {osv} : Result(l, cves)
      BY <2>6 DEF FetchFromOsv
    <3>2. osv \subseteq cves
      BY <3>1
    <3> QED BY <2>6, <3>1, <3>2 DEF FetchFromOsv, Age
  <2>7. CASE FetchFails(l)
    BY <2>7 DEF FetchFails, Age
  <2>8. CASE RedisSet(l)
    BY <2>8 DEF RedisSet, Age
  <2>9. CASE Return(l)
    BY <2>9 DEF Return, Age
  <2> QED
    BY <1>4, <2>1, <2>2, <2>3, <2>4, <2>5, <2>6, <2>7, <2>8, <2>9 DEF LookupStep
<1>5. CASE UNCHANGED cacheVars
  BY <1>5 DEF cacheVars, Age
<1> QED
  BY <1>1, <1>2, <1>3, <1>4, <1>5 DEF CacheNext

\* Nothing is known in a fresh cache that could be old.
LEMMA AgeStarts == CacheInit => Age
BY HoursAreNat DEF CacheInit, ClockInit, Age

\* KnownIsFound for any number of advisories, concurrent lookups and hours, and any failures: an
\* answer lacks only what OSV has listed for less than both lifetimes.
THEOREM KnownIsFoundHolds == CacheSpec => []KnownIsFound
<1>1. CacheTypeOK /\ Age => KnownIsFound
  BY HoursAreNat DEF CacheTypeOK, Age, KnownIsFound, Hours
<1> QED
  BY <1>1, AgeStarts, AgeStep, CacheTypeOKHolds, PTL DEF CacheSpec

-----------------------------------------------------------------------------
\* What is about to be promoted has its rows.
Persisted ==
    /\ hot.cves \subseteq Stored
    /\ \A l \in Lookups : at[l] = "promote" => got[l] \subseteq Stored

\* Persisted is inductive: rows are never deleted, and the insert comes before the promotion.
LEMMA PersistedStep ==
  ASSUME CacheTypeOK, Persisted, [CacheNext]_cacheVars
  PROVE  Persisted'
<1> USE HoursAreNat DEF CacheTypeOK, Goto, Result, sources, Hours, Persisted
<1>1. ASSUME Stored \subseteq Stored', UNCHANGED hot,
             \A l \in Lookups : at'[l] = "promote" =>
                 \/ at[l] = "promote" /\ got'[l] = got[l]
                 \/ got'[l] \subseteq Stored'
      PROVE  Persisted'
  BY <1>1
<1>2. ASSUME UNCHANGED rows PROVE Stored' = Stored
  BY <1>2 DEF Stored
<1>3. ASSUME NEW c \in Cves, Publish(c) \/ Withdraw(c) PROVE Persisted'
  BY <1>1, <1>2, <1>3 DEF Publish, Withdraw
<1>4. CASE CacheHour
  BY <1>1, <1>2, <1>4 DEF CacheHour
<1>5. ASSUME NEW l \in Lookups, LookupStep(l) PROVE Persisted'
  <2>1. CASE SqliteLookup(l)
    BY <1>1, <1>2, <2>1 DEF SqliteLookup
  <2>2. CASE SqliteInsertBatch(l)
    <3>1. Stored \subseteq Stored' /\ got[l] \subseteq Stored'
      BY <2>2 DEF SqliteInsertBatch, Stored
    <3> QED BY <1>1, <2>2, <3>1 DEF SqliteInsertBatch
  <2>3. CASE RedisSet(l)
    BY <1>2, <2>3 DEF RedisSet
  <2>4. CASE \/ RedisHit(l) \/ RedisMiss(l) \/ SqliteRaises(l) \/ FetchFails(l) \/ Return(l)
    BY <1>1, <1>2, <2>4 DEF RedisHit, RedisMiss, SqliteRaises, FetchFails, Return
  <2>5. CASE FetchFromOsv(l)
    <3>1. PICK cves \in IF osv = {} THEN {{}, advisory} ELSE {osv} : Result(l, cves)
      BY <2>5 DEF FetchFromOsv
    <3> QED BY <1>1, <1>2, <2>5, <3>1 DEF FetchFromOsv
  <2> QED
    BY <1>5, <2>1, <2>2, <2>3, <2>4, <2>5 DEF LookupStep
<1>6. CASE UNCHANGED cacheVars
  BY <1>2, <1>6 DEF cacheVars
<1> QED
  BY <1>3, <1>4, <1>5, <1>6 DEF CacheNext

\* ServedIsStored for any number of lookups and any failures: Redis never holds an advisory
\* without a row.
THEOREM ServedIsStoredHolds == CacheSpec => []ServedIsStored
<1>1. CacheInit => Persisted
  BY DEF CacheInit, Persisted
<1>2. Persisted => ServedIsStored
  BY DEF Persisted, ServedIsStored
<1> QED
  BY <1>1, <1>2, PersistedStep, CacheTypeOKHolds, PTL DEF CacheSpec
=============================================================================
