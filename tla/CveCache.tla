------------------------------ MODULE CveCache ------------------------------
(***************************************************************************)
(* storage/cve_cache.py: what CodeGuard knows of one package version.      *)
(* CVECache.lookup asks Redis, then SQLite, then OSV, and promotes what it *)
(* finds to the tiers above.  Lookups of concurrent scans interleave       *)
(* between any two of these accesses; OSV's answer changes meanwhile.      *)
(* Redis errors are swallowed, an OSV error is an empty answer, a SQLite   *)
(* error is one too (lookup_batch catches it).                             *)
(***************************************************************************)
EXTENDS Clock, FiniteSets

CONSTANTS
    Cves,           \* advisories the package may have
    Lookups,        \* lookups going on at a time
    HotTtl,         \* hours a Redis copy lives: 1 in the code
    Staleness,      \* hours SQLite rows are used: CVE_STALENESS_WARNING_HOURS
    Failures        \* subset of {"redis", "sqlite", "osv"}

ASSUME CacheConstants ==
    /\ HotTtl \in Nat \ {0}
    /\ Staleness \in Nat
    /\ Failures \subseteq {"redis", "sqlite", "osv"}

VARIABLES
    osv,            \* what OSV lists for the package version
    listed,         \* the hour each advisory was listed last
    advisory,       \* what the GitHub Advisory database lists, any version
    hot,            \* Redis copy: [cves, until]; none from hour `until' on
    rows,           \* cve_cache: the updated_at of each row, 0 without a row
    at,             \* where each lookup is
    got             \* its `result'

sources == <<osv, listed, advisory>>
cacheVars == <<now, osv, listed, advisory, hot, rows, at, got>>

CacheTypeOK ==
    /\ now \in Hours
    /\ osv \subseteq Cves
    /\ listed \in [Cves -> {0} \union Hours]
    /\ advisory \subseteq Cves
    /\ hot \in [cves : SUBSET Cves, until : 0 .. MaxNow + HotTtl]
    /\ rows \in [Cves -> {0} \union Hours]
    /\ at \in [Lookups -> {"idle", "sqlite", "osv", "insert", "promote", "answered", "failed"}]
    /\ got \in [Lookups -> SUBSET Cves]

CacheInit ==
    /\ ClockInit
    /\ osv \in SUBSET Cves
    /\ listed = [c \in Cves |-> IF c \in osv THEN 1 ELSE 0]
    /\ advisory \in SUBSET Cves
    /\ hot = [cves |-> {}, until |-> 0]
    /\ rows = [c \in Cves |-> 0]
    /\ at = [l \in Lookups |-> "idle"]
    /\ got = [l \in Lookups |-> {}]

-----------------------------------------------------------------------------
(* The world.                                                              *)

Publish(c) ==
    /\ c \notin osv
    /\ osv' = osv \union {c}
    /\ listed' = [listed EXCEPT ![c] = now]
    /\ UNCHANGED <<now, advisory, hot, rows, at, got>>

Withdraw(c) ==
    /\ osv' = osv \ {c}
    /\ UNCHANGED <<now, listed, advisory, hot, rows, at, got>>

CacheHour ==
    /\ \A l \in Lookups : at[l] = "idle"
    /\ NextHour
    /\ UNCHANGED <<sources, hot, rows, at, got>>

-----------------------------------------------------------------------------
(* lookup.                                                                 *)

Goto(l, where) == at' = [at EXCEPT ![l] = where]

Result(l, cves) == got' = [got EXCEPT ![l] = cves]

\* An empty list is a hit too.
RedisHit(l) ==
    /\ at[l] = "idle"
    /\ now < hot.until
    /\ Result(l, hot.cves) /\ Goto(l, "answered")
    /\ UNCHANGED <<now, sources, hot, rows>>

RedisMiss(l) ==
    /\ at[l] = "idle"
    /\ now >= hot.until \/ "redis" \in Failures
    /\ Goto(l, "sqlite")
    /\ UNCHANGED <<now, sources, hot, rows, got>>

Stored == {c \in Cves : rows[c] # 0}

\* Rows used whatever their age.
RowsFreshAlways == Stored # {}

\* Staleness is judged by the youngest row.
RowsFresh == \E c \in Stored : now <= rows[c] + Staleness

SqliteLookup(l) ==
    /\ at[l] = "sqlite"
    /\ IF RowsFresh THEN Result(l, Stored) /\ Goto(l, "promote")
                    ELSE Goto(l, "osv") /\ UNCHANGED got
    /\ UNCHANGED <<now, sources, hot, rows>>

\* Without an answer of OSV, the advisory database, if a token is configured.
FetchFromOsv(l) ==
    /\ at[l] = "osv"
    /\ \E cves \in IF osv = {} THEN {{}, advisory} ELSE {osv} : Result(l, cves)
    /\ Goto(l, "insert")
    /\ UNCHANGED <<now, sources, hot, rows>>

FetchFails(l) ==
    /\ at[l] = "osv" /\ "osv" \in Failures
    /\ Result(l, {}) /\ Goto(l, "failed")
    /\ UNCHANGED <<now, sources, hot, rows>>

\* INSERT OR REPLACE: a row whose advisory was withdrawn stays.
SqliteInsertBatch(l) ==
    /\ at[l] = "insert"
    /\ rows' = [c \in Cves |-> IF c \in got[l] THEN now ELSE rows[c]]
    /\ Goto(l, "promote")
    /\ UNCHANGED <<now, sources, hot, got>>

\* A failing insert that is logged, and the answer promoted all the same.
SqliteRaisesPromoting(l) ==
    /\ at[l] \in {"sqlite", "insert"} /\ "sqlite" \in Failures
    /\ IF at[l] = "insert" THEN Goto(l, "promote") /\ UNCHANGED got
                           ELSE Goto(l, "failed") /\ Result(l, {})
    /\ UNCHANGED <<now, sources, hot, rows>>

\* "database is locked", in the query or in the insert: lookup_batch takes it for no answer.
SqliteRaises(l) ==
    /\ at[l] \in {"sqlite", "insert"} /\ "sqlite" \in Failures
    /\ Result(l, {}) /\ Goto(l, "failed")
    /\ UNCHANGED <<now, sources, hot, rows>>

\* A copy whose lifetime is added to what is left of the old one.
RedisSetExtending(l) ==
    /\ at[l] = "promote"
    /\ \E start \in {h \in {now, hot.until} : h >= now} :
        hot' = [cves |-> got[l], until |-> start + HotTtl]
    /\ Goto(l, "answered")
    /\ UNCHANGED <<now, sources, rows, got>>

RedisSet(l) ==
    /\ at[l] = "promote"
    /\ \/ hot' = [cves |-> got[l], until |-> now + HotTtl]
       \/ "redis" \in Failures /\ UNCHANGED hot
    /\ Goto(l, "answered")
    /\ UNCHANGED <<now, sources, rows, got>>

\* The scan has its answer; the next lookup may begin.
Return(l) ==
    /\ at[l] \in {"answered", "failed"}
    /\ Result(l, {}) /\ Goto(l, "idle")
    /\ UNCHANGED <<now, sources, hot, rows>>

LookupStep(l) ==
    \/ RedisHit(l) \/ RedisMiss(l)
    \/ SqliteLookup(l) \/ SqliteInsertBatch(l) \/ SqliteRaises(l)
    \/ FetchFromOsv(l) \/ FetchFails(l)
    \/ RedisSet(l) \/ Return(l)

CacheNext ==
    \/ \E c \in Cves : Publish(c) \/ Withdraw(c)
    \/ CacheHour
    \/ \E l \in Lookups : LookupStep(l)

CacheSpec == CacheInit /\ [][CacheNext]_cacheVars

-----------------------------------------------------------------------------
\* No known vulnerability is missed: what OSV has listed for longer than the lifetimes of the two
\* caches together is in the answer of every lookup that did not fail, whichever tier it comes
\* from and however lookups, publications and withdrawals interleave (lookup, _sqlite_lookup).
KnownIsFound ==
    \A l \in Lookups : at[l] = "answered" =>
        \A c \in osv : now >= listed[c] + Staleness + HotTtl => c \in got[l]

\* Redis never knows more than SQLite: an insert that raises keeps the answer of OSV out of Redis as
\* well, whichever of the overlapping lookups asked (lookup, _sqlite_insert_batch).
ServedIsStored == now < hot.until => hot.cves \subseteq Stored

-----------------------------------------------------------------------------
(* What the code does not keep; no run checks these, README.md tells how.  *)

\* A lookup that could not ask is not an answer (models.py 120: "never silently degraded").
AnswerIsAsked == \A l \in Lookups : at[l] # "failed"

\* A lookup reports current or recently listed advisories only: withdrawn rows are deleted.
WithdrawnIsForgotten ==
    \A l \in Lookups : at[l] = "answered" =>
        \A c \in got[l] : c \in osv \union advisory \/ now < listed[c] + Staleness + HotTtl
=============================================================================
