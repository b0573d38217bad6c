----------------------------- MODULE RuleStore -----------------------------
(***************************************************************************)
(* storage/rule_store.py: the exemption rules, a SQLite table with a Redis *)
(* copy of its active part.  Readers fill the copy, writers commit and     *)
(* then delete it; neither locks anything.  Redis errors are swallowed.    *)
(*                                                                         *)
(* Of a rule only its pattern matters here.  Its expiry is the hour from   *)
(* which the SQL comparison drops it, which is the end of the day: an ISO  *)
(* time and datetime('now') differ in the character after the date.        *)
(***************************************************************************)
EXTENDS Clock

CONSTANTS
    Ids,            \* rule_id
    Patterns,
    Clients,        \* threads of the API and of agents that use the store
    RuleTtl,        \* hours the Redis copy lives: 1 in the code
    RedisFails      \* Redis may fail

ASSUME StoreConstants ==
    /\ RuleTtl \in Nat \ {0}
    /\ RedisFails \in BOOLEAN

\* A rule that never expires.
Never == MaxNow + 1

Row == [state : {"absent", "on", "off"}, pattern : Patterns, ends : 1 .. Never]

VARIABLES
    table,          \* exemption_rules
    copy,           \* config:exemption:hash: [patterns, until]; none from hour `until' on
    at,             \* where each client is
    got,            \* the rules a reader has
    lastOn,         \* history: the last hour each pattern was active
    lastOff,        \* history: the last hour it was not
    cause           \* history: why the copy may be stale

history == <<lastOn, lastOff>>
storeVars == <<now, table, copy, at, got, lastOn, lastOff, cause>>

StoreTypeOK ==
    /\ now \in Hours
    /\ table \in [Ids -> Row]
    /\ copy \in [patterns : SUBSET Patterns, until : 0 .. MaxNow + RuleTtl]
    /\ at \in [Clients -> {"idle", "query", "fill", "served", "committed"}]
    /\ got \in [Clients -> SUBSET Patterns]
    /\ lastOn \in [Patterns -> {0} \union Hours]
    /\ lastOff \in [Patterns -> {0} \union Hours]
    /\ cause \in {"none", "fill", "delete", "expiry"}

\* WHERE enabled = 1 AND (expires_at IS NULL OR expires_at > datetime('now')).
IsActive(row) == row.state = "on" /\ now < row.ends

Active == {table[i].pattern : i \in {j \in Ids : IsActive(table[j])}}

Remember ==
    /\ lastOn' = [p \in Patterns |-> IF p \in Active' THEN now' ELSE lastOn[p]]
    /\ lastOff' = [p \in Patterns |-> IF p \in Active' THEN lastOff[p] ELSE now']

CopyAlive == now < copy.until

NoCopy == [patterns |-> {}, until |-> 0]

StoreInit ==
    /\ ClockInit
    /\ table \in [Ids -> {r \in Row : r.state = "absent"}]
    /\ copy = NoCopy
    /\ at = [c \in Clients |-> "idle"]
    /\ got = [c \in Clients |-> {}]
    /\ lastOn = [p \in Patterns |-> 0]
    /\ lastOff = [p \in Patterns |-> 1]
    /\ cause = "none"

Goto(c, where) == at' = [at EXCEPT ![c] = where]

-----------------------------------------------------------------------------
(* get_active_rules.                                                       *)

ReadHit(c) ==
    /\ at[c] = "idle"
    /\ CopyAlive
    /\ got' = [got EXCEPT ![c] = copy.patterns]
    /\ Goto(c, "served")
    /\ UNCHANGED <<now, table, copy, history, cause>>

ReadMiss(c) ==
    /\ at[c] = "idle"
    /\ ~CopyAlive \/ RedisFails
    /\ Goto(c, "query")
    /\ UNCHANGED <<now, table, copy, got, history, cause>>

\* Without its condition on the expiry.
QueryEnabled(c) ==
    /\ at[c] = "query"
    /\ got' = [got EXCEPT ![c] = {table[i].pattern : i \in {j \in Ids : table[j].state = "on"}}]
    /\ Goto(c, "fill")
    /\ UNCHANGED <<now, table, copy, history, cause>>

\* _query_active_from_db.
QueryActive(c) ==
    /\ at[c] = "query"
    /\ got' = [got EXCEPT ![c] = Active]
    /\ Goto(c, "fill")
    /\ UNCHANGED <<now, table, copy, history, cause>>

\* A copy whose lifetime is added to that of the old one.
FillExtending(c) ==
    /\ at[c] = "fill"
    /\ copy' = [patterns |-> got[c], until |-> copy.until + RuleTtl]
    /\ cause' = IF got[c] = Active THEN "none" ELSE "fill"
    /\ Goto(c, "served")
    /\ UNCHANGED <<now, table, got, history>>

Fill(c) ==
    /\ at[c] = "fill"
    /\ \/ /\ copy' = [patterns |-> got[c], until |-> now + RuleTtl]
          /\ cause' = IF got[c] = Active THEN "none" ELSE "fill"
       \/ RedisFails /\ UNCHANGED <<copy, cause>>
    /\ Goto(c, "served")
    /\ UNCHANGED <<now, table, got, history>>

\* The conflict agent or the API has its rules.
Served(c) ==
    /\ at[c] = "served"
    /\ got' = [got EXCEPT ![c] = {}]
    /\ Goto(c, "idle")
    /\ UNCHANGED <<now, table, copy, history, cause>>

-----------------------------------------------------------------------------
(* create_rule and update_rule (delete_rule is one): commit, then          *)
(* _invalidate_cache.                                                      *)

\* A commit nothing follows.
CommitOnly(c, i, row) ==
    /\ at[c] = "idle"
    /\ table' = [table EXCEPT ![i] = row]
    /\ UNCHANGED <<now, copy, at, got, cause>>
    /\ Remember

Commit(c, i, row) ==
    /\ at[c] = "idle"
    /\ table' = [table EXCEPT ![i] = row]
    /\ Goto(c, "committed")
    /\ UNCHANGED <<now, copy, got, cause>>
    /\ Remember

CreateRule(c, i) ==
    /\ table[i].state = "absent"
    /\ \E p \in Patterns, e \in 1 .. Never :
        Commit(c, i, [state |-> "on", pattern |-> p, ends |-> e])

\* Of several fields at a time; the expiry may change as well.
UpdateRule(c, i) ==
    /\ table[i].state # "absent"
    /\ \E row \in Row : row.state # "absent" /\ Commit(c, i, row)

\* The delete that Redis does not carry out goes unnoticed.
InvalidateCache(c) ==
    /\ at[c] = "committed"
    /\ \/ copy' = NoCopy /\ cause' = "none"
       \/ RedisFails /\ cause' = "delete" /\ UNCHANGED copy
    /\ Goto(c, "idle")
    /\ UNCHANGED <<now, table, got, history>>

StoreHour ==
    /\ \A c \in Clients : at[c] = "idle"
    /\ NextHour
    /\ UNCHANGED <<table, copy, at, got>>
    /\ Remember
    /\ cause' = IF Active' = Active THEN cause ELSE "expiry"

StoreNext ==
    \/ \E c \in Clients :
        \/ ReadHit(c) \/ ReadMiss(c) \/ QueryActive(c) \/ Fill(c) \/ Served(c)
        \/ \E i \in Ids : CreateRule(c, i) \/ UpdateRule(c, i)
        \/ InvalidateCache(c)
    \/ StoreHour

StoreSpec == StoreInit /\ [][StoreNext]_storeVars

-----------------------------------------------------------------------------
\* Bounded staleness in both directions: a rule that is served was active, and one that is missing
\* was not, at some moment of the last RuleTtl hours, whatever readers, writers, expiries and
\* failures of Redis come between (get_active_rules, ttl=3600).
ServedIsRecent ==
    \A c \in Clients : at[c] = "served" =>
        \A p \in Patterns :
            now < RuleTtl + (IF p \in got[c] THEN lastOn[p] ELSE lastOff[p])

\* The invalidation works: a copy that differs from the active rules has one of three causes; a
\* writer about to delete it, a delete or a fill that came at the wrong time, an expiry.
StaleCopyHasCause ==
    CopyAlive /\ copy.patterns # Active =>
        cause # "none" \/ \E c \in Clients : at[c] = "committed"
=============================================================================
