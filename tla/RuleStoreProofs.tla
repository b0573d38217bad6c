-------------------------- MODULE RuleStoreProofs --------------------------
(* Theorems about RuleStore: how stale a served rule may be, and why.       *)
EXTENDS RuleStore, TLAPS

\* The sums of hours the proofs compare are naturals.
LEMMA HoursAreNat ==
  /\ MaxNow \in Nat \ {0} /\ RuleTtl \in Nat \ {0}
  /\ Hours = 1 .. MaxNow /\ Hours \subseteq Nat
  /\ \A h \in Hours : h + RuleTtl \in 0 .. MaxNow + RuleTtl
BY ClockConstants, StoreConstants DEF Hours

\* What is active are patterns.
LEMMA ActiveArePatterns == StoreTypeOK => Active \subseteq Patterns
BY DEF StoreTypeOK, Active, Row

\* An empty store is well typed.
LEMMA TypeStarts == StoreInit => StoreTypeOK
BY HoursAreNat DEF StoreInit, ClockInit, StoreTypeOK, NoCopy, Row, Never

\* The history keeps its type, and remembers what was true before and what is true now.
LEMMA RememberIs ==
  ASSUME StoreTypeOK, now' \in Hours, Remember
  PROVE  /\ lastOn' \in [Patterns -> {0} \union Hours]
         /\ lastOff' \in [Patterns -> {0} \union Hours]
         /\ \A p \in Patterns :
              IF p \in Active' THEN lastOn'[p] = now' /\ lastOff'[p] = lastOff[p]
                               ELSE lastOff'[p] = now' /\ lastOn'[p] = lastOn[p]
BY DEF StoreTypeOK, Remember

\* Either writer commits a row.
LEMMA WritersCommit ==
  ASSUME NEW c \in Clients, NEW i \in Ids, CreateRule(c, i) \/ UpdateRule(c, i)
  PROVE  \E row \in Row : Commit(c, i, row)
<1>1. CASE CreateRule(c, i)
  <2>1. PICK p \in Patterns, e \in 1 .. Never :
           Commit(c, i, [state |-> "on", pattern |-> p, ends |-> e])
    BY <1>1 DEF CreateRule
  <2>2. [state |-> "on", pattern |-> p, ends |-> e] \in Row
    BY DEF Row
  <2> QED BY <2>1, <2>2
<1>2. CASE UpdateRule(c, i)
  BY <1>2 DEF UpdateRule
<1> QED BY <1>1, <1>2

\* The variables keep their types.
LEMMA TypeStep ==
  ASSUME StoreTypeOK, [StoreNext]_storeVars
  PROVE  StoreTypeOK'
<1> USE HoursAreNat, ActiveArePatterns
<1>1. ASSUME NEW c \in Clients, ReadHit(c) PROVE StoreTypeOK'
  BY <1>1 DEF StoreTypeOK, ReadHit, Goto, history
<1>2. ASSUME NEW c \in Clients, ReadMiss(c) PROVE StoreTypeOK'
  BY <1>2 DEF StoreTypeOK, ReadMiss, Goto, history
<1>3. ASSUME NEW c \in Clients, QueryActive(c) PROVE StoreTypeOK'
  BY <1>3 DEF StoreTypeOK, QueryActive, Goto, history
<1>4. ASSUME NEW c \in Clients, Fill(c) PROVE StoreTypeOK'
  BY <1>4 DEF StoreTypeOK, Fill, Goto, history
<1>5. ASSUME NEW c \in Clients, Served(c) PROVE StoreTypeOK'
  BY <1>5 DEF StoreTypeOK, Served, Goto, history
<1>6. ASSUME NEW c \in Clients, NEW i \in Ids, NEW row \in Row, Commit(c, i, row)
      PROVE  StoreTypeOK'
  <2>1. now' \in Hours /\ Remember
    BY <1>6 DEF Commit, StoreTypeOK
  <2> QED BY <1>6, <2>1, RememberIs DEF StoreTypeOK, Commit, Goto
<1>7. ASSUME NEW c \in Clients, InvalidateCache(c) PROVE StoreTypeOK'
  BY <1>7 DEF StoreTypeOK, InvalidateCache, Goto, NoCopy, history
<1>8. CASE StoreHour
  <2>1. now' \in Hours /\ Remember
    BY <1>8 DEF StoreHour, NextHour, StoreTypeOK
  <2> QED BY <1>8, <2>1, RememberIs DEF StoreTypeOK, StoreHour
<1>9. CASE UNCHANGED storeVars
  BY <1>9 DEF StoreTypeOK, storeVars
<1> QED
  BY <1>1, <1>2, <1>3, <1>4, <1>5, <1>6, <1>7, <1>8, <1>9, WritersCommit DEF StoreNext

\* Type correctness of the rule store.
THEOREM StoreTypeOKHolds == StoreSpec => []StoreTypeOK
BY TypeStarts, TypeStep, PTL DEF StoreSpec

-----------------------------------------------------------------------------
\* A set of patterns that, for each pattern, was right in hour h or later.
RightSince(patterns, h) ==
    \A p \in Patterns : h <= (IF p \in patterns THEN lastOn[p] ELSE lastOff[p])

\* How old what a copy or a reader holds may be.
Recent ==
    /\ RightSince(Active, now)
    /\ \A p \in Patterns : lastOn[p] <= now /\ lastOff[p] <= now
    /\ \A p \in Patterns :
         copy.until <= RuleTtl + (IF p \in copy.patterns THEN lastOn[p] ELSE lastOff[p])
    /\ \A c \in Clients : at[c] = "fill" => RightSince(got[c], now)
    /\ ServedIsRecent

\* Recent does not break where the table, the clock and the history stay as they are.
LEMMA RecentKept ==
  ASSUME StoreTypeOK, Recent, UNCHANGED <<now, table, lastOn, lastOff>>,
         \A p \in Patterns :
           copy'.until <= RuleTtl + (IF p \in copy'.patterns THEN lastOn[p] ELSE lastOff[p]),
         \A c \in Clients :
           /\ at'[c] = "fill" => RightSince(got'[c], now)
           /\ at'[c] = "served" => \A p \in Patterns :
                now < RuleTtl + (IF p \in got'[c] THEN lastOn[p] ELSE lastOff[p])
  PROVE  Recent'
BY DEF Recent, RightSince, ServedIsRecent, Active, IsActive

\* The history only grows and knows what is true now.
HistoryHolds ==
    /\ RightSince(Active, now)'
    /\ \A p \in Patterns :
         /\ lastOn[p] <= lastOn'[p] /\ lastOn'[p] <= now'
         /\ lastOff[p] <= lastOff'[p] /\ lastOff'[p] <= now'

\* Whenever it is written, and time does not go back.
LEMMA HistoryGrows ==
  ASSUME StoreTypeOK, Recent, now' \in Hours, now <= now', Remember
  PROVE  HistoryHolds
BY HoursAreNat, RememberIs DEF StoreTypeOK, Recent, RightSince, HistoryHolds

\* What is held ages only when nobody holds it.
LEMMA HistoryServes ==
  ASSUME StoreTypeOK, StoreTypeOK', Recent, HistoryHolds, UNCHANGED <<copy, got>>,
         \A c \in Clients : at'[c] \in {"fill", "served"} => at[c] = at'[c] /\ now' = now
  PROVE  Recent'
<1> USE HoursAreNat DEF StoreTypeOK, HistoryHolds
<1>1. \A p \in Patterns :
        copy'.until <= RuleTtl + (IF p \in copy'.patterns THEN lastOn'[p] ELSE lastOff'[p])
  <2> TAKE p \in Patterns
  <2>1. /\ copy.until \in Nat
        /\ lastOn[p] \in Nat /\ lastOff[p] \in Nat /\ lastOn'[p] \in Nat /\ lastOff'[p] \in Nat
    OBVIOUS
  <2> QED BY <2>1 DEF Recent
<1>2. \A c \in Clients : at'[c] = "fill" => RightSince(got[c], now)'
  BY DEF Recent, RightSince
<1>3. ServedIsRecent'
  BY DEF Recent, ServedIsRecent
<1> QED BY <1>1, <1>2, <1>3 DEF Recent

\* Recent is inductive.
LEMMA RecentStep ==
  ASSUME StoreTypeOK, Recent, [StoreNext]_storeVars
  PROVE  Recent'
<1> USE HoursAreNat
<1>0. StoreTypeOK'
  BY TypeStep
<1>1. ASSUME NEW c \in Clients, ReadHit(c) PROVE Recent'
  BY <1>1, RecentKept
     DEF StoreTypeOK, ReadHit, Goto, history, CopyAlive, Recent, RightSince, ServedIsRecent
<1>2. ASSUME NEW c \in Clients, ReadMiss(c) PROVE Recent'
  BY <1>2, RecentKept DEF StoreTypeOK, ReadMiss, Goto, history, Recent, RightSince, ServedIsRecent
<1>3. ASSUME NEW c \in Clients, QueryActive(c) PROVE Recent'
  BY <1>3, RecentKept DEF StoreTypeOK, QueryActive, Goto, history, Recent, RightSince, ServedIsRecent
<1>4. ASSUME NEW c \in Clients, Fill(c) PROVE Recent'
  <2>1. /\ UNCHANGED <<now, table, lastOn, lastOff, got>>
        /\ \A d \in Clients : at'[d] = IF d = c THEN "served" ELSE at[d]
        /\ RightSince(got[c], now)
    BY <1>4 DEF StoreTypeOK, Fill, Goto, history, Recent
  <2>2. \A p \in Patterns :
          copy'.until <= RuleTtl + (IF p \in copy'.patterns THEN lastOn[p] ELSE lastOff[p])
    <3>1. CASE copy' = [patterns |-> got[c], until |-> now + RuleTtl]
      BY <2>1, <3>1 DEF StoreTypeOK, RightSince
    <3>2. CASE UNCHANGED copy
      BY <3>2 DEF Recent
    <3> QED BY <1>4, <3>1, <3>2 DEF Fill
  <2>3. \A d \in Clients : at'[d] = "served" => \A p \in Patterns :
          now < RuleTtl + (IF p \in got'[d] THEN lastOn[p] ELSE lastOff[p])
    BY <2>1 DEF StoreTypeOK, RightSince, Recent, ServedIsRecent
  <2>4. \A d \in Clients : at'[d] = "fill" => RightSince(got'[d], now)
    BY <2>1 DEF Recent
  <2> QED BY <2>1, <2>2, <2>3, <2>4, RecentKept
<1>5. ASSUME NEW c \in Clients, Served(c) PROVE Recent'
  BY <1>5, RecentKept DEF StoreTypeOK, Served, Goto, history, Recent, RightSince, ServedIsRecent
<1>6. ASSUME NEW c \in Clients, NEW i \in Ids, NEW row \in Row, Commit(c, i, row)
      PROVE  Recent'
  <2>1. now' = now /\ now' \in Hours /\ Remember
    BY <1>6 DEF Commit, StoreTypeOK
  <2>2. HistoryHolds
    BY <2>1, HistoryGrows DEF StoreTypeOK
  <2>3. /\ UNCHANGED <<copy, got>>
        /\ \A d \in Clients : at'[d] = IF d = c THEN "committed" ELSE at[d]
    BY <1>6 DEF StoreTypeOK, Commit, Goto
  <2> QED BY <1>0, <2>1, <2>2, <2>3, HistoryServes
<1>7. ASSUME NEW c \in Clients, InvalidateCache(c) PROVE Recent'
  BY <1>7, RecentKept
     DEF StoreTypeOK, InvalidateCache, Goto, NoCopy, history, Recent, RightSince, ServedIsRecent
<1>8. CASE StoreHour
  <2>1. now' = now + 1 /\ now' \in Hours /\ Remember
    BY <1>8 DEF StoreHour, NextHour, StoreTypeOK
  <2>2. HistoryHolds
    BY <2>1, HistoryGrows DEF StoreTypeOK
  <2> QED BY <1>0, <1>8, <2>1, <2>2, HistoryServes DEF StoreHour
<1>9. CASE UNCHANGED storeVars
  BY <1>9, RecentKept DEF storeVars, Recent, RightSince, ServedIsRecent
<1> QED
  BY <1>1, <1>2, <1>3, <1>4, <1>5, <1>6, <1>7, <1>8, <1>9, WritersCommit DEF StoreNext

\* In the first hour no rule is active and none was.
LEMMA RecentStarts == StoreInit => Recent
BY HoursAreNat
   DEF StoreInit, ClockInit, Recent, RightSince, ServedIsRecent, Active, IsActive, NoCopy

\* ServedIsRecent for any number of rules, patterns, clients and hours, and whatever Redis does: no
\* reader is served a rule that was inactive, or denied one that was active, for RuleTtl hours.
THEOREM ServedIsRecentHolds == StoreSpec => []ServedIsRecent
<1>1. Recent => ServedIsRecent
  BY DEF Recent
<1> QED
  BY <1>1, RecentStarts, RecentStep, StoreTypeOKHolds, PTL DEF StoreSpec

-----------------------------------------------------------------------------
\* StaleCopyHasCause, which is inductive: after a delete or a fill the copy is right unless a
\* writer committed in between, and that writer deletes it.
THEOREM StaleCopyHasCauseHolds == StoreSpec => []StaleCopyHasCause
<1>1. StoreInit => StaleCopyHasCause
  BY HoursAreNat DEF StoreInit, ClockInit, StaleCopyHasCause, CopyAlive, NoCopy
<1>2. ASSUME StoreTypeOK, StaleCopyHasCause, [StoreNext]_storeVars
      PROVE  StaleCopyHasCause'
  <2> USE <1>2, HoursAreNat
  <2>1. ASSUME UNCHANGED <<now, table>> PROVE Active' = Active
    BY <2>1 DEF Active, IsActive
  <2>2. ASSUME NEW c \in Clients,
               ReadHit(c) \/ ReadMiss(c) \/ QueryActive(c) \/ Served(c)
        PROVE  StaleCopyHasCause'
    BY <2>1, <2>2 DEF StaleCopyHasCause, CopyAlive, StoreTypeOK, ReadHit, ReadMiss, QueryActive,
                      Served, Goto, history
  <2>3. ASSUME NEW c \in Clients, Fill(c) PROVE StaleCopyHasCause'
    BY <2>1, <2>3 DEF StaleCopyHasCause, CopyAlive, StoreTypeOK, Fill, Goto, history
  <2>4. ASSUME NEW c \in Clients, NEW i \in Ids, NEW row \in Row, Commit(c, i, row)
        PROVE  StaleCopyHasCause'
    BY <2>4 DEF StaleCopyHasCause, StoreTypeOK, Commit, Goto
  <2>5. ASSUME NEW c \in Clients, InvalidateCache(c) PROVE StaleCopyHasCause'
    BY <2>1, <2>5 DEF StaleCopyHasCause, CopyAlive, StoreTypeOK, InvalidateCache, NoCopy
  <2>6. CASE StoreHour
    BY <2>6 DEF StaleCopyHasCause, CopyAlive, StoreTypeOK, StoreHour, NextHour
  <2>7. CASE UNCHANGED storeVars
    BY <2>1, <2>7 DEF StaleCopyHasCause, CopyAlive, storeVars
  <2> QED
    BY <1>2, <2>2, <2>3, <2>4, <2>5, <2>6, <2>7, WritersCommit DEF StoreNext
<1> QED
  BY <1>1, <1>2, StoreTypeOKHolds, PTL DEF StoreSpec
=============================================================================
