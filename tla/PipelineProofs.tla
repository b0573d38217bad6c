--------------------------- MODULE PipelineProofs ---------------------------
(***************************************************************************)
(* Proofs about Pipeline, for any number of tasks, chains and slots and    *)
(* any set of Failures.                                                    *)
(***************************************************************************)
EXTENDS Pipeline, FiniteSetTheorems, TLAPS

-----------------------------------------------------------------------------
(* Types of what the agents return.                                        *)

LEMMA ConflictOutcomesType ==
  ASSUME NEW r \in SecurityReport
  PROVE  ConflictOutcomes(r) \subseteq ConflictDecision
<1>1. ConflictRun(r) \in ConflictDecision
  BY DEF ConflictRun, ConflictDecision
<1>2. ConflictDegradedRun(r) \subseteq ConflictDecision
  <2> DEFINE found == CASE r.sees = "nothing" -> {FALSE}
                        [] r.sees = "clean"   -> BOOLEAN
                        [] OTHER              -> {TRUE}
             decision(b) == [made |-> TRUE, blocking |-> b, blocks |-> b, paused |-> FALSE]
  <2>1. found \subseteq BOOLEAN
    OBVIOUS
  <2>2. \A b \in BOOLEAN : decision(b) \in ConflictDecision
    BY DEF ConflictDecision
  <2>3. ConflictDegradedRun(r) = {decision(b) : b \in found}
    BY DEF ConflictDegradedRun
  <2> HIDE DEF found, decision
  <2>4. QED BY <2>1, <2>2, <2>3
<1>3. NoConflictDecision \in ConflictDecision
  BY DEF NoConflictDecision, ConflictDecision
<1>4. QED BY <1>1, <1>2, <1>3 DEF ConflictOutcomes, Execute

LEMMA SeenInType ==
  ASSUME NEW r \in Repository
  PROVE  /\ SeenIn(r) \subseteq Truth
         /\ \A t \in SeenIn(r) \union {r.truth} : PartOf(t) \subseteq Truth
<1>1. \A t \in Truth : PartOf(t) \subseteq Truth
  BY DEF PartOf, Truth
<1>2. r.truth \in Truth /\ r.listing \in {"scannable", "lock_only", "repeated"}
  BY DEF Repository
<1>3. SeenIn(r) \subseteq Truth
  BY <1>1, <1>2 DEF SeenIn, Truth
<1> QED BY <1>1, <1>2, <1>3

LEMMA SecurityOutcomesType ==
  ASSUME NEW r \in Repository, NEW metadata
  PROVE  SecurityOutcomes(r, metadata) \subseteq SecurityReport
<1> DEFINE parts == UNION {PartOf(s) : s \in SeenIn(r)}
           listing == IF r.listing = "lock_only" THEN "listing" ELSE "none"
<1>1. SeenIn(r) \subseteq Truth /\ PartOf(r.truth) \subseteq Truth /\ parts \subseteq Truth
  BY SeenInType
<1>2. SecurityRun(r, metadata) \subseteq SecurityReport
  <2> HIDE DEF parts
  <2>1. [sees |-> "clean", degraded |-> FALSE, gap |-> "clone"] \in SecurityReport
    BY DEF SecurityReport, Truth
  <2>2. [sees : SeenIn(r), degraded : {FALSE}, gap : {listing}] \subseteq SecurityReport
    BY <1>1 DEF SecurityReport
  <2>3. [sees : parts, degraded : BOOLEAN, gap : {"scanner"}] \subseteq SecurityReport
    BY <1>1 DEF SecurityReport
  <2>4. QED BY <2>1, <2>2, <2>3 DEF SecurityRun, parts
<1>3. SecurityDegradedRun(r, metadata) \subseteq SecurityReport
  BY <1>1 DEF SecurityDegradedRun, SecurityReport, Truth
<1>4. NoSecurityReport \in SecurityReport
  BY DEF NoSecurityReport, SecurityReport
<1>5. QED BY <1>2, <1>3, <1>4 DEF SecurityOutcomes, Execute

\* Whatever the chain caches is a security result that is there.
LEMMA ChainOutcomesType ==
  ASSUME NEW repo \in Repository, NEW metadata, NEW data \in ChainOutcomes(repo, metadata)
  PROVE  data \in SecurityData /\ data.present
<1>1. PICK r \in SecurityOutcomes(repo, metadata) : \E c \in ConflictOutcomes(r) :
         data = [present |-> TRUE, security |-> r, conflict |-> c, failed |-> FALSE]
  BY DEF ChainOutcomes
<1>2. PICK c \in ConflictOutcomes(r) :
         data = [present |-> TRUE, security |-> r, conflict |-> c, failed |-> FALSE]
  BY <1>1
<1>3. r \in SecurityReport /\ c \in ConflictDecision
  BY <1>1, <1>2, SecurityOutcomesType, ConflictOutcomesType
<1>4. QED BY <1>2, <1>3 DEF SecurityData

LEMMA ConstantDataType ==
  /\ NoSecurityData \in SecurityData /\ ~NoSecurityData.present
  /\ ChainFailed \in SecurityData /\ ChainFailed.present
  /\ NoReport \in Report /\ NoReport.kind = "none"
  BY DEF NoSecurityData, SecurityData, ChainFailed, NoReport, Report, NoSecurityReport,
         SecurityReport, NoConflictDecision, ConflictDecision

\* The reporter repeats the conflict decision it was given, or reports {}.
LEMMA ReportOutcomesFacts ==
  ASSUME NEW data \in SecurityData, NEW m \in BOOLEAN, NEW rep \in ReportOutcomes(data, m)
  PROVE  /\ rep \in Report
         /\ rep.kind # "none"
         /\ rep.kind = "report" => rep.conflict = data.conflict
<1>1. ReportRun(data, m) \in Report /\ ReportRun(data, m).kind = "report"
      /\ ReportRun(data, m).conflict = data.conflict
  BY DEF ReportRun, Report, SecurityData, ConflictDecision, SecurityReport
<1>2. ReportDegradedRun(data) \in Report /\ ReportDegradedRun(data).kind = "report"
      /\ ReportDegradedRun(data).conflict = data.conflict
  BY DEF ReportDegradedRun, ReportRun, Report, SecurityData, ConflictDecision, SecurityReport
<1>3. [NoReport EXCEPT !.kind = "empty"] \in Report
      /\ [NoReport EXCEPT !.kind = "empty"].kind = "empty"
  BY ConstantDataType DEF Report
<1>4. QED BY <1>1, <1>2, <1>3 DEF ReportOutcomes, Execute

-----------------------------------------------------------------------------
(* Type correctness.                                                       *)

LEMMA InitType == Init => TypeOK
<1> SUFFICES ASSUME Init PROVE TypeOK
  OBVIOUS
<1>1. NothingLoaded \in [security : SecurityData, migration : BOOLEAN]
  BY ConstantDataType DEF NothingLoaded
<1>2. NoChildren \in [security : ChildSteps, migration : ChildSteps]
  BY DEF NoChildren, ChildSteps
<1>3. QED BY <1>1, <1>2, ConstantDataType, PipelineConstants DEF Init, TypeOK, Steps, Status

LEMMA ApiType ==
  ASSUME TypeOK, NEW t \in Tasks, Submit(t) \/ WritePending(t) \/ Redeliver(t)
  PROVE  TypeOK'
<1>1. CASE Submit(t)
  BY <1>1 DEF Submit, TypeOK, fixed, keys, Steps
<1>2. CASE WritePending(t)
  BY <1>2 DEF WritePending, SetStatus, Write, TypeOK, fixed, keys, Status
<1>3. CASE Redeliver(t)
  BY <1>3, PipelineConstants DEF Redeliver, TypeOK, keys, Steps
<1>4. QED BY <1>1, <1>2, <1>3

\* A chain at work has a task.
Owned == \A c \in Chains : owner[c] = NoTask => step[c] = "unused" /\ child[c] = NoChildren

LEMMA OwnerOf ==
  ASSUME TypeOK, Owned, NEW c \in Chains,
         step[c] # "unused" \/ child[c].security # "none" \/ child[c].migration # "none"
  PROVE  owner[c] \in Tasks
  BY DEF TypeOK, Owned, NoChildren

LEMMA RepositoryOf ==
  ASSUME TypeOK, NEW t \in Tasks
  PROVE  repository[t] \in Repository
  BY PipelineConstants DEF TypeOK

LEMMA ChainType ==
  ASSUME TypeOK, Owned, NEW c \in Chains, ChainRun(c)
  PROVE  TypeOK'
<1> USE DEF fixed, keys, TypeOK, Return, At, Runs, Take, SetStatus, Write
<1>1. CASE MainAlreadyDone(c)
  BY <1>1 DEF MainAlreadyDone, Steps
<1>2. CASE Main(c)
  BY <1>2 DEF Main, Steps, Status
<1>3. CASE PreprocessStart(c)
  BY <1>3 DEF PreprocessStart, Status
<1>4. CASE PreprocessEnd(c)
  <2>1. owner[c] \in Tasks
    BY <1>4, OwnerOf DEF PreprocessEnd
  <2>2. tree' \in [Tasks -> BOOLEAN]
    BY <1>4, <2>1 DEF PreprocessEnd
  <2>3. meta' \in [Chains -> {"none", "empty", "full"}]
    BY <1>4 DEF PreprocessEnd
  <2>4. QED BY <1>4, <2>2, <2>3 DEF PreprocessEnd, Steps
<1>5. CASE Dispatch(c)
  BY <1>5 DEF Dispatch, Steps, ChildSteps
<1>6. CASE Join(c)
  BY <1>6 DEF Join, Steps
<1>7. CASE JoinRaises(c)
  BY <1>7 DEF JoinRaises, Steps
<1>8. CASE ReportStart(c)
  <2>1. owner[c] \in Tasks
    BY <1>8, OwnerOf DEF ReportStart
  <2>2. QED BY <1>8, <2>1, ConstantDataType DEF ReportStart, Status
<1>9. CASE ReportCache(c)
  <2>1. loaded[c].security \in SecurityData /\ loaded[c].migration \in BOOLEAN
    OBVIOUS
  <2>2. PICK rep \in ReportOutcomes(loaded[c].security, loaded[c].migration) :
           Write(result, owner[c], rep)
    BY <1>9 DEF ReportCache
  <2>3. rep \in Report
    BY <2>1, <2>2, ReportOutcomesFacts
  <2>4. result' \in [Tasks -> Report]
    BY <2>2, <2>3
  <2>5. QED BY <1>9, <2>4 DEF ReportCache, Steps
<1>10. CASE ReportEnd(c)
  BY <1>10 DEF ReportEnd, Steps, Status
<1>11. CASE ReportFail(c)
  BY <1>11 DEF ReportFail, Steps
<1>12. CASE Callback(c)
  BY <1>12 DEF Callback, Steps
<1>13. CASE DispatchRaises(c)
  BY <1>13 DEF DispatchRaises, Steps, ChildSteps
<1> QED BY <1>1, <1>2, <1>3, <1>4, <1>5, <1>6, <1>7, <1>8, <1>9, <1>10, <1>11, <1>12, <1>13
           DEF ChainRun

LEMMA ChildType ==
  ASSUME TypeOK, Owned, NEW c \in Chains, SecurityRuns(c) \/ MigrationRuns(c)
  PROVE  TypeOK'
<1> USE DEF fixed, keys, TypeOK, SetStatus, Write, Advance, ChildUnchanged, ChildSteps
<1>1. CASE SecurityStart(c)
  BY <1>1 DEF SecurityStart, Status
<1>2. CASE SecurityCache(c)
  <2>1. owner[c] \in Tasks
    BY <1>2, OwnerOf DEF SecurityCache
  <2>2. PICK data \in ChainOutcomes(repository[owner[c]], meta[c]) :
           /\ Write(security, owner[c], data)
           /\ Advance(c, "security", IF data.conflict.paused THEN "paused" ELSE "cached")
    BY <1>2 DEF SecurityCache
  <2>3. data \in SecurityData
    BY <2>1, <2>2, RepositoryOf, ChainOutcomesType
  <2>4. security' \in [Tasks -> SecurityData]
    BY <2>2, <2>3
  <2>5. child' \in [Chains -> [security : ChildSteps, migration : ChildSteps]]
    BY <2>2
  <2>6. QED BY <1>2, <2>4, <2>5 DEF SecurityCache
<1>3. CASE SecurityFail(c)
  BY <1>3, ConstantDataType DEF SecurityFail
<1>4. CASE SecurityEnd(c)
  BY <1>4 DEF SecurityEnd, Status
<1>5. CASE MigrationSkip(c)
  BY <1>5 DEF MigrationSkip
<1>6. CASE MigrationStart(c)
  <2>1. child' \in [Chains -> [security : ChildSteps, migration : ChildSteps]]
    BY <1>6 DEF MigrationStart
  <2>2. status' \in [Tasks -> Status]
    BY <1>6 DEF MigrationStart, Status
  <2>3. QED BY <1>6, <2>1, <2>2 DEF MigrationStart
<1>7. CASE MigrationCache(c)
  BY <1>7 DEF MigrationCache
<1>8. CASE MigrationFail(c)
  BY <1>8 DEF MigrationFail
<1>9. CASE MigrationEnd(c)
  BY <1>9 DEF MigrationEnd, Status
<1>10. QED BY <1>1, <1>2, <1>3, <1>4, <1>5, <1>6, <1>7, <1>8, <1>9
           DEF SecurityRuns, MigrationRuns

LEMMA OwnedStep ==
  ASSUME TypeOK, Owned, [Next]_vars
  PROVE  Owned'
<1>1. CASE \E t \in Tasks : Submit(t) \/ Redeliver(t)
  BY <1>1, PipelineConstants DEF Submit, Redeliver, Owned, TypeOK, fixed, keys
<1>2. CASE \E t \in Tasks : WritePending(t)
  BY <1>2 DEF WritePending, Owned
<1>3. CASE \E c \in Chains : ChainRun(c)
  <2>1. PICK c \in Chains : ChainRun(c)
    BY <1>3
  <2>2. owner' = owner /\ step[c] # "unused"
    BY <2>1 DEF ChainRun, MainAlreadyDone, Main, PreprocessStart, PreprocessEnd, Dispatch, Join,
                JoinRaises, DispatchRaises, ReportStart, ReportCache, ReportEnd, ReportFail,
                Callback, At, Runs
  <2>3. \A d \in Chains \ {c} : step'[d] = step[d] /\ child'[d] = child[d]
    BY <2>1 DEF ChainRun, MainAlreadyDone, Main, PreprocessStart, PreprocessEnd, Dispatch, Join,
                JoinRaises, DispatchRaises, ReportStart, ReportCache, ReportEnd, ReportFail,
                Callback, At, Runs, Return, TypeOK
  <2>4. QED BY <2>2, <2>3 DEF Owned
<1>4. CASE \E c \in Chains : SecurityRuns(c) \/ MigrationRuns(c)
  <2>1. PICK c \in Chains : SecurityRuns(c) \/ MigrationRuns(c)
    BY <1>4
  <2> USE DEF SecurityRuns, MigrationRuns, SecurityStart, SecurityCache, SecurityFail, SecurityEnd,
              MigrationSkip, MigrationStart, MigrationCache, MigrationFail, MigrationEnd
  <2>2. owner' = owner /\ step' = step
    BY <2>1 DEF ChildUnchanged
  <2>3. owner[c] # NoTask
    BY <2>1, PipelineConstants, OwnerOf
  <2>4. \A d \in Chains \ {c} : child'[d] = child[d]
    BY <2>1 DEF Advance, TypeOK
  <2>5. QED BY <2>2, <2>3, <2>4 DEF Owned
<1>5. CASE UNCHANGED vars
  BY <1>5 DEF vars, Owned
<1>6. QED BY <1>1, <1>2, <1>3, <1>4, <1>5 DEF Next

\* Every state is of its type, whatever fails: every status is one the readers know.
THEOREM TypeCorrect == Spec => [](TypeOK /\ Owned)
<1>1. Init => TypeOK /\ Owned
  BY InitType DEF Init, Owned
<1>2. TypeOK /\ Owned /\ [Next]_vars => (TypeOK /\ Owned)'
  <2> SUFFICES ASSUME TypeOK, Owned, [Next]_vars PROVE TypeOK'
    BY OwnedStep
  <2>1. CASE Next
    BY <2>1, ApiType, ChainType, ChildType DEF Next
  <2>2. CASE UNCHANGED vars
    BY <2>2 DEF vars, TypeOK
  <2>3. QED BY <2>1, <2>2
<1>3. QED BY <1>1, <1>2, PTL DEF Spec

THEOREM TypeOKHolds == Spec => []TypeOK
  BY TypeCorrect, PTL

-----------------------------------------------------------------------------
(* The status is never ahead of the result.                                *)

RedisUp == "redis" \notin Failures

CompleteHasResult == \A c \in Chains : step[c] = "complete" => result[owner[c]].kind # "none"

\* What the type invariant says of a report that is being made.
LEMMA ReportCacheFacts ==
  ASSUME TypeOK, Owned, RedisUp, NEW c \in Chains, ReportCache(c)
  PROVE  /\ owner[c] \in Tasks
         /\ \E rep \in Report :
              /\ rep.kind # "none"
              /\ rep.kind = "report" => rep.conflict = loaded[c].security.conflict
              /\ result' = [result EXCEPT ![owner[c]] = rep]
<1>1. owner[c] \in Tasks
  BY OwnerOf DEF ReportCache, Runs
<1>2. PICK rep \in ReportOutcomes(loaded[c].security, loaded[c].migration) :
         Write(result, owner[c], rep)
  BY DEF ReportCache
<1>3. loaded[c].security \in SecurityData /\ loaded[c].migration \in BOOLEAN
  BY DEF TypeOK
<1>4. rep \in Report /\ rep.kind # "none"
      /\ (rep.kind = "report" => rep.conflict = loaded[c].security.conflict)
  BY <1>2, <1>3, ReportOutcomesFacts
<1>5. result' = [result EXCEPT ![owner[c]] = rep]
  BY <1>2 DEF Write, RedisUp
<1>6. QED BY <1>1, <1>4, <1>5

\* Only the report writes results.
LEMMA ResultFrame ==
  ASSUME [Next]_vars, \A c \in Chains : ~ReportCache(c)
  PROVE  result' = result
  BY DEF Next, vars, fixed, keys, ChainRun, SecurityRuns, MigrationRuns, ChildUnchanged, Submit,
         WritePending, Redeliver, MainAlreadyDone, Main, PreprocessStart, PreprocessEnd, Dispatch,
         Join, JoinRaises, DispatchRaises, ReportStart, ReportEnd, ReportFail, Callback,
         SecurityStart, SecurityCache, SecurityFail, SecurityEnd, MigrationSkip, MigrationStart,
         MigrationCache, MigrationFail, MigrationEnd

\* Results do not go away.
LEMMA ResultStays ==
  ASSUME TypeOK, Owned, RedisUp, [Next]_vars, NEW t \in Tasks, result[t].kind # "none"
  PROVE  result'[t].kind # "none"
<1>1. CASE \A c \in Chains : ~ReportCache(c)
  BY <1>1, ResultFrame
<1>2. CASE \E c \in Chains : ReportCache(c)
  BY <1>2, ReportCacheFacts DEF TypeOK
<1>3. QED BY <1>1, <1>2

\* The status "completed" is written after the result, by the report task alone.
LEMMA CompletedByReport ==
  ASSUME TypeOK, [Next]_vars, NEW t \in Tasks, status'[t] = "completed", status[t] # "completed"
  PROVE  \E c \in Chains : step[c] = "complete" /\ owner[c] = t
<1> USE DEF SetStatus, Write, TypeOK, fixed, keys, ChildUnchanged
<1>1. CASE \E u \in Tasks : Submit(u) \/ WritePending(u) \/ Redeliver(u)
  BY <1>1 DEF Submit, WritePending, Redeliver
<1>2. CASE \E c \in Chains : ChainRun(c)
  BY <1>2 DEF ChainRun, MainAlreadyDone, Main, PreprocessStart, PreprocessEnd, Dispatch,
              Join, JoinRaises, DispatchRaises, ReportStart, ReportCache, ReportEnd, ReportFail,
              Callback, Runs
<1>3. CASE \E c \in Chains : SecurityRuns(c)
  BY <1>3 DEF SecurityRuns, SecurityStart, SecurityCache, SecurityFail, SecurityEnd
<1>4. CASE \E c \in Chains : MigrationRuns(c)
  BY <1>4 DEF MigrationRuns, MigrationSkip, MigrationStart, MigrationCache, MigrationFail,
              MigrationEnd
<1>5. CASE UNCHANGED vars
  BY <1>5 DEF vars
<1>6. QED BY <1>1, <1>2, <1>3, <1>4, <1>5 DEF Next

\* A chain gets to "complete" by caching its report.
LEMMA CompleteByCache ==
  ASSUME TypeOK, [Next]_vars, NEW c \in Chains, step'[c] = "complete", ~ReportCache(c)
  PROVE  step[c] = "complete" /\ owner'[c] = owner[c]
<1> USE DEF TypeOK, fixed, keys, ChildUnchanged, Return, Take, At, Runs
<1>1. CASE \E u \in Tasks : Submit(u) \/ WritePending(u) \/ Redeliver(u)
  BY <1>1 DEF Submit, WritePending, Redeliver
<1>2. CASE \E d \in Chains : ChainRun(d)
  BY <1>2 DEF ChainRun, MainAlreadyDone, Main, PreprocessStart, PreprocessEnd, Dispatch,
              Join, JoinRaises, DispatchRaises, ReportStart, ReportCache, ReportEnd, ReportFail,
              Callback
<1>3. CASE \E d \in Chains : SecurityRuns(d) \/ MigrationRuns(d)
  BY <1>3 DEF SecurityRuns, SecurityStart, SecurityCache, SecurityFail, SecurityEnd, MigrationRuns,
              MigrationSkip, MigrationStart, MigrationCache, MigrationFail, MigrationEnd
<1>4. CASE UNCHANGED vars
  BY <1>4 DEF vars
<1>5. QED BY <1>1, <1>2, <1>3, <1>4 DEF Next

\* With Redis up, "completed" is never read without a report to go with it, however often the
\* broker delivers the main message again and whatever else fails.
THEOREM CompletedHasResultHolds ==
  ASSUME RedisUp
  PROVE  Spec => []CompletedHasResult
<1>1. Init => CompleteHasResult /\ CompletedHasResult
  BY DEF Init, CompleteHasResult, CompletedHasResult
<1>2. TypeOK /\ Owned /\ CompleteHasResult /\ CompletedHasResult /\ TypeOK' /\ Owned' /\ [Next]_vars
        => CompleteHasResult' /\ CompletedHasResult'
  <2> SUFFICES ASSUME TypeOK, Owned, CompleteHasResult, CompletedHasResult, TypeOK', Owned',
                      [Next]_vars
               PROVE  CompleteHasResult' /\ CompletedHasResult'
    OBVIOUS
  <2>1. ASSUME NEW c \in Chains, step'[c] = "complete" PROVE result'[owner'[c]].kind # "none"
    <3>1. CASE ReportCache(c)
      <4>1. PICK rep \in Report :
               rep.kind # "none" /\ result' = [result EXCEPT ![owner[c]] = rep]
        BY <3>1, RedisUp, ReportCacheFacts
      <4>2. owner' = owner
        BY <3>1 DEF ReportCache
      <4>3. owner[c] \in Tasks
        BY <3>1, RedisUp, ReportCacheFacts
      <4>4. QED BY <4>1, <4>2, <4>3 DEF TypeOK
    <3>2. CASE ~ReportCache(c)
      <4>1. step[c] = "complete" /\ owner'[c] = owner[c]
        BY <2>1, <3>2, CompleteByCache
      <4>2. owner[c] \in Tasks /\ result[owner[c]].kind # "none"
        BY <4>1, OwnerOf DEF CompleteHasResult
      <4>3. QED BY <4>1, <4>2, RedisUp, ResultStays
    <3>3. QED BY <3>1, <3>2
  <2>2. ASSUME NEW t \in Tasks, status'[t] = "completed" PROVE result'[t].kind # "none"
    <3>1. result[t].kind # "none"
      BY <2>2, CompletedByReport DEF CompleteHasResult, CompletedHasResult
    <3>2. QED BY <3>1, RedisUp, ResultStays
  <2>3. QED BY <2>1, <2>2 DEF CompleteHasResult, CompletedHasResult
<1>3. QED BY <1>1, <1>2, TypeCorrect, PTL DEF Spec

-----------------------------------------------------------------------------
(* What a verdict that lets a repository pass owes its readers.            *)

\* A security report either shows what must not pass or tells why it does not.
LEMMA SecurityOutcomesTell ==
  ASSUME NEW repo \in Repository, NEW metadata, NEW r \in SecurityOutcomes(repo, metadata)
  PROVE  r.sees \in {"clean", "nothing"} => repo.truth = "clean" \/ r.gap # "none"
<1>1. CASE r \in SecurityRun(repo, metadata)
  <2>1. CASE r.gap # "none"
    BY <2>1
  <2>2. CASE r.gap = "none"
    <3>1. r \in [sees : SeenIn(repo), degraded : {FALSE},
                 gap : {IF repo.listing = "lock_only" THEN "listing" ELSE "none"}]
      <4>1. ASSUME metadata # "full" PROVE r.gap = "clone"
        <5>1. SecurityRun(repo, metadata)
                = {[sees |-> "clean", degraded |-> FALSE, gap |-> "clone"]}
          BY <4>1 DEF SecurityRun
        <5>2. QED BY <1>1, <5>1
      <4>2. \A x \in [sees : UNION {PartOf(s) : s \in SeenIn(repo)}, degraded : BOOLEAN,
                       gap : {"scanner"}] : x.gap # "none"
        OBVIOUS
      <4>3. QED BY <1>1, <2>2, <4>1, <4>2 DEF SecurityRun
    <3>2. r.sees \in SeenIn(repo) /\ repo.listing # "lock_only"
      BY <2>2, <3>1
    <3>3. QED BY <3>2 DEF SeenIn, Repository, Truth
  <2>3. QED BY <2>1, <2>2
<1>2. CASE r \in SecurityDegradedRun(repo, metadata)
  BY <1>2 DEF SecurityDegradedRun
<1>3. CASE r = NoSecurityReport
  BY <1>3 DEF NoSecurityReport
<1>4. QED BY <1>1, <1>2, <1>3 DEF SecurityOutcomes, Execute

\* A decision of the conflict agent passes only what its security report does not show.
LEMMA ConflictOutcomesBlock ==
  ASSUME NEW r \in SecurityReport, NEW c \in ConflictOutcomes(r), c.made, ~c.blocking
  PROVE  r.sees \in {"clean", "nothing"}
<1> SUFFICES ASSUME r.sees \in {"block", "human"} PROVE FALSE
  BY DEF SecurityReport, Truth
<1>1. ConflictRun(r).blocking /\ ~NoConflictDecision.made
  BY DEF ConflictRun, NoConflictDecision
<1>2. \A d \in ConflictDegradedRun(r) : d.blocking
  <2> DEFINE decision(b) == [made |-> TRUE, blocking |-> b, blocks |-> b, paused |-> FALSE]
             found == CASE r.sees = "nothing" -> {FALSE}
                        [] r.sees = "clean"   -> BOOLEAN
                        [] OTHER              -> {TRUE}
  <2>1. found = {TRUE}
    OBVIOUS
  <2>2. ConflictDegradedRun(r) = {decision(b) : b \in found}
    BY DEF ConflictDegradedRun
  <2>3. \A b \in {TRUE} : decision(b).blocking
    OBVIOUS
  <2> HIDE DEF found, decision
  <2>4. QED BY <2>1, <2>2, <2>3
<1>3. QED BY <1>1, <1>2 DEF ConflictOutcomes, Execute

\* A verdict on a repository that errs on the safe side.
Safe(repo, data) ==
    data.present /\ ~data.conflict.blocking /\ data.conflict.made =>
        /\ data.security.sees \in {"clean", "nothing"}
        /\ repo.truth = "clean" \/ data.security.gap # "none"

LEMMA ChainOutcomesSafe ==
  ASSUME NEW repo \in Repository, NEW metadata, NEW data \in ChainOutcomes(repo, metadata)
  PROVE  Safe(repo, data)
<1>1. PICK r \in SecurityOutcomes(repo, metadata) : \E c \in ConflictOutcomes(r) :
         data = [present |-> TRUE, security |-> r, conflict |-> c, failed |-> FALSE]
  BY DEF ChainOutcomes
<1>2. PICK c \in ConflictOutcomes(r) :
         data = [present |-> TRUE, security |-> r, conflict |-> c, failed |-> FALSE]
  BY <1>1
<1>3. r \in SecurityReport
  BY <1>1, SecurityOutcomesType
<1>4. c.made /\ ~c.blocking => r.sees \in {"clean", "nothing"}
  BY <1>2, <1>3, ConflictOutcomesBlock
<1>5. QED BY <1>1, <1>2, <1>4, SecurityOutcomesTell DEF Safe

LEMMA FailSafeStep ==
  ASSUME TypeOK, Owned, FailSafe, [Next]_vars
  PROVE  FailSafe'
<1>1. repository' = repository
  BY DEF Next, vars, fixed, ChainRun, SecurityRuns, MigrationRuns, ChildUnchanged, Submit,
         WritePending, Redeliver, MainAlreadyDone, Main, PreprocessStart, PreprocessEnd, Dispatch,
         Join, JoinRaises, DispatchRaises, ReportStart, ReportCache, ReportEnd, ReportFail,
         Callback, SecurityStart, SecurityCache, SecurityFail, SecurityEnd, MigrationSkip,
         MigrationStart, MigrationCache, MigrationFail, MigrationEnd
<1>2. CASE \E c \in Chains : SecurityCache(c)
  <2>1. PICK c \in Chains : SecurityCache(c)
    BY <1>2
  <2>2. owner[c] \in Tasks
    BY <2>1, OwnerOf DEF SecurityCache
  <2>3. PICK data \in ChainOutcomes(repository[owner[c]], meta[c]) :
           Write(security, owner[c], data)
    BY <2>1 DEF SecurityCache
  <2>4. repository[owner[c]] \in Repository
    BY <2>2, RepositoryOf
  <2>5. Safe(repository[owner[c]], data)
    BY <2>3, <2>4, ChainOutcomesSafe
  <2>6. QED BY <1>1, <2>2, <2>3, <2>5 DEF Write, FailSafe, Safe, TypeOK
<1>3. CASE \E c \in Chains : SecurityFail(c)
  <2>1. ChainFailed.conflict.blocking
    BY DEF ChainFailed
  <2>2. QED BY <1>1, <1>3, <2>1 DEF SecurityFail, Write, FailSafe, TypeOK
<1>4. CASE \A c \in Chains : ~SecurityCache(c) /\ ~SecurityFail(c)
  <2>1. security' = security
    BY <1>4
       DEF Next, vars, keys, ChainRun, SecurityRuns, MigrationRuns, Submit, WritePending, Redeliver,
           MainAlreadyDone, Main, PreprocessStart, PreprocessEnd, Dispatch, Join, JoinRaises,
           DispatchRaises, ReportStart, ReportCache, ReportEnd, ReportFail, Callback,
           SecurityStart, SecurityEnd, MigrationSkip, MigrationStart, MigrationCache,
           MigrationFail, MigrationEnd
  <2>2. QED BY <1>1, <2>1 DEF FailSafe
<1>5. QED BY <1>2, <1>3, <1>4

\* Whatever fails and however often messages are delivered, a decision that lets a repository pass
\* with a finding that must not has a security report that does not show it, and a cause for that:
\* the clone, the list of packages, a scanner, or the security agent.  That leaves the {} of a
\* conflict agent that fails twice, which is no decision.
THEOREM FailSafeHolds == Spec => []FailSafe
<1>1. Init => FailSafe
  BY ConstantDataType DEF Init, FailSafe
<1>2. TypeOK /\ Owned /\ FailSafe /\ [Next]_vars => FailSafe'
  BY FailSafeStep
<1>3. QED BY <1>1, <1>2, TypeCorrect, PTL DEF Spec

-----------------------------------------------------------------------------
(* One delivery of each main message: what the report is made of.  With a  *)
(* redelivery two chains share the keys and the clone of a task, and these *)
(* invariants fail.                                                        *)

NoRedelivery == MaxRedeliveries = 0

\* A task has one chain.
OneChain ==
    \A c, d \in Chains : owner[c] = owner[d] /\ owner[c] # NoTask => c = d

\* The security task ends by caching a verdict.
VerdictCached ==
    \A c \in Chains :
        child[c].security \in {"paused", "cached", "done"} => security[owner[c]].present

\* The children belong to the dispatch, which the report comes after.
JoinBeforeReport ==
    \A c \in Chains :
        /\ step[c] \in {"unused", "main", "preprocess"} => child[c].security = "none"
        /\ child[c].security \in {"queued", "running", "paused", "cached"}
             => step[c] \in {"dispatch", "aborted"}
        /\ step[c] \in {"report", "complete"} => child[c].security = "done"

LoadedIsCached ==
    \A c \in Chains : Runs(c, "report") => loaded[c].security = security[owner[c]]

\* A result is that of a chain past its report.
ResultOfChain ==
    \A t \in Tasks : result[t].kind # "none" =>
        \E c \in Chains : /\ owner[c] = t
                          /\ step[c] \in {"complete", "callback", "done"}
                          /\ child[c].security = "done"

\* The clone is there from its preprocessing to the report.
CloneKept ==
    \A c \in Chains :
        /\ step[c] \in {"unused", "main", "preprocess"} => meta[c] = "none"
        /\ meta[c] = "full" /\ step[c] \in {"dispatch", "aborted"} => tree[owner[c]]

FlowInv ==
    OneChain /\ VerdictCached /\ JoinBeforeReport /\ LoadedIsCached /\ ResultOfChain /\ CloneKept

LEMMA FlowInvInit == Init => FlowInv
  BY ConstantDataType
     DEF Init, FlowInv, OneChain, VerdictCached, JoinBeforeReport, LoadedIsCached, ResultOfChain,
         CloneKept, NoChildren, Runs

\* What the owner of a working chain is.
LEMMA WorkingOwner ==
  ASSUME TypeOK, Owned
  PROVE  \A c \in Chains :
           step[c] # "unused" \/ child[c].security # "none" \/ child[c].migration # "none"
             => owner[c] \in Tasks
  BY OwnerOf

\* A chain past its report stays past it.
LEMMA ResultOfChainFrame ==
  ASSUME ResultOfChain, result' = result,
         \A c \in Chains :
            step[c] \in {"complete", "callback", "done"} /\ child[c].security = "done"
              => /\ owner'[c] = owner[c]
                 /\ step'[c] \in {"complete", "callback", "done"}
                 /\ child'[c].security = "done"
  PROVE  ResultOfChain'
  BY DEF ResultOfChain

LEMMA FlowInvApi ==
  ASSUME TypeOK, Owned, FlowInv, RedisUp, NoRedelivery,
         NEW t \in Tasks, Submit(t) \/ WritePending(t) \/ Redeliver(t)
  PROVE  FlowInv'
<1> USE DEF fixed, keys, FlowInv
<1>1. CASE Submit(t)
  <2>1. PICK c \in Chains : /\ step[c] = "unused"
                            /\ owner' = [owner EXCEPT ![c] = t]
                            /\ step' = [step EXCEPT ![c] = "main"]
    BY <1>1 DEF Submit
  <2>2. \A d \in Chains : owner[d] # t
    BY <1>1 DEF Submit
  <2>3. UNCHANGED <<live, child, meta, loaded, security, result, tree>>
    BY <1>1 DEF Submit
  <2>4. child[c].security = "none" /\ meta[c] = "none"
    BY <2>1 DEF JoinBeforeReport, CloneKept
  <2>5. OneChain'
    BY <2>1, <2>2 DEF OneChain, TypeOK
  <2>6. VerdictCached'
    BY <2>1, <2>3, <2>4 DEF VerdictCached, TypeOK
  <2>7. JoinBeforeReport'
    BY <2>1, <2>3, <2>4 DEF JoinBeforeReport, TypeOK
  <2>8. LoadedIsCached'
    BY <2>1, <2>3 DEF LoadedIsCached, Runs, TypeOK
  <2>9. ResultOfChain'
    BY <2>1, <2>3, ResultOfChainFrame DEF TypeOK
  <2>10. CloneKept'
    BY <2>1, <2>3, <2>4 DEF CloneKept, TypeOK
  <2>11. QED BY <2>5, <2>6, <2>7, <2>8, <2>9, <2>10
<1>2. CASE WritePending(t)
  BY <1>2 DEF WritePending, OneChain, VerdictCached, JoinBeforeReport, LoadedIsCached,
              ResultOfChain, CloneKept, Runs
<1>3. CASE Redeliver(t)
  BY <1>3 DEF Redeliver, NoRedelivery, TypeOK
<1>4. QED BY <1>1, <1>2, <1>3

LEMMA FlowInvChain ==
  ASSUME TypeOK, Owned, FlowInv, RedisUp, NEW c \in Chains, ChainRun(c)
  PROVE  FlowInv'
<1> USE DEF fixed, keys, FlowInv, At, Runs, Return, Take
<1>b. owner[c] \in Tasks /\ owner' = owner
  BY OwnerOf DEF ChainRun, MainAlreadyDone, Main, PreprocessStart, PreprocessEnd, Dispatch,
                 Join, JoinRaises, DispatchRaises, ReportStart, ReportCache, ReportEnd, ReportFail,
                 Callback
<1>a. OneChain'
  BY <1>b DEF OneChain
<1>1. CASE MainAlreadyDone(c)
  <2>1. PICK d \in Chains : owner[d] = owner[c] /\ step[d] \in {"complete", "callback", "done"}
    BY <1>b, <1>1 DEF MainAlreadyDone, ResultOfChain
  <2>2. d = c
    BY <1>b, <2>1, PipelineConstants DEF OneChain
  <2>3. QED BY <1>1, <2>1, <2>2 DEF MainAlreadyDone
<1>2. CASE Main(c)
  <2>1. /\ step[c] = "main" /\ ~live[c]
        /\ live' = [live EXCEPT ![c] = FALSE]
        /\ UNCHANGED <<child, meta, loaded, security, result>>
        /\ \/ step' = [step EXCEPT ![c] = "preprocess"] /\ UNCHANGED tree
           \/ step' = [step EXCEPT ![c] = "aborted"] /\ tree' = [tree EXCEPT ![owner[c]] = FALSE]
    BY <1>b, <1>2 DEF Main
  <2>2. VerdictCached'
    BY <1>b, <2>1 DEF VerdictCached, TypeOK
  <2>3. JoinBeforeReport'
    BY <1>b, <2>1 DEF JoinBeforeReport, TypeOK
  <2>4. LoadedIsCached'
    BY <1>b, <2>1 DEF LoadedIsCached, TypeOK
  <2>5. ResultOfChain'
    BY <1>b, <2>1, ResultOfChainFrame DEF TypeOK
  <2>6. CloneKept'
    <3>1. ASSUME NEW d \in Chains, step'[d] \in {"unused", "main", "preprocess"}
          PROVE  meta'[d] = "none"
      BY <1>b, <2>1, <3>1 DEF CloneKept, TypeOK
    <3>2. ASSUME NEW d \in Chains, meta'[d] = "full", step'[d] \in {"dispatch", "aborted"}
          PROVE  tree'[owner[d]]
      <4>1. CASE d = c
        BY <1>b, <2>1, <3>2, <4>1 DEF CloneKept, TypeOK
      <4>2. CASE d # c
        <5>1. meta[d] = "full" /\ step[d] \in {"dispatch", "aborted"}
          BY <2>1, <3>2, <4>2 DEF TypeOK
        <5>2. owner[d] # owner[c]
          BY <1>b, <4>2, PipelineConstants DEF OneChain
        <5>3. tree[owner[d]]
          BY <5>1 DEF CloneKept
        <5>4. owner[d] \in Tasks
          BY <5>1, WorkingOwner
        <5>5. tree'[owner[d]] = tree[owner[d]]
          BY <1>b, <2>1, <5>2, <5>4 DEF TypeOK
        <5>6. QED BY <5>3, <5>5
      <4>3. QED BY <4>1, <4>2
    <3>3. QED BY <1>b, <3>1, <3>2 DEF CloneKept
  <2>7. QED BY <1>a, <2>2, <2>3, <2>4, <2>5, <2>6
<1>3. CASE PreprocessStart(c)
  BY <1>b, <1>3 DEF PreprocessStart, OneChain, VerdictCached, JoinBeforeReport, LoadedIsCached,
                    ResultOfChain, CloneKept, TypeOK
<1>4. CASE PreprocessEnd(c)
  <2>1. /\ step[c] = "preprocess" /\ live[c]
        /\ step' = [step EXCEPT ![c] = "dispatch"]
        /\ live' = [live EXCEPT ![c] = FALSE]
        /\ \/ /\ meta' = [meta EXCEPT ![c] = "full"]
              /\ tree' = [tree EXCEPT ![owner[c]] = TRUE]
           \/ /\ meta' = [meta EXCEPT ![c] = "empty"]
              /\ \E there \in {tree[owner[c]], TRUE} : tree' = [tree EXCEPT ![owner[c]] = there]
        /\ UNCHANGED <<child, loaded, security, result>>
    BY <1>b, <1>4 DEF PreprocessEnd
  <2>2. VerdictCached'
    BY <1>b, <2>1 DEF VerdictCached, TypeOK
  <2>3. JoinBeforeReport'
    BY <1>b, <2>1 DEF JoinBeforeReport, TypeOK
  <2>4. LoadedIsCached'
    BY <1>b, <2>1 DEF LoadedIsCached, TypeOK
  <2>5. ResultOfChain'
    BY <1>b, <2>1, ResultOfChainFrame DEF TypeOK
  <2>6. CloneKept'
    <3>1. ASSUME NEW d \in Chains, step'[d] \in {"unused", "main", "preprocess"}
          PROVE  meta'[d] = "none"
      BY <1>b, <2>1, <3>1 DEF CloneKept, TypeOK
    <3>2. ASSUME NEW d \in Chains, meta'[d] = "full", step'[d] \in {"dispatch", "aborted"}
          PROVE  tree'[owner[d]]
      <4>1. CASE d = c
        BY <1>b, <2>1, <3>2, <4>1 DEF TypeOK
      <4>2. CASE d # c
        <5>1. meta[d] = "full" /\ step[d] \in {"dispatch", "aborted"}
          BY <2>1, <3>2, <4>2 DEF TypeOK
        <5>2. owner[d] # owner[c]
          BY <1>b, <4>2, PipelineConstants DEF OneChain
        <5>3. tree[owner[d]]
          BY <5>1 DEF CloneKept
        <5>4. owner[d] \in Tasks
          BY <5>1, WorkingOwner
        <5>5. tree'[owner[d]] = tree[owner[d]]
          BY <1>b, <2>1, <5>2, <5>4 DEF TypeOK
        <5>6. QED BY <5>3, <5>5
      <4>3. QED BY <4>1, <4>2
    <3>3. QED BY <1>b, <3>1, <3>2 DEF CloneKept
  <2>7. QED BY <1>a, <2>2, <2>3, <2>4, <2>5, <2>6
<1>5. CASE Dispatch(c)
  <2>1. /\ step[c] = "dispatch" /\ ~live[c]
        /\ child' = [child EXCEPT ![c] = [security |-> "queued", migration |-> "queued"]]
        /\ step' \in {step, [step EXCEPT ![c] = "aborted"]}
        /\ \A d \in Chains \ {c} : live'[d] = live[d]
        /\ UNCHANGED <<meta, loaded, security, result, tree>>
    BY <1>b, <1>5 DEF Dispatch, TypeOK
  <2>2. VerdictCached'
    BY <1>b, <2>1 DEF VerdictCached, TypeOK
  <2>3. JoinBeforeReport'
    BY <1>b, <2>1 DEF JoinBeforeReport, TypeOK
  <2>4. LoadedIsCached'
    BY <1>b, <2>1 DEF LoadedIsCached, TypeOK
  <2>5. ResultOfChain'
    BY <1>b, <2>1, ResultOfChainFrame DEF TypeOK
  <2>6. CloneKept'
    BY <1>b, <2>1, PipelineConstants DEF CloneKept, OneChain, TypeOK
  <2>7. QED BY <1>a, <2>2, <2>3, <2>4, <2>5, <2>6
<1>6. CASE Join(c)
  <2>1. /\ step[c] = "dispatch" /\ live[c] /\ child[c].security = "done"
        /\ step' = [step EXCEPT ![c] = "report"]
        /\ live' = [live EXCEPT ![c] = FALSE]
        /\ UNCHANGED <<child, meta, loaded, security, result, tree>>
    BY <1>b, <1>6 DEF Join, ChildrenDone
  <2>2. VerdictCached'
    BY <1>b, <2>1 DEF VerdictCached, TypeOK
  <2>3. JoinBeforeReport'
    BY <1>b, <2>1 DEF JoinBeforeReport, TypeOK
  <2>4. LoadedIsCached'
    BY <1>b, <2>1 DEF LoadedIsCached, TypeOK
  <2>5. ResultOfChain'
    BY <1>b, <2>1, ResultOfChainFrame DEF TypeOK
  <2>6. CloneKept'
    BY <1>b, <2>1, PipelineConstants DEF CloneKept, OneChain, TypeOK
  <2>7. QED BY <1>a, <2>2, <2>3, <2>4, <2>5, <2>6
<1>7. CASE JoinRaises(c)
  <2>1. /\ step[c] = "dispatch" /\ live[c]
        /\ step' = [step EXCEPT ![c] = "aborted"]
        /\ live' = [live EXCEPT ![c] = FALSE]
        /\ UNCHANGED <<child, meta, loaded, security, result, tree>>
    BY <1>b, <1>7 DEF JoinRaises
  <2>2. VerdictCached'
    BY <1>b, <2>1 DEF VerdictCached, TypeOK
  <2>3. JoinBeforeReport'
    BY <1>b, <2>1 DEF JoinBeforeReport, TypeOK
  <2>4. LoadedIsCached'
    BY <1>b, <2>1 DEF LoadedIsCached, TypeOK
  <2>5. ResultOfChain'
    BY <1>b, <2>1, ResultOfChainFrame DEF TypeOK
  <2>6. CloneKept'
    BY <1>b, <2>1, PipelineConstants DEF CloneKept, OneChain, TypeOK
  <2>7. QED BY <1>a, <2>2, <2>3, <2>4, <2>5, <2>6
<1>8. CASE ReportStart(c)
  BY <1>b, <1>8 DEF ReportStart, RedisUp, OneChain, VerdictCached, JoinBeforeReport,
                    LoadedIsCached, ResultOfChain, CloneKept, TypeOK
<1>9. CASE ReportCache(c)
  <2>1. PICK rep \in Report : result' = [result EXCEPT ![owner[c]] = rep]
    BY <1>9, RedisUp, ReportCacheFacts
  <2>2. QED BY <1>b, <1>9, <2>1
              DEF ReportCache, OneChain, VerdictCached, JoinBeforeReport, LoadedIsCached,
                  ResultOfChain, CloneKept, TypeOK
<1>10. CASE ReportEnd(c)
  <2>1. /\ step[c] = "complete" /\ live[c]
        /\ step' = [step EXCEPT ![c] = "callback"]
        /\ live' = [live EXCEPT ![c] = FALSE]
        /\ tree' = [tree EXCEPT ![owner[c]] = FALSE]
        /\ UNCHANGED <<child, meta, loaded, security, result>>
    BY <1>b, <1>10 DEF ReportEnd
  <2>2. VerdictCached'
    BY <1>b, <2>1 DEF VerdictCached, TypeOK
  <2>3. JoinBeforeReport'
    BY <1>b, <2>1 DEF JoinBeforeReport, TypeOK
  <2>4. LoadedIsCached'
    BY <1>b, <2>1 DEF LoadedIsCached, TypeOK
  <2>5. ResultOfChain'
    BY <1>b, <2>1, ResultOfChainFrame DEF TypeOK
  <2>6. CloneKept'
    BY <1>b, <2>1, PipelineConstants DEF CloneKept, OneChain, TypeOK
  <2>7. QED BY <1>a, <2>2, <2>3, <2>4, <2>5, <2>6
<1>11. CASE ReportFail(c)
  <2>1. /\ step[c] \in {"report", "complete"} /\ live[c]
        /\ step' = [step EXCEPT ![c] = "callback"]
        /\ live' = [live EXCEPT ![c] = FALSE]
        /\ tree' = [tree EXCEPT ![owner[c]] = FALSE]
        /\ UNCHANGED <<child, meta, loaded, security, result>>
    BY <1>b, <1>11 DEF ReportFail
  <2>2. VerdictCached'
    BY <1>b, <2>1 DEF VerdictCached, TypeOK
  <2>3. JoinBeforeReport'
    BY <1>b, <2>1 DEF JoinBeforeReport, TypeOK
  <2>4. LoadedIsCached'
    BY <1>b, <2>1 DEF LoadedIsCached, TypeOK
  <2>5. ResultOfChain'
    BY <1>b, <2>1, ResultOfChainFrame DEF TypeOK
  <2>6. CloneKept'
    BY <1>b, <2>1, PipelineConstants DEF CloneKept, OneChain, TypeOK
  <2>7. QED BY <1>a, <2>2, <2>3, <2>4, <2>5, <2>6
<1>12. CASE Callback(c)
  BY <1>b, <1>12 DEF Callback, OneChain, VerdictCached, JoinBeforeReport, LoadedIsCached,
                     ResultOfChain, CloneKept, TypeOK
<1>13. CASE DispatchRaises(c)
  <2>1. /\ step[c] = "dispatch" /\ ~live[c]
        /\ step' = [step EXCEPT ![c] = "aborted"]
        /\ live' = [live EXCEPT ![c] = FALSE]
        /\ child'[c].security \in {"none", "queued"}
        /\ \A d \in Chains \ {c} : child'[d] = child[d]
        /\ UNCHANGED <<meta, loaded, security, result, tree>>
    BY <1>b, <1>13 DEF DispatchRaises, TypeOK
  <2>2. VerdictCached'
    BY <1>b, <2>1 DEF VerdictCached
  <2>3. JoinBeforeReport'
    BY <1>b, <2>1 DEF JoinBeforeReport, TypeOK
  <2>4. LoadedIsCached'
    BY <1>b, <2>1 DEF LoadedIsCached, TypeOK
  <2>5. ResultOfChain'
    BY <1>b, <2>1, ResultOfChainFrame DEF TypeOK
  <2>6. CloneKept'
    BY <1>b, <2>1, PipelineConstants DEF CloneKept, OneChain, TypeOK
  <2>7. QED BY <1>a, <2>2, <2>3, <2>4, <2>5, <2>6
<1> QED BY <1>1, <1>2, <1>3, <1>4, <1>5, <1>6, <1>7, <1>8, <1>9, <1>10, <1>11, <1>12, <1>13
           DEF ChainRun

\* With Redis up, the security data changes in two actions, each of which caches a verdict while
\* the security task runs.
LEMMA SecurityWrites ==
  ASSUME TypeOK, Owned, RedisUp, [Next]_vars, security' # security
  PROVE  \E c \in Chains : \E data \in SecurityData :
           /\ data.present
           /\ owner[c] \in Tasks
           /\ child[c].security \in {"running", "paused", "cached"}
           /\ security' = [security EXCEPT ![owner[c]] = data]
           /\ child' \in {[child EXCEPT ![c].security = to] : to \in {"paused", "cached", "done"}}
           /\ UNCHANGED <<repository, owner, step, live, meta, loaded, result, tree>>
<1>1. ~(\E t \in Tasks : Submit(t) \/ WritePending(t) \/ Redeliver(t))
  BY DEF Submit, WritePending, Redeliver, keys
<1>2. \A c \in Chains : ~ChainRun(c) /\ ~MigrationRuns(c) /\ ~SecurityStart(c) /\ ~SecurityEnd(c)
  BY DEF ChainRun, MainAlreadyDone, Main, PreprocessStart, PreprocessEnd, Dispatch, Join,
         JoinRaises, DispatchRaises, ReportStart, ReportCache, ReportEnd, ReportFail, Callback,
         keys, MigrationRuns, MigrationSkip, MigrationStart, MigrationCache, MigrationFail,
         MigrationEnd, SecurityStart, SecurityEnd
<1>3. PICK c \in Chains : SecurityCache(c) \/ SecurityFail(c)
  BY <1>1, <1>2 DEF Next, vars, SecurityRuns
<1>4. owner[c] \in Tasks /\ child[c].security \in {"running", "paused", "cached"}
  BY <1>3, OwnerOf DEF SecurityCache, SecurityFail
<1>5. CASE SecurityCache(c)
  <2>1. PICK data \in ChainOutcomes(repository[owner[c]], meta[c]) :
           /\ Write(security, owner[c], data)
           /\ Advance(c, "security", IF data.conflict.paused THEN "paused" ELSE "cached")
    BY <1>5 DEF SecurityCache
  <2>2. data \in SecurityData /\ data.present
    BY <1>4, <2>1, RepositoryOf, ChainOutcomesType
  <2>3. security' = [security EXCEPT ![owner[c]] = data]
    BY <2>1 DEF Write, RedisUp
  <2>4. child' \in {[child EXCEPT ![c].security = to] : to \in {"paused", "cached", "done"}}
    BY <2>1 DEF Advance
  <2>5. QED BY <1>4, <1>5, <2>2, <2>3, <2>4 DEF SecurityCache, ChildUnchanged, fixed
<1>6. CASE SecurityFail(c)
  <2>1. security' = [security EXCEPT ![owner[c]] = ChainFailed]
    BY <1>6 DEF SecurityFail, Write, RedisUp
  <2>2. child' \in {[child EXCEPT ![c].security = to] : to \in {"paused", "cached", "done"}}
    BY <1>6 DEF SecurityFail, Advance
  <2>3. QED BY <1>4, <1>6, <2>1, <2>2, ConstantDataType DEF SecurityFail, ChildUnchanged, fixed
<1>7. QED BY <1>3, <1>5, <1>6

\* The steps of the children that cache no verdict.
LEMMA QuietChildren ==
  ASSUME TypeOK, Owned, VerdictCached, RedisUp,
         NEW c \in Chains, SecurityRuns(c) \/ MigrationRuns(c), security' = security
  PROVE  /\ UNCHANGED <<repository, owner, step, live, meta, loaded, result, tree>>
         /\ \A d \in Chains :
              \/ child'[d].security = child[d].security
              \/ child[d].security = "queued" /\ child'[d].security = "running"
              \/ /\ child[d].security \in {"running", "paused", "cached"}
                 /\ security[owner[d]].present
                 /\ child'[d].security \in {"paused", "cached", "done"}
<1> USE DEF ChildUnchanged, fixed, Advance, TypeOK, keys
<1>1. CASE SecurityStart(c)
  BY <1>1 DEF SecurityStart
<1>2. CASE SecurityCache(c)
  <2>1. PICK data \in ChainOutcomes(repository[owner[c]], meta[c]) :
           /\ Write(security, owner[c], data)
           /\ Advance(c, "security", IF data.conflict.paused THEN "paused" ELSE "cached")
    BY <1>2 DEF SecurityCache
  <2>2. owner[c] \in Tasks
    BY <1>2, OwnerOf DEF SecurityCache
  <2>3. data.present
    BY <2>1, <2>2, RepositoryOf, ChainOutcomesType
  <2>4. security[owner[c]].present
    BY <2>1, <2>2, <2>3 DEF Write, RedisUp
  <2>5. QED BY <1>2, <2>1, <2>4 DEF SecurityCache
<1>3. CASE SecurityFail(c)
  <2>1. security[owner[c]].present
    BY <1>3, OwnerOf, ConstantDataType DEF SecurityFail, Write, RedisUp
  <2>2. QED BY <1>3, <2>1 DEF SecurityFail
<1>4. CASE SecurityEnd(c)
  BY <1>4 DEF SecurityEnd, VerdictCached
<1>5. CASE MigrationRuns(c)
  <2>1. \E to \in {"running", "cached", "done"} : child' = [child EXCEPT ![c].migration = to]
    BY <1>5 DEF MigrationRuns, MigrationSkip, MigrationStart, MigrationCache, MigrationFail,
                MigrationEnd
  <2>2. \A d \in Chains : child'[d].security = child[d].security
    BY <2>1
  <2>3. UNCHANGED <<repository, owner, step, live, meta, loaded, result, tree>>
    BY <1>5 DEF MigrationRuns, MigrationSkip, MigrationStart, MigrationCache, MigrationFail,
                MigrationEnd
  <2>4. QED BY <2>2, <2>3
<1>6. QED BY <1>1, <1>2, <1>3, <1>4, <1>5 DEF SecurityRuns

LEMMA FlowInvChild ==
  ASSUME TypeOK, Owned, FlowInv, RedisUp, [Next]_vars,
         NEW c \in Chains, SecurityRuns(c) \/ MigrationRuns(c)
  PROVE  FlowInv'
<1> USE DEF FlowInv
<1>1. CASE security' = security
  <2>1. UNCHANGED <<owner, step, live, meta, loaded, result, tree>>
    BY <1>1, QuietChildren
  <2>2. OneChain' /\ CloneKept' /\ LoadedIsCached'
    BY <1>1, <2>1 DEF OneChain, CloneKept, LoadedIsCached, Runs
  <2>3. VerdictCached'
    BY <1>1, <2>1, QuietChildren DEF VerdictCached
  <2>4. JoinBeforeReport'
    BY <1>1, <2>1, QuietChildren DEF JoinBeforeReport
  <2>5. ResultOfChain'
    BY <1>1, <2>1, QuietChildren, ResultOfChainFrame
  <2>6. QED BY <2>2, <2>3, <2>4, <2>5
<1>2. CASE security' # security
  <2>1. PICK d \in Chains, data \in SecurityData :
           /\ data.present
           /\ owner[d] \in Tasks
           /\ child[d].security \in {"running", "paused", "cached"}
           /\ security' = [security EXCEPT ![owner[d]] = data]
           /\ child' \in {[child EXCEPT ![d].security = to] : to \in {"paused", "cached", "done"}}
           /\ UNCHANGED <<repository, owner, step, live, meta, loaded, result, tree>>
    BY <1>2, SecurityWrites
  <2>2. step[d] \in {"dispatch", "aborted"}
    BY <2>1 DEF JoinBeforeReport
  <2>3. /\ child'[d].security \in {"paused", "cached", "done"}
        /\ \A e \in Chains \ {d} : child'[e] = child[e]
    BY <2>1 DEF TypeOK
  <2>4. OneChain' /\ CloneKept'
    BY <2>1 DEF OneChain, CloneKept
  <2>5. VerdictCached'
    <3>1. security'[owner[d]].present
      BY <2>1 DEF TypeOK
    <3>2. ASSUME NEW e \in Chains \ {d}, child[e].security \in {"paused", "cached", "done"}
          PROVE  security'[owner[e]].present
      <4>1. owner[e] # owner[d]
        BY <2>1, PipelineConstants DEF OneChain
      <4>2. security'[owner[e]] = security[owner[e]]
        BY <2>1, <3>2, <4>1, WorkingOwner DEF TypeOK
      <4>3. QED BY <3>2, <4>2 DEF VerdictCached
    <3>3. QED BY <2>1, <2>3, <3>1, <3>2 DEF VerdictCached
  <2>6. JoinBeforeReport'
    BY <2>1, <2>2, <2>3 DEF JoinBeforeReport
  <2>7. LoadedIsCached'
    <3>1. ASSUME NEW e \in Chains, Runs(e, "report")
          PROVE  loaded[e].security = security'[owner[e]]
      <4>1. e # d
        BY <2>2, <3>1 DEF Runs
      <4>2. owner[e] # owner[d] /\ owner[e] \in Tasks
        BY <2>1, <3>1, <4>1, PipelineConstants, WorkingOwner DEF OneChain, Runs
      <4>3. security'[owner[e]] = security[owner[e]]
        BY <2>1, <4>2 DEF TypeOK
      <4>4. QED BY <3>1, <4>3 DEF LoadedIsCached
    <3>2. QED BY <2>1, <3>1 DEF LoadedIsCached, Runs
  <2>8. ResultOfChain'
    BY <2>1, <2>2, <2>3, ResultOfChainFrame
  <2>9. QED BY <2>4, <2>5, <2>6, <2>7, <2>8
<1>3. QED BY <1>1, <1>2

LEMMA FlowInvNext ==
  ASSUME RedisUp, NoRedelivery, TypeOK, Owned, FlowInv, [Next]_vars
  PROVE  FlowInv'
<1>1. CASE Next
  BY <1>1, FlowInvApi, FlowInvChain, FlowInvChild DEF Next
<1>2. CASE UNCHANGED vars
  BY <1>2 DEF vars, FlowInv, OneChain, VerdictCached, JoinBeforeReport, LoadedIsCached,
              ResultOfChain, CloneKept, Runs
<1>3. QED BY <1>1, <1>2

LEMMA FlowInvHolds ==
  ASSUME RedisUp, NoRedelivery
  PROVE  Spec => []FlowInv
<1>1. TypeOK /\ Owned /\ FlowInv /\ [Next]_vars => FlowInv'
  BY FlowInvNext
<1>2. QED BY <1>1, FlowInvInit, TypeCorrect, PTL DEF Spec

\* The report is made of a verdict that was reached: the join never lets report_aggregation_task
\* run on `{}' or on a verdict that still changes.
THEOREM ReportSeesSecurityHolds ==
  ASSUME RedisUp, NoRedelivery
  PROVE  Spec => []ReportSeesSecurity
<1>1. FlowInv => ReportSeesSecurity
  BY DEF FlowInv, ReportSeesSecurity, LoadedIsCached, JoinBeforeReport, VerdictCached, Runs
<1>2. QED BY <1>1, FlowInvHolds, PTL

\* Whatever fails, the agents scan the clone and not an empty directory.
THEOREM ScanReadsTreeHolds ==
  ASSUME RedisUp, NoRedelivery
  PROVE  Spec => []ScanReadsTree
<1>1. FlowInv => ScanReadsTree
  BY DEF FlowInv, ScanReadsTree, JoinBeforeReport, CloneKept
<1>2. QED BY <1>1, FlowInvHolds, PTL

-----------------------------------------------------------------------------
(* Refinement of AnalysisFlow.                                             *)

LEMMA FlowStarts == Init => Flow!FlowInit
  BY ConstantDataType DEF Init, Flow!FlowInit

LEMMA FlowSteps ==
  ASSUME RedisUp, TypeOK, Owned, FlowInv, [Next]_vars
  PROVE  [Flow!FlowNext]_Flow!flowVars
<1> DEFINE verdictOf(t) == IF security[t].present THEN {security[t].conflict} ELSE {}
           reportOf(t) == IF result[t].kind = "report" THEN {result[t].conflict} ELSE {}
<1>1. CASE security' # security
  <2>1. PICK c \in Chains, data \in SecurityData :
           /\ data.present
           /\ owner[c] \in Tasks
           /\ child[c].security \in {"running", "paused", "cached"}
           /\ security' = [security EXCEPT ![owner[c]] = data]
           /\ UNCHANGED result
    BY <1>1, SecurityWrites
  <2>2. result[owner[c]].kind = "none"
    <3>1. SUFFICES ASSUME result[owner[c]].kind # "none" PROVE FALSE
      OBVIOUS
    <3>2. PICK d \in Chains : owner[d] = owner[c] /\ child[d].security = "done"
      BY <2>1, <3>1 DEF FlowInv, ResultOfChain
    <3>3. d = c
      BY <2>1, <3>2, PipelineConstants DEF FlowInv, OneChain
    <3>4. QED BY <2>1, <3>2, <3>3
  <2>3. data.conflict \in ConflictDecision
    BY DEF SecurityData
  <2>4. \A t \in Tasks : verdictOf(t)' = IF t = owner[c] THEN {data.conflict} ELSE verdictOf(t)
    BY <2>1 DEF TypeOK
  <2>5. PICK t \in Tasks : t = owner[c]
    BY <2>1
  <2>6. Flow!Assess(t)
    <3> DEFINE verdicts == [u \in Tasks |-> verdictOf(u)]
               reports == [u \in Tasks |-> reportOf(u)]
    <3>1. reports[t] = {}
      BY <2>2, <2>5
    <3>2. verdicts' = [verdicts EXCEPT ![t] = {data.conflict}]
      <4>1. verdicts' = [u \in Tasks |-> verdictOf(u)']
        OBVIOUS
      <4> HIDE DEF verdictOf
      <4>2. QED BY <2>4, <2>5, <4>1
    <3>3. UNCHANGED reports
      BY <2>1
    <3>4. QED BY <2>3, <3>1, <3>2, <3>3 DEF Flow!Assess
  <2>7. QED BY <2>6 DEF Flow!FlowNext
<1>2. CASE security' = security /\ \E c \in Chains : ReportCache(c)
  <2>1. PICK c \in Chains : ReportCache(c)
    BY <1>2
  <2>2. PICK rep \in Report :
           /\ rep.kind = "report" => rep.conflict = loaded[c].security.conflict
           /\ result' = [result EXCEPT ![owner[c]] = rep]
    BY <2>1, ReportCacheFacts
  <2>3. owner[c] \in Tasks /\ loaded[c].security = security[owner[c]] /\ security[owner[c]].present
    BY <2>1, ReportCacheFacts
       DEF ReportCache, Runs, FlowInv, LoadedIsCached, JoinBeforeReport, VerdictCached
  <2>4. result[owner[c]].kind = "none"
    <3>1. SUFFICES ASSUME result[owner[c]].kind # "none" PROVE FALSE
      OBVIOUS
    <3>2. PICK d \in Chains : owner[d] = owner[c] /\ step[d] \in {"complete", "callback", "done"}
      BY <2>3, <3>1 DEF FlowInv, ResultOfChain
    <3>3. d = c
      BY <2>3, <3>2, PipelineConstants DEF FlowInv, OneChain
    <3>4. QED BY <2>1, <3>2, <3>3 DEF ReportCache, Runs
  <2>5. CASE rep.kind = "report"
    <3>1. \A t \in Tasks : reportOf(t)' = IF t = owner[c] THEN verdictOf(t) ELSE reportOf(t)
      BY <2>2, <2>3, <2>5 DEF TypeOK
    <3>2. PICK t \in Tasks : t = owner[c]
      BY <2>3
    <3>3. Flow!Publish(t)
      BY <1>2, <2>3, <3>1, <3>2 DEF Flow!Publish
    <3>4. QED BY <3>3 DEF Flow!FlowNext
  <2>6. CASE rep.kind # "report"
    <3>1. \A t \in Tasks : reportOf(t)' = reportOf(t)
      BY <2>2, <2>3, <2>4, <2>6 DEF TypeOK
    <3>2. QED BY <1>2, <3>1 DEF Flow!flowVars
  <2>7. QED BY <2>5, <2>6
<1>3. CASE security' = security /\ \A c \in Chains : ~ReportCache(c)
  BY <1>3, ResultFrame DEF Flow!flowVars
<1>4. QED BY <1>1, <1>2, <1>3

\* With one delivery of each message and Redis up, the tasks implement AnalysisFlow for any number
\* of tasks and worker slots and any other failures: the published report repeats the verdict of
\* the security stage, which no longer changes.
THEOREM ImplementsFlowHolds ==
  ASSUME RedisUp, NoRedelivery
  PROVE  Spec => ImplementsFlow
<1>1. TypeOK /\ Owned /\ FlowInv /\ [Next]_vars => [Flow!FlowNext]_Flow!flowVars
  BY FlowSteps
<1>2. QED
  BY <1>1, FlowStarts, FlowInvHolds, TypeCorrect, PTL DEF Spec, ImplementsFlow, Flow!FlowSpec
-----------------------------------------------------------------------------
(* The status moves forward.                                               *)

\* How far a chain has brought the status of its task.
Reach(c) ==
    CASE step[c] \in {"unused", "main"}        -> 0
      [] step[c] = "preprocess" /\ ~live[c]    -> 2
      [] step[c] = "preprocess" /\ live[c]     -> 3
      [] step[c] \in {"dispatch", "aborted"}   -> 4
      [] step[c] = "report" /\ ~live[c]        -> 4
      [] step[c] = "report" /\ live[c]         -> 5
      [] step[c] = "complete"                  -> 5
      [] OTHER                                 -> 6

\* Children work between the dispatch and the report only.
ChildrenWithin ==
    \A c \in Chains :
        \/ child[c].security \in {"none", "done"} /\ child[c].migration \in {"none", "done"}
        \/ step[c] \in {"dispatch", "aborted"}

StatusWithinReach ==
    \A t \in Tasks : \/ status[t] = "none"
                     \/ \E c \in Chains : owner[c] = t /\ Rank(status[t]) <= Reach(c)

ForwardInv == OneChain /\ pending = {} /\ ChildrenWithin /\ StatusWithinReach

\* One chain moves on, and if it writes a status, one that belongs between where it was and where
\* it is then.
Moves(c) ==
    /\ owner[c] \in Tasks
    /\ UNCHANGED <<owner, pending>>
    /\ \A d \in Chains \ {c} : Reach(d)' = Reach(d)
    /\ Reach(c) <= Reach(c)'
    /\ \/ status' = status
       \/ \E s \in Status : /\ status' = [status EXCEPT ![owner[c]] = s]
                            /\ Reach(c) <= Rank(s)
                            /\ Rank(s) <= Reach(c)'

LEMMA RankType == \A s \in Status : Rank(s) \in 0 .. 6
  BY DEF Rank, Status

LEMMA RankOfStatus ==
  /\ Rank("none") = 0 /\ Rank("running") = 2 /\ Rank("running:preprocess") = 3
  /\ \A s \in {"running:security", "running:security_done", "paused:human_review",
               "running:migration", "running:migration_done"} : Rank(s) = 4
  /\ Rank("running:report") = 5 /\ Rank("completed") = 6
  BY DEF Rank

\* The steps of the chain, each within its reach.
LEMMA ChainMoves ==
  ASSUME TypeOK, Owned, ForwardInv, NEW c \in Chains, ChainRun(c)
  PROVE  Moves(c) /\ ChildrenWithin'
<1> USE RankOfStatus
        DEF TypeOK, fixed, keys, Return, Take, At, Runs, SetStatus, Write, Moves, Reach, ForwardInv,
            ChildrenWithin
<1>a. owner[c] \in Tasks /\ UNCHANGED <<owner, pending>>
  BY OwnerOf DEF ChainRun, MainAlreadyDone, Main, PreprocessStart, PreprocessEnd, Dispatch,
                 Join, JoinRaises, DispatchRaises, ReportStart, ReportCache, ReportEnd, ReportFail,
                 Callback
<1>1. CASE MainAlreadyDone(c)
  BY <1>a, <1>1 DEF MainAlreadyDone
<1>2. CASE Main(c)
  <2>1. step[c] = "main" /\ Reach(c) = 0
    BY <1>2 DEF Main
  <2>2. /\ \A d \in Chains \ {c} : step'[d] = step[d] /\ live'[d] = live[d]
        /\ step'[c] \in {"preprocess", "aborted"} /\ ~live'[c]
        /\ child' = child
    BY <1>2 DEF Main
  <2>3. Reach(c)' \in {2, 4} /\ \A d \in Chains \ {c} : Reach(d)' = Reach(d)
    BY <2>2
  <2>4. status' = status \/ status' = [status EXCEPT ![owner[c]] = "running"]
    BY <1>2 DEF Main
  <2>5. "running" \in Status
    BY DEF Status
  <2>6. Moves(c)
    BY <1>a, <2>1, <2>3, <2>4, <2>5
  <2>7. ChildrenWithin'
    BY <2>1, <2>2
  <2>8. QED BY <2>6, <2>7
<1>3. CASE PreprocessStart(c)
  BY <1>a, <1>3 DEF PreprocessStart, Status
<1>4. CASE PreprocessEnd(c)
  BY <1>a, <1>4 DEF PreprocessEnd
<1>5. CASE Dispatch(c)
  BY <1>a, <1>5 DEF Dispatch
<1>6. CASE Join(c)
  BY <1>a, <1>6 DEF Join, ChildrenDone
<1>7. CASE JoinRaises(c)
  BY <1>a, <1>7 DEF JoinRaises
<1>8. CASE ReportStart(c)
  BY <1>a, <1>8 DEF ReportStart, Status
<1>9. CASE ReportCache(c)
  BY <1>a, <1>9 DEF ReportCache
<1>10. CASE ReportEnd(c)
  BY <1>a, <1>10 DEF ReportEnd, Status
<1>11. CASE ReportFail(c)
  BY <1>a, <1>11 DEF ReportFail
<1>12. CASE Callback(c)
  BY <1>a, <1>12 DEF Callback
<1>13. CASE DispatchRaises(c)
  BY <1>a, <1>13 DEF DispatchRaises
<1> QED BY <1>1, <1>2, <1>3, <1>4, <1>5, <1>6, <1>7, <1>8, <1>9, <1>10, <1>11, <1>12, <1>13
           DEF ChainRun

LEMMA ChildMoves ==
  ASSUME TypeOK, Owned, ForwardInv, NEW c \in Chains, SecurityRuns(c) \/ MigrationRuns(c)
  PROVE  Moves(c) /\ ChildrenWithin'
<1> USE DEF SecurityRuns, MigrationRuns, SecurityStart, SecurityCache, SecurityFail, SecurityEnd,
            MigrationSkip, MigrationStart, MigrationCache, MigrationFail, MigrationEnd
<1> DEFINE Marks == {"running:security", "running:security_done", "paused:human_review",
                     "running:migration", "running:migration_done"}
<1>1. UNCHANGED <<owner, step, live, pending>>
  BY DEF ChildUnchanged
<1>2. child[c].security \notin {"none", "done"} \/ child[c].migration \notin {"none", "done"}
  OBVIOUS
<1>3. owner[c] \in Tasks /\ step[c] \in {"dispatch", "aborted"}
  BY <1>2, OwnerOf DEF ForwardInv, ChildrenWithin
<1>4. status' = status \/ \E s \in Marks : status' = [status EXCEPT ![owner[c]] = s]
  BY DEF SetStatus, Write, keys
<1>5. \A d \in Chains \ {c} : child'[d] = child[d]
  BY DEF Advance, TypeOK
<1>6. \A d \in Chains : Reach(d)' = Reach(d)
  BY <1>1 DEF Reach
<1>7. Reach(c) = 4 /\ \A s \in Marks : s \in Status /\ Rank(s) = 4
  BY <1>3, RankOfStatus DEF Reach, Status
<1>8. Moves(c)
  BY <1>1, <1>3, <1>4, <1>6, <1>7 DEF Moves
<1>9. ChildrenWithin'
  BY <1>1, <1>3, <1>5 DEF ForwardInv, ChildrenWithin
<1>10. QED BY <1>8, <1>9

\* A status written within reach is no step back, and stays within reach.
LEMMA MovesForward ==
  ASSUME TypeOK, TypeOK', ForwardInv, NEW c \in Chains, Moves(c)
  PROVE  StatusWithinReach' /\ \A t \in Tasks : Rank(status[t]) <= Rank(status'[t])
<1>1. \A d \in Chains : Reach(d) \in 0 .. 6 /\ Reach(d)' \in 0 .. 6 /\ Reach(d) <= Reach(d)'
  <2>1. \A d \in Chains : Reach(d) \in 0 .. 6 /\ Reach(d)' \in 0 .. 6
    BY DEF Reach
  <2>2. \A d \in Chains : Reach(d) <= Reach(d)'
    BY <2>1 DEF Moves
  <2>3. QED BY <2>1, <2>2
<1>2. \A t \in Tasks : Rank(status[t]) \in 0 .. 6 /\ Rank(status'[t]) \in 0 .. 6
  BY RankType DEF TypeOK
<1>3. \A t \in Tasks \ {owner[c]} : status'[t] = status[t]
  BY DEF Moves, TypeOK
<1>4. ASSUME NEW t \in Tasks, t # owner[c] \/ status' = status
      PROVE  /\ Rank(status[t]) <= Rank(status'[t])
             /\ \/ status'[t] = "none"
                \/ \E d \in Chains : owner'[d] = t /\ Rank(status'[t]) <= Reach(d)'
  <2>1. status'[t] = status[t]
    BY <1>3, <1>4
  <2>2. CASE status[t] = "none"
    BY <1>2, <2>1, <2>2
  <2>3. CASE status[t] # "none"
    <3>1. PICK d \in Chains : owner[d] = t /\ Rank(status[t]) <= Reach(d)
      BY <2>3 DEF ForwardInv, StatusWithinReach
    <3>2. Rank(status[t]) <= Reach(d)'
      BY <1>1, <1>2, <3>1
    <3>3. owner'[d] = t
      BY <3>1 DEF Moves
    <3>4. QED BY <1>2, <2>1, <3>2, <3>3
  <2>4. QED BY <2>2, <2>3
<1>5. ASSUME status' # status
      PROVE  /\ Rank(status[owner[c]]) <= Rank(status'[owner[c]])
             /\ owner'[c] = owner[c] /\ Rank(status'[owner[c]]) <= Reach(c)'
  <2>1. owner[c] \in Tasks /\ owner' = owner
    BY DEF Moves
  <2>2. PICK s \in Status : /\ status' = [status EXCEPT ![owner[c]] = s]
                            /\ Reach(c) <= Rank(s)
                            /\ Rank(s) <= Reach(c)'
    BY <1>5 DEF Moves
  <2>3. status'[owner[c]] = s
    BY <2>1, <2>2 DEF TypeOK
  <2>4. Rank(status[owner[c]]) <= Reach(c)
    <3>1. CASE status[owner[c]] = "none"
      BY <1>1, <3>1, RankOfStatus
    <3>2. CASE status[owner[c]] # "none"
      <4>1. PICK d \in Chains : owner[d] = owner[c] /\ Rank(status[owner[c]]) <= Reach(d)
        BY <2>1, <3>2 DEF ForwardInv, StatusWithinReach
      <4>2. d = c
        BY <2>1, <4>1, PipelineConstants DEF ForwardInv, OneChain
      <4>3. QED BY <4>1, <4>2
    <3>3. QED BY <3>1, <3>2
  <2>5. QED BY <1>1, <1>2, <2>1, <2>2, <2>3, <2>4, RankType
<1>6. QED BY <1>4, <1>5 DEF StatusWithinReach, Moves

LEMMA ForwardApi ==
  ASSUME NoRedelivery, ~ByWebhook, TypeOK, ForwardInv,
         NEW t \in Tasks, Submit(t) \/ WritePending(t) \/ Redeliver(t)
  PROVE  ForwardInv' /\ status' = status
<1>1. Submit(t)
  BY DEF WritePending, Redeliver, ForwardInv, NoRedelivery, TypeOK
<1>2. PICK c \in Chains : /\ step[c] = "unused"
                          /\ owner' = [owner EXCEPT ![c] = t]
                          /\ step' = [step EXCEPT ![c] = "main"]
  BY <1>1 DEF Submit
<1>3. (\A d \in Chains : owner[d] # t) /\ UNCHANGED <<live, child, pending, status>>
  BY <1>1 DEF Submit
<1>4. OneChain'
  BY <1>2, <1>3 DEF ForwardInv, OneChain, TypeOK
<1>5. ChildrenWithin'
  BY <1>2, <1>3 DEF ForwardInv, ChildrenWithin, TypeOK
<1>6. \A d \in Chains : Reach(d)' = Reach(d)
  BY <1>2, <1>3 DEF Reach, TypeOK
<1>7. StatusWithinReach'
  <2>1. ASSUME NEW u \in Tasks, status'[u] # "none"
        PROVE  \E d \in Chains : owner'[d] = u /\ Rank(status'[u]) <= Reach(d)'
    <3>1. PICK d \in Chains : owner[d] = u /\ Rank(status[u]) <= Reach(d)
      BY <1>3, <2>1 DEF ForwardInv, StatusWithinReach
    <3>2. CASE d # c
      BY <1>2, <1>3, <1>6, <3>1, <3>2 DEF TypeOK
    <3>3. CASE d = c
      <4>1. Rank(status[u]) <= 0
        BY <1>2, <3>1, <3>3 DEF Reach
      <4>2. status[u] \in Status /\ status[u] # "none"
        BY <1>3, <2>1 DEF TypeOK
      <4>3. QED BY <4>1, <4>2 DEF Rank, Status
    <3>4. QED BY <3>2, <3>3
  <2>2. QED BY <2>1 DEF StatusWithinReach
<1>8. QED BY <1>3, <1>4, <1>5, <1>7 DEF ForwardInv

LEMMA ForwardStep ==
  ASSUME NoRedelivery, ~ByWebhook, TypeOK, TypeOK', Owned, ForwardInv, [Next]_vars
  PROVE  ForwardInv' /\ \A t \in Tasks : Rank(status[t]) <= Rank(status'[t])
<1>1. \A t \in Tasks : Rank(status[t]) \in 0 .. 6
  BY RankType DEF TypeOK
<1>2. CASE \E t \in Tasks : Submit(t) \/ WritePending(t) \/ Redeliver(t)
  BY <1>1, <1>2, ForwardApi
<1>3. CASE \E c \in Chains : ChainRun(c) \/ SecurityRuns(c) \/ MigrationRuns(c)
  <2>1. PICK c \in Chains : Moves(c) /\ ChildrenWithin'
    BY <1>3, ChainMoves, ChildMoves
  <2>2. OneChain' /\ pending' = {}
    BY <2>1 DEF Moves, ForwardInv, OneChain
  <2>3. QED BY <2>1, <2>2, MovesForward DEF ForwardInv
<1>4. CASE UNCHANGED vars
  <2>1. ForwardInv'
    BY <1>4 DEF vars, ForwardInv, OneChain, ChildrenWithin, StatusWithinReach, Reach
  <2>2. QED BY <1>1, <1>4, <2>1 DEF vars
<1>5. QED BY <1>2, <1>3, <1>4 DEF Next

\* Without redeliveries, the status of an analysis submitted through the REST API only moves
\* forward, whatever fails.
THEOREM StatusForwardHolds ==
  ASSUME NoRedelivery, ~ByWebhook
  PROVE  Spec => StatusForward
<1>1. Init => ForwardInv
  BY DEF Init, ForwardInv, OneChain, ChildrenWithin, StatusWithinReach, NoChildren
<1>2. TypeOK /\ TypeOK' /\ Owned /\ ForwardInv /\ [Next]_vars
        => ForwardInv' /\ [\A t \in Tasks : Rank(status[t]) <= Rank(status'[t])]_status
  BY ForwardStep
<1>3. QED BY <1>1, <1>2, TypeCorrect, PTL DEF Spec, StatusForward

-----------------------------------------------------------------------------
(* The worker's slots.                                                     *)

\* A worker of Slots processes never runs more tasks than that.
SlotsHeld == IsFiniteSet(Busy) /\ Cardinality(Busy) <= Slots

\* Whoever holds a slot, by chain and by task.
Holds(c, k) ==
    IF k = "chain" THEN live[c] ELSE child[c][k] \in {"running", "paused", "cached"}

LEMMA BusyIs ==
  ASSUME TypeOK
  PROVE  Busy = {b \in Chains \X {"chain", "security", "migration"} : Holds(b[1], b[2])}
  BY DEF Busy, Holds, TypeOK

\* Nobody gets a slot.
LEMMA NoNewHolder ==
  ASSUME TypeOK, TypeOK',
         \A c \in Chains : \A k \in {"chain", "security", "migration"} :
            Holds(c, k)' => Holds(c, k)
  PROVE  Busy' \subseteq Busy
<1>1. Busy' = {b \in Chains \X {"chain", "security", "migration"} : Holds(b[1], b[2])'}
  BY BusyIs DEF Busy, Holds, TypeOK
<1> QED BY <1>1, BusyIs

\* One task gets one.
LEMMA OneNewHolder ==
  ASSUME TypeOK, TypeOK', NEW d \in Chains, NEW j \in {"chain", "security", "migration"},
         \A c \in Chains : \A k \in {"chain", "security", "migration"} :
            Holds(c, k)' => Holds(c, k) \/ (c = d /\ k = j)
  PROVE  Busy' \subseteq Busy \union {<<d, j>>}
<1>1. Busy' = {b \in Chains \X {"chain", "security", "migration"} : Holds(b[1], b[2])'}
  BY BusyIs DEF Busy, Holds, TypeOK
<1> QED BY <1>1, BusyIs

LEMMA SlotsOfChain ==
  ASSUME TypeOK, TypeOK', NEW c \in Chains, ChainRun(c)
  PROVE  Busy' \subseteq Busy \/ (SlotFree /\ Busy' \subseteq Busy \union {<<c, "chain">>})
<1> USE DEF Return, Take, At, Runs
<1>1. CASE Dispatch(c)
  <2>1. SlotFree /\ child' = [child EXCEPT ![c] = [security |-> "queued", migration |-> "queued"]]
    BY <1>1 DEF Dispatch
  <2>2. \A d \in Chains : d # c => live'[d] = live[d] /\ child'[d] = child[d]
    BY <1>1 DEF Dispatch, TypeOK
  <2>3. child'[c].security = "queued" /\ child'[c].migration = "queued"
    BY <2>1 DEF TypeOK
  <2> QED BY <2>1, <2>2, <2>3, OneNewHolder DEF Holds
<1>2. CASE PreprocessStart(c) \/ ReportStart(c)
  <2>1. SlotFree /\ child' = child /\ \A d \in Chains : d # c => live'[d] = live[d]
    BY <1>2 DEF PreprocessStart, ReportStart, TypeOK
  <2> QED BY <2>1, OneNewHolder DEF Holds
<1>3. CASE DispatchRaises(c)
  <2>1. \A d \in Chains : d # c => live'[d] = live[d] /\ child'[d] = child[d]
    BY <1>3 DEF DispatchRaises, TypeOK
  <2>2. /\ child'[c].security \in {"none", "queued"} /\ child'[c].migration = "none"
        /\ ~live'[c]
    BY <1>3 DEF DispatchRaises, TypeOK
  <2> QED BY <2>1, <2>2, NoNewHolder DEF Holds
<1>4. CASE ~(Dispatch(c) \/ DispatchRaises(c) \/ PreprocessStart(c) \/ ReportStart(c))
  <2>1. child' = child /\ \A d \in Chains : live'[d] => live[d]
    BY <1>4 DEF ChainRun, MainAlreadyDone, Main, PreprocessEnd, Join, JoinRaises, ReportCache,
                ReportEnd, ReportFail, Callback, TypeOK
  <2> QED BY <2>1, NoNewHolder DEF Holds
<1> QED BY <1>1, <1>2, <1>3, <1>4

LEMMA SlotsOfChild ==
  ASSUME TypeOK, TypeOK', NEW c \in Chains, SecurityRuns(c) \/ MigrationRuns(c)
  PROVE  \/ Busy' \subseteq Busy
         \/ \E k \in {"security", "migration"} : SlotFree /\ Busy' \subseteq Busy \union {<<c, k>>}
<1> DEFINE held == {"running", "paused", "cached"}
<1>1. live' = live /\ \A d \in Chains : d # c => child'[d] = child[d]
  BY DEF SecurityRuns, MigrationRuns, SecurityStart, SecurityCache, SecurityFail, SecurityEnd,
         MigrationSkip, MigrationStart, MigrationCache, MigrationFail, MigrationEnd, Advance,
         ChildUnchanged, TypeOK
<1>2. CASE SecurityStart(c)
  <2>1. SlotFree /\ child'[c].migration = child[c].migration
    BY <1>2 DEF SecurityStart, Advance, TypeOK
  <2> QED BY <1>1, <2>1, OneNewHolder DEF Holds
<1>3. CASE MigrationStart(c)
  <2>1. SlotFree /\ child'[c].security = child[c].security
    BY <1>3 DEF MigrationStart, Advance, TypeOK
  <2> QED BY <1>1, <2>1, OneNewHolder DEF Holds
<1>4. CASE ~SecurityStart(c) /\ ~MigrationStart(c)
  <2>1. /\ child'[c].security \in held => child[c].security \in held
        /\ child'[c].migration \in held => child[c].migration \in held
    BY <1>4 DEF SecurityRuns, MigrationRuns, SecurityCache, SecurityFail, SecurityEnd,
                MigrationSkip, MigrationCache, MigrationFail, MigrationEnd, Advance, TypeOK
  <2> QED BY <1>1, <2>1, NoNewHolder DEF Holds
<1> QED BY <1>2, <1>3, <1>4

LEMMA SlotsStep ==
  ASSUME TypeOK, TypeOK', SlotsHeld, [Next]_vars
  PROVE  SlotsHeld'
<1>1. Busy' \subseteq Busy \/ \E x : SlotFree /\ Busy' \subseteq Busy \union {x}
  <2>1. CASE \E t \in Tasks : Submit(t) \/ WritePending(t) \/ Redeliver(t)
    BY <2>1 DEF Submit, WritePending, Redeliver, Busy
  <2>2. CASE \E c \in Chains : ChainRun(c)
    BY <2>2, SlotsOfChain
  <2>3. CASE \E c \in Chains : SecurityRuns(c) \/ MigrationRuns(c)
    BY <2>3, SlotsOfChild
  <2>4. CASE UNCHANGED vars
    BY <2>4 DEF vars, Busy
  <2> QED BY <2>1, <2>2, <2>3, <2>4 DEF Next
<1>2. CASE Busy' \subseteq Busy
  <2>1. IsFiniteSet(Busy') /\ Cardinality(Busy') <= Cardinality(Busy)
    BY <1>2, FS_Subset DEF SlotsHeld
  <2>2. Cardinality(Busy) \in Nat /\ Cardinality(Busy') \in Nat /\ Slots \in Nat
    BY <2>1, FS_CardinalityType, PipelineConstants DEF SlotsHeld
  <2>3. Cardinality(Busy') <= Slots
    BY <2>1, <2>2 DEF SlotsHeld
  <2> QED BY <2>1, <2>3 DEF SlotsHeld
<1>3. ASSUME NEW x, SlotFree, Busy' \subseteq Busy \union {x}
      PROVE  SlotsHeld'
  <2>0. IsFiniteSet(Busy) /\ Cardinality(Busy) \in Nat
    BY FS_CardinalityType DEF SlotsHeld
  <2>1. /\ IsFiniteSet(Busy \union {x})
        /\ Cardinality(Busy \union {x}) \in {Cardinality(Busy), Cardinality(Busy) + 1}
    BY <2>0, FS_AddElement
  <2>2. IsFiniteSet(Busy') /\ Cardinality(Busy') <= Cardinality(Busy \union {x})
    BY <1>3, <2>1, FS_Subset
  <2>3. Cardinality(Busy) \in Nat /\ Cardinality(Busy') \in Nat
        /\ Cardinality(Busy \union {x}) \in Nat
    BY <2>1, <2>2, FS_CardinalityType DEF SlotsHeld
  <2>4. Cardinality(Busy) < Slots /\ Slots \in Nat
    BY <1>3, PipelineConstants DEF SlotFree
  <2>5. Cardinality(Busy') <= Slots
    BY <2>1, <2>2, <2>3, <2>4
  <2> QED BY <2>2, <2>5 DEF SlotsHeld
<1> QED BY <1>1, <1>2, <1>3

\* The tasks under way never hold more slots than the worker has, however many analyses are queued
\* and whatever fails: every task that starts finds a slot, and gives it back when it ends.
THEOREM SlotsHeldHolds == Spec => []SlotsHeld
<1>1. Init => SlotsHeld
  <2> SUFFICES ASSUME Init PROVE SlotsHeld
    OBVIOUS
  <2>1. Busy = {}
    BY DEF Init, Busy, NoChildren
  <2> QED BY <2>1, FS_EmptySet, PipelineConstants DEF SlotsHeld
<1>2. TypeOK /\ TypeOK' /\ SlotsHeld /\ [Next]_vars => SlotsHeld'
  BY SlotsStep
<1> QED BY <1>1, <1>2, TypeOKHolds, PTL DEF Spec

-----------------------------------------------------------------------------
(* What an analysis leaves when it ends, and that it gets there: the safety *)
(* half of EveryScanReported and TreeIsRemoved.                             *)

Finished(c) == step[c] \in {"callback", "done"}

\* An analysis that gets as far as its callback has a result, unless writing or making it failed.
FinishedIsReported == \A c \in Chains : Finished(c) => result[owner[c]].kind # "none"

\* An analysis that gets as far as its callback has removed its clone.
FinishedIsCleaned == \A c \in Chains : Finished(c) => ~tree[owner[c]]

\* The tasks of a chain change nothing of another chain.
LEMMA ChainFrame ==
  ASSUME TypeOK, Owned, NEW c \in Chains, ChainRun(c)
  PROVE  /\ owner[c] \in Tasks /\ owner' = owner
         /\ step'[c] # "unused"
         /\ \A d \in Chains \ {c} : step'[d] = step[d] /\ live'[d] = live[d] /\ child'[d] = child[d]
<1> USE DEF Return, Take, At, Runs, TypeOK, fixed, keys
<1>1. owner[c] \in Tasks /\ owner' = owner
  BY OwnerOf DEF ChainRun, MainAlreadyDone, Main, PreprocessStart, PreprocessEnd, Dispatch,
                 Join, JoinRaises, DispatchRaises, ReportStart, ReportCache, ReportEnd, ReportFail,
                 Callback
<1>2. step'[c] # "unused"
  BY DEF ChainRun, MainAlreadyDone, Main, PreprocessStart, PreprocessEnd, Dispatch,
         Join, JoinRaises, DispatchRaises, ReportStart, ReportCache, ReportEnd, ReportFail, Callback
<1>3. \A d \in Chains \ {c} : step'[d] = step[d] /\ live'[d] = live[d] /\ child'[d] = child[d]
  BY DEF ChainRun, MainAlreadyDone, Main, PreprocessStart, PreprocessEnd, Dispatch,
         Join, JoinRaises, DispatchRaises, ReportStart, ReportCache, ReportEnd, ReportFail, Callback
<1> QED BY <1>1, <1>2, <1>3

\* The children change nothing of their chain, and nothing of another one.
LEMMA ChildFrame ==
  ASSUME TypeOK, Owned, NEW c \in Chains, SecurityRuns(c) \/ MigrationRuns(c)
  PROVE  /\ UNCHANGED <<owner, step, live, pending, tree, result>>
         /\ \A d \in Chains \ {c} : child'[d] = child[d]
  BY DEF SecurityRuns, MigrationRuns, SecurityStart, SecurityCache, SecurityFail, SecurityEnd,
         MigrationSkip, MigrationStart, MigrationCache, MigrationFail, MigrationEnd, Advance,
         ChildUnchanged, TypeOK, keys

\* Submissions and redeliveries put a chain to use.
LEMMA ApiFrame ==
  ASSUME TypeOK, NEW t \in Tasks, Submit(t) \/ Redeliver(t)
  PROVE  /\ UNCHANGED <<live, child, result, tree>>
         /\ \E c \in Chains : /\ step[c] = "unused"
                              /\ owner' = [owner EXCEPT ![c] = t]
                              /\ step' = [step EXCEPT ![c] = "main"]
  BY DEF Submit, Redeliver, fixed, keys

\* From its caching on, the report of a chain is there.
Reported == \A c \in Chains : step[c] = "complete" \/ Finished(c) => result[owner[c]].kind # "none"

\* Whatever the agents, the clone, the chain or the broker do and however often messages are
\* delivered, a chain that gets to its callback leaves a result, if reports do not fail and Redis
\* answers: no other chain of the task takes the result away again.
THEOREM FinishedIsReportedHolds ==
  ASSUME RedisUp, "report" \notin Failures
  PROVE  Spec => []FinishedIsReported
<1>1. Init => Reported
  BY DEF Init, Reported, Finished
<1>2. TypeOK /\ Owned /\ Reported /\ [Next]_vars => Reported'
  <2> SUFFICES ASSUME TypeOK, Owned, Reported, [Next]_vars,
                      NEW c \in Chains, (step[c] = "complete" \/ Finished(c))'
               PROVE  result'[owner'[c]].kind # "none"
    BY DEF Reported, Finished
  <2>1. CASE ReportCache(c)
    <3>1. PICK rep \in Report :
             rep.kind # "none" /\ result' = [result EXCEPT ![owner[c]] = rep]
      BY <2>1, ReportCacheFacts
    <3>2. owner' = owner /\ owner[c] \in Tasks
      BY <2>1, ReportCacheFacts DEF ReportCache
    <3> QED BY <3>1, <3>2 DEF TypeOK
  <2>2. CASE ~ReportCache(c)
    <3>1. CASE MainAlreadyDone(c)
      <4>1. result[owner[c]].kind # "none" /\ owner' = owner /\ owner[c] \in Tasks
        BY <3>1, OwnerOf DEF MainAlreadyDone, At
      <4> QED BY <4>1, ResultStays
    <3>2. CASE ~MainAlreadyDone(c)
      <4>1. (step[c] = "complete" \/ Finished(c)) /\ owner'[c] = owner[c]
        <5>1. CASE \E t \in Tasks : Submit(t) \/ Redeliver(t)
          BY <5>1, ApiFrame DEF Finished, TypeOK
        <5>2. CASE \E t \in Tasks : WritePending(t)
          BY <5>2 DEF WritePending, Finished
        <5>3. CASE \E d \in Chains \ {c} : ChainRun(d)
          BY <5>3, ChainFrame DEF Finished
        <5>4. CASE ChainRun(c)
          <6>1. step[c] = "complete" \/ Finished(c)
            BY <2>2, <3>2, <5>4
               DEF ChainRun, Main, PreprocessStart, PreprocessEnd, Dispatch, Join, JoinRaises,
                   DispatchRaises, ReportStart, ReportEnd, ReportFail, Callback, Return, At, Runs,
                   Finished, TypeOK
          <6> QED BY <5>4, <6>1, ChainFrame
        <5>5. CASE \E d \in Chains : SecurityRuns(d) \/ MigrationRuns(d)
          BY <5>5, ChildFrame DEF Finished
        <5>6. CASE UNCHANGED vars
          BY <5>6 DEF vars, Finished
        <5> QED BY <5>1, <5>2, <5>3, <5>4, <5>5, <5>6 DEF Next
      <4>2. owner[c] \in Tasks /\ result[owner[c]].kind # "none"
        BY <4>1, OwnerOf DEF Reported, Finished
      <4> QED BY <4>1, <4>2, ResultStays
    <3> QED BY <3>1, <3>2
  <2> QED BY <2>1, <2>2
<1>3. Reported => FinishedIsReported
  BY DEF Reported, FinishedIsReported
<1> QED BY <1>1, <1>2, <1>3, TypeCorrect, PTL DEF Spec

\* A clone belongs to an analysis on its way.
CloneInv ==
    /\ OneChain
    /\ \A c \in Chains : step[c] = "unused" => owner[c] = NoTask
    /\ \A t \in Tasks : (\A c \in Chains : owner[c] # t) => ~tree[t]
    /\ \A c \in Chains : step[c] = "main" \/ Finished(c) => ~tree[owner[c]]

\* The clones a task of the chain creates or removes are its own.
LEMMA CloneOfChain ==
  ASSUME TypeOK, Owned, NEW c \in Chains, ChainRun(c)
  PROVE  /\ \A t \in Tasks : t # owner[c] => tree'[t] = tree[t]
         /\ (step[c] = "main" \/ Finished(c) => ~tree[owner[c]])
              => ((step[c] = "main" \/ Finished(c))' => ~tree'[owner[c]])
<1> USE DEF Return, Take, At, Runs, TypeOK, fixed, keys
<1>1. owner[c] \in Tasks
  BY ChainFrame
<1>2. \A t \in Tasks : t # owner[c] => tree'[t] = tree[t]
  BY <1>1 DEF ChainRun, MainAlreadyDone, Main, PreprocessStart, PreprocessEnd, Dispatch,
              Join, JoinRaises, DispatchRaises, ReportStart, ReportCache, ReportEnd, ReportFail,
              Callback
<1>3. ASSUME step[c] = "main" \/ Finished(c) => ~tree[owner[c]], (step[c] = "main" \/ Finished(c))'
      PROVE  ~tree'[owner[c]]
  BY <1>1, <1>3
     DEF ChainRun, MainAlreadyDone, Main, PreprocessStart, PreprocessEnd, Dispatch, Join,
         JoinRaises, DispatchRaises, ReportStart, ReportCache, ReportEnd, ReportFail, Callback,
         Finished
<1> QED BY <1>2, <1>3

LEMMA CloneStep ==
  ASSUME NoRedelivery, TypeOK, Owned, CloneInv, [Next]_vars
  PROVE  CloneInv'
<1>1. CASE \E t \in Tasks : Submit(t)
  <2>1. PICK t \in Tasks : Submit(t)
    BY <1>1
  <2>2. PICK c \in Chains : /\ step[c] = "unused"
                            /\ owner' = [owner EXCEPT ![c] = t]
                            /\ step' = [step EXCEPT ![c] = "main"]
    BY <2>1, ApiFrame
  <2>3. tree' = tree /\ \A d \in Chains : owner[d] # t
    BY <2>1 DEF Submit
  <2>4. OneChain'
    BY <2>2, <2>3 DEF CloneInv, OneChain, TypeOK
  <2>5. ASSUME NEW u \in Tasks, \A d \in Chains : owner'[d] # u PROVE ~tree'[u]
    <3>1. u # t
      BY <2>2, <2>5 DEF TypeOK
    <3>2. owner[c] = NoTask
      BY <2>2 DEF CloneInv
    <3>3. \A d \in Chains : owner[d] # u
      BY <2>2, <2>5, <3>2, PipelineConstants DEF TypeOK
    <3> QED BY <2>3, <3>3 DEF CloneInv
  <2>6. ASSUME NEW d \in Chains, (step[d] = "main" \/ Finished(d))' PROVE ~tree'[owner'[d]]
    <3>1. CASE d = c
      BY <2>2, <2>3, <3>1 DEF CloneInv, TypeOK
    <3>2. CASE d # c
      BY <2>2, <2>3, <2>6, <3>2 DEF CloneInv, Finished, TypeOK
    <3> QED BY <3>1, <3>2
  <2>7. \A d \in Chains : step'[d] = "unused" => owner'[d] = NoTask
    BY <2>2 DEF CloneInv, TypeOK
  <2> QED BY <2>4, <2>5, <2>6, <2>7 DEF CloneInv, Finished
<1>2. CASE \E t \in Tasks : WritePending(t)
  BY <1>2 DEF WritePending, CloneInv, OneChain, Finished
<1>3. CASE \E t \in Tasks : Redeliver(t)
  BY <1>3 DEF Redeliver, NoRedelivery, TypeOK
<1>4. CASE \E c \in Chains : ChainRun(c)
  <2>1. PICK c \in Chains : ChainRun(c)
    BY <1>4
  <2>2. /\ owner[c] \in Tasks /\ owner' = owner
        /\ step'[c] # "unused" /\ \A d \in Chains \ {c} : step'[d] = step[d]
    BY <2>1, ChainFrame
  <2>3. OneChain'
    BY <2>2 DEF CloneInv, OneChain
  <2>4. ASSUME NEW u \in Tasks, \A d \in Chains : owner'[d] # u PROVE ~tree'[u]
    BY <2>1, <2>2, <2>4, CloneOfChain DEF CloneInv
  <2>5. ASSUME NEW d \in Chains, (step[d] = "main" \/ Finished(d))' PROVE ~tree'[owner[d]]
    <3>1. CASE d = c
      BY <2>1, <2>5, <3>1, CloneOfChain DEF CloneInv
    <3>2. CASE d # c
      <4>1. step[d] = "main" \/ Finished(d)
        BY <2>2, <2>5, <3>2 DEF Finished
      <4>2. owner[d] \in Tasks
        BY <4>1, OwnerOf DEF Finished
      <4>3. owner[d] # owner[c]
        BY <2>2, <3>2, <4>2, PipelineConstants DEF CloneInv, OneChain
      <4> QED BY <2>1, <4>1, <4>2, <4>3, CloneOfChain DEF CloneInv
    <3> QED BY <3>1, <3>2
  <2> QED BY <2>2, <2>3, <2>4, <2>5 DEF CloneInv, Finished
<1>5. CASE \E c \in Chains : SecurityRuns(c) \/ MigrationRuns(c)
  BY <1>5, ChildFrame DEF CloneInv, OneChain, Finished
<1>6. CASE UNCHANGED vars
  BY <1>6 DEF vars, CloneInv, OneChain, Finished
<1> QED BY <1>1, <1>2, <1>3, <1>4, <1>5, <1>6 DEF Next

\* Delivered once, an analysis that gets to its callback has removed its clone, whatever failed on
\* the way.
THEOREM FinishedIsCleanedHolds ==
  ASSUME NoRedelivery
  PROVE  Spec => []FinishedIsCleaned
<1>1. Init => CloneInv
  BY DEF Init, CloneInv, OneChain, Finished
<1>2. TypeOK /\ Owned /\ CloneInv /\ [Next]_vars => CloneInv'
  BY CloneStep
<1>3. CloneInv => FinishedIsCleaned
  BY DEF CloneInv, FinishedIsCleaned
<1> QED BY <1>1, <1>2, <1>3, TypeCorrect, PTL DEF Spec

-----------------------------------------------------------------------------
(* No task is done twice by the same chain: every step takes a chain on.   *)

\* How far a chain is, and how far a child.
Place(c) ==
    CASE step[c] = "unused"                -> 0
      [] step[c] = "main"                  -> 1
      [] step[c] = "preprocess" /\ ~live[c] -> 2
      [] step[c] = "preprocess" /\ live[c] -> 3
      [] step[c] = "dispatch" /\ ~live[c]  -> 4
      [] step[c] = "dispatch" /\ live[c]   -> 5
      [] step[c] = "report" /\ ~live[c]    -> 6
      [] step[c] = "report" /\ live[c]     -> 7
      [] step[c] = "complete"              -> 8
      [] step[c] = "callback"              -> 9
      [] OTHER                             -> 10

ChildPlace(s) ==
    CASE s = "none"                  -> 0
      [] s = "queued"                -> 1
      [] s = "running"               -> 2
      [] s \in {"paused", "cached"}  -> 3
      [] OTHER                       -> 4

Progress(c) == Place(c) + ChildPlace(child[c].security) + ChildPlace(child[c].migration)

\* The children of a chain come with its dispatch.
ChildrenLater ==
    \A c \in Chains :
        step[c] \in {"unused", "main", "preprocess"} \/ At(c, "dispatch") => child[c] = NoChildren

\* One chain goes on, the others stay where they are.
GoesOn == \E c \in Chains : /\ Progress(c) < Progress(c)'
                            /\ \A d \in Chains \ {c} : Progress(d)' = Progress(d)

LEMMA ProgressType ==
  ASSUME TypeOK, NEW c \in Chains
  PROVE  Place(c) \in 0 .. 10 /\ Progress(c) \in 0 .. 18
<1>1. Place(c) \in 0 .. 10
  BY DEF Place
<1>2. \A s \in ChildSteps : ChildPlace(s) \in 0 .. 4
  BY DEF ChildPlace, ChildSteps
<1>3. child[c].security \in ChildSteps /\ child[c].migration \in ChildSteps
  BY DEF TypeOK
<1> QED BY <1>1, <1>2, <1>3 DEF Progress

\* A step of the chain takes it on, and the dispatch its children as well.
LEMMA ChainGoesOn ==
  ASSUME TypeOK, Owned, ChildrenLater, NEW c \in Chains, ChainRun(c)
  PROVE  /\ Place(c) < Place(c)'
         /\ child'[c] = child[c] \/ child[c] = NoChildren
<1> USE DEF Return, Take, At, Runs, TypeOK
<1>1. CASE Dispatch(c) \/ DispatchRaises(c)
  <2>1. child[c] = NoChildren
    BY <1>1 DEF Dispatch, DispatchRaises, ChildrenLater
  <2>2. step[c] = "dispatch" /\ ~live[c]
    BY <1>1 DEF Dispatch, DispatchRaises
  <2>3. step'[c] = "aborted" \/ (step'[c] = "dispatch" /\ live'[c])
    BY <1>1, <2>2 DEF Dispatch, DispatchRaises
  <2> QED BY <2>1, <2>2, <2>3 DEF Place
<1>2. CASE ~Dispatch(c) /\ ~DispatchRaises(c)
  <2>1. child' = child
    BY <1>2 DEF ChainRun, MainAlreadyDone, Main, PreprocessStart, PreprocessEnd, Join, JoinRaises,
                ReportStart, ReportCache, ReportEnd, ReportFail, Callback
  <2>2. \/ /\ step[c] = "main"
           /\ step'[c] \in {"done", "aborted"} \/ (step'[c] = "preprocess" /\ ~live'[c])
        \/ /\ step[c] = "preprocess" /\ ~live[c]
           /\ step'[c] = "preprocess" /\ live'[c]
        \/ /\ step[c] = "preprocess" /\ live[c]
           /\ step'[c] = "dispatch" /\ ~live'[c]
        \/ /\ step[c] = "dispatch" /\ live[c]
           /\ step'[c] = "aborted" \/ (step'[c] = "report" /\ ~live'[c])
        \/ /\ step[c] = "report" /\ ~live[c]
           /\ step'[c] = "report" /\ live'[c]
        \/ /\ step[c] = "report" /\ live[c]
           /\ step'[c] \in {"complete", "callback"}
        \/ /\ step[c] = "complete" /\ step'[c] = "callback"
        \/ /\ step[c] = "callback" /\ step'[c] = "done"
    BY <1>2 DEF ChainRun, MainAlreadyDone, Main, PreprocessStart, PreprocessEnd, Join, JoinRaises,
                ReportStart, ReportCache, ReportEnd, ReportFail, Callback
  <2>3. Place(c) < Place(c)'
    BY <2>2 DEF Place
  <2> QED BY <2>1, <2>3
<1> QED BY <1>1, <1>2

\* A step of a child takes it on.
LEMMA ChildGoesOn ==
  ASSUME TypeOK, Owned, NEW c \in Chains, SecurityRuns(c) \/ MigrationRuns(c)
  PROVE  \/ /\ ChildPlace(child[c].security) < ChildPlace(child'[c].security)
            /\ child'[c].migration = child[c].migration
         \/ /\ ChildPlace(child[c].migration) < ChildPlace(child'[c].migration)
            /\ child'[c].security = child[c].security
<1>1. CASE SecurityRuns(c)
  <2>1. child'[c].migration = child[c].migration
    BY <1>1 DEF SecurityRuns, SecurityStart, SecurityCache, SecurityFail, SecurityEnd, Advance,
                TypeOK
  <2>2. \/ child[c].security = "queued" /\ child'[c].security = "running"
        \/ child[c].security = "running" /\ child'[c].security \in {"paused", "cached", "done"}
        \/ child[c].security \in {"paused", "cached"} /\ child'[c].security = "done"
    BY <1>1 DEF SecurityRuns, SecurityStart, SecurityCache, SecurityFail, SecurityEnd, Advance,
                TypeOK
  <2> QED BY <2>1, <2>2 DEF ChildPlace
<1>2. CASE MigrationRuns(c)
  <2>1. child'[c].security = child[c].security
    BY <1>2 DEF MigrationRuns, MigrationSkip, MigrationStart, MigrationCache, MigrationFail,
                MigrationEnd, Advance, TypeOK
  <2>2. \/ child[c].migration = "queued" /\ child'[c].migration \in {"running", "done"}
        \/ child[c].migration = "running" /\ child'[c].migration \in {"cached", "done"}
        \/ child[c].migration = "cached" /\ child'[c].migration = "done"
    BY <1>2 DEF MigrationRuns, MigrationSkip, MigrationStart, MigrationCache, MigrationFail,
                MigrationEnd, Advance, TypeOK
  <2> QED BY <2>1, <2>2 DEF ChildPlace
<1> QED BY <1>1, <1>2

LEMMA ChildrenLaterStep ==
  ASSUME TypeOK, Owned, ChildrenLater, [Next]_vars
  PROVE  ChildrenLater'
<1>1. CASE \E t \in Tasks : Submit(t) \/ Redeliver(t)
  BY <1>1, ApiFrame DEF ChildrenLater, At, TypeOK
<1>2. CASE \E t \in Tasks : WritePending(t)
  BY <1>2 DEF WritePending, ChildrenLater, At
<1>3. CASE \E c \in Chains : ChainRun(c)
  <2>1. PICK c \in Chains : ChainRun(c)
    BY <1>3
  <2>2. ASSUME (step[c] \in {"unused", "main", "preprocess"} \/ At(c, "dispatch"))'
        PROVE  child'[c] = NoChildren
    <3>1. step[c] \in {"main", "preprocess"} /\ child' = child
      BY <2>1, <2>2
         DEF ChainRun, MainAlreadyDone, Main, PreprocessStart, PreprocessEnd, Dispatch, Join,
             JoinRaises, DispatchRaises, ReportStart, ReportCache, ReportEnd, ReportFail, Callback,
             Return, Take, At, Runs, TypeOK
    <3> QED BY <3>1 DEF ChildrenLater
  <2> QED BY <2>1, <2>2, ChainFrame DEF ChildrenLater, At
<1>4. CASE \E c \in Chains : SecurityRuns(c) \/ MigrationRuns(c)
  <2>1. PICK c \in Chains : SecurityRuns(c) \/ MigrationRuns(c)
    BY <1>4
  <2>2. child[c] # NoChildren
    BY <2>1 DEF SecurityRuns, MigrationRuns, SecurityStart, SecurityCache, SecurityFail,
                SecurityEnd, MigrationSkip, MigrationStart, MigrationCache, MigrationFail,
                MigrationEnd, NoChildren
  <2> QED BY <2>1, <2>2, ChildFrame DEF ChildrenLater, At
<1>5. CASE UNCHANGED vars
  BY <1>5 DEF vars, ChildrenLater, At
<1> QED BY <1>1, <1>2, <1>3, <1>4, <1>5 DEF Next

\* A step that is not the handler's first status takes exactly one chain on.
LEMMA StepGoesOn ==
  ASSUME TypeOK, TypeOK', Owned, ChildrenLater, Next
  PROVE  GoesOn \/ \E t \in Tasks : WritePending(t)
<1>1. CASE \E t \in Tasks : Submit(t) \/ Redeliver(t)
  <2>1. PICK c \in Chains : step[c] = "unused" /\ step' = [step EXCEPT ![c] = "main"]
    BY <1>1, ApiFrame
  <2>2. live' = live /\ child' = child
    BY <1>1, ApiFrame
  <2>3. Place(c) = 0 /\ Place(c)' = 1
    BY <2>1 DEF Place, TypeOK
  <2>4. \A d \in Chains \ {c} : Place(d)' = Place(d)
    BY <2>1, <2>2 DEF Place, TypeOK
  <2>5. Progress(c) < Progress(c)'
    <3>1. child[c].security \in ChildSteps /\ child[c].migration \in ChildSteps
      BY DEF TypeOK
    <3>2. \A s \in ChildSteps : ChildPlace(s) \in Nat
      BY DEF ChildPlace, ChildSteps
    <3> QED BY <2>2, <2>3, <3>1, <3>2 DEF Progress
  <2> QED BY <2>2, <2>4, <2>5 DEF GoesOn, Progress
<1>2. CASE \E c \in Chains : ChainRun(c)
  <2>1. PICK c \in Chains : ChainRun(c)
    BY <1>2
  <2>2. Place(c) < Place(c)' /\ (child'[c] = child[c] \/ child[c] = NoChildren)
    BY <2>1, ChainGoesOn
  <2>3. /\ child[c].security \in ChildSteps /\ child[c].migration \in ChildSteps
        /\ child'[c].security \in ChildSteps /\ child'[c].migration \in ChildSteps
    BY DEF TypeOK
  <2>4. \A s \in ChildSteps : ChildPlace(s) \in Nat
    BY DEF ChildPlace, ChildSteps
  <2>5. /\ ChildPlace(child[c].security) <= ChildPlace(child'[c].security)
        /\ ChildPlace(child[c].migration) <= ChildPlace(child'[c].migration)
    BY <2>2, <2>3, <2>4 DEF ChildPlace, NoChildren
  <2>6. Place(c) \in Nat /\ Place(c)' \in Nat
    BY ProgressType DEF Place
  <2>7. Progress(c) < Progress(c)'
    BY <2>2, <2>3, <2>4, <2>5, <2>6 DEF Progress
  <2>8. \A d \in Chains \ {c} : Progress(d)' = Progress(d)
    BY <2>1, ChainFrame DEF Progress, Place
  <2> QED BY <2>7, <2>8 DEF GoesOn
<1>3. CASE \E c \in Chains : SecurityRuns(c) \/ MigrationRuns(c)
  <2>1. PICK c \in Chains : SecurityRuns(c) \/ MigrationRuns(c)
    BY <1>3
  <2>2. \A d \in Chains : Place(d)' = Place(d)
    BY <2>1, ChildFrame DEF Place
  <2>3. /\ child[c].security \in ChildSteps /\ child[c].migration \in ChildSteps
        /\ child'[c].security \in ChildSteps /\ child'[c].migration \in ChildSteps
    BY DEF TypeOK
  <2>4. \A s \in ChildSteps : ChildPlace(s) \in Nat
    BY DEF ChildPlace, ChildSteps
  <2>5. Place(c) \in Nat
    BY ProgressType
  <2>6. Progress(c) < Progress(c)'
    BY <2>1, <2>2, <2>3, <2>4, <2>5, ChildGoesOn DEF Progress
  <2>7. \A d \in Chains \ {c} : Progress(d)' = Progress(d)
    BY <2>1, <2>2, ChildFrame DEF Progress
  <2> QED BY <2>6, <2>7 DEF GoesOn
<1> QED BY <1>1, <1>2, <1>3 DEF Next

\* No task of a chain runs for ever or again: every step of the pipeline, failures included, takes
\* one chain one of its at most 18 stages on, or writes the first status of a submission.  What
\* fairness adds is that steps are taken.
THEOREM EveryStepGoesOn ==
  Spec => [][GoesOn \/ \E t \in Tasks : WritePending(t)]_vars
<1>1. Init => ChildrenLater
  BY DEF Init, ChildrenLater
<1>2. TypeOK /\ Owned /\ ChildrenLater /\ [Next]_vars => ChildrenLater'
  BY ChildrenLaterStep
<1>3. TypeOK /\ TypeOK' /\ Owned /\ ChildrenLater /\ [Next]_vars
        => [GoesOn \/ \E t \in Tasks : WritePending(t)]_vars
  BY StepGoesOn
<1> QED BY <1>1, <1>2, <1>3, TypeCorrect, PTL DEF Spec

-----------------------------------------------------------------------------
(* A verdict is not lost: the safety half of EveryScanDecided.             *)

LEMMA VerdictCachedStep ==
  ASSUME RedisUp, TypeOK, Owned, ChildrenLater, VerdictCached, [Next]_vars
  PROVE  VerdictCached'
<1>1. CASE security' # security
  <2>1. PICK d \in Chains, data \in SecurityData :
           /\ data.present
           /\ owner[d] \in Tasks
           /\ child[d].security \in {"running", "paused", "cached"}
           /\ security' = [security EXCEPT ![owner[d]] = data]
           /\ child' \in {[child EXCEPT ![d].security = to] : to \in {"paused", "cached", "done"}}
           /\ UNCHANGED <<repository, owner, step, live, meta, loaded, result, tree>>
    BY <1>1, SecurityWrites
  <2>2. /\ security'[owner[d]].present
        /\ \A t \in Tasks \ {owner[d]} : security'[t] = security[t]
    BY <2>1 DEF TypeOK
  <2>3. \A e \in Chains \ {d} : child'[e] = child[e]
    BY <2>1 DEF TypeOK
  <2>4. ASSUME NEW e \in Chains, child'[e].security \in {"paused", "cached", "done"}
        PROVE  security'[owner[e]].present
    <3>1. CASE owner[e] = owner[d]
      BY <2>2, <3>1
    <3>2. CASE owner[e] # owner[d]
      <4>1. child[e].security \in {"paused", "cached", "done"}
        BY <2>3, <2>4, <3>2
      <4>2. owner[e] \in Tasks
        BY <4>1, OwnerOf
      <4> QED BY <2>2, <3>2, <4>1, <4>2 DEF VerdictCached
    <3> QED BY <3>1, <3>2
  <2> QED BY <2>1, <2>4 DEF VerdictCached
<1>2. CASE security' = security
  <2>1. CASE \E t \in Tasks : Submit(t) \/ Redeliver(t)
    <3>1. PICK t \in Tasks : Submit(t) \/ Redeliver(t)
      BY <2>1
    <3>2. child' = child
      BY <3>1, ApiFrame
    <3>3. PICK c \in Chains : step[c] = "unused" /\ owner' = [owner EXCEPT ![c] = t]
      BY <3>1, ApiFrame
    <3>4. child[c].security = "none"
      BY <3>3 DEF ChildrenLater, NoChildren
    <3>5. \A e \in Chains \ {c} : owner'[e] = owner[e]
      BY <3>3 DEF TypeOK
    <3> QED BY <1>2, <3>2, <3>4, <3>5 DEF VerdictCached
  <2>2. CASE \E t \in Tasks : WritePending(t)
    BY <1>2, <2>2 DEF WritePending, VerdictCached
  <2>3. CASE \E c \in Chains : ChainRun(c)
    <3>1. PICK c \in Chains : ChainRun(c)
      BY <2>3
    <3>2. child'[c].security \in {child[c].security, "queued", "none"}
      BY <3>1 DEF ChainRun, MainAlreadyDone, Main, PreprocessStart, PreprocessEnd, Dispatch,
                  DispatchRaises, Join, JoinRaises, ReportStart, ReportCache, ReportEnd,
                  ReportFail, Callback, TypeOK
    <3> QED BY <1>2, <3>1, <3>2, ChainFrame DEF VerdictCached
  <2>4. CASE \E c \in Chains : SecurityRuns(c) \/ MigrationRuns(c)
    BY <1>2, <2>4, QuietChildren DEF VerdictCached
  <2>5. CASE UNCHANGED vars
    BY <2>5 DEF vars, VerdictCached
  <2> QED BY <2>1, <2>2, <2>3, <2>4, <2>5 DEF Next
<1> QED BY <1>1, <1>2

\* A security task that got past its agents has left its task a verdict, with Redis up, which stays
\* whatever else happens: its own chain may have been given up by the join, another delivery of the
\* message may run next to it, and the rest of the chain may fail.
THEOREM VerdictCachedHolds ==
  ASSUME RedisUp
  PROVE  Spec => []VerdictCached
<1>1. Init => ChildrenLater /\ VerdictCached
  BY DEF Init, ChildrenLater, VerdictCached, NoChildren
<1>2. TypeOK /\ Owned /\ ChildrenLater /\ VerdictCached /\ [Next]_vars
        => ChildrenLater' /\ VerdictCached'
  BY ChildrenLaterStep, VerdictCachedStep
<1> QED BY <1>1, <1>2, TypeCorrect, PTL DEF Spec
=============================================================================
