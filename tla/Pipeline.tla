------------------------------ MODULE Pipeline ------------------------------
(***************************************************************************)
(* tasks/analysis.py: the Celery tasks of an analysis and the Redis keys   *)
(* they leave.                                                             *)
(*                                                                         *)
(*   main -> preprocess -> _dispatch_parallel -> report -> callback        *)
(*                           |  ^ result.get()                             *)
(*                           +--+--- security, migration                   *)
(*                                                                         *)
(* A chain is one instance of that workflow.  acks_late lets the broker    *)
(* deliver the main message again, which starts another chain for the same *)
(* task.  Every running Celery task holds one of the worker's Slots, and   *)
(* _dispatch_parallel holds its own while it waits for its two children.   *)
(* Celery itself (queue, slots, result.get) is external.                   *)
(***************************************************************************)
EXTENDS AgentVerdicts, FiniteSets, Naturals

CONSTANTS
    Tasks,
    Chains,         \* bound: chain instances, redeliveries included
    MaxRedeliveries, \* bound
    NoTask,
    Slots,          \* --concurrency of the worker
    Repositories,   \* bound: what may be analysed
    ByWebhook       \* tasks come from the GitHub webhook, else from POST /analyze

ASSUME PipelineConstants ==
    /\ NoTask \notin Tasks
    /\ MaxRedeliveries \in Nat
    /\ Slots \in Nat \ {0}
    /\ Repositories \subseteq Repository
    /\ ByWebhook \in BOOLEAN

VARIABLES
    repository,     \* what each task analyses
    target,         \* whether a migration target was asked for
    redeliveries,   \* messages delivered again so far
    owner,          \* task of each chain
    step,           \* the task the chain is at
    live,           \* whether a worker runs it
    child,          \* [security, migration]: where the chain's children are
    meta,           \* metadata passed down the chain: "none" | "empty" | "full"
    loaded,         \* what report_aggregation_task read
    pending,        \* tasks whose handler has yet to write "pending"
    status,         \* codeguard:task:{id}:status
    security,       \* codeguard:task:{id}:security
    migration,      \* codeguard:task:{id}:migration
    result,         \* codeguard:task:{id}:result
    tree,           \* the clone under /tmp/codeguard_repos/{id} exists
    notified        \* summary the callback carried: "none" | "empty" | "pass" | "block"

keys == <<security, migration, result>>
fixed == <<repository, target, redeliveries>>
vars == <<repository, target, redeliveries, owner, step, live, child, meta, loaded, pending, status,
          security, migration, result, tree, notified>>

Steps == {"unused", "main", "preprocess", "dispatch", "report", "complete",
          "callback", "done", "aborted"}

ChildSteps == {"none", "queued", "running", "paused", "cached", "done"}

Status == {"none", "pending", "running", "running:preprocess", "running:security",
           "running:security_done", "paused:human_review", "running:migration",
           "running:migration_done", "running:report", "completed"}

TypeOK ==
    /\ repository \in [Tasks -> Repositories]
    /\ target \in [Tasks -> BOOLEAN]
    /\ redeliveries \in 0 .. MaxRedeliveries
    /\ owner \in [Chains -> Tasks \union {NoTask}]
    /\ step \in [Chains -> Steps]
    /\ live \in [Chains -> BOOLEAN]
    /\ child \in [Chains -> [security : ChildSteps, migration : ChildSteps]]
    /\ meta \in [Chains -> {"none", "empty", "full"}]
    /\ loaded \in [Chains -> [security : SecurityData, migration : BOOLEAN]]
    /\ pending \subseteq Tasks
    /\ status \in [Tasks -> Status]
    /\ security \in [Tasks -> SecurityData]
    /\ migration \in [Tasks -> {"none", "ok", "degraded"}]
    /\ result \in [Tasks -> Report]
    /\ tree \in [Tasks -> BOOLEAN]
    /\ notified \in [Tasks -> {"none", "empty", "pass", "block"}]

NoChildren == [security |-> "none", migration |-> "none"]

NothingLoaded == [security |-> NoSecurityData, migration |-> FALSE]

Init ==
    /\ repository \in [Tasks -> Repositories]
    /\ target \in [Tasks -> BOOLEAN]
    /\ redeliveries = 0
    /\ owner = [c \in Chains |-> NoTask]
    /\ step = [c \in Chains |-> "unused"]
    /\ live = [c \in Chains |-> FALSE]
    /\ child = [c \in Chains |-> NoChildren]
    /\ meta = [c \in Chains |-> "none"]
    /\ loaded = [c \in Chains |-> NothingLoaded]
    /\ pending = {}
    /\ status = [t \in Tasks |-> "none"]
    /\ security = [t \in Tasks |-> NoSecurityData]
    /\ migration = [t \in Tasks |-> "none"]
    /\ result = [t \in Tasks |-> NoReport]
    /\ tree = [t \in Tasks |-> FALSE]
    /\ notified = [t \in Tasks |-> "none"]

-----------------------------------------------------------------------------
\* The helpers that write to Redis swallow its errors.
Write(key, t, value) ==
    \/ key' = [key EXCEPT ![t] = value]
    \/ "redis" \in Failures /\ UNCHANGED key

\* _sync_set_status.
SetStatus(t, s) == Write(status, t, s)

\* Slots held now.
Busy == {<<c, "chain">> : c \in {d \in Chains : live[d]}}
        \union {b \in Chains \X {"security", "migration"} :
                   child[b[1]][b[2]] \in {"running", "paused", "cached"}}

SlotFree == Cardinality(Busy) < Slots

At(c, s) == step[c] = s /\ ~live[c]

Runs(c, s) == step[c] = s /\ live[c]

\* A worker takes the message of the chain's current task.
Take(c) == SlotFree /\ live' = [live EXCEPT ![c] = TRUE]

\* The task returns; the chain's next message is queued.
Return(c, next) ==
    /\ step' = [step EXCEPT ![c] = next]
    /\ live' = [live EXCEPT ![c] = FALSE]

-----------------------------------------------------------------------------
(* The API and the broker.                                                 *)

\* apply_async of analysis_main_task.
Submit(t) ==
    /\ \A c \in Chains : owner[c] # t
    /\ \E c \in Chains :
        /\ step[c] = "unused"
        /\ owner' = [owner EXCEPT ![c] = t]
        /\ step' = [step EXCEPT ![c] = "main"]
    /\ pending' = IF ByWebhook THEN pending \union {t} ELSE pending
    /\ UNCHANGED <<fixed, keys, live, child, meta, loaded, status, tree, notified>>

\* The webhook handler writes the first status once the task is dispatched.
WritePending(t) ==
    /\ t \in pending
    /\ pending' = pending \ {t}
    /\ SetStatus(t, "pending")
    /\ UNCHANGED <<fixed, keys, owner, step, live, child, meta, loaded, tree, notified>>

\* The main message is delivered again: its worker died before acknowledging it, or the
\* broker's visibility timeout passed.
Redeliver(t) ==
    /\ redeliveries < MaxRedeliveries
    /\ redeliveries' = redeliveries + 1
    /\ \E c \in Chains : owner[c] = t /\ step[c] # "main"
    /\ \E c \in Chains :
        /\ step[c] = "unused"
        /\ owner' = [owner EXCEPT ![c] = t]
        /\ step' = [step EXCEPT ![c] = "main"]
    /\ UNCHANGED <<repository, target, keys, live, child, meta, loaded, pending, status, tree, notified>>

-----------------------------------------------------------------------------
(* analysis_main_task and preprocess_task.                                 *)

\* A task that has a result is not analysed again.
MainAlreadyDone(c) ==
    LET t == owner[c] IN
    /\ At(c, "main") /\ SlotFree
    /\ result[t].kind # "none"
    /\ Return(c, "done")
    /\ UNCHANGED <<fixed, keys, owner, child, meta, loaded, pending, status, tree, notified>>

Main(c) ==
    LET t == owner[c] IN
    /\ At(c, "main") /\ SlotFree
    /\ result[t].kind = "none" \/ "redis" \in Failures
    /\ SetStatus(t, "running")
    /\ \/ Return(c, "preprocess") /\ UNCHANGED tree
       \/ /\ "broker" \in Failures
          /\ Return(c, "aborted")
          /\ tree' = [tree EXCEPT ![t] = FALSE]
    /\ UNCHANGED <<fixed, keys, owner, child, meta, loaded, pending, notified>>

PreprocessStart(c) ==
    /\ At(c, "preprocess") /\ Take(c)
    /\ SetStatus(owner[c], "running:preprocess")
    /\ UNCHANGED <<fixed, keys, owner, step, child, meta, loaded, pending, tree, notified>>

\* clone_or_pull creates the working tree; a failure may come before or after it.
PreprocessEnd(c) ==
    LET t == owner[c] IN
    /\ Runs(c, "preprocess")
    /\ \/ /\ meta' = [meta EXCEPT ![c] = "full"]
          /\ tree' = [tree EXCEPT ![t] = TRUE]
       \/ /\ "clone" \in Failures
          /\ meta' = [meta EXCEPT ![c] = "empty"]
          /\ \E there \in {tree[t], TRUE} : tree' = [tree EXCEPT ![t] = there]
    /\ Return(c, "dispatch")
    /\ UNCHANGED <<fixed, keys, owner, child, loaded, pending, status, notified>>

-----------------------------------------------------------------------------
(* _dispatch_parallel.                                                     *)

ChildrenDone(c) ==
    /\ child[c].security = "done"
    /\ child[c].migration = "done"

\* The group is enqueued; then result.get() waits.
Dispatch(c) ==
    /\ At(c, "dispatch") /\ SlotFree
    /\ child' = [child EXCEPT ![c] = [security |-> "queued", migration |-> "queued"]]
    /\ live' = [live EXCEPT ![c] = TRUE]
    /\ UNCHANGED <<fixed, keys, owner, step, meta, loaded, pending, status, tree, notified>>

\* apply_async raises before it has enqueued anything, or between the two children.
DispatchRaises(c) ==
    /\ "broker" \in Failures
    /\ At(c, "dispatch") /\ SlotFree
    /\ \E sent \in {"none", "queued"} :
        child' = [child EXCEPT ![c] = [security |-> sent, migration |-> "none"]]
    /\ Return(c, "aborted")
    /\ UNCHANGED <<fixed, keys, owner, meta, loaded, pending, status, tree, notified>>

\* A join that goes on when one child is done.
JoinFirst(c) ==
    /\ Runs(c, "dispatch")
    /\ child[c].security = "done" \/ child[c].migration = "done"
    /\ Return(c, "report")
    /\ UNCHANGED <<fixed, keys, owner, child, meta, loaded, pending, status, tree, notified>>

Join(c) ==
    /\ Runs(c, "dispatch")
    /\ ChildrenDone(c)
    /\ Return(c, "report")
    /\ UNCHANGED <<fixed, keys, owner, child, meta, loaded, pending, status, tree, notified>>

\* A join that takes its queued children along when it gives up.
JoinRaisesRevoking(c) ==
    /\ Runs(c, "dispatch")
    /\ child' = [child EXCEPT ![c] = [k \in {"security", "migration"} |->
                                       IF child[c][k] = "queued" THEN "none" ELSE child[c][k]]]
    /\ Return(c, "aborted")
    /\ UNCHANGED <<fixed, keys, owner, meta, loaded, pending, status, tree, notified>>

\* result.get() raises, and nobody handles it: the chain stops, its children go on.  It does so at
\* once in Celery's prefork pool, the default, which refuses a join inside a task; or when the 120 s
\* are over, the children's time in the queue included; or when a child was killed.  None of this is
\* timed here: a join may raise whenever it waits.
JoinRaises(c) ==
    /\ Runs(c, "dispatch")
    /\ Return(c, "aborted")
    /\ UNCHANGED <<fixed, keys, owner, child, meta, loaded, pending, status, tree, notified>>

-----------------------------------------------------------------------------
(* security_chain_task and migration_task.                                 *)

ChildUnchanged == UNCHANGED <<fixed, owner, step, live, meta, loaded, pending, tree, notified>>

Advance(c, k, to) == child' = [child EXCEPT ![c][k] = to]

SecurityStart(c) ==
    /\ child[c].security = "queued" /\ SlotFree
    /\ Advance(c, "security", "running")
    /\ SetStatus(owner[c], "running:security")
    /\ ChildUnchanged /\ UNCHANGED keys

\* Both agents have run: their data is cached.
SecurityCache(c) ==
    /\ child[c].security = "running"
    /\ \E data \in ChainOutcomes(repository[owner[c]], meta[c]) :
        /\ Write(security, owner[c], data)
        /\ Advance(c, "security", IF data.conflict.paused THEN "paused" ELSE "cached")
    /\ ChildUnchanged /\ UNCHANGED <<migration, result, status>>

\* The except branch: a blocking result, and no status.
SecurityFail(c) ==
    /\ "chain" \in Failures
    /\ child[c].security \in {"running", "paused", "cached"}
    /\ Write(security, owner[c], ChainFailed)
    /\ Advance(c, "security", "done")
    /\ ChildUnchanged /\ UNCHANGED <<migration, result, status>>

\* The pause written as a status of its own.
SecurityEndUnknownStatus(c) ==
    /\ child[c].security \in {"paused", "cached"}
    /\ SetStatus(owner[c], IF child[c].security = "paused"
                           THEN "paused" ELSE "running:security_done")
    /\ Advance(c, "security", "done")
    /\ ChildUnchanged /\ UNCHANGED keys

SecurityEnd(c) ==
    /\ child[c].security \in {"paused", "cached"}
    /\ SetStatus(owner[c], IF child[c].security = "paused"
                           THEN "paused:human_review" ELSE "running:security_done")
    /\ Advance(c, "security", "done")
    /\ ChildUnchanged /\ UNCHANGED keys

MigrationSkip(c) ==
    /\ child[c].migration = "queued" /\ SlotFree
    /\ ~target[owner[c]]
    /\ Advance(c, "migration", "done")
    /\ ChildUnchanged /\ UNCHANGED <<keys, status>>

MigrationStart(c) ==
    /\ child[c].migration = "queued" /\ SlotFree
    /\ target[owner[c]]
    /\ Advance(c, "migration", "running")
    /\ SetStatus(owner[c], "running:migration")
    /\ ChildUnchanged /\ UNCHANGED keys

MigrationCache(c) ==
    /\ child[c].migration = "running"
    /\ \E degraded \in MigrationOutcomes :
        Write(migration, owner[c], IF degraded THEN "degraded" ELSE "ok")
    /\ Advance(c, "migration", "cached")
    /\ ChildUnchanged /\ UNCHANGED <<security, result, status>>

MigrationFail(c) ==
    /\ "migration_task" \in Failures
    /\ child[c].migration \in {"running", "cached"}
    /\ Write(migration, owner[c], "degraded")
    /\ Advance(c, "migration", "done")
    /\ ChildUnchanged /\ UNCHANGED <<security, result, status>>

MigrationEnd(c) ==
    /\ child[c].migration = "cached"
    /\ SetStatus(owner[c], "running:migration_done")
    /\ Advance(c, "migration", "done")
    /\ ChildUnchanged /\ UNCHANGED keys

-----------------------------------------------------------------------------
(* report_aggregation_task and webhook_callback_task.                      *)

\* _sync_load_json: None if the key is missing or Redis does not answer.
ReportStart(c) ==
    LET t == owner[c] IN
    /\ At(c, "report") /\ Take(c)
    /\ SetStatus(t, "running:report")
    /\ \E data \in {security[t]} \union (IF "redis" \in Failures THEN {NoSecurityData} ELSE {}) :
        loaded' = [loaded EXCEPT ![c] = [security |-> data,
                                         migration |-> migration[t] = "degraded"]]
    /\ UNCHANGED <<fixed, keys, owner, step, child, meta, pending, tree, notified>>

\* A report that is cached unless it is empty.
ReportCacheUnlessEmpty(c) ==
    /\ Runs(c, "report")
    /\ \E report \in ReportOutcomes(loaded[c].security, loaded[c].migration) :
        IF report.kind = "report" THEN Write(result, owner[c], report) ELSE UNCHANGED result
    /\ step' = [step EXCEPT ![c] = "complete"]
    /\ UNCHANGED <<fixed, owner, live, child, meta, loaded, pending, status, security, migration,
                   tree, notified>>

ReportCache(c) ==
    /\ Runs(c, "report")
    /\ \E report \in ReportOutcomes(loaded[c].security, loaded[c].migration) :
        Write(result, owner[c], report)
    /\ step' = [step EXCEPT ![c] = "complete"]
    /\ UNCHANGED <<fixed, owner, live, child, meta, loaded, pending, status, security, migration,
                   tree, notified>>

\* The end of the report without its cleanup.
ReportEndLeaving(c) ==
    /\ Runs(c, "complete")
    /\ SetStatus(owner[c], "completed")
    /\ Return(c, "callback")
    /\ UNCHANGED <<fixed, keys, owner, child, meta, loaded, pending, tree, notified>>

\* "completed", then the clone is removed.
ReportEnd(c) ==
    LET t == owner[c] IN
    /\ Runs(c, "complete")
    /\ SetStatus(t, "completed")
    /\ tree' = [tree EXCEPT ![t] = FALSE]
    /\ Return(c, "callback")
    /\ UNCHANGED <<fixed, keys, owner, child, meta, loaded, pending, notified>>

\* The except branch setting the final status as well.
ReportFailCompleting(c) ==
    /\ "report" \in Failures
    /\ Runs(c, "report") \/ Runs(c, "complete")
    /\ SetStatus(owner[c], "completed")
    /\ tree' = [tree EXCEPT ![owner[c]] = FALSE]
    /\ Return(c, "callback")
    /\ UNCHANGED <<fixed, keys, owner, child, meta, loaded, pending, notified>>

\* The except branch: the chain goes on to the callback.
ReportFail(c) ==
    /\ "report" \in Failures
    /\ Runs(c, "report") \/ Runs(c, "complete")
    /\ tree' = [tree EXCEPT ![owner[c]] = FALSE]
    /\ Return(c, "callback")
    /\ UNCHANGED <<fixed, keys, owner, child, meta, loaded, pending, status, notified>>

\* The summary of the cached result, {} if there is none.  Its retries are those of module Callback;
\* a task of the webhook has no callback_url.
Callback(c) ==
    LET t == owner[c]
        summary == CASE result[t].kind # "report" -> "empty"
                     [] result[t].counts          -> "block"
                     [] OTHER                     -> "pass"
    IN
    /\ At(c, "callback") /\ SlotFree
    /\ notified' = IF ByWebhook THEN notified ELSE [notified EXCEPT ![t] = summary]
    /\ Return(c, "done")
    /\ UNCHANGED <<fixed, keys, owner, child, meta, loaded, pending, status, tree>>

-----------------------------------------------------------------------------
ChainRun(c) ==
    \/ MainAlreadyDone(c) \/ Main(c) \/ PreprocessStart(c) \/ PreprocessEnd(c)
    \/ Dispatch(c) \/ DispatchRaises(c) \/ Join(c) \/ JoinRaises(c)
    \/ ReportStart(c) \/ ReportCache(c) \/ ReportEnd(c) \/ ReportFail(c) \/ Callback(c)

SecurityRuns(c) == SecurityStart(c) \/ SecurityCache(c) \/ SecurityFail(c) \/ SecurityEnd(c)

MigrationRuns(c) ==
    \/ MigrationSkip(c) \/ MigrationStart(c)
    \/ MigrationCache(c) \/ MigrationFail(c) \/ MigrationEnd(c)

Next ==
    \/ \E t \in Tasks : Submit(t) \/ WritePending(t) \/ Redeliver(t)
    \/ \E c \in Chains : ChainRun(c) \/ SecurityRuns(c) \/ MigrationRuns(c)

Spec == Init /\ [][Next]_vars

\* The queue is first in, first out, and the workers keep running: every message is taken and
\* every task ends, each within its time limit, a join that waits in vain included.  Nobody has to
\* submit anything.
Fairness ==
    \A c \in Chains : SF_vars(ChainRun(c)) /\ SF_vars(SecurityRuns(c)) /\ SF_vars(MigrationRuns(c))

FairSpec == Spec /\ Fairness

-----------------------------------------------------------------------------
\* Whoever polls a task that is "completed" finds its report: the status is never ahead of the
\* result key, whichever of the task's chains wrote them.
CompletedHasResult ==
    \A t \in Tasks : status[t] = "completed" => result[t].kind # "none"

\* The report is made of a security verdict: the chain does not get to the report while its
\* security task is still running, so that `or {}' never stands for a verdict to come.
ReportSeesSecurity ==
    \A c \in Chains : Runs(c, "report") =>
        loaded[c].security.present /\ loaded[c].security = security[owner[c]]

\* The security agent never scans a clone another task of the analysis has removed.
ScanReadsTree ==
    \A c \in Chains : child[c].security = "running" /\ meta[c] = "full" => tree[owner[c]]

\* The order in which the statuses tell the progress of a task.
Rank(s) ==
    CASE s = "none" -> 0
      [] s = "pending" -> 1
      [] s = "running" -> 2
      [] s = "running:preprocess" -> 3
      [] s = "running:report" -> 5
      [] s = "completed" -> 6
      [] OTHER -> 4

\* The status of a task never goes back to an earlier stage.
StatusForward == [][\A t \in Tasks : Rank(status[t]) <= Rank(status'[t])]_status

\* The cached verdict errs on the safe side: it passes a repository with a finding that must not
\* pass only if the conflict agent failed twice, or if the security report does not show the finding
\* and a clone, a list of packages, a scanner or an agent is to blame for that.  No redelivery, no
\* failing chain and no single failure of the conflict agent is among the causes.
FailSafe ==
    \A t \in Tasks :
        LET verdict == security[t] IN
        verdict.present /\ ~verdict.conflict.blocking /\ verdict.conflict.made =>
            /\ verdict.security.sees \in {"clean", "nothing"}
            /\ repository[t].truth = "clean" \/ verdict.security.gap # "none"

Submitted(t) == \E c \in Chains : owner[c] = t

Aborted(t) == \E c \in Chains : owner[c] = t /\ step[c] = "aborted"

\* Every submitted analysis gets its verdict, even if each of the slots waits for a child that needs
\* a slot: the joins give up, and what they waited for is not lost.
EveryScanDecided == \A t \in Tasks : Submitted(t) ~> security[t].present

\* Every submitted analysis is reported, unless the join of its chain raises: nothing else stops a
\* chain on its way, and no report comes to nothing.
EveryScanReported == \A t \in Tasks : Submitted(t) ~> result[t].kind # "none" \/ Aborted(t)

\* A clone goes from the worker's disk, unless the join of its chain raises.
TreeIsRemoved == \A t \in Tasks : tree[t] ~> ~tree[t] \/ Aborted(t)

\* The tasks implement AnalysisFlow.
Flow == INSTANCE AnalysisFlow WITH
    Verdicts <- ConflictDecision,
    verdict <- [t \in Tasks |-> IF security[t].present THEN {security[t].conflict} ELSE {}],
    report <- [t \in Tasks |-> IF result[t].kind = "report" THEN {result[t].conflict} ELSE {}]

ImplementsFlow == Flow!FlowSpec

-----------------------------------------------------------------------------
(* What the documentation says and the code does not keep; no run checks   *)
(* these, README.md tells how each of them fails.                          *)

\* A task is analysed once: a redelivered message never runs the security agents on a task
\* somebody analysed or is analysing (celery_app.py 66-71).
ExecutesOnce ==
    \A c, d \in Chains :
        /\ c # d /\ owner[c] = owner[d] /\ owner[c] # NoTask
        /\ child[c].security # "none"
        => child[d].security = "none"

\* A pause for human review stays visible while the published verdict is that pause.
PauseIsShown ==
    [][\A t \in Tasks :
        status[t] = "paused:human_review" /\ security'[t].conflict.paused
            => status'[t] = "paused:human_review"]_<<status, security>>

\* A degraded stage shows in the report.
DegradationIsShown ==
    \A c \in Chains :
        LET t == owner[c] IN
        step[c] = "done" /\ result[t].kind # "none" /\ (meta[c] = "empty" \/ security[t].failed)
            => result[t].degraded

\* A callback never announces a scan without blocking findings while the verdict blocks.
CallbackTellsBlock ==
    \A t \in Tasks : notified[t] = "pass" => ~security[t].conflict.blocking

\* A repository with a finding that must not pass is never cached as passing (ARCHITECTURE.md 216).
BlocksWhateverFails ==
    \A t \in Tasks : repository[t].truth # "clean" /\ security[t].present =>
        security[t].conflict.blocking

\* The status of every submitted analysis settles, and no clone stays.
StatusSettles == \A t \in Tasks : Submitted(t) ~> status[t] \in {"completed", "failed"}

EveryTreeIsRemoved == \A t \in Tasks : tree[t] ~> ~tree[t]
============================================================================
