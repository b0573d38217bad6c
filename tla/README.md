# CodeGuard: a TLA+ development

CodeGuard scans pull requests: a webhook or REST call enqueues an analysis, Celery workers
clone the repository, run the security, conflict and migration agents, and a report says whether
the merge is blocked. What a human may still decide is appealed through the API, which resumes a
paused LangGraph. The same agents run in one process behind `codeguard analyze`. This directory
models that program, checks it with TLC and proves its main properties with TLAPS. Source paths are
relative to the repository root (`src/tasks/...`).

## 1. Inventory

| Part | State it keeps | Operations | Talks to | Correct when |
|---|---|---|---|---|
| Celery pipeline, `src/tasks/analysis.py`, `celery_app.py` | Redis keys `codeguard:task:{id}:status/metadata/security/migration/result`; the clone under `/tmp/codeguard_repos/{id}`; messages; worker slots | main, preprocess, dispatch, security chain, migration, report, callback | agents, Redis, broker, API | every analysis is reported; the report is its verdict; failure blocks; the clone goes |
| Conflict graph, `src/agents/conflict/agent.py` | a checkpoint per thread `conflict:{task}:{scan}` | run, three nodes, interrupt, pending lookup, resume, degraded run | rule engine, audit log | a waiver has a cause; an undecided graph blocks |
| Appeals, `src/api/routers/appeal.py`, `src/tasks/appeal.py` | `codeguard:appeal:{id}`, the conflict part of `:security` | submit, resume task | conflict graph, audit log | an appeal settles; a resolved appeal was applied |
| Rule engine, `src/agents/conflict/auto_resolver.py` | its index of exemption rules | reload, resolve | conflict graph | verdicts follow the loaded rules |
| Rule store, `src/storage/rule_store.py` | SQLite table, Redis copy of its active part | get, create, update, disable, invalidate | rules API, conflict agent | readers see rules that were active a moment ago |
| CVE lookup, `src/storage/cve_cache.py` | Redis and SQLite tiers | lookup, batch, sync | OSV, GitHub Advisory | no known vulnerability is missed |
| Security agent, `src/agents/security/` | none between calls | CVE scan, code scan, report, fallback | CVE lookup, Semgrep | findings belong to their package, a failure shows |
| Audit log, `src/storage/audit_log.py` | table `audit_log` | log, verify_integrity, query | appeals, conflict graph | untouched rows verify, touched ones do not |
| Agent base, `src/engine/base_agent.py`, `src/agents/*/agent.py` | none between calls | execute = run, else degraded_run, else `{}` | scanners, caches | a degraded answer says so |
| Webhook, `src/webhook/` | dedup key, first status | verify, deduplicate, dispatch | pipeline | one analysis per commit |
| Submission and polling, `src/api/routers/analyze.py` | first status | submit, get task, get report | pipeline | answers do not go back |
| Callbacks, `src/tasks/analysis.py`, `src/integrations/webhook_sender.py` | messages, one per retry | send, sleep, retry | the user's URL | not given up early, not retried for ever |
| Orchestrator, command line, `src/engine/orchestrator.py`, `src/cli/main.py` | the run's results | analyze | all agents, in process | the exit code is the verdict |
| Human loop manager, `src/agents/conflict/human_loop.py` | one pending state | request, resume, timeout | its tests only | decisions are applied, a timeout blocks |
| Migration, `src/agents/migration/` | changelog store | match, merge, risk, effort | language model | never affects the verdict |
| Rate limiter, GitHub client, retry helper | counters | per call | Redis, GitHub | limits hold |
| Preprocessing, report rendering, metrics, API shell | files, counters | sequential | | |

The hard behaviours all come from sharing: several workers, handlers and clients use the same
Redis keys and the same checkpoint without a lock; keys expire between two accesses; late
acknowledgement (`task_acks_late`) delivers messages again; tasks wait for tasks of the same worker;
retries are nested in retries under a time limit; and nearly every helper swallows exceptions, so that
a failure looks like an empty answer. `PROJECT.json` lists the hazards at their lines.

## 2. Modules

| Module | Models | State and actions in the code |
|---|---|---|
| `ConflictGraph` | nodes and checkpoint of the LangGraph, as operators | `Checkpoint` is `ConflictState` plus the node to run next; `AutoResolve`, `HumanReview`, `Finalize` are the nodes, `UpdateState` is `update_state` |
| `AppealResume` | one task: deliveries of the security chain, appeals, the shared thread, the cached result | `ckpt` is the saved checkpoint, `mem` the copy an `ainvoke` works on; one action per step of `appeal_resume_task` between two accesses to shared state |
| `VerdictGate` | abstract: what the cached result promises | implemented by `AppealResume` (`ImplementsGate`) |
| `AgentVerdicts` | what the agents return, from a repository and the failures allowed | operators; `Execute` is `BaseAgent.execute`; `SeenIn` is what a scan without failures sees |
| `Pipeline` | the Celery tasks, slots and keys | a chain is one instance of the workflow; every task has a start (slot taken, status written), its cached result and an end; its except branch is an action |
| `AnalysisFlow` | abstract: verdict first, report repeats it | implemented by `Pipeline` (`ImplementsFlow`) |
| `LocalAnalysis` | `codeguard analyze`: the orchestrator, the security agent in detail, the exit code | one action per step of the scan and per agent, each with its failures; it instantiates `AutoResolver` (without rules) and `AgentVerdicts`, whose outcomes it is held against (`RunIsAbstracted`) |
| `Ingress` | webhook handlers, `POST /analyze`, `GET /tasks/{id}`, and of the workers what they leave in the keys | a handler is a coroutine cut at each access to Redis; every key carries the hours it has left |
| `Callback` | `webhook_callback_task` over `WebhookSender` | `messages` are the retries in the queue, `run` is the execution under way: the sender's attempts and sleeps, the seconds, the soft limit |
| `CveCache` | `CVECache.lookup` for one package version | `hot`, `rows` and `osv` are the tiers; a lookup is cut at each access, the sources publish and withdraw in between |
| `RuleStore` | the exemption rules | a reader is cut between Redis, SQLite and its `setex`, a writer between commit and `delete` |
| `Clock` | the hours in which `CveCache` and `RuleStore` count lifetimes | an hour passes only when nothing is in flight |
| `AuditLog` | `log()` cut at its SELECT and INSERT, `verify_integrity` | a row's hash is the sequence it was computed from, so equal hashes mean equal histories |
| `AutoResolver` | the rule engine | its three indexes, `reload_rules`, both `_resolve_*` functions rule by rule |
| `MC*` | instances for TLC | symmetry, concrete constants |
| `*Proofs` | theorems | see section 5 |

How they fit: `Ingress` stands before `Pipeline` (its workers are what `Pipeline` does to the keys of
a task), `Callback` after it. `Pipeline` takes the agents from `AgentVerdicts`, and `LocalAnalysis`
shows that a detailed run of these agents comes to no other outcome. `AppealResume` goes on where
`Pipeline` pauses. `CveCache` and `RuleStore` are what the scanner and the rule engine read.

Abstractions:

* A finding is opaque in the conflict stage; what the rule engine says of it is any function, fixed by
  `Init`, so every report is covered. In `Pipeline` a repository is "clean", has something that blocks,
  or something only a human may decide; and its list of packages is "scannable", has transitive
  packages only ("lock_only": `security/agent.py` 94 skips the CVE scan), or names a package twice
  ("repeated": `cve_scanner.py` 92 shifts the results). `LocalAnalysis` has the lists themselves, and
  `Listing` calls them by these names.
* Two fields are not in the code. `gap` of a security report names why it may lack a finding. `made`
  of a decision tells a decision from the `{}` of a conflict agent that failed twice. No action reads them.
* In `AutoResolver` a CVSS score is absent, below 9.0 or not, and a fixed version is reached by the
  upgrade or not. SHA-256 is injective.
* `CveCache` follows one package version, an advisory is a name; what the OSV and GitHub clients parse
  is the set of advisories it comes to. `sync_hot_cache` is nothing but lookups.
* In `RuleStore` a rule is its pattern, its state and the hour from which the SQL comparison drops it.
* In `Ingress` a commit is what `_idempotency_key` tells apart; stages of the pipeline are cut to
  "running", "completed" and the result.
* `Callback` counts seconds in the steps the code spends (POSTs and sleeps); countdowns of retries are
  left out, since nothing else happens to a message in the queue. A POST that fails may have been
  processed by its receiver.
* `LocalAnalysis` starts from package lists, advisories and matches: what parsers and Semgrep yield.
* Wording, durations, templates, logging and metrics are left out.

External behaviour: Celery (queue, slots, acknowledgement, retry messages, the soft limit's exception),
LangGraph, Redis expiry, OSV and Semgrep are modelled from how the code uses them. Two points matter:

* `result.get()` inside a task (454) may raise at any time while it waits (`JoinRaises`): at once in
  Celery's prefork pool, the default that `docker-compose.yml` starts, which refuses such a join; when its 120 s
  or the task's soft limit are over, which count the time the children queue behind those of other
  analyses; or when a child was killed. None of this is timed in the model. That covers every one of
  these causes, and more than the code does. The chain then ends and its children go on. `apply_async` before it
  may raise as well, before or after it has sent the security child (`DispatchRaises`).
* `update_state` is called synchronously on an asynchronous SQLite saver. If the installed version
  raises, every appeal ends as `ResumeRaises`; the model allows it (`Faults`) and assumes neither.

## 3. Runs

* **appeal_safety**: two findings, two ids, one delivery of the chain, two appeals, any fault,
  one crash. Two findings may share an id, and two appeals may name one or two ids: that is every way
  in which two decisions can meet in one thread. `WaiverHasCause`: nothing (checkpoint, a worker's copy, the
  cache) waives a finding that no rule waived and nobody appealed. `UnblockedIsDecided`: "not
  blocking" is published with a complete decision only. `ImplementsGate`: refinement of
  `VerdictGate`.
* **appeal_liveness**: the same without faults under `FairSpec`. `AppealSettles`: a queued
  appeal is answered, also when it overtakes the pause. `ReviewConcludes`: a review somebody
  resumes reaches a decision.
* **pipeline_safety**: two analyses on two slots; clone, chain, migration task, report, reporter and broker fail.
  `ReportSeesSecurity`: a report is made of its own chain's verdict, never of a missing key.
  `ScanReadsTree`: no scan reads a removed clone. `StatusForward`: the status only moves on.
  `ImplementsFlow`: refinement of `AnalysisFlow`. Two slots for two analyses is where all slots wait for
  children.
* **pipeline_liveness**: two analyses on two slots, joins that raise or wait, a failing chain and a
  reporter that fails twice. `EveryScanDecided`: every analysis gets its verdict, also when both slots wait
  for children until the joins give up, since the children stay in the queue. `EveryScanReported`: nothing but a raising join
  keeps an analysis from its report, which is never left out for being empty. `TreeIsRemoved`: nothing
  else keeps its clone from being removed.
* **pipeline_redelivered**: a webhook analysis delivered twice, hence two chains on one set of
  keys, with every list of packages and a failing scanner, security agent, conflict agent (twice each), chain and
  report. `CompletedHasResult`: the status is never ahead of the result. `FailSafe`: a decision that
  passes saw nothing that blocks; if there was something, the security report has a cause for not showing it
  (`gap`). No redelivery, no failing chain and no first failure of the conflict agent is such a cause.
* **ingress**: two deliveries of the webhook for any of two commits, one submission, a Redis and a
  broker that fail; the dedup key lives two hours, result and status one, so that the dedup key outlives
  the result as 72 hours do 24, and the deliveries may come before, during and after all of them.
  `OneAnalysisPerCommit`: no handler passes the check within `DedupTtl` of another's key.
  `DedupNamesDispatched`: a key names an analysis of that commit that was dispatched, so that a
  failed dispatch can be delivered again. `AnswersForward`: what a client polls does not go back.
* **callback**: one callback with the code's five attempts, backoff 1, 3, 10, 30 s, POSTs of 0 or 5 s
  and limit of 30 s. `MaxRetries` is 4 instead of 5, for the number of states; one level is like the next.
  `RunsBounded`: the doubled retries of one failure make at most a full binary tree of executions.
  `GivesUpLate`: an undelivered callback was tried at every level. `LastAttemptIsLate`: the
  sender's fifth attempt comes only after the limit was swallowed. `CallbackSettles`: the retries end.
* **cve_lookup**: two lookups (one finds what the other just stored), two advisories (a row kept, one
  missing), a Redis copy for one hour, rows for two, four hours, and failures of every tier. Four hours
  are the sum of both lifetimes and one more. `KnownIsFound`: what OSV has listed for longer than both
  lifetimes is in every answer. `ServedIsStored`: what Redis serves is in SQLite, although inserts raise.
* **rules_cached**: two clients, two rules, two patterns, a copy for two hours, three hours, Redis fails
  at will. `ServedIsRecent`: a rule served or missing was active or not within the copy's lifetime.
  `StaleCopyHasCause`: a stale copy is due to a pending delete, a delete or fill at the wrong time, or
  an expiry, never to anything else.
* **audit_concurrent**: three writers, four rows, two contents (a race takes two writers and two rows,
  an innocent row after it a third). `BadRowsAreForks`: what `verify_integrity` reports was chained
  to some earlier row. `EditIsDetected`: in every log the writers can leave, forked ones included, an edit
  adds its own row to what is reported and neither hides nor accuses another, since the check goes on from the
  stored hash. `DeletionIsDetected`: a deletion from a log that verified shows.
* **resolver_reload**: all rule lists of up to two rules (two is what priority, duplicates and one
  rule more need), every finding under each. `WaivedForAReason`: what is waived has a cause.
  `MoreRulesWaiveMore`: one rule more never blocks. `reload_rules` has no caller; the runs reload to get
  from one rule list to another.
* **local_scan**: every repository of two packages, listed up to twice as direct dependencies and once
  as transitive ones, with four kinds of advisory (at most one per package) and four kinds of Semgrep
  match (at most one): a package listed twice next to another one is what shifts the pairing of results,
  one finding of each kind is what a verdict depends on. Every step may fail. `FindingsBelong`: up to
  the first repeated package, results are found under their own package. `RunIsAbstracted`: the run's outcomes
  are those `AgentVerdicts` has for the list of packages and the failures that occurred, whatever the list.
  `ExitTells`: which failures and lists may turn the exit code, and which may not.

`CHECK_DEADLOCK FALSE` where the system may stop: all scans done, all appeals or callbacks settled, the
clock, the audit log or the handlers at their bound, the process ended. The rule engine never stops and is
checked for deadlock.

Bounds: `MaxCrashes`, `MaxRedeliveries`, `Chains` (instances of the workflow), `MaxRows`,
`MaxRules`, `MaxNow` (hours), `MaxDirect`, `MaxTransitive`, `MaxAdvisories`, `MaxMatches`. Symmetry
is used in safety runs only, on sets whose members are interchangeable.

Fairness: for appeals, weak fairness of every task that was taken or queued: workers keep running, tasks
have time limits, nobody has to appeal, nothing has to fail. For the pipeline, strong fairness of every
chain and child, because a slot is freed and taken again by others: the queue is first in, first out, so a
waiting message is not overtaken for ever. A running task goes on because of its time limit, which raises
inside it; a join that waits in vain raises as well. That a join succeeds is assumed of none, and worker
processes that are killed are left out: a killed security task leaves no verdict. For callbacks, weak fairness of the worker: a queued message is
taken and what was taken goes on. No fairness is assumed of submissions, redeliveries, receivers or clocks.

## 4. Divergences without a run

The modules state the formulas below. To reproduce one, put it in a cfg as INVARIANT
or PROPERTY of the module's `MC` module with these constants.

| Statement | Says | Constants | What happens |
|---|---|---|---|
| `AppealResume!UnblockedIsDecided` | `agents/conflict/agent.py` 380-381, "never silently default to allow" | `Scans` of two, one appeal, two findings and ids, `CheckpointDb`, no faults or crashes | the chain runs again between an appeal's pending check and its resume; the resume stops at the interrupt, returns `{}`, and `tasks/appeal.py` 219 reads that as not blocking |
| `AppealResume!ResolvedIsApplied` | `tasks/appeal.py` 4-7 | one scan, two appeals, no faults | both appeals pass the check; the second `update_state` (`agent.py` 421) replaces the first one's `human_input`, both are marked resolved. It takes two ids: for one, `ResolvedIsAppliedHolds` |
| `AppealResume!FailedAppealsStand` | `tasks/appeal.py` 9-11 | as `appeal_safety` | an appeal that fails after its resume leaves its decision in the checkpoint or the cache unblocked |
| `AppealResume!ResolvedIsPublished` | `tasks/appeal.py` 5 | as `appeal_safety` | Redis fails in the refresh, which swallows it; the appeal is resolved, the cache still paused. Without faults the same comes of an appeal that overtakes the chain between its pause and its cache write |
| `AppealResume!EveryDecisionAudited` | `agents/conflict/README.md` 29 | one scan, two appeals, no faults | the chain's own agent has no audit logger |
| `Pipeline!StatusSettles` | `celery_app.py` 67 | `FairSpec`, one task and chain, four slots, no failures | the join raises (454), the chain ends, and the status stays at what a child wrote last; no report comes. A failed report (`Failures = {"report"}`) leaves "running:report". Nothing writes "failed" |
| `Pipeline!EveryTreeIsRemoved` | `tasks/analysis.py` 371 | the same | only the report and a failed dispatch of the main task remove the clone, which stays after a raising join |
| `Pipeline!BlocksWhateverFails` | `ARCHITECTURE.md` 216 | one task and chain, four slots, no failures, `Repositories` all of `Repository` | a poetry project whose packages are all in its lock file has no direct dependency: the CVE scan is skipped (`security/agent.py` 94) and the repository passes |
| the same | the same | `MCScannable`, `Failures = {"scanner"}` | a CVE source that does not answer is an empty list (`cve_cache.py` 290, 85), not even degraded, and the repository passes |
| the same | the same | `MCScannable`, `Failures = {"conflict", "conflict_twice"}` | `{}` is read as not blocking |
| `Pipeline!ExecutesOnce` | `celery_app.py` 68 | as `pipeline_redelivered` | only a finished result stops a redelivered message |
| `Pipeline!PauseIsShown` | `tasks/analysis.py` 228-229 | as `pipeline_safety` | migration and report overwrite the pause |
| `Pipeline!DegradationIsShown` | `ARCHITECTURE.md` 218 | `Failures = {"chain"}` or `{"clone"}` | the reporter reads the degraded flags one level below |
| `Pipeline!CallbackTellsBlock` | `reporter/models.py` 31 | as `pipeline_safety` | a pause or failed chain blocks without a blocking decision to count |
| `Pipeline!StatusForward` | `github.py` 192-207 | `ByWebhook = TRUE` | "pending" is written after the dispatch |
| `CveCache!AnswerIsAsked` | `agents/security/models.py` 120, "never silently degraded" | as `cve_lookup` | OSV fails, the answer is empty, nothing says so |
| `CveCache!WithdrawnIsForgotten` | the cache follows its source | as `cve_lookup` | rows are replaced, never deleted: a withdrawn advisory stays |
| `LocalAnalysis!FailureBlocks` | `ARCHITECTURE.md` 216 | as `local_scan` | a failing source or scanner passes what must not |
| `LocalAnalysis!FallbackReportsCached` | `security/agent.py` 176-180 | as `local_scan` | a cached row has no `affected_version`, the fallback raises exactly when it has something |
| `LocalAnalysis!TransitiveScanned` | `cve_scanner.py` 6-11 | as `local_scan` | without a direct dependency the CVE scan is skipped |
| `LocalAnalysis!Traceable` | `security/models.py` 15-16 | as `local_scan` | a package listed twice shifts the `zip`: findings are reported under another package |
| `AuditLog!Valid` | `audit_log.py` 9 | as `audit_concurrent` | two writers read one previous hash (73) |
| `AutoResolver!CriticalOnlyByCve` | `agents/conflict/README.md` 27 | as `resolver_reload` | a path rule or the upgrade waives CVSS 9.0 and more |
| `AutoResolver!CriticalNotAppealable` | `ARCHITECTURE.md` 219 | as `resolver_reload` | a score of 9.0 under severity "high" is appealable |
| `AutoResolver!AlwaysBlockingNeverWaived` | `auto_resolver.py` 371 | as `resolver_reload` | the path whitelist comes first |
| `AutoResolver!WaiverNamesItsRule` | `auto_resolver.py` 4 | as `resolver_reload` | a lower-case rule is indexed in upper case and looked up as written |

Seen while modelling, and part of the modules or of no consequence for their properties:

* Once an aggregated report is cached, `GET /tasks/{id}` builds its response from it, although it has
  neither `task_id` nor `status`: the answer is an error (`"error"` in `Ingress`). When the read of the
  result fails and the status is still there, a later answer may go back; `AnswersForward` says so.
* `send_callback_task` (`tasks/callbacks.py`) repeats `webhook_callback_task` and nothing sends it.
  Tasks of the webhook carry no `callback_url`.
* As wired, the API hands an asynchronous Redis client to the synchronous `RuleStore`, the resume
  task creates one without Redis, and neither the chain nor the command line has a rule store:
  the Redis copy of `RuleStore` is exercised by no caller yet.
* `block_on_degraded` sets flags the conflict stage does not read. An unknown severity is "medium".
* The rate limiter is a fixed window where its documentation says sliding, and is off by default.

## 5. Proofs

`tlapm` checks every leaf. All theorems hold for any value of the constants, within the module's
assumptions. Every invariant and every action property and refinement of a run has its theorem; the
theorems without a run's property say what the liveness properties and section 4 leave open.

* `AppealResumeProofs`. Types with `Submitted` (an appeal in flight has an id).
  `WaiverHasCauseHolds`: the invariant is not inductive, because `human_input` waives later; `CauseInv`
  adds that every checkpoint and copy names appealed ids only. `UnblockedIsDecidedHolds` and
  `ImplementsGateHolds` assume `SingleDelivery` (the security chain is delivered once: with two
  deliveries TLC refutes them, section 4); `ReviewInv` says that a thread past the chain is fully
  reviewed, so that a returning resume has a decision. `ResolvedIsAuditedHolds` has no assumption.
  `EndedIsAnsweredHolds` assumes `~Faults` and allows crashes. `ResolvedIsAppliedHolds` is false in general
  (section 4); what it takes is `SingleDelivery` and `OneIdAppealed` (all appeals of the task name one
  id, a condition on the behaviour, not on the code). `AppliedInv` follows the id from `update_state`
  into the copy, through `human_review`, to a thread that is past it; a second appeal of the id waives the
  same findings again.
* `PipelineProofs`. Types with `Owned` (a chain in use has a task). `CompletedHasResultHolds` assumes
  Redis answers (`RedisUp`) and allows any number of redeliveries. `FailSafeHolds` assumes nothing: each
  outcome of the security agent shows what must not pass or has a `gap` (`SecurityOutcomesTell`), and each
  decision made of it blocks what it shows (`ConflictOutcomesBlock`). `StatusForwardHolds` assumes
  `NoRedelivery` and a REST submission; `ForwardInv` bounds each status by the `Reach` of the task's one
  chain. `ReportSeesSecurityHolds`, `ScanReadsTreeHolds` and `ImplementsFlowHolds` assume `RedisUp` and
  `NoRedelivery`; `FlowInv` says a task has one chain, a finished security child has cached its verdict,
  a chain in its report has joined, what it loaded is what is cached, and the clone stays until the report.
  `SlotsHeldHolds`: tasks never hold more slots than there are.
  `VerdictCachedHolds`, `FinishedIsReportedHolds`, `FinishedIsCleanedHolds` and `EveryStepGoesOn` are the
  safety halves of `EveryScanDecided`, `EveryScanReported` and `TreeIsRemoved`, with joins that may raise at
  any time. `Progress` counts the stages of a chain and its children; `ChildrenLater` (children only
  after the dispatch) makes it grow with every step.
* `IngressCallbackProofs`, the two components before and after the pipeline, which share nothing but the file.
  `DedupNamesDispatchedHolds`; `OneAnalysisPerCommitHolds`, where the invariant ties the
  history of a handler's claim to what the key has left; `AnswersForwardHolds`, where the
  invariant bounds what a client was told by what the workers have done and what the keys hold.
  `GivesUpLateHolds`: a message is at a level only after that many executions (`Earned`),
  and a callback whose receiver has not had it is in the queue, under way or past every level.
  `LastAttemptIsLateHolds` assumes that the last pause alone lasts as long as the soft limit
  (`LastPauseIsLong`: 30 s and 30 s in the code). `RunsBoundedHolds`: each message in the queue owns the
  binary tree of the executions it can still cause, and what was executed and what is owned never exceed the
  first tree. The sum over the levels is a function of partial sums, whose existence the invariant
  claims and each step shows by naming the next one; a power of two is the number of subsets, so that
  doubling is a fact about cardinalities and no induction is needed. `EffortIsSpentHolds`: every step of an announced
  callback starts another execution, which `RunsBounded` limits, or takes one to a later of its places.
* `LocalAnalysisProofs`. `FindingsBelongHolds` from `LookupInv`: a key keeps its place in the results
  and a new one comes last (`PlacesKept`), and every entry holds its package's advisories, or part
  of them after a failure (`EntriesKnown`), so that up to the first repeated package entries and packages are at
  the same places, for lists of any length. `RunIsAbstractedHolds` and `ExitTellsHolds` from
  `VerdictInv`, which holds the decision, the report and the exit code against the outcomes of `AgentVerdicts`,
  and from `ReportKinds`: what the report contains is what `SeenIn` has for the list of packages, or part of it when a
  failure is named. Both are about every list: a package listed twice may turn a transitive dependency into a direct
  one, never the other way round (`LookupInv` places the first listing of a key before the shifted one).
  `RaisedExitsHolds`: a preprocessing that raises exits 1.
* `CveCacheProofs`. `KnownIsFoundHolds`: the invariant gives every tier, every copy and every lookup
  in flight the same bound on what it may be missing. `ServedIsStoredHolds` needs rows that are never
  deleted and an insert that comes before the promotion.
* `RuleStoreProofs`. `ServedIsRecentHolds`: the same bound, kept by the lifetime of the copy and by
  what a reader holds. `StaleCopyHasCauseHolds`.
* `AuditLogProofs`. `ForkInv` adds that every hash a writer holds is that of some row or the genesis.
  `EditIsDetectedHolds` and `DeletionIsDetectedHolds` are about every table, with no invariant but the type;
  that the rows after an edited one are judged as before is what going on from the stored hash gives.
  `ValidHolds` assumes `SingleWriter`, with `ChainInv`: the hash being held is the last row's.
* `AutoResolverProofs`. The cause of a waiver and monotonicity, with the lemma that the index is that of
  the loaded rules.

Only model-checked: liveness, because fairness and ENABLED are out of the prover's reach. These are
`AppealSettles`, `ReviewConcludes`, `EveryScanDecided`, `EveryScanReported`, `TreeIsRemoved` and
`CallbackSettles`. Of each but
`ReviewConcludes` a safety half is proved (no end without the promised state, or no step that leads
nowhere); what TLC adds is that the end is reached.

## 6. Not modelled, and why

* The human loop manager: only its tests call it. Human decisions take the way `AppealResume` models.
* Migration analysis: texts merged and a language model asked, for a report that takes no part in a verdict.
  Its failures, fallback and degraded flag are in `AgentVerdicts`, `Pipeline` and `LocalAnalysis`.
* The GitHub client and the retry helper: no task calls the client, the helper keeps no state.
* Rate limiting: one INCR and one EXPIRE per request, atomic in Redis, sharing nothing with the rest.
* Parsing of manifests and sources, rendering and storing reports, migrations of the schema, metrics,
  logging, request validation and signature checks: sequential text and file work.
* The event bus and the progress keys of the orchestrator: its one caller passes neither a Redis client nor
  a subscriber, so they do nothing.
* That the published report is not refreshed by an appeal (`tasks/appeal.py` 211): the code has no step that
  connects the two, so there is no behaviour to check.
