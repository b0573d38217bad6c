---------------------------- MODULE AppealResume ----------------------------
(***************************************************************************)
(* The conflict stage of security_chain_task and the appeals that resume   *)
(* it: one task_id, hence one LangGraph thread `conflict:{task}:{task}',   *)
(* one cached security result, and any number of Celery messages working   *)
(* on them.                                                                *)
(*                                                                         *)
(*   - a scan is one delivery of security_chain_task; acks_late lets the   *)
(*     broker deliver it again, so Scans may have several members;         *)
(*   - an appeal is one POST /tasks/{id}/appeal and its resume task, which *)
(*     may crash and be delivered again.                                   *)
(*                                                                         *)
(* ainvoke loads the checkpoint once, runs the nodes on its own copy       *)
(* (`mem') and saves that copy after each node; the saved copy becomes the *)
(* thread's latest checkpoint whatever the others saved meanwhile.         *)
(***************************************************************************)
EXTENDS ConflictGraph, Naturals

CONSTANTS
    Scans,          \* deliveries of security_chain_task for the task
    Appeals,        \* appeals submitted through the API
    NoId,           \* the id of an appeal not submitted yet
    CheckpointDb,   \* CODEGUARD_CHECKPOINT_DB_PATH is set: checkpoints are shared
    Faults,         \* Redis, SQLite, the broker and the graph may raise
    MaxCrashes      \* bound: worker crashes in the middle of an appeal task

ASSUME AppealConstants ==
    /\ NoId \notin Ids
    /\ Scans \cap Appeals = {}
    /\ CheckpointDb \in BOOLEAN
    /\ Faults \in BOOLEAN
    /\ MaxCrashes \in Nat

VARIABLES
    auto, idOf,     \* the report under review, fixed
    ckpt,           \* latest checkpoint of the thread
    mem,            \* the copy an ainvoke works on
    scanPc,         \* where each delivery of the security chain is
    apc,            \* where each appeal is
    appealId,       \* finding_id of the appeal
    status,         \* status field of the appeal record in Redis
    cache,          \* codeguard:task:{id}:security, its conflict part
    audit,          \* rows of the audit log, as <<action, subject>>
    crashes

vars == <<auto, idOf, ckpt, mem, scanPc, apc, appealId, status, cache, audit, crashes>>

InFlight == {"resume", "updated", "running", "returned", "cached", "audited"}

\* The cached conflict decision.  `decided' says a FinalSecurityDecision with verdicts is in it.
Cache == [present : BOOLEAN, blocking : BOOLEAN, decided : BOOLEAN,
          verdict : [Findings -> Verdict \union {"none"}]]

NoCache == [present |-> FALSE, blocking |-> FALSE, decided |-> FALSE, verdict |-> NoVerdict]

TypeOK ==
    /\ auto \in [Findings -> AutoOutcome]
    /\ idOf \in [Findings -> Ids]
    /\ ckpt \in Checkpoint
    /\ mem \in [Scans \union Appeals -> Checkpoint]
    /\ scanPc \in [Scans -> {"ready", "invoked", "returned", "done", "dead"}]
    /\ apc \in [Appeals -> {"none", "queued", "lost", "done"} \union InFlight]
    /\ appealId \in [Appeals -> Ids \union {NoId}]
    /\ status \in [Appeals -> {"none", "pending_review", "failed", "resolved"}]
    /\ cache \in Cache
    /\ audit \subseteq ({"verdict_made"} \X Findings)
                 \union ({"appeal_approved", "appeal_failed"} \X Appeals)
    /\ crashes \in Nat

Init ==
    /\ auto \in [Findings -> AutoOutcome]
    /\ idOf \in [Findings -> Ids]
    /\ ckpt = NoCheckpoint
    /\ mem = [p \in Scans \union Appeals |-> NoCheckpoint]
    /\ scanPc = [s \in Scans |-> "ready"]
    /\ apc = [a \in Appeals |-> "none"]
    /\ appealId = [a \in Appeals |-> NoId]
    /\ status = [a \in Appeals |-> "none"]
    /\ cache = NoCache
    /\ audit = {}
    /\ crashes = 0

-----------------------------------------------------------------------------
(* security_chain_task: ConflictResolutionAgent.execute, then the cache.   *)

ScanUnchanged == UNCHANGED <<auto, idOf, apc, appealId, status, audit, crashes>>

\* run(): ainvoke(initial_state) restarts the thread, paused or finished as it may be.
ScanInvoke(s) ==
    /\ scanPc[s] = "ready"
    /\ ckpt' = InitialState
    /\ mem' = [mem EXCEPT ![s] = InitialState]
    /\ scanPc' = [scanPc EXCEPT ![s] = "invoked"]
    /\ ScanUnchanged /\ UNCHANGED cache

\* One node of the chain's own invocation.  Its agent has no audit_logger.
ScanNode(s) ==
    /\ scanPc[s] = "invoked"
    /\ LET c == NodeStep(mem[s], auto, idOf) IN
       /\ mem' = [mem EXCEPT ![s] = c]
       /\ ckpt' = c
       /\ scanPc' = [scanPc EXCEPT ![s] =
                        IF c.next \in {"human_review", "end"} THEN "returned" ELSE @]
    /\ ScanUnchanged /\ UNCHANGED cache

\* A paused graph reported as its overall_blocking alone would be.
ScanDecisionFailOpen(c) ==
    [present |-> TRUE, blocking |-> AnyBlock(c.verdict),
     decided |-> c.decided, verdict |-> IF c.decided THEN c.verdict ELSE NoVerdict]

\* What run() returns: the final decision, or the fail-safe one of a paused graph.
ScanDecision(c) ==
    [present |-> TRUE, blocking |-> ~c.decided \/ AnyBlock(c.verdict),
     decided |-> c.decided, verdict |-> IF c.decided THEN c.verdict ELSE NoVerdict]

\* degraded_run(): every finding blocked.
DegradedDecision ==
    [present |-> TRUE, blocking |-> Findings # {}, decided |-> TRUE,
     verdict |-> [f \in Findings |-> "block"]]

\* The except branch of the chain: blocking, without decisions.
ChainFailure ==
    [present |-> TRUE, blocking |-> TRUE, decided |-> FALSE, verdict |-> NoVerdict]

\* _sync_cache_json swallows Redis errors.
ScanPublish(s) ==
    /\ scanPc[s] = "returned"
    /\ scanPc' = [scanPc EXCEPT ![s] = "done"]
    /\ \/ cache' = ScanDecision(mem[s])
       \/ Faults /\ UNCHANGED cache
    /\ ScanUnchanged /\ UNCHANGED <<ckpt, mem>>

\* run() raised, or the chain did; either way a blocking result is cached.
ScanDegrade(s) ==
    /\ Faults
    /\ scanPc[s] \in {"invoked", "returned"}
    /\ scanPc' = [scanPc EXCEPT ![s] = "done"]
    /\ cache' \in {DegradedDecision, ChainFailure}
    /\ ScanUnchanged /\ UNCHANGED <<ckpt, mem>>

\* The worker dies; the redelivery is another member of Scans.
ScanCrash(s) ==
    /\ Faults
    /\ scanPc[s] \in {"invoked", "returned"}
    /\ scanPc' = [scanPc EXCEPT ![s] = "dead"]
    /\ ScanUnchanged /\ UNCHANGED <<cache, ckpt, mem>>

-----------------------------------------------------------------------------
(* POST /tasks/{id}/appeal and appeal_resume_task.                         *)

AppealUnchanged == UNCHANGED <<auto, idOf, scanPc, appealId>>

Goto(a, pc) == apc' = [apc EXCEPT ![a] = pc]

\* submit_appeal checks neither the task's state nor the finding id.  A failed dispatch leaves
\* the record pending_review.
Submit(a) ==
    /\ apc[a] = "none"
    /\ \E i \in Ids : appealId' = [appealId EXCEPT ![a] = i]
    /\ status' = [status EXCEPT ![a] = "pending_review"]
    /\ \/ Goto(a, "queued")
       \/ Faults /\ Goto(a, "lost")
    /\ UNCHANGED <<auto, idOf, ckpt, mem, scanPc, cache, audit, crashes>>

\* What the task sees: an agent without the shared database has a checkpointer of its own.
SeenPending == IF CheckpointDb THEN PendingIds(ckpt, idOf) ELSE {}

\* _mark_appeal_status swallows Redis errors.
MarkStatus(a, s) ==
    \/ status' = [status EXCEPT ![a] = s]
    \/ Faults /\ UNCHANGED status

\* AuditLogger.log, an INSERT that may raise.  The caller decides what a raise means.
AuditRow(action, a) == audit' = audit \union {<<action, a>>}

\* The early return of an appeal without pending items, taken before the status write.
FailNoPendingStateUnmarked(a) ==
    /\ apc[a] = "queued"
    /\ SeenPending = {} \/ Faults
    /\ AuditRow("appeal_failed", a)
    /\ Goto(a, "done")
    /\ AppealUnchanged /\ UNCHANGED <<ckpt, mem, cache, crashes, status>>

\* No pending items (or the lookup raised): fail the appeal and say so in the audit log.
FailNoPendingState(a) ==
    /\ apc[a] = "queued"
    /\ SeenPending = {} \/ Faults
    /\ MarkStatus(a, "failed")
    /\ AuditRow("appeal_failed", a) \/ (Faults /\ UNCHANGED audit)
    /\ Goto(a, "done")
    /\ AppealUnchanged /\ UNCHANGED <<ckpt, mem, cache, crashes>>

FailFindingNotPending(a) ==
    /\ apc[a] = "queued"
    /\ SeenPending # {} /\ appealId[a] \notin SeenPending
    /\ MarkStatus(a, "failed")
    /\ Goto(a, "done")
    /\ AppealUnchanged /\ UNCHANGED <<ckpt, mem, cache, audit, crashes>>

PassPendingCheck(a) ==
    /\ apc[a] = "queued"
    /\ appealId[a] \in SeenPending
    /\ Goto(a, "resume")
    /\ AppealUnchanged /\ UNCHANGED <<ckpt, mem, status, cache, audit, crashes>>

\* resume_with_human_input: update_state on whatever the thread has become since the check.
InjectDecision(a) ==
    /\ apc[a] = "resume"
    /\ ckpt' = UpdateState(ckpt, appealId[a])
    /\ Goto(a, "updated")
    /\ AppealUnchanged /\ UNCHANGED <<mem, status, cache, audit, crashes>>

\* ainvoke(None) begins: a finished thread has nothing to run.
LoadCheckpoint(a) ==
    /\ apc[a] = "updated"
    /\ mem' = [mem EXCEPT ![a] = ckpt]
    /\ Goto(a, IF ckpt.next = "end" THEN "returned" ELSE "running")
    /\ AppealUnchanged /\ UNCHANGED <<ckpt, status, cache, audit, crashes>>

\* One node of the resumed graph; this agent's finalize writes an audit row per decision and
\* ignores a failing one.  A thread caught before auto_resolve is interrupted again.
RunNode(a) ==
    /\ apc[a] = "running"
    /\ LET c == NodeStep(mem[a], auto, idOf) IN
       /\ mem' = [mem EXCEPT ![a] = c]
       /\ ckpt' = c
       /\ Goto(a, IF c.next \in {"human_review", "end"} THEN "returned" ELSE "running")
       /\ \E logged \in {{}, Findings} :
            /\ logged = Findings \/ Faults \/ c.next # "end"
            /\ audit' = audit \union
                 (IF c.next = "end" THEN {"verdict_made"} \X logged ELSE {})
    /\ AppealUnchanged /\ UNCHANGED <<status, cache, crashes>>

ResumeRaises(a) ==
    /\ Faults
    /\ apc[a] \in {"resume", "updated", "running"}
    /\ MarkStatus(a, "failed")
    /\ Goto(a, "done")
    /\ AppealUnchanged /\ UNCHANGED <<ckpt, mem, cache, audit, crashes>>

\* The refresh looking at the appealed finding alone.
ResumeDecisionOfAppealOnly(c) ==
    [present |-> TRUE, blocking |-> c.decided /\ c.human = {},
     decided |-> c.decided, verdict |-> IF c.decided THEN c.verdict ELSE NoVerdict]

\* _update_security_cache: `final_decision or {}', then .get("overall_blocking", False).
ResumeDecision(c) ==
    [present |-> TRUE, blocking |-> c.decided /\ AnyBlock(c.verdict),
     decided |-> c.decided, verdict |-> IF c.decided THEN c.verdict ELSE NoVerdict]

RefreshCache(a) ==
    /\ apc[a] = "returned"
    /\ \/ cache' = ResumeDecision(mem[a])
       \/ Faults /\ UNCHANGED cache
    /\ Goto(a, "cached")
    /\ AppealUnchanged /\ UNCHANGED <<ckpt, mem, status, audit, crashes>>

\* A raising audit write ends the task with the record still pending_review.
AuditApproval(a) ==
    /\ apc[a] = "cached"
    /\ \/ AuditRow("appeal_approved", a) /\ Goto(a, "audited")
       \/ Faults /\ UNCHANGED audit /\ Goto(a, "done")
    /\ AppealUnchanged /\ UNCHANGED <<ckpt, mem, status, cache, crashes>>

MarkResolved(a) ==
    /\ apc[a] = "audited"
    /\ MarkStatus(a, "resolved")
    /\ Goto(a, "done")
    /\ AppealUnchanged /\ UNCHANGED <<ckpt, mem, cache, audit, crashes>>

\* task_acks_late: the message of a worker that dies is delivered again, from the top.
Crash(a) ==
    /\ apc[a] \in InFlight
    /\ crashes < MaxCrashes
    /\ crashes' = crashes + 1
    /\ Goto(a, "queued")
    /\ AppealUnchanged /\ UNCHANGED <<ckpt, mem, status, cache, audit>>

-----------------------------------------------------------------------------
ScanRun(s) == ScanInvoke(s) \/ ScanNode(s) \/ ScanPublish(s)

AppealRun(a) ==
    \/ FailNoPendingState(a) \/ FailFindingNotPending(a) \/ PassPendingCheck(a)
    \/ InjectDecision(a) \/ LoadCheckpoint(a) \/ RunNode(a)
    \/ RefreshCache(a) \/ AuditApproval(a) \/ MarkResolved(a)

Next ==
    \/ \E s \in Scans : ScanRun(s) \/ ScanDegrade(s) \/ ScanCrash(s)
    \/ \E a \in Appeals : Submit(a) \/ AppealRun(a) \/ ResumeRaises(a) \/ Crash(a)

Spec == Init /\ [][Next]_vars

\* Workers keep taking messages and finishing tasks; nobody has to appeal, nothing has to fail.
Fairness ==
    /\ \A s \in Scans : WF_vars(ScanRun(s))
    /\ \A a \in Appeals : WF_vars(AppealRun(a))

FairSpec == Spec /\ Fairness

-----------------------------------------------------------------------------
Appealed == {appealId[a] : a \in {b \in Appeals : status[b] # "none"}}

\* The findings that may be waived: by the rule engine, or by an appeal of their id.
Waivable == {f \in Findings : \/ auto[f] = "waive"
                              \/ auto[f] = "human" /\ idOf[f] \in Appealed}

WaivedBy(verdict) == {f \in Findings : verdict[f] = "waive"}

\* A waiver always has a cause: neither the checkpoint, nor a copy some worker holds, nor the
\* cached result ever waives a finding that the rule engine did not waive and nobody appealed.
\* The default of _human_review_node and the replaced human_input are what could break it.
WaiverHasCause ==
    /\ WaivedBy(ckpt.verdict) \subseteq Waivable
    /\ \A p \in Scans \union Appeals : WaivedBy(mem[p].verdict) \subseteq Waivable
    /\ WaivedBy(cache.verdict) \subseteq Waivable

\* The cached result says "not blocking" only on a decision that leaves no finding blocked or
\* undecided: a paused, failed or half-resumed graph always blocks (fail-safe, agent.py 379-381).
UnblockedIsDecided ==
    cache.present /\ ~cache.blocking =>
        cache.decided /\ WaivedBy(cache.verdict) = Findings

\* An appeal marked resolved was applied: the findings of its id that were left to a human are
\* waived in the thread's decision, whatever other appeals did to the thread meanwhile.
ResolvedIsApplied ==
    \A a \in Appeals : status[a] = "resolved" =>
        \A f \in Findings :
            auto[f] = "human" /\ idOf[f] = appealId[a] => ckpt.verdict[f] = "waive"

\* The appeal of a queued message is settled: no interleaving of scan and appeals leaves the
\* record pending_review forever while the workers keep running.
AppealSettles ==
    \A a \in Appeals : apc[a] = "queued" ~> status[a] \in {"failed", "resolved"}

\* A review somebody began to resume concludes: the thread does not stay half-way.
ReviewConcludes ==
    \A a \in Appeals : apc[a] = "resume" ~> ckpt.decided

\* The conflict stage implements VerdictGate.
Gate == INSTANCE VerdictGate WITH
    appealed <- Appealed,
    gate <- IF ~cache.present THEN "unset" ELSE IF cache.blocking THEN "blocked" ELSE "open",
    waived <- WaivedBy(cache.verdict)

ImplementsGate == Gate!GateSpec

-----------------------------------------------------------------------------
(* What the documentation says and the code does not keep; no run checks   *)
(* these, README.md tells how each of them fails.                          *)

\* If every appeal ended as failed, the blocking verdict stands (appeal.py 9-11): a report with a
\* finding left to a human is not unblocked.
FailedAppealsStand ==
    /\ \E a \in Appeals : status[a] = "failed"
    /\ \A a \in Appeals : status[a] \in {"none", "failed"}
    /\ \E f \in Findings : auto[f] = "human"
    => cache.blocking \/ ~cache.present

\* An appeal marked resolved reached the readers: the cached result is the thread's decision and
\* no longer the pause the appeal ended.
ResolvedIsPublished ==
    \A a \in Appeals : status[a] = "resolved" => cache.decided

\* Every verdict of a cached decision was written to the audit log.
EveryDecisionAudited ==
    cache.decided => \A f \in Findings : <<"verdict_made", f>> \in audit
============================================================================
