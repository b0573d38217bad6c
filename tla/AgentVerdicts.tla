--------------------------- MODULE AgentVerdicts ---------------------------
(***************************************************************************)
(* What the agents of one analysis make of a repository, and of each       *)
(* other's failures.  The findings themselves are abstracted to what a     *)
(* complete scan of the repository would lead to:                          *)
(*                                                                         *)
(*   "clean"  nothing that blocks                                          *)
(*   "block"  a finding the rule engine blocks                             *)
(*   "human"  a finding only a human may decide, whatever the others are   *)
(*                                                                         *)
(* A repository also has a list of packages, which not every scan gets      *)
(* through:                                                                *)
(*                                                                         *)
(*   "scannable"  every package is listed once, and some of them directly  *)
(*   "lock_only"  transitive packages only, such as those of a poetry.lock *)
(*   "repeated"   some package is listed twice                             *)
(*                                                                         *)
(* Failures names what may go wrong: "clone" (preprocessing raises),       *)
(* "scanner" (a scanner fails), an agent (its run raises) or agent and     *)
(* "_twice" (its degraded_run raises as well), "chain", "migration_task"   *)
(* and "report" (code around the agents raises, time limits included),     *)
(* "redis" (Redis is unreachable), "broker" (nothing can be enqueued).     *)
(***************************************************************************)
CONSTANT Failures

ASSUME FailuresAssumption ==
    Failures \subseteq {"clone", "scanner", "chain", "migration_task", "report", "redis", "broker",
                        "security", "security_twice", "conflict", "conflict_twice",
                        "migration", "migration_twice", "reporter", "reporter_twice"}

Truth == {"clean", "block", "human"}

Repository == [truth : Truth, listing : {"scannable", "lock_only", "repeated"}]

\* What a SecurityReport lets one see; {} shows nothing at all.  gap is not in the code: why the
\* report may lack a finding of the repository.
SecurityReport ==
    [sees : Truth \union {"nothing"}, degraded : BOOLEAN,
     gap : {"none", "clone", "listing", "scanner", "agent"}]

NoSecurityReport == [sees |-> "nothing", degraded |-> FALSE, gap |-> "agent"]

\* What part of the findings may look like.
PartOf(truth) ==
    CASE truth = "clean" -> {"clean"}
      [] truth = "block" -> {"clean", "block"}
      [] truth = "human" -> {"clean", "block", "human"}

\* What a scan without failures sees.  Without a direct dependency the CVE scan is skipped.  A
\* package listed twice shifts the results of later ones to earlier places of the list, where a
\* transitive dependency may count as a direct one, never the other way round.
SeenIn(repository) ==
    CASE repository.listing = "scannable" -> {repository.truth}
      [] repository.listing = "lock_only" -> PartOf(repository.truth)
      [] repository.listing = "repeated"  ->
            {repository.truth} \union (IF repository.truth = "clean" THEN {"block"} ELSE {})

\* overall_blocking, whether a decision says block, and paused_for_human_review.  made is FALSE
\* of {} alone.
ConflictDecision == [made : BOOLEAN, blocking : BOOLEAN, blocks : BOOLEAN, paused : BOOLEAN]

\* {}: `.get("overall_blocking", False)' reads it as not blocking.
NoConflictDecision == [made |-> FALSE, blocking |-> FALSE, blocks |-> FALSE, paused |-> FALSE]

\* BaseAgent.execute: run, else degraded_run, else data = {}.
Execute(runFails, fallbackFails, run, degradedRun, nothing) ==
    run \union (IF runFails THEN degradedRun ELSE {})
        \union (IF fallbackFails THEN {nothing} ELSE {})

\* SecurityAuditAgent.run: the metadata of a failed preprocessing has no dependency and no
\* file, and scanning nothing degrades nothing.  A code scanner that fails says so; a CVE source
\* that does not answer is an empty list (cve_cache.py 100-102, 286-290).
SecurityRun(repository, metadata) ==
    IF metadata # "full"
    THEN {[sees |-> "clean", degraded |-> FALSE, gap |-> "clone"]}
    ELSE [sees : SeenIn(repository), degraded : {FALSE},
          gap : {IF repository.listing = "lock_only" THEN "listing" ELSE "none"}]
         \union (IF "scanner" \in Failures
                 THEN [sees : UNION {PartOf(s) : s \in SeenIn(repository)}, degraded : BOOLEAN,
                       gap : {"scanner"}]
                 ELSE {})

\* SecurityAuditAgent.degraded_run: the local CVE cache alone, no code scan.
SecurityDegradedRun(repository, metadata) ==
    [sees : IF metadata = "full" THEN PartOf(repository.truth) ELSE {"clean"}, degraded : {TRUE},
     gap : {"agent"}]

SecurityOutcomes(repository, metadata) ==
    Execute("security" \in Failures, "security_twice" \in Failures,
            SecurityRun(repository, metadata), SecurityDegradedRun(repository, metadata),
            NoSecurityReport)

\* ConflictResolutionAgent.run: the graph's decision, or its pause, which blocks.
ConflictRun(report) ==
    [made     |-> TRUE,
     blocking |-> report.sees \in {"block", "human"},
     blocks   |-> report.sees = "block",
     paused   |-> report.sees = "human"]

\* The fallback waiving what it cannot resolve.
ConflictDegradedRunWaiving(report) ==
    {[made |-> TRUE, blocking |-> report.sees = "block", blocks |-> report.sees = "block",
      paused |-> FALSE]}

\* ConflictResolutionAgent.degraded_run: every finding is blocked.  A report that sees a clean
\* repository may still hold findings the rule engine would have waived.
ConflictDegradedRun(report) ==
    LET found == CASE report.sees = "nothing" -> {FALSE}
                   [] report.sees = "clean"   -> BOOLEAN
                   [] OTHER                   -> {TRUE}
    IN  {[made |-> TRUE, blocking |-> b, blocks |-> b, paused |-> FALSE] : b \in found}

ConflictOutcomes(report) ==
    Execute("conflict" \in Failures, "conflict_twice" \in Failures,
            {ConflictRun(report)}, ConflictDegradedRun(report), NoConflictDecision)

\* The report of MigrationAssessmentAgent, as far as anybody reads it: its degraded flag.
MigrationOutcomes ==
    Execute("migration" \in Failures, "migration_twice" \in Failures,
            {FALSE}, {TRUE}, FALSE)

-----------------------------------------------------------------------------
\* codeguard:task:{id}:security.  `failed' is the top-level degraded flag of a failed chain.
SecurityData ==
    [present : BOOLEAN, security : SecurityReport, conflict : ConflictDecision, failed : BOOLEAN]

NoSecurityData ==
    [present |-> FALSE, security |-> NoSecurityReport, conflict |-> NoConflictDecision,
     failed |-> FALSE]

\* The except branch of security_chain_task.
ChainFailed ==
    [present |-> TRUE, security |-> NoSecurityReport,
     conflict |-> [made |-> TRUE, blocking |-> TRUE, blocks |-> FALSE, paused |-> FALSE],
     failed |-> TRUE]

\* What the chain caches when it does not raise.
ChainOutcomes(repository, metadata) ==
    UNION {{[present |-> TRUE, security |-> r, conflict |-> c, failed |-> FALSE] :
                c \in ConflictOutcomes(r)} : r \in SecurityOutcomes(repository, metadata)}

\* codeguard:task:{id}:result: the conflict decision it carries along, whether its
\* blocking_count is positive, its degraded flag.  {} is a result, too.
Report ==
    [kind : {"none", "empty", "report"}, conflict : ConflictDecision,
     counts : BOOLEAN, degraded : BOOLEAN]

NoReport ==
    [kind |-> "none", conflict |-> NoConflictDecision, counts |-> FALSE, degraded |-> FALSE]

\* The reporter drawing its own conclusion from the decisions it counts.
ReportRunConcluding(data, migrationDegraded) ==
    [kind     |-> "report",
     conflict |-> [data.conflict EXCEPT !.blocking = data.conflict.blocks],
     counts   |-> data.conflict.blocks,
     degraded |-> data.security.degraded \/ migrationDegraded]

\* ReportAggregationAgent.run: it looks at the degraded flags of the three sections.
ReportRun(data, migrationDegraded) ==
    [kind     |-> "report",
     conflict |-> data.conflict,
     counts   |-> data.conflict.blocks,
     degraded |-> data.security.degraded \/ migrationDegraded]

ReportDegradedRun(data) == [ReportRun(data, TRUE) EXCEPT !.degraded = TRUE]

\* A reporter that fails twice caches {}.
ReportOutcomes(data, migrationDegraded) ==
    Execute("reporter" \in Failures, "reporter_twice" \in Failures,
            {ReportRun(data, migrationDegraded)}, {ReportDegradedRun(data)},
            [NoReport EXCEPT !.kind = "empty"])
============================================================================
