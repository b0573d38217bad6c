--------------------------- MODULE LocalAnalysis ---------------------------
(***************************************************************************)
(* One `codeguard analyze' (cli/main.py): the orchestrator runs the agents *)
(* in this process, one after the other, without Redis, and the exit code  *)
(* is the verdict.  The security agent (agents/security/) is modelled in   *)
(* detail; the rule engine is AutoResolver without rules, which is how it  *)
(* is wired; the other agents are those of AgentVerdicts.                  *)
(*                                                                         *)
(* The run fails at any step.  failures remembers how, in the words of     *)
(* AgentVerdicts, so that the detailed run can be held against what that   *)
(* module, and Pipeline with it, says an analysis may come to.  A local    *)
(* CVE cache answers what the sources would: CveCache is about when it     *)
(* does not.  Without Redis and without subscribers the event bus and the  *)
(* progress keys do nothing.                                               *)
(***************************************************************************)
EXTENDS Sequences, FiniteSets, Naturals

CONSTANTS
    Packages,       \* name@version
    Advisories,     \* what a source says of a package: [severity, cvss]
    Matches,        \* what Semgrep says of a file: [rule, severity]
    HighConfidence, \* HIGH_CONFIDENCE_RULES
    AlwaysBlocking, \* ALWAYS_BLOCKING_RULES
    MaxDirect, MaxTransitive, MaxAdvisories, MaxMatches     \* bounds

Rules == {m.rule : m \in Matches}

ASSUME LocalConstants ==
    /\ \A a \in Advisories : {"severity", "cvss"} = DOMAIN a
    /\ \A m \in Matches : {"rule", "severity"} = DOMAIN m
    /\ {MaxDirect, MaxTransitive, MaxAdvisories, MaxMatches} \subseteq Nat

VARIABLES
    at,             \* the step the process is at
    direct,         \* code_metadata["dependencies"]
    transitive,     \* code_metadata["transitive_deps"]
    known,          \* what the sources know of each package
    matches,        \* what Semgrep finds in the eligible files
    target,         \* a migration target was given
    cached,         \* packages with fresh rows in the local CVE cache
    looked,         \* packages looked up so far
    results,        \* lookup_batch's dictionary in insertion order
    vulnerabilities,
    issues,
    degraded,
    report,         \* SecurityReport
    decision,       \* FinalSecurityDecision
    migration,      \* degraded flag of the MigrationReport
    aggregated,     \* AggregatedReport
    exit,           \* exit code of the process: {} while it runs
    failures        \* what went wrong so far

repository == <<direct, transitive, known, matches, target>>
scan == <<cached, looked, results, vulnerabilities, issues, degraded>>
localVars == <<at, repository, scan, report, decision, migration, aggregated, exit, failures>>

Verdicts == INSTANCE AgentVerdicts WITH Failures <- failures

\* The conflict agent of the CLI has no rule store, and code_metadata no target_version.
Engine == INSTANCE AutoResolver WITH
    Cves <- {"cve"}, Upper <- [c \in {"cve"} |-> c], RuleIds <- Rules, Paths <- {<<>>},
    Patterns <- {}, Labels <- {}, MaxRules <- 0,
    rules <- <<>>, cveWhitelist <- {}, pathWhitelist <- {}, upgrade <- FALSE,
    cfg <- [critical_cannot_waive |-> TRUE, auto_waive_low_confidence |-> TRUE]

NoFindings == [present |-> FALSE, vulnerabilities |-> {}, issues |-> {}, degraded |-> FALSE]

\* Ordered as in lookup_batch's argument: direct dependencies first.
Listed == direct \o transitive

DepType(i) == IF i <= Len(direct) THEN "direct" ELSE "transitive"

-----------------------------------------------------------------------------
(* Before the agents.                                                      *)

UpTo(n, set) == {s \in SUBSET set : Cardinality(s) <= n}

Lists(n) == UNION {[1 .. k -> Packages] : k \in 0 .. n}

\* parse_pyproject_toml with its optional groups, or a package.json with its two sections, may
\* list a package twice.
DirectDependencies == Lists(MaxDirect)

\* A poetry.lock may hold a package twice, and one the project names itself.
TransitiveDependencies == Lists(MaxTransitive)

LocalInit ==
    /\ at = "preprocess"
    /\ direct \in DirectDependencies
    /\ transitive \in TransitiveDependencies
    /\ known \in [Packages -> UpTo(MaxAdvisories, Advisories)]
    /\ matches \in UpTo(MaxMatches, Matches)
    /\ target \in BOOLEAN
    /\ cached \in SUBSET {p \in Packages : known[p] # {}}
    /\ looked = 0
    /\ results = <<>>
    /\ vulnerabilities = {}
    /\ issues = {}
    /\ degraded = FALSE
    /\ report = NoFindings
    /\ decision = Verdicts!NoConflictDecision
    /\ migration = FALSE
    /\ aggregated = Verdicts!NoReport
    /\ exit = {}
    /\ failures = {}

GoTo(from, to) == at = from /\ at' = to

FailAs(names) == failures' = failures \union names

\* run_preprocessing; without a direct dependency the CVE scan is skipped altogether.
Preprocess ==
    /\ GoTo("preprocess", IF direct = <<>> THEN "code" ELSE "cve")
    /\ UNCHANGED <<repository, scan, report, decision, migration, aggregated, exit, failures>>

\* It raises out of asyncio.run.
PreprocessRaises ==
    /\ GoTo("preprocess", "done")
    /\ exit' = {1}
    /\ FailAs({"clone"})
    /\ UNCHANGED <<repository, scan, report, decision, migration, aggregated>>

-----------------------------------------------------------------------------
(* CVEScanner.scan.                                                        *)

\* results[key] = found: a key seen before keeps its place.
Put(package, found) ==
    LET places == {i \in DOMAIN results : results[i].package = package} IN
    IF places = {}
    THEN Append(results, [package |-> package, found |-> found])
    ELSE [i \in DOMAIN results |->
            IF i \in places THEN [results[i] EXCEPT !.found = found] ELSE results[i]]

\* The next package of lookup_batch.
LookupNext(package) ==
    /\ at = "cve"
    /\ looked < Len(Listed)
    /\ package = Listed[looked + 1]
    /\ looked' = looked + 1
    /\ UNCHANGED <<at, repository, vulnerabilities, issues, degraded, report, decision, migration,
                   aggregated, exit>>

\* The cache answers, or a source, whose records then are cached.
Lookup(package) ==
    /\ LookupNext(package)
    /\ results' = Put(package, known[package])
    /\ cached' = IF known[package] = {} THEN cached ELSE cached \union {package}
    /\ UNCHANGED failures

\* A batch that leaves out what it has no answer for.
LookupFailsSkipping(package) ==
    /\ LookupNext(package)
    /\ FailAs({"scanner"})
    /\ UNCHANGED <<cached, results>>

\* A lookup that raises, or whose sources do not answer, comes to an empty list.
LookupFails(package) ==
    /\ LookupNext(package)
    /\ results' = Put(package, {})
    /\ FailAs({"scanner"})
    /\ UNCHANGED cached

\* Severity(severity_str), or medium; the cvss_score as it is.
Normalised(package, depType, advisory) ==
    [package |-> package, dep |-> depType, cvss |-> advisory.cvss,
     severity |-> IF advisory.severity \in Engine!Severity THEN advisory.severity ELSE "medium"]

\* zip(packages, raw_results.items()): the i-th package is given the i-th entry's findings,
\* whichever package they were asked for.
Paired ==
    UNION {{Normalised(Listed[i], DepType(i), a) : a \in results[i].found} :
              i \in DOMAIN results}

Pair ==
    /\ looked = Len(Listed)
    /\ GoTo("cve", "code")
    /\ vulnerabilities' = Paired
    /\ UNCHANGED <<repository, cached, looked, results, issues, degraded, report, decision,
                   migration, aggregated, exit, failures>>

-----------------------------------------------------------------------------
(* CodeScanner.scan.                                                       *)

\* The confidence of a rule nobody listed is medium.
Classified(match) ==
    [rule |-> match.rule, severity |-> match.severity,
     confidence |-> IF match.rule \in HighConfidence THEN "high" ELSE "medium"]

ClassifiedAll(found) == {Classified(m) : m \in found}

CodeScanned(found, flag) ==
    /\ GoTo("code", "assemble")
    /\ issues' = ClassifiedAll(found)
    /\ degraded' = flag
    /\ UNCHANGED <<repository, cached, looked, results, vulnerabilities, report, decision,
                   migration, aggregated, exit>>

\* Semgrep reports what there is, or there is no eligible file.
SemgrepAnswers == CodeScanned(matches, FALSE) /\ UNCHANGED failures

\* No output: it failed, timed out, or printed no JSON.  With output its exit code is ignored.
SemgrepFails ==
    /\ \/ CodeScanned({}, TRUE)
       \/ \E part \in SUBSET matches : CodeScanned(part, FALSE)
    /\ FailAs({"scanner"})

\* There is no executable and the CLI path is used.  The SDK path catches that as a failure.
SemgrepMissing ==
    /\ GoTo("code", "degraded_run")
    /\ FailAs({"security"})
    /\ UNCHANGED <<repository, scan, report, decision, migration, aggregated, exit>>

-----------------------------------------------------------------------------
(* SecurityAuditAgent.                                                     *)

Reported(r) ==
    /\ report' = r
    /\ UNCHANGED <<repository, scan, decision, migration, aggregated, exit>>

Assemble ==
    /\ GoTo("assemble", "conflict")
    /\ Reported([present |-> TRUE, vulnerabilities |-> vulnerabilities, issues |-> issues,
                 degraded |-> degraded])
    /\ UNCHANGED failures

\* A finding its model refuses, such as one at line 0.
AssembleRaises ==
    /\ vulnerabilities # {} \/ issues # {}
    /\ GoTo("assemble", "degraded_run")
    /\ FailAs({"security"})
    /\ UNCHANGED <<repository, scan, report, decision, migration, aggregated, exit>>

DirectlyCached == \E i \in DOMAIN direct : direct[i] \in cached

\* A fallback whose report looks like that of a complete scan.
DegradedRunSilent ==
    /\ GoTo("degraded_run", "conflict")
    /\ ~DirectlyCached
    /\ Reported([NoFindings EXCEPT !.present = TRUE])
    /\ UNCHANGED failures

\* degraded_run reads the cached rows of the direct dependencies.
DegradedRun ==
    /\ GoTo("degraded_run", "conflict")
    /\ ~DirectlyCached
    /\ Reported([NoFindings EXCEPT !.present = TRUE, !.degraded = TRUE])
    /\ UNCHANGED failures

\* A cached row has no affected_version, so that Vulnerability(**row) raises and execute
\* returns {}.
DegradedRunRaises ==
    /\ GoTo("degraded_run", "conflict")
    /\ DirectlyCached
    /\ Reported(NoFindings)
    /\ FailAs({"security_twice"})

-----------------------------------------------------------------------------
(* The other agents, and the exit.                                         *)

\* Where the first package that was listed before stands.
FirstRepeat ==
    LET repeats == {i \in DOMAIN Listed : \E j \in 1 .. i - 1 : Listed[j] = Listed[i]} IN
    IF repeats = {} THEN Len(Listed) + 1 ELSE CHOOSE i \in repeats : \A k \in repeats : i <= k

\* How AgentVerdicts calls the list of packages.
Listing ==
    CASE direct = <<>> /\ transitive # <<>> -> "lock_only"
      [] direct # <<>> /\ FirstRepeat <= Len(Listed) -> "repeated"
      [] OTHER -> "scannable"

\* What the rule engine says of a finding.
VerdictOf(finding) ==
    IF "package" \in DOMAIN finding
    THEN Engine!ResolveVulnerability(
            [cve |-> "cve", severity |-> finding.severity, cvss |-> finding.cvss,
             path |-> <<>>, fixed |-> "none", dep |-> finding.dep])
    ELSE Engine!ResolveCodeIssue(
            [rule |-> finding.rule, severity |-> finding.severity,
             confidence |-> finding.confidence, path |-> <<>>])

Sees(findings) ==
    LET verdicts == {VerdictOf(f) : f \in findings} IN
    IF "human" \in verdicts THEN "human" ELSE IF "block" \in verdicts THEN "block" ELSE "clean"

\* Why the report may lack findings.
Gap ==
    IF "security" \in failures THEN "agent"
    ELSE IF "scanner" \in failures THEN "scanner"
    ELSE IF Listing = "lock_only" THEN "listing" ELSE "none"

\* The SecurityReport of AgentVerdicts.
Security ==
    [sees |-> IF report.present THEN Sees(report.vulnerabilities \union report.issues)
              ELSE "nothing",
     degraded |-> report.degraded,
     gap |-> Gap]

Decided(d) ==
    /\ GoTo("conflict", "migrate")
    /\ decision' = d
    /\ UNCHANGED <<repository, scan, report, migration, aggregated, exit>>

Resolve == Decided(Verdicts!ConflictRun(Security)) /\ UNCHANGED failures

\* degraded_run blocks every finding there is; a second failure is read as {}.
ResolveRaises ==
    \/ LET found == report.vulnerabilities \union report.issues # {} IN
       /\ Decided([made |-> TRUE, blocking |-> found, blocks |-> found, paused |-> FALSE])
       /\ FailAs({"conflict"})
    \/ /\ Decided(Verdicts!NoConflictDecision)
       /\ FailAs({"conflict", "conflict_twice"})

Migrate ==
    /\ GoTo("migrate", "report")
    /\ \/ migration' = FALSE /\ UNCHANGED failures
       \/ target /\ migration' = TRUE /\ FailAs({"migration"})
       \/ target /\ migration' = FALSE /\ FailAs({"migration", "migration_twice"})
    /\ UNCHANGED <<repository, scan, report, decision, aggregated, exit>>

\* What the reporter is given.
ReporterInput == [conflict |-> decision, security |-> Security]

Aggregate ==
    /\ GoTo("report", "exit")
    /\ \/ aggregated' = Verdicts!ReportRun(ReporterInput, migration) /\ UNCHANGED failures
       \/ aggregated' = Verdicts!ReportDegradedRun(ReporterInput) /\ FailAs({"reporter"})
       \/ /\ aggregated' = [Verdicts!NoReport EXCEPT !.kind = "empty"]
          /\ FailAs({"reporter", "reporter_twice"})
    /\ UNCHANGED <<repository, scan, report, decision, migration, exit>>

\* The exit code taken from the report that is printed.
ExitCodeOfReport == IF aggregated.conflict.blocking THEN 1 ELSE 0

\* report_data["security"] is the conflict agent's data.
ExitCode == IF decision.blocking THEN 1 ELSE 0

Exit ==
    /\ GoTo("exit", "done")
    /\ exit' = {ExitCode}
    /\ UNCHANGED <<repository, scan, report, decision, migration, aggregated, failures>>

LocalNext ==
    \/ Preprocess \/ PreprocessRaises
    \/ \E p \in Packages : Lookup(p) \/ LookupFails(p)
    \/ Pair
    \/ SemgrepAnswers \/ SemgrepFails \/ SemgrepMissing
    \/ Assemble \/ AssembleRaises \/ DegradedRun \/ DegradedRunRaises
    \/ Resolve \/ ResolveRaises
    \/ Migrate \/ Aggregate \/ Exit

LocalSpec == LocalInit /\ [][LocalNext]_localVars

-----------------------------------------------------------------------------
\* All there is to find in the repository.
Vulnerable ==
    UNION {{Normalised(Listed[i], DepType(i), a) : a \in known[Listed[i]]} : i \in DOMAIN Listed}

Complete == Vulnerable \union ClassifiedAll(matches)

\* What a complete scan of it leads to.
Truth == Sees(Complete)

Assessed == at \in {"conflict", "migrate", "report", "exit"}

\* The zip of cve_scanner.py holds results against packages by position only.  Until a package is
\* listed for the second time, what was answered of a package is found under that package, with its
\* own kind of dependency, whichever lookups fail; and where none is listed twice, nothing is found
\* under a package that is not known of it.
FindingsBelong ==
    at = "code" =>
        /\ \A i \in 1 .. FirstRepeat - 1, j \in DOMAIN results :
              results[j].package = Listed[i] =>
                  \A a \in results[j].found :
                      Normalised(Listed[i], DepType(i), a) \in vulnerabilities
        /\ FirstRepeat > Len(Listed) =>
              \A v \in vulnerabilities :
                  \E a \in known[v.package] : v = Normalised(v.package, v.dep, a)

\* AgentVerdicts, on which Pipeline rests, leaves out nothing that a scan can come to, whichever
\* packages are listed, whatever fails and in whatever order: the security agent's report, the
\* decision made of it and the aggregated report are among the outcomes for the repository and for
\* what has failed.
RunIsAbstracted ==
    /\ Assessed => Security \in Verdicts!SecurityOutcomes(
                                   [truth |-> Truth, listing |-> Listing], "full")
    /\ at \in {"migrate", "report", "exit"} => decision \in Verdicts!ConflictOutcomes(Security)
    /\ at = "exit" =>
          aggregated \in Verdicts!ReportOutcomes(ReporterInput, migration)

\* The exit code is the verdict.  What is clean is blocked only by a failing preprocessing or conflict
\* agent or on account of a package listed twice; what is not passes only if a scan fails, the
\* conflict agent fails twice, or there are nothing but transitive dependencies: neither the
\* preprocessing nor the migration nor the report nor a single failure of the conflict agent lets it
\* pass.
ExitTells ==
    at = "done" =>
        /\ exit = {1} /\ Truth = "clean" =>
              \/ failures \intersect {"clone", "conflict"} # {}
              \/ Listing = "repeated"
        /\ exit = {0} /\ Truth # "clean" =>
              \/ failures \intersect {"scanner", "security", "conflict_twice"} # {}
              \/ Listing = "lock_only"

-----------------------------------------------------------------------------
(* What the sources say of themselves, and the code does not keep.         *)

\* ARCHITECTURE.md 216: a failing dependency never lets a blocking repository pass.
FailureBlocks == at = "done" /\ Truth # "clean" => exit = {1}

\* security/agent.py 176-180: the fallback reports at least what the local cache has.
FallbackReportsCached ==
    Assessed /\ "security" \in failures /\ DirectlyCached => report.vulnerabilities # {}

\* cve_scanner.py 6-11 knows transitive findings; without a direct dependency none is looked up.
TransitiveScanned == at = "done" /\ failures = {} => looked = Len(Listed)

\* models.py 15-16: a finding is traceable to what a source says of its package.
Traceable ==
    \A v \in report.vulnerabilities :
        \E a \in known[v.package] : v = Normalised(v.package, v.dep, a)
=============================================================================
