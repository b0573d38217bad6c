---------------------------- MODULE AutoResolver ----------------------------
(***************************************************************************)
(* agents/conflict/auto_resolver.py: the deterministic rule engine.  Its   *)
(* state is the index it builds of the exemption rules; resolve() is a     *)
(* function of that index, the finding and the configuration.              *)
(*                                                                         *)
(* A number is abstracted to what the rules ask of it: a CVSS score is     *)
(* absent, below 9.0 or at least 9.0; a fixed version is absent, reached   *)
(* by the upgrade or beyond it.  "junk" is a severity outside the          *)
(* enumeration, which a Semgrep rule may give a code issue; cve_scanner.py *)
(* gives a vulnerability none.  A path and a path pattern are sequences of *)
(* tokens, "/" being one.                                                  *)
(***************************************************************************)
EXTENDS Sequences, Naturals

CONSTANTS
    Cves,           \* spellings of CVE ids
    Upper,          \* str.upper on them
    RuleIds,        \* Semgrep rule ids of code issues
    AlwaysBlocking, \* ALWAYS_BLOCKING_RULES
    Paths,          \* file paths, sequences of tokens
    Patterns,       \* path patterns: [text, glob]
    Labels,         \* rule_id of exemption rules
    MaxRules        \* bound: exemption rules loaded at a time

ASSUME ResolverConstants ==
    /\ Upper \in [Cves -> Cves]
    /\ \A c \in Cves : Upper[Upper[c]] = Upper[c]
    /\ AlwaysBlocking \subseteq RuleIds
    /\ \A p \in Paths : p \in Seq(STRING)
    /\ \A p \in Patterns : p \in [text : Seq(STRING), glob : BOOLEAN]
    /\ MaxRules \in Nat

Severity == {"critical", "high", "medium", "low"}
Confidence == {"high", "medium", "low"}

Vulnerability ==
    [cve : Cves, severity : Severity, cvss : {"none", "below", "critical"}, path : Paths,
     fixed : {"none", "reached", "beyond"}, dep : {"direct", "transitive"}]

CodeIssue ==
    [rule : RuleIds, severity : Severity \union {"junk"}, confidence : Confidence, path : Paths]

\* A whitelist rule has a CVE or a path pattern.  severity_downgrade rules are indexed and
\* never looked at.
ExemptionRule ==
    [type : {"cve_whitelist"}, pattern : Cves, enabled : BOOLEAN, id : Labels]
    \union [type : {"path_whitelist"}, pattern : Patterns, enabled : BOOLEAN, id : Labels]

\* ResolutionConfig.
Config == [critical_cannot_waive : BOOLEAN, auto_waive_low_confidence : BOOLEAN]

VARIABLES
    rules,          \* self._rules
    cveWhitelist,   \* self._cve_whitelist
    pathWhitelist,  \* self._path_whitelist
    cfg,            \* ResolutionConfig overrides
    upgrade         \* is_framework_upgrade, with a target_version

vars == <<rules, cveWhitelist, pathWhitelist, cfg, upgrade>>

\* Whitelisted CVEs are kept in upper case.
TypeOK ==
    /\ rules \in Seq(ExemptionRule)
    /\ cveWhitelist \subseteq {Upper[c] : c \in Cves}
    /\ pathWhitelist \subseteq Patterns
    /\ cfg \in Config
    /\ upgrade \in BOOLEAN

-----------------------------------------------------------------------------
(* The index.                                                              *)

IsEnabled(rule) == rule.enabled

RulesIn(rs) == {rs[i] : i \in DOMAIN rs}

\* The CVE patterns as they are written.
IndexedCvesRaw(rs) ==
    {r.pattern : r \in {q \in RulesIn(rs) : q.type = "cve_whitelist" /\ IsEnabled(q)}}

IndexedCves(rs) ==
    {Upper[r.pattern] : r \in {q \in RulesIn(rs) : q.type = "cve_whitelist" /\ IsEnabled(q)}}

\* An index that keeps one path pattern, the last.
IndexedPathsLast(rs) ==
    LET listed == {i \in DOMAIN rs : rs[i].type = "path_whitelist" /\ IsEnabled(rs[i])} IN
    {rs[i].pattern : i \in {j \in listed : \A k \in listed : k <= j}}

IndexedPaths(rs) ==
    {r.pattern : r \in {q \in RulesIn(rs) : q.type = "path_whitelist" /\ IsEnabled(q)}}

RuleLists == UNION {[1 .. n -> ExemptionRule] : n \in 0 .. MaxRules}

\* __init__.
Init ==
    /\ rules \in RuleLists
    /\ cveWhitelist = IndexedCves(rules)
    /\ pathWhitelist = IndexedPaths(rules)
    /\ cfg \in Config
    /\ upgrade \in BOOLEAN

\* reload_rules, which nothing calls yet: here it relates the verdicts under two lists of rules.
ReloadRules ==
    /\ rules' \in RuleLists
    /\ cveWhitelist' = IndexedCves(rules')
    /\ pathWhitelist' = IndexedPaths(rules')
    /\ UNCHANGED <<cfg, upgrade>>

Next == ReloadRules

Spec == Init /\ [][Next]_vars

-----------------------------------------------------------------------------
(* Matching.                                                               *)

\* pattern.rstrip("/").rstrip("*").rstrip("/"), of a pattern that ends with a star.
PatternPrefix(text) ==
    IF text # <<>> /\ text[Len(text)] = "/" THEN SubSeq(text, 1, Len(text) - 1) ELSE text

StartsWith(path, prefix) ==
    /\ Len(prefix) <= Len(path)
    /\ \A i \in 1 .. Len(prefix) : path[i] = prefix[i]

\* _match_path: `prefix + "/"' is never needed, because the bare prefix matches as well.
MatchPath(path, pattern) ==
    IF pattern.glob THEN StartsWith(path, PatternPrefix(pattern.text)) ELSE path = pattern.text

InPathWhitelist(path) == \E p \in pathWhitelist : MatchPath(path, p)

-----------------------------------------------------------------------------
(* The verdicts: "human" stands for None, which leaves the finding         *)
(* unresolved.                                                             *)

IsBlocking(severity) == severity \in {"critical", "high"}

\* _findings_needs_human.
VulnerabilityNeedsHuman(v) ==
    \/ v.severity \notin Severity
    \/ v.cvss = "none" /\ IsBlocking(v.severity)

IssueNeedsHuman(i) == i.severity \notin Severity \/ i.confidence \notin Confidence

\* Rules 1 to 3.
Exempted(v) ==
    \/ v.cve \in cveWhitelist
    \/ InPathWhitelist(v.path)
    \/ upgrade /\ v.fixed = "reached"

\* Rules 4, 5 and 7 without the fourth.
BlockedByDefaultUncritical(v) == IsBlocking(v.severity) \/ v.dep = "direct"

\* Rules 4, 5 and 7.
BlockedByDefault(v) ==
    \/ v.cvss = "critical" /\ cfg.critical_cannot_waive
    \/ IsBlocking(v.severity)
    \/ v.dep = "direct"

\* _resolve_vulnerability.
ResolveVulnerability(v) ==
    IF VulnerabilityNeedsHuman(v) THEN "human"
    ELSE IF Exempted(v) \/ ~BlockedByDefault(v) THEN "waive" ELSE "block"

\* _resolve_code_issue.
ResolveCodeIssue(i) ==
    LET auto == i.confidence = "low" /\ cfg.auto_waive_low_confidence IN
    IF IssueNeedsHuman(i) THEN "human"
    ELSE IF InPathWhitelist(i.path) THEN "waive"
    ELSE IF i.rule \in AlwaysBlocking THEN "block"
    ELSE IF ~auto /\ i.confidence = "high" /\ IsBlocking(i.severity) THEN "block" ELSE "waive"

\* _is_appealable, of a blocked vulnerability.
Appealable(v) == ~(v.severity = "critical" /\ v.cvss = "critical")

\* _find_rule_id: the first rule of the type and pattern, enabled or not.
FindRule(type, pattern) ==
    LET found == {i \in DOMAIN rules : rules[i].type = type /\ rules[i].pattern = pattern} IN
    IF found = {} THEN {} ELSE {rules[CHOOSE i \in found : \A j \in found : i <= j]}

-----------------------------------------------------------------------------
\* A vulnerability is waived for a reason one can name: an enabled rule, the upgrade, or a
\* transitive dependency below high severity and (as configured) below CVSS 9.0.
WaivedForAReason ==
    \A v \in Vulnerability : ResolveVulnerability(v) = "waive" =>
        \/ \E r \in RulesIn(rules) : r.enabled /\ r.type = "cve_whitelist" /\ Upper[r.pattern] = v.cve
        \/ \E r \in RulesIn(rules) :
               r.enabled /\ r.type = "path_whitelist" /\ MatchPath(v.path, r.pattern)
        \/ upgrade /\ v.fixed = "reached"
        \/ /\ v.dep = "transitive"
           /\ v.severity \in {"medium", "low"}
           /\ v.cvss = "critical" => ~cfg.critical_cannot_waive

\* Loading more rules never blocks, nor leaves to a human, what was waived before.
MoreRulesWaiveMore ==
    [][RulesIn(rules) \subseteq RulesIn(rules') =>
        /\ \A v \in Vulnerability : ResolveVulnerability(v) = "waive" => ResolveVulnerability(v)' = "waive"
        /\ \A i \in CodeIssue : ResolveCodeIssue(i) = "waive" => ResolveCodeIssue(i)' = "waive"]_vars

-----------------------------------------------------------------------------
(* What the documentation says and the engine does not keep; no run checks *)
(* these, README.md tells how each of them fails.                          *)

\* A vulnerability with CVSS 9.0 or more is waived by a CVE whitelist rule only
\* (agents/conflict/README.md 27).
CriticalOnlyByCve ==
    \A v \in Vulnerability :
        v.cvss = "critical" /\ ResolveVulnerability(v) = "waive" => v.cve \in cveWhitelist

\* A blocked vulnerability with CVSS 9.0 or more is not appealable (ARCHITECTURE.md 219).
CriticalNotAppealable ==
    \A v \in Vulnerability :
        v.cvss = "critical" /\ ResolveVulnerability(v) = "block" => ~Appealable(v)

\* The rules that are never waived automatically are not (auto_resolver.py 371).
AlwaysBlockingNeverWaived ==
    \A i \in CodeIssue : i.rule \in AlwaysBlocking => ResolveCodeIssue(i) # "waive"

\* A CVE waived by the whitelist names the enabled rule that whitelists it (auto_resolver.py 4).
WaiverNamesItsRule ==
    \A v \in Vulnerability :
        v.cve \in cveWhitelist /\ ResolveVulnerability(v) = "waive" =>
            \E r \in FindRule("cve_whitelist", v.cve) : r.enabled
=============================================================================
