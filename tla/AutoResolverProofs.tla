------------------------- MODULE AutoResolverProofs -------------------------
(***************************************************************************)
(* Proofs about AutoResolver, for any spellings, paths, patterns and       *)
(* number of rules.                                                        *)
(***************************************************************************)
EXTENDS AutoResolver, SequenceTheorems, TLAPS

\* What a loaded list of rules is.
LEMMA RuleListFacts ==
  ASSUME NEW rs \in RuleLists
  PROVE  /\ rs \in Seq(ExemptionRule)
         /\ RulesIn(rs) \subseteq ExemptionRule
<1>1. PICK n \in 0 .. MaxRules : rs \in [1 .. n -> ExemptionRule]
  BY DEF RuleLists
<1>2. n \in Nat
  BY <1>1, ResolverConstants
<1>3. rs \in Seq(ExemptionRule)
  BY <1>1, <1>2, IsASeq
<1>4. RulesIn(rs) \subseteq ExemptionRule
  BY <1>1 DEF RulesIn
<1>5. QED BY <1>3, <1>4

\* The two kinds of rule.
LEMMA RuleKinds ==
  ASSUME NEW r \in ExemptionRule
  PROVE  /\ r.type = "cve_whitelist" => r.pattern \in Cves
         /\ r.type = "path_whitelist" => r.pattern \in Patterns
  BY DEF ExemptionRule

LEMMA IndexType ==
  ASSUME NEW rs \in RuleLists
  PROVE  /\ IndexedCves(rs) \subseteq {Upper[c] : c \in Cves}
         /\ IndexedPaths(rs) \subseteq Patterns
  BY RuleListFacts, RuleKinds DEF IndexedCves, IndexedPaths

\* Every state is of its type: in particular the index never holds a CVE id that is not in upper
\* case, whatever the rules say.
THEOREM TypeCorrect == Spec => []TypeOK
<1>1. Init => TypeOK
  BY RuleListFacts, IndexType DEF Init, TypeOK
<1>2. TypeOK /\ [Next]_vars => TypeOK'
  <2> SUFFICES ASSUME TypeOK, [Next]_vars PROVE TypeOK'
    OBVIOUS
  <2>1. CASE ReloadRules
    BY <2>1, RuleListFacts, IndexType DEF ReloadRules, TypeOK
  <2>2. CASE UNCHANGED vars
    BY <2>2 DEF vars, TypeOK
  <2>3. QED BY <2>1, <2>2 DEF Next
<1>3. QED BY <1>1, <1>2, PTL DEF Spec

\* The index is that of the loaded, enabled rules, by __init__ and reload_rules.
IndexIsOfRules ==
    /\ cveWhitelist = IndexedCves(rules)
    /\ pathWhitelist = IndexedPaths(rules)

LEMMA IndexFollowsRules == Spec => []IndexIsOfRules
<1>1. Init => IndexIsOfRules
  BY DEF Init, IndexIsOfRules
<1>2. IndexIsOfRules /\ [Next]_vars => IndexIsOfRules'
  BY DEF Next, ReloadRules, vars, IndexIsOfRules
<1>3. QED BY <1>1, <1>2, PTL DEF Spec

-----------------------------------------------------------------------------
(* What the verdicts mean.                                                 *)

\* A waiver of a vulnerability, rule by rule.
LEMMA WaiverByRule ==
  ASSUME NEW v \in Vulnerability, ResolveVulnerability(v) = "waive"
  PROVE  Exempted(v) \/ ~BlockedByDefault(v)
  BY DEF ResolveVulnerability

\* What is waived by default is transitive, below high and, as configured, below 9.0.
LEMMA DefaultWaiver ==
  ASSUME NEW v \in Vulnerability, ~BlockedByDefault(v)
  PROVE  /\ v.dep = "transitive"
         /\ v.severity \in {"medium", "low"}
         /\ v.cvss = "critical" => ~cfg.critical_cannot_waive
  BY DEF Vulnerability, Severity, BlockedByDefault, IsBlocking

\* An index of the rules exempts for a reason.
LEMMA ExemptionHasRule ==
  ASSUME IndexIsOfRules, NEW v \in Vulnerability, Exempted(v)
  PROVE  \/ \E r \in RulesIn(rules) :
                r.enabled /\ r.type = "cve_whitelist" /\ Upper[r.pattern] = v.cve
         \/ \E r \in RulesIn(rules) :
                r.enabled /\ r.type = "path_whitelist" /\ MatchPath(v.path, r.pattern)
         \/ upgrade /\ v.fixed = "reached"
<1>1. CASE v.cve \in cveWhitelist
  BY <1>1 DEF IndexIsOfRules, IndexedCves, IsEnabled
<1>2. CASE InPathWhitelist(v.path)
  <2>1. PICK p \in pathWhitelist : MatchPath(v.path, p)
    BY <1>2 DEF InPathWhitelist
  <2>2. PICK r \in RulesIn(rules) : r.enabled /\ r.type = "path_whitelist" /\ r.pattern = p
    BY <2>1 DEF IndexIsOfRules, IndexedPaths, IsEnabled
  <2>3. QED BY <2>1, <2>2
<1>3. CASE upgrade /\ v.fixed = "reached"
  BY <1>3
<1>4. QED BY <1>1, <1>2, <1>3 DEF Exempted

\* No vulnerability is waived without an enabled rule, the upgrade, or the default for transitive
\* dependencies: a disabled or replaced rule waives nothing.
THEOREM WaivedForAReasonHolds == Spec => []WaivedForAReason
<1>1. IndexIsOfRules => WaivedForAReason
  <2> SUFFICES ASSUME IndexIsOfRules,
                      NEW v \in Vulnerability, ResolveVulnerability(v) = "waive"
               PROVE
                 \/ \E r \in RulesIn(rules) :
                        r.enabled /\ r.type = "cve_whitelist" /\ Upper[r.pattern] = v.cve
                 \/ \E r \in RulesIn(rules) :
                        r.enabled /\ r.type = "path_whitelist" /\ MatchPath(v.path, r.pattern)
                 \/ upgrade /\ v.fixed = "reached"
                 \/ /\ v.dep = "transitive"
                    /\ v.severity \in {"medium", "low"}
                    /\ v.cvss = "critical" => ~cfg.critical_cannot_waive
    BY DEF WaivedForAReason
  <2>1. CASE Exempted(v)
    BY <2>1, ExemptionHasRule
  <2>2. CASE ~BlockedByDefault(v)
    BY <2>2, DefaultWaiver
  <2>3. QED BY <2>1, <2>2, WaiverByRule
<1>2. QED BY <1>1, IndexFollowsRules, PTL

-----------------------------------------------------------------------------
(* Monotonicity.                                                           *)

\* More rules make a larger index.
LEMMA IndexGrows ==
  ASSUME NEW rs, NEW qs, RulesIn(rs) \subseteq RulesIn(qs)
  PROVE  /\ IndexedCves(rs) \subseteq IndexedCves(qs)
         /\ IndexedPaths(rs) \subseteq IndexedPaths(qs)
  BY DEF IndexedCves, IndexedPaths

\* Loading more rules blocks nothing, and leaves nothing to a human, that was waived: the verdicts
\* of resolve() are monotone in the rules.
THEOREM MoreRulesWaiveMoreHolds == Spec => MoreRulesWaiveMore
<1> DEFINE Monotone ==
      RulesIn(rules) \subseteq RulesIn(rules') =>
        /\ \A v \in Vulnerability :
               ResolveVulnerability(v) = "waive" => ResolveVulnerability(v)' = "waive"
        /\ \A i \in CodeIssue : ResolveCodeIssue(i) = "waive" => ResolveCodeIssue(i)' = "waive"
<1>1. IndexIsOfRules /\ IndexIsOfRules' /\ [Next]_vars => [Monotone]_vars
  <2> SUFFICES ASSUME IndexIsOfRules, IndexIsOfRules', ReloadRules,
                      RulesIn(rules) \subseteq RulesIn(rules')
               PROVE  /\ \A v \in Vulnerability :
                             ResolveVulnerability(v) = "waive" => ResolveVulnerability(v)' = "waive"
                      /\ \A i \in CodeIssue :
                             ResolveCodeIssue(i) = "waive" => ResolveCodeIssue(i)' = "waive"
    BY DEF Next
  <2>1. cveWhitelist \subseteq cveWhitelist' /\ pathWhitelist \subseteq pathWhitelist'
    BY IndexGrows DEF IndexIsOfRules
  <2>2. cfg' = cfg /\ upgrade' = upgrade
    BY DEF ReloadRules
  <2>3. ASSUME NEW v \in Vulnerability, ResolveVulnerability(v) = "waive"
        PROVE  ResolveVulnerability(v)' = "waive"
    <3>1. ~VulnerabilityNeedsHuman(v)
      BY <2>3 DEF ResolveVulnerability
    <3>2. ~VulnerabilityNeedsHuman(v)'
      BY <3>1 DEF VulnerabilityNeedsHuman, IsBlocking
    <3>3. Exempted(v) => Exempted(v)'
      BY <2>1, <2>2 DEF Exempted, InPathWhitelist, MatchPath
    <3>4. BlockedByDefault(v)' = BlockedByDefault(v)
      BY <2>2 DEF BlockedByDefault, IsBlocking
    <3>5. Exempted(v)' \/ ~BlockedByDefault(v)'
      BY <2>3, <3>3, <3>4, WaiverByRule
    <3>6. QED BY <3>2, <3>5 DEF ResolveVulnerability
  <2>4. ASSUME NEW i \in CodeIssue, ResolveCodeIssue(i) = "waive"
        PROVE  ResolveCodeIssue(i)' = "waive"
    <3>1. InPathWhitelist(i.path) => InPathWhitelist(i.path)'
      BY <2>1 DEF InPathWhitelist, MatchPath
    <3>2. QED BY <2>2, <2>4, <3>1 DEF ResolveCodeIssue, IssueNeedsHuman, IsBlocking
  <2>5. QED BY <2>3, <2>4
<1>2. Spec => [][Monotone]_vars
  BY <1>1, IndexFollowsRules, PTL DEF Spec
<1>3. QED BY <1>2 DEF MoreRulesWaiveMore
=============================================================================
