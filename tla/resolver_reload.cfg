SPECIFICATION Spec
CONSTANTS
    Cves = {"CVE-1", "cve-1"}
    Upper <- MCUpper
    RuleIds = {"secret", "xss"}
    AlwaysBlocking = {"secret"}
    Paths <- MCPaths
    Patterns <- MCPatterns
    Labels = {"A"}
    MaxRules = 2
INVARIANTS TypeOK WaivedForAReason
PROPERTY MoreRulesWaiveMore
