-------------------------- MODULE MCLocalAnalysis --------------------------
\* LocalAnalysis for TLC: a vulnerability each verdict is reached by, one without a known severity,
\* an issue for each way the scanner classifies it.
EXTENDS LocalAnalysis, TLC

MCAdvisories ==
    {[severity |-> "high", cvss |-> "none"], [severity |-> "critical", cvss |-> "critical"],
     [severity |-> "low", cvss |-> "below"], [severity |-> "unknown", cvss |-> "none"]}

MCMatches ==
    {[rule |-> "secret", severity |-> "low"], [rule |-> "sql", severity |-> "high"],
     [rule |-> "unlisted", severity |-> "high"], [rule |-> "sql", severity |-> "junk"]}

MCSymmetry == Permutations(Packages)
=============================================================================
