SPECIFICATION LocalSpec
CONSTANTS
    Packages = {p1, p2}
    Advisories <- MCAdvisories
    Matches <- MCMatches
    HighConfidence = {"secret", "sql"}
    AlwaysBlocking = {"secret"}
    MaxDirect = 2
    MaxTransitive = 1
    MaxAdvisories = 1
    MaxMatches = 1
SYMMETRY MCSymmetry
INVARIANTS FindingsBelong RunIsAbstracted ExitTells
CHECK_DEADLOCK FALSE
