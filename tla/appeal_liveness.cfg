SPECIFICATION FairSpec
CONSTANTS
    Findings = {f1, f2}
    Ids = {i1, i2}
    Scans = {s1}
    Appeals = {a1, a2}
    NoId = NoId
    CheckpointDb = TRUE
    Faults = FALSE
    MaxCrashes = 0
PROPERTIES AppealSettles ReviewConcludes
CHECK_DEADLOCK FALSE
