SPECIFICATION Spec
CONSTANTS
    Findings = {f1, f2}
    Ids = {i1, i2}
    Scans = {s1}
    Appeals = {a1, a2}
    NoId = NoId
    CheckpointDb = TRUE
    Faults = TRUE
    MaxCrashes = 1
INVARIANTS TypeOK WaiverHasCause UnblockedIsDecided
PROPERTY ImplementsGate
CHECK_DEADLOCK FALSE
