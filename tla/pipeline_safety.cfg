SPECIFICATION Spec
CONSTANTS
    Tasks = {t1, t2}
    Chains = {c1, c2}
    NoTask = NoTask
    MaxRedeliveries = 0
    Slots = 2
    Repositories <- MCScannable
    ByWebhook = FALSE
    Failures = {"clone", "chain", "migration_task", "report", "reporter_twice", "broker"}
SYMMETRY Symmetry
INVARIANTS TypeOK ReportSeesSecurity ScanReadsTree
PROPERTIES ImplementsFlow StatusForward
CHECK_DEADLOCK FALSE
