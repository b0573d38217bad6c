SPECIFICATION Spec
CONSTANTS
    Tasks = {t1}
    Chains = {c1, c2}
    NoTask = NoTask
    MaxRedeliveries = 1
    Slots = 2
    Repositories <- MCExtremes
    ByWebhook = TRUE
    Failures = {"scanner", "security", "security_twice", "conflict", "conflict_twice", "chain",
                "report"}
SYMMETRY Symmetry
INVARIANTS CompletedHasResult FailSafe
CHECK_DEADLOCK FALSE
