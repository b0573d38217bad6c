SPECIFICATION FairSpec
CONSTANTS
    Tasks = {t1, t2}
    Chains = {c1, c2}
    NoTask = NoTask
    MaxRedeliveries = 0
    Slots = 2
    Repositories <- MCBlocking
    ByWebhook = FALSE
    Failures = {"chain", "reporter_twice"}
PROPERTIES EveryScanDecided EveryScanReported TreeIsRemoved
CHECK_DEADLOCK FALSE
