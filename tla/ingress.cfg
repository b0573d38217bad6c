SPECIFICATION IngressSpec
CONSTANTS
    Handlers = {h1, h2}
    Requests = {q1}
    Commits = {k1, k2}
    NoCommit = NoCommit
    NoTask = NoTask
    DedupTtl = 2
    ResultTtl = 1
    StatusTtl = 1
    RedisFails = TRUE
    BrokerFails = TRUE
SYMMETRY Symmetry
INVARIANTS IngressTypeOK DedupNamesDispatched
PROPERTIES OneAnalysisPerCommit AnswersForward
CHECK_DEADLOCK FALSE
