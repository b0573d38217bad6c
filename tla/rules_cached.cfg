SPECIFICATION StoreSpec
CONSTANTS
    Ids = {r1, r2}
    Patterns = {p1, p2}
    Clients = {c1, c2}
    RuleTtl = 2
    MaxNow = 3
    RedisFails = TRUE
SYMMETRY Symmetry
INVARIANTS StoreTypeOK ServedIsRecent StaleCopyHasCause
CHECK_DEADLOCK FALSE
