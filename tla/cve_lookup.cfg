SPECIFICATION CacheSpec
CONSTANTS
    Cves = {v1, v2}
    Lookups = {l1, l2}
    HotTtl = 1
    Staleness = 2
    MaxNow = 4
    Failures = {"redis", "sqlite", "osv"}
SYMMETRY Symmetry
INVARIANTS CacheTypeOK KnownIsFound ServedIsStored
CHECK_DEADLOCK FALSE
