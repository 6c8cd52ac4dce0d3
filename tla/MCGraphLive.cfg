SPECIFICATION LiveSpec
CONSTANTS
    f1 = f1
    f2 = f2
    v1 = v1
    t1 = t1
    t2 = t2
    Files = {f1, f2}
    Versions = {v1}
    Absent = Absent
    Torn = Torn
    ExpansionCap = 1
    Threads = {t1, t2}
    MaxBuilds = 2
INVARIANTS
    IdleCacheIsFresh
PROPERTIES
    Converges
    StartsOnServedGraph
    SnapshotEnds
