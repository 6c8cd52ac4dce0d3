SPECIFICATION MCSpec
CONSTANTS
    f1 = f1
    f2 = f2
    f3 = f3
    v1 = v1
    v2 = v2
    Files = {f1, f2, f3}
    Versions = {v1, v2}
    Absent = Absent
    Torn = Torn
    ExpansionCap = 2
SYMMETRY MCSymmetry
INVARIANTS
    UnmarkedIsSynced
    SuccessIsWhole
PROPERTIES
    HashFollowsGraph
