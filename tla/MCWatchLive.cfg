SPECIFICATION LiveSpec
CONSTANTS
    p1 = p1
    p2 = p2
    i1 = i1
    i2 = i2
    java = java
    Procs = {p1, p2}
    Inodes = {i1, i2}
    NoPid = NoPid
    NoInode = NoInode
    StopVerbs = FALSE
    SourceFiles = {java}
    Kinds = {java}
    KindOf <- MCKindOf
    VectorEnabled = FALSE
    MaxChanges = 2
CHECK_DEADLOCK FALSE
PROPERTIES
    TermEndsDaemon
    StartIsDecided
    ChangesGetIndexed
    StopEndsWorker
    RelayEnds
