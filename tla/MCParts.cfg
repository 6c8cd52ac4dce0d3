SPECIFICATION PartsSpec
CONSTANTS
    None = None
    Nothing = None
    Broken = Broken
    u1 = u1
    u2 = u2
    Procs = {u1, u2}
    DayCap = 1
    Retention = 0
    LastDay = 1
    MaxEvents = 3
    javaTable = javaTable
    kotlinTable = kotlinTable
    LanceTables <- MCTables
    MaxAttempts = 3
    MaxLines = 3
    MaxOut = 1
    PipeSize = 2
    FlowTypes <- MCFlowTypes
    FlowGraphs <- MCFlowGraphs
    FlowAsks <- MCFlowAsks
    StageLimit = 2
    Self = Self
    JavaFiles <- MCFiles
    PackageOf <- MCPackageOf
    NameOf <- MCNameOf
    Contents <- MCContents
    MaxPending = 1
    MaxIncrements = 2
    LinkOrder <- MCLinkOrder
    LinkService <- MCLinkService
    LinkContents <- MCLinkContents
    LinkHints <- MCLinkHints
    LinkCovers <- MCLinkCovers
    BrownfieldOnly = TRUE
    LookupGraphs <- MCLookupGraphs
    Lookups <- MCLookups
    RowLimit = 2
    CandidateCap = 2
    DiffBase <- MCDiffBase
    DiffPaths <- MCDiffPaths
    DiffOuter <- MCDiffOuter
    DiffTypes <- MCDiffTypes
    DiffPrivate <- MCDiffPrivate
    DiffInterfaces <- MCDiffInterfaces
    DiffLinks <- MCDiffLinks
    DiffCalls <- MCDiffCalls
    DiffServices <- MCDiffServices
    DiffExposes <- MCDiffExposes
    DiffRemote <- MCDiffRemote
    DiffContext = 1
    MaxTouches = 2
    fA = fA
    fB = fB
    fC = fC
CHECK_DEADLOCK FALSE
INVARIANTS
    JournalAddsUp
    ExitZeroIsDone
    IndexIsKept
    NothingLostInRelay
    TaskTellsTruth
    RebuildIsFaithful
    LinksFollowSources
    PickIsUnique
    ReadsAddUp
    AnswerIsWhole
    SearchIsHonest
    FlowIsGrounded
    DiffIsWeighed
