SPECIFICATION WatchSpec
CONSTANTS
    java = java
    kotlin = kotlin
    SourceFiles = {java, kotlin}
    Kinds = {java, kotlin}
    KindOf <- MCKindOf
    VectorEnabled = TRUE
    MaxChanges = 2
    p1 = p1
    p2 = p2
    i1 = i1
    i2 = i2
    Procs = {p1, p2}
    Inodes = {i1, i2}
    NoPid = NoPid
    NoInode = NoInode
    None = None
    Broken = Broken
    home = home
    StopVerbs = TRUE
    PathOf <- MCPathOf
    Builtin <- MCBuiltin
    Nuisances = {"node_modules"}
    BuildDirs = {"out"}
    Modules <- MCModules
    RuleSets <- MCRuleSets
    MaxTouches = 2
    WorkDirs <- MCDirs
    Home <- MCHome
    IndexName = ".idx"
    Default <- MCDefault
    Closed <- MCClosed
    YamlSets <- MCYamlSets
    Builders <- MCBuilders
    Watchers <- MCWatchers
    MaxRuns = 2
    MaxChanged = 1
    Places <- MCPlaces
    FileKinds <- MCFileKinds
    Selections <- MCSelections
    MaxCommands = 3
    MaxUpgrades = 1
SYMMETRY MCSymmetry
CHECK_DEADLOCK FALSE
INVARIANTS
    NoLostWakeup
    ChangesAreCarried
    ReportedIsIndexed
    StartMeetsNoDaemon
    ExitLeavesNothing
    SourcesAreFollowed
    ConfigIsShared
    UpdateTellsTruth
