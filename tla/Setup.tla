-------------------------------- MODULE Setup --------------------------------
(***************************************************************************)
(* What a watch process finds when it starts, for any value of the constants:   *)
(* the sources that count, the settings of the project, and what the installer   *)
(* has put there.  What is promised of it is proved in SetupProofs and checked    *)
(* in MCWatch.                                                               *)
(***************************************************************************)
EXTENDS Naturals, Sequences, FiniteSets, SequencesExt

CONSTANTS
    None, Broken,
    PathOf, Builtin, Nuisances, BuildDirs, Modules, RuleSets, MaxTouches,       \* of the walks
    WorkDirs, Home, IndexName, Default, Closed, YamlSets, Builders, Watchers, MaxRuns, MaxChanged,  \* of the configuration
    Places, FileKinds, Selections, MaxCommands, MaxUpgrades     \* of the installer

\* A file's directory is a sequence of names, an ignore file one of lines.
ASSUME WalksAssumption ==
    /\ \A f \in DOMAIN PathOf : PathOf[f] \in Seq(ToSet(PathOf[f]))
    /\ Builtin \in Seq(ToSet(Builtin))
    /\ \A rs \in RuleSets : \A p \in DOMAIN rs : rs[p] \in Seq(ToSet(rs[p]))

\* None, Broken and what the code writes differ; the MCP entry is no file.
ASSUME InstallAssumption ==
    /\ IsFiniteSet(Places) /\ FileKinds \in Seq(ToSet(FileKinds)) /\ "mcp" \notin ToSet(FileKinds)
    /\ Selections \subseteq Seq(Places)
    /\ None \notin {0, 1, 2} /\ None \notin {"vectors", "mcp", "cli"}
    /\ \A S \in SUBSET Places : None \notin [S -> {"mcp", "cli"}] /\ Broken \notin [S -> {"mcp", "cli"}]

VARIABLES
    part,       \* what a behaviour is of; the rest of the setup stays as it was at the start
    rules, revision, edits, sources, walked, memo, watching, project, learned, noticed, touched, calm, settled, fresh,
    layers, stores, runs, changes,
    config, files, marker, yaml, index, cmd, steps, stage, faulty, critical, unmarked, exit, disk0, commands, upgrades

walkVars   == <<rules, revision, edits, sources, walked, memo, watching, project, learned, noticed, touched, calm,
                settled, fresh>>
configVars == <<layers, stores, runs, changes>>
installVars == <<config, files, marker, yaml, index, cmd, steps, stage, faulty, critical, unmarked, exit, disk0,
                 commands, upgrades>>

Walks   == INSTANCE SourceWalks WITH
    MaxEdits <- MaxTouches, version <- revision, graph <- sources, known <- learned, vectors <- walked, pending <- noticed

Configs == INSTANCE OperatorConfig WITH
    Dirs <- WorkDirs, MaxBuilds <- MaxRuns, MaxEdits <- MaxChanged, yaml <- layers, builds <- runs, edits <- changes

Install == INSTANCE Installer WITH
    MaxEvents <- MaxUpgrades,
    todo <- steps, failed <- faulty, code <- exit, before <- disk0, events <- upgrades

\* Directories are sequences of names; a path may have to be put behind one.
Directories == Seq(STRING)
PathValues  == [rel : BOOLEAN, up : Nat, path : Directories]

\* What flags, the environment or a YAML give of the settings.
Gives(given) ==
    DOMAIN given = DOMAIN Default /\ \A key \in Configs!Paths : given[key] \in PathValues \cup {None}

\* A tree and a device need not be set, anything else has a default; no variable sets the debounce.
ASSUME ConfigAssumption ==
    /\ WorkDirs \subseteq Directories /\ Home \in Directories
    /\ None \notin Directories /\ None \notin PathValues
    /\ DOMAIN Default = Configs!Paths \cup {"embedding_device", "retrieval", "language", "debounce_ms"}
    /\ Default["index_dir"] \in PathValues /\ Default["embedding_model"] \in PathValues
    /\ Default["retrieval"] # None /\ Default["language"] # None
    /\ DOMAIN Closed \subseteq {"retrieval", "language"}
    /\ \A ys \in YamlSets : \A d \in DOMAIN ys : d \in Directories /\ (ys[d] # None => Gives(ys[d]))
    /\ \A p \in Builders \cup Watchers : p.cwd \in Directories /\ Gives(p.flags) /\ Gives(p.env)
    /\ \A p \in Watchers : p.env["debounce_ms"] = None

----------------------------------------------------------------------------
setupVars == <<part, walkVars, configVars, installVars>>

\* The watcher and the daemons of MCWatch are set up with nothing.
SetupInit ==
    /\ part \in {"watcher", "daemons", "walks", "config", "install"}
    /\ IF part = "walks"  THEN Walks!Init   ELSE Walks!Start(<<>>)
    /\ IF part = "config" THEN Configs!Init ELSE Configs!Start(<<>>)
    /\ Install!Init /\ (part # "install" => config = [p \in Places |-> "absent"])

SetupNext ==
    /\ UNCHANGED part
    /\ IF part = "walks"   THEN Walks!Next   ELSE UNCHANGED walkVars
    /\ IF part = "config"  THEN Configs!Next ELSE UNCHANGED configVars
    /\ IF part = "install" THEN Install!Next ELSE UNCHANGED installVars

SetupSpec == SetupInit /\ [][SetupNext]_setupVars

\* What each is to keep, in the behaviours that are of it.
SourcesAreFollowed == part = "walks" => Walks!SourcesAreFollowed
ConfigIsShared     == part = "config" => Configs!ConfigIsShared
UpdateTellsTruth   == part = "install" => Install!UpdateTellsTruth
=============================================================================
