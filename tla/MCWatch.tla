------------------------------- MODULE MCWatch -------------------------------
(***************************************************************************)
(* A watch process and what it is set up with, for TLC: the source watcher inside *)
(* one, over a file of each of two languages, which change a few times; two        *)
(* daemons of one project and one stop verb; the sources that the watcher and the  *)
(* builders see; the project and the settings that a process finds; or the         *)
(* installer.  They share no state here: a behaviour is of one of them, `part`,    *)
(* and the others rest.                                                          *)
(***************************************************************************)
EXTENDS SourceWatcher, WatchDaemon, Setup, TLC

CONSTANTS java, kotlin, p1, p2, i1, i2, home

watchVars == <<vars, daemonVars, setupVars>>

(* SourceWalks: a tree and ignore files of a service that is a build module, with   *)
(* a generated directory, its build output and a package of the same name; a hidden  *)
(* directory and a dependency tree next to it.                                  *)

Line(name)   == [neg |-> FALSE, slash |-> FALSE, name |-> name]
Slash(name)  == [neg |-> FALSE, slash |-> TRUE, name |-> name]
Except(name) == [neg |-> TRUE, slash |-> FALSE, name |-> name]
In(layer, dir) == [layer |-> layer, dir |-> dir]

MCPathOf ==
    "made" :> <<"svc", "gen">> @@ "built" :> <<"svc", "out">>
 @@ "package" :> <<"svc", "api", "out">> @@ "hidden" :> <<".x">> @@ "dependency" :> <<"node_modules">>

MCBuiltin == <<Line(".x"), Line("node_modules")>>
MCModules == {<<"svc">>}

MCRuleSets == {
    <<>>,
    In("ignore", <<>>) :> <<Except(".x")>>,
    In("git", <<>>) :> <<Except(".x")>>,
    In("ignore", <<>>) :> <<Line("svc")>> @@ In("ignore", <<"svc", "gen">>) :> <<Except("gen")>>
        @@ In("git", <<"svc">>) :> <<Except("gen")>>,
    In("git", <<>>) :> <<Slash("out")>>,
    In("ignore", <<>>) :> <<Slash("out"), Except("node_modules")>>,
    In("git", <<"svc">>) :> <<Line("gen"), Line("out")>>,
    In("ignore", <<"svc">>) :> <<Line("gen")>> @@ In("git", <<>>) :> <<Except("gen")>> }

----------------------------------------------------------------------------
(* OperatorConfig: trees and YAMLs.  Below the home directory there are a workspace   *)
(* with a Java tree of one service and, beside it, a directory for the configuration. *)

MCHome == <<"home">>
Work   == <<"home", "work">>
Ctx    == <<"home", "work", "ctx">>
Tree   == <<"home", "work", "tree">>
Svc    == <<"home", "work", "tree", "svc">>
MCDirs == {MCHome, Work, Ctx, Tree, Svc, <<"srv">>}

Rel(up, path) == [rel |-> TRUE, up |-> up, path |-> path]
Abs(path)     == [rel |-> FALSE, up |-> 0, path |-> path]

MCDefault ==
    "source_root" :> None @@ "index_dir" :> Rel(0, <<".idx">>) @@ "embedding_model" :> Abs(<<"MiniLM">>)
 @@ "embedding_device" :> None @@ "retrieval" :> "vectors" @@ "language" :> "en" @@ "debounce_ms" :> 1500
MCClosed == "retrieval" :> {"vectors", "bm25"} @@ "language" :> {"en", "ru"}

Nothing  == [key \in DOMAIN MCDefault |-> None]
Given(values) == values @@ Nothing

Beside  == Given("source_root" :> Rel(1, <<"tree">>) @@ "embedding_model" :> Rel(0, <<"m">>) @@ "debounce_ms" :> 9)
Apart   == Given("source_root" :> Rel(1, <<"tree">>) @@ "index_dir" :> Rel(1, <<"elsewhere">>) @@ "language" :> "ru")
Above   == Given("source_root" :> Rel(0, <<"tree">>) @@ "embedding_device" :> "gpu" @@ "retrieval" :> "fast")
Within  == Given("retrieval" :> "bm25" @@ "embedding_model" :> Rel(0, <<"m">>))
AtHome  == Given("source_root" :> Abs(Tree) @@ "language" :> "ru")

MCYamlSets == {
    <<>>, Ctx :> Beside, Ctx :> Apart, Ctx :> Beside @@ Work :> Above, Tree :> Within, Ctx :> Beside @@ Tree :> Within,
    MCHome :> AtHome, MCHome :> Nothing @@ Svc :> Within }

Plain(cwd) == [cwd |-> cwd, flags |-> Nothing, env |-> Nothing]
MCBuilders ==
    {Plain(cwd) : cwd \in {MCHome, Work, Ctx, Tree, Svc}}
    \cup {[Plain(MCHome) EXCEPT !.flags = Given("source_root" :> Rel(0, <<"work", "tree">>))],
          [Plain(Ctx) EXCEPT !.flags = Given("embedding_model" :> Abs(<<"other">>))],
          [Plain(<<"srv">>) EXCEPT !.env = Given("source_root" :> Abs(Tree) @@ "index_dir" :> Rel(0, <<"mine">>))]}

MCWatchers ==
    {[cwd |-> cwd, flags |-> flags, env |-> env] : cwd \in {Ctx, Svc},
        flags \in {Nothing, Given("index_dir" :> Rel(0, <<".idx">>) @@ "debounce_ms" :> 7)},
        env \in {Nothing, Given("source_root" :> Rel(0, <<>>) @@ "embedding_device" :> "cpu" @@ "retrieval" :> "bm25"),
                 Given("embedding_model" :> Rel(1, <<"m">>) @@ "language" :> "xx")}}

----------------------------------------------------------------------------
\* One host that may be installed to.
MCPlaces     == {home}
MCFileKinds  == <<"skill">>
MCSelections == {<<home>>}

----------------------------------------------------------------------------
\* One source file of each language, called by its language.
MCKindOf == [f \in SourceFiles |-> f]

\* Versions in all that were not there when the index was built: three, or two where the
\* watcher is stopped.
FewChanges == disk[java] + disk[kotlin] <= IF stop THEN 2 ELSE 3

Unchanged == disk = NoVersions /\ torn = {} /\ ~inProgress /\ ~needsFull

\* The daemons rest where none has started; the watcher starts before anything changed,
\* or beside whatever a killed build left, when both files changed meanwhile.
WatchInit ==
    /\ SetupInit
    /\ Init
    /\ \/ Unchanged
       \/ part = "watcher" /\ \A f \in SourceFiles : disk[f] = 1
    /\ DaemonInit

WatchNext ==
    /\ SetupNext
    /\ IF part = "watcher" THEN Next /\ FewChanges' ELSE UNCHANGED vars
    /\ IF part = "daemons" THEN DaemonNext ELSE UNCHANGED daemonVars

WatchSpec == WatchInit /\ [][WatchNext]_watchVars

MCSymmetry == Permutations({java, kotlin}) \cup Permutations({p1, p2}) \cup Permutations({i1, i2})
=============================================================================
