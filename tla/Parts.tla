-------------------------------- MODULE Parts --------------------------------
(***************************************************************************)
(* Parts of the system that run one at a time in a process of their own, for  *)
(* any value of their constants: the operator's verbs, the optimisation of the *)
(* tables, the tracing of a flow, the scoped rebuild of the graph and the links *)
(* between services in it.                                                   *)
(* What is promised of them is proved in PartsProofs and checked in MCParts.    *)
(***************************************************************************)
EXTENDS Naturals, Sequences, FiniteSets, SequencesExt

CONSTANTS
    None,
    LanceTables, MaxAttempts,       \* of the optimisation
    FlowTypes, FlowGraphs, FlowAsks, StageLimit,
    JavaFiles, PackageOf, NameOf, Contents, MaxPending, MaxIncrements, Self,   \* of the scoped rebuild
    LinkOrder, LinkService, LinkContents, LinkHints, LinkCovers, BrownfieldOnly

\* LANCE_TABLE_NAMES names each table once, and there is one; _MAX_ATTEMPTS is positive.
ASSUME TablesAssumption ==
    /\ LanceTables \in Seq(ToSet(LanceTables)) /\ LanceTables # <<>>
    /\ \A i, j \in 1..Len(LanceTables) : LanceTables[i] = LanceTables[j] => i = j
ASSUME AttemptsAssumption == MaxAttempts \in Nat \ {0}

\* A graph is finite and its edges lead from type to type; the stage limit is a number.
ASSUME FlowAssumption ==
    /\ StageLimit \in Nat
    /\ \A net \in FlowGraphs :
        /\ IsFiniteSet(net)
        /\ net \subseteq [kind : {"INJECTS", "EXTENDS", "IMPLEMENTS", "CALLS", "HTTP_CALLS", "ASYNC_CALLS"},
                         from : DOMAIN FlowTypes, to : DOMAIN FlowTypes]

\* There are finitely many sources, and no two declare the same type.
ASSUME SourcesAssumption ==
    /\ IsFiniteSet(JavaFiles)
    /\ \A f, g \in JavaFiles : PackageOf[f] = PackageOf[g] /\ NameOf[f] = NameOf[g] => f = g

\* The files that expose and call routes come in some order.
ASSUME LinksAssumption == LinkOrder \in Seq(ToSet(LinkOrder)) /\ None \notin ToSet(LinkOrder)

VARIABLES
    setup, builder, lance, graph, pointer, foreign, verb, plan, child, tore, result, code, open, before, alone, trouble,
    at, todo, existing, attempt, results, failed, task, cancelled, healthy,
    web, ask, flowStages, reached, frontier, nearby, hop, queried, rows, cut,
    program, indexed, rebuilt, increments, tame,
    wired, linked, links, shared, relinks

verbVars     == <<setup, builder, lance, graph, pointer, foreign, verb, plan, child, tore, result, code, open,
                  before, alone, trouble>>
optimizeVars == <<at, todo, existing, attempt, results, failed, task, cancelled, healthy>>
flowVars     == <<web, ask, flowStages, reached, frontier, nearby, hop, queried, rows, cut>>
rebuildVars  == <<program, indexed, rebuilt, increments, tame>>
linkVars     == <<wired, linked, links, shared, relinks>>

Verbs    == INSTANCE LifecycleVerbs
Optimize == INSTANCE LanceOptimize WITH Tables <- LanceTables
Flow     == INSTANCE FlowTrace WITH
    Types <- FlowTypes, LinkSets <- FlowGraphs, Asks <- FlowAsks,
    links <- web, stages <- flowStages, found <- reached, next <- nearby, step <- queried

Rebuild  == INSTANCE ScopedRebuild WITH Files <- JavaFiles, graph <- rebuilt
Wiring   == INSTANCE RouteLinks WITH
    Order <- LinkOrder, ServiceOf <- LinkService, Contents <- LinkContents, FqnHint <- LinkHints, Covers <- LinkCovers,
    program <- wired, indexed <- linked, increments <- relinks

\* No exit code, no phase and no outcome of a subprocess.
ASSUME NoneAssumption == None \notin {0, 1, 2, 130} /\ None \notin Verbs!Phases /\ None \notin {"ok", "failed"}

ExitZeroIsDone     == Verbs!ExitZeroIsDone
IndexIsKept        == Verbs!IndexIsKept
TaskTellsTruth     == Optimize!TaskTellsTruth
FlowIsGrounded     == Flow!FlowIsGrounded
RebuildIsFaithful  == Rebuild!RebuildIsFaithful
LinksFollowSources == Wiring!LinksFollowSources
=============================================================================
