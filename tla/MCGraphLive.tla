----------------------------- MODULE MCGraphLive -----------------------------
(***************************************************************************)
(* The two sides of the graph file over time, for TLC: the reader of the watch  *)
(* daemon, with two query threads over two builds, or the builder that writes    *)
(* it, over two files with one content each and a cap of one file.  They         *)
(* share no state here: a behaviour is of one of them.                        *)
(***************************************************************************)
EXTENDS WarmSnapshot

CONSTANTS t1, t2, f1, f2, v1, Files, Versions, Absent, Torn, ExpansionCap

VARIABLES part, disk, graph, callsWhole, meta, hashes, marker, pc, scope, removed, snap, outcome, edited, mishashed, abandoned

Builder == INSTANCE IncrementalBuild

buildVars == <<disk, graph, callsWhole, meta, hashes, marker, pc, scope, removed, snap, outcome, edited, mishashed, abandoned>>
liveVars  == <<part, vars, buildVars>>

\* Nothing is there to be built while the other side runs.
LiveInit ==
    /\ part \in {"build", "warm"}
    /\ Builder!Init /\ (part = "warm" => disk = [f \in Files |-> Absent])
    /\ Init

LiveNext ==
    /\ UNCHANGED part
    /\ \/ part = "build" /\ Builder!Next /\ UNCHANGED vars
       \/ part = "warm" /\ Next /\ UNCHANGED buildVars

\* A started builder runs on, and increments keep being asked for, by the watcher or by
\* hand.  The reindex thread runs on, and the builder it waits for ends.
LiveSpec ==
    /\ LiveInit /\ [][LiveNext]_liveVars
    /\ WF_buildVars(part = "build" /\ Builder!ScopedStep)
    /\ WF_buildVars(part = "build" /\ Builder!FullStep)
    /\ WF_buildVars(part = "build" /\ Builder!EraseBuilderFiles)
    /\ WF_buildVars(part = "build" /\ Builder!StartIncrement)
    /\ ReindexRuns

Converges == Builder!Converges
=============================================================================
