-------------------------- MODULE IncrementalBuild --------------------------
(***************************************************************************)
(* The graph builder (graph/build_ast_graph.py): a full rebuild, the        *)
(* incremental rebuild with its crash marker and content-hash store, and    *)
(* the fallbacks from one to the other, run while somebody edits sources    *)
(* and while the process may be killed between any two writes.              *)
(*                                                                         *)
(* The graph is abstracted to one value per source file: the version of the *)
(* file whose nodes and outgoing edges it holds in full, Absent when it     *)
(* holds none, Torn when it holds part of them.  A version stands for a     *)
(* content, and so for its hash.  Which files depend on the changed ones is *)
(* left open: any subset of the files in the graph.                         *)
(***************************************************************************)
EXTENDS Naturals, FiniteSets

CONSTANTS
    Files,          \* relative paths of source files
    Versions,       \* contents a file may have
    Absent,         \* no such file; no nodes of it; no hash of it
    Torn,           \* nodes or edges of the file are missing from the graph
    ExpansionCap    \* expansion_cap of incremental_rebuild

ASSUME VersionsAssumption == Absent \notin Versions /\ Torn \notin Versions
ASSUME AbsentAssumption == Absent # Torn
ASSUME ExpansionCapAssumption == ExpansionCap \in Nat

VARIABLES
    disk,       \* the content of each source file
    graph,      \* what the graph database holds of each file
    callsWhole, \* the Client and Producer nodes and their edges are all there
    meta,       \* the database and the GraphMeta row in it
    hashes,     \* .graph_hashes.json; all Absent when there is no such file
    marker,     \* .graph_increment_in_progress exists
    pc,         \* the step the builder process is at; idle when none runs
    scope,      \* its scope_files
    removed,    \* its removed files
    snap,       \* what its pass 1 parsed
    outcome,    \* how the last run ended
    edited,     \* history: files edited since this run detected changes
    mishashed,  \* history: files whose recorded hash is not of what was parsed
    abandoned   \* history: a full rebuild was begun, or an erase could not remove
                \* the graph, and no full rebuild has completed since

durable == <<graph, callsWhole, meta, hashes, marker>>
memory  == <<pc, scope, removed, snap, outcome>>
history == <<edited, mishashed, abandoned>>
vars    == <<disk, durable, memory, history>>

Contents  == Versions \cup {Absent}
ScopedPcs == {"scope", "parse", "write", "calls", "hash", "meta", "unmark"}
FullPcs   == {"fullparse", "drop", "schema", "fill", "fullwrite", "fullmeta", "fullhash"}
NoFiles   == [f \in Files |-> Absent]

TypeOK ==
    /\ disk \in [Files -> Contents]
    /\ graph \in [Files -> Contents \cup {Torn}]
    /\ callsWhole \in BOOLEAN
    /\ meta \in {"nodb", "notable", "norow", "old", "current"}
    /\ hashes \in [Files -> Contents]
    /\ marker \in BOOLEAN
    /\ pc \in ScopedPcs \cup FullPcs \cup {"idle", "erase"}
    /\ scope \in SUBSET Files
    /\ removed \in SUBSET Files
    /\ snap \in [Files -> Contents]
    /\ outcome \in {"none", "noop", "incremental", "full"}
    /\ edited \in SUBSET Files
    /\ mishashed \in SUBSET Files
    /\ abandoned \in BOOLEAN

Init ==
    /\ disk \in [Files -> Contents]
    /\ graph = NoFiles
    /\ callsWhole = FALSE
    /\ meta = "nodb"
    /\ hashes = NoFiles
    /\ marker = FALSE
    /\ pc = "idle"
    /\ scope = {}
    /\ removed = {}
    /\ snap = NoFiles
    /\ outcome = "none"
    /\ edited = {}
    /\ mishashed = {}
    /\ abandoned = FALSE

----------------------------------------------------------------------------
(* the environment *)

\* Somebody writes, creates, reverts or deletes a source file.
Edit(f, v) ==
    /\ disk[f] # v
    /\ disk' = [disk EXCEPT ![f] = v]
    /\ edited' = IF pc = "idle" THEN edited ELSE edited \cup {f}
    /\ UNCHANGED <<durable, memory, mishashed, abandoned>>

\* The process ends with nothing more written, whatever its state.
Forget(how) ==
    /\ pc' = "idle"
    /\ scope' = {}
    /\ removed' = {}
    /\ snap' = NoFiles
    /\ edited' = {}
    /\ outcome' = how

\* The builder (or erase) is killed, or a full rebuild raises.
Crash ==
    /\ pc # "idle"
    /\ Forget("none")
    /\ UNCHANGED <<disk, durable, mishashed, abandoned>>

\* A new release of the tool raises ONTOLOGY_VERSION.
Upgrade ==
    /\ pc = "idle"
    /\ meta = "current"
    /\ meta' = "old"
    /\ outcome' = "none"
    /\ UNCHANGED <<disk, graph, callsWhole, hashes, marker, pc, scope, removed, snap, history>>

----------------------------------------------------------------------------
(* incremental_rebuild *)

BeginFull ==
    /\ pc' = "fullparse"
    /\ abandoned' = TRUE
    /\ outcome' = "none"
    /\ UNCHANGED <<disk, graph, callsWhole, meta, hashes, scope, removed, snap, edited, mishashed>>

\* Mutant: only the files that are on disk are compared with the store.
ChangedOnDisk == {f \in Files : disk[f] # Absent /\ disk[f] # hashes[f]}

\* detect_changes: added, changed and removed files against the hash store.
Changed == {f \in Files : disk[f] # hashes[f]}
Removed == {f \in Files : disk[f] = Absent /\ hashes[f] # Absent}

\* No database, an old ontology version, or no GraphMeta table to read it from.
\* A table without a row falls through.
NeedsFull == meta \in {"nodb", "notable", "old"}

IncrementNeedsFull ==
    /\ pc = "idle"
    /\ NeedsFull
    /\ BeginFull
    /\ UNCHANGED marker

\* The run ends here when nothing changed, before it looks for the marker.
IncrementNoChange ==
    /\ pc = "idle"
    /\ ~NeedsFull
    /\ Changed = {}
    /\ outcome' = "noop"
    /\ UNCHANGED <<disk, durable, pc, scope, removed, snap, history>>

\* A marker an earlier run left is removed and a full rebuild follows.
IncrementAfterCrash ==
    /\ pc = "idle"
    /\ ~NeedsFull
    /\ Changed # {}
    /\ marker
    /\ marker' = FALSE
    /\ BeginFull

\* Otherwise the marker is written before anything else is.
IncrementMark ==
    /\ pc = "idle"
    /\ ~NeedsFull
    /\ Changed # {}
    /\ ~marker
    /\ marker' = TRUE
    /\ pc' = "scope"
    /\ scope' = Changed
    /\ removed' = Removed
    /\ outcome' = "none"
    /\ UNCHANGED <<disk, graph, callsWhole, meta, hashes, snap, history>>

StartIncrement ==
    IncrementNeedsFull \/ IncrementNoChange \/ IncrementAfterCrash \/ IncrementMark

\* Mutant: the new hashes are saved before the scope is rebuilt.
DeleteScopeAndHash ==
    /\ pc = "scope"
    /\ graph' = [f \in Files |-> IF f \in scope THEN Absent ELSE graph[f]]
    /\ hashes' = disk
    /\ callsWhole' = FALSE
    /\ pc' = "parse"
    /\ UNCHANGED <<disk, meta, marker, scope, removed, snap, outcome, history>>

\* Dependents join the scope and the scope is deleted: the nodes of changed
\* files, the outgoing edges of dependents, the clients and producers of both.
DeleteScope ==
    /\ pc = "scope"
    /\ \E deps \in SUBSET {f \in Files \ scope : graph[f] # Absent} :
         /\ Cardinality(scope \cup deps) <= ExpansionCap
         /\ scope' = scope \cup deps
         /\ graph' = [f \in Files |-> IF f \in scope THEN Absent
                                      ELSE IF f \in deps THEN Torn ELSE graph[f]]
    /\ callsWhole' = FALSE
    /\ pc' = "parse"
    /\ UNCHANGED <<disk, meta, hashes, marker, removed, snap, outcome, history>>

\* Too many files: unmark and rebuild everything.
ExceedCap ==
    /\ pc = "scope"
    /\ \E deps \in SUBSET {f \in Files \ scope : graph[f] # Absent} :
         Cardinality(scope \cup deps) > ExpansionCap
    /\ marker' = FALSE
    /\ BeginFull

\* pass1_parse reads the files of the scope that are on disk now.
ParseScope ==
    /\ pc = "parse"
    /\ snap' = [f \in Files |-> IF f \in scope THEN disk[f] ELSE Absent]
    /\ pc' = "write"
    /\ UNCHANGED <<disk, durable, scope, removed, outcome, history>>

\* Mutant: the marker is removed as soon as the scope is written.
WriteScopeAndUnmark ==
    /\ pc = "write"
    /\ graph' = [f \in Files |-> IF f \in scope THEN snap[f] ELSE graph[f]]
    /\ marker' = FALSE
    /\ pc' = "calls"
    /\ UNCHANGED <<disk, callsWhole, meta, hashes, scope, removed, snap, outcome, history>>

\* _scoped_write merges the nodes and edges of the scope.
WriteScope ==
    /\ pc = "write"
    /\ graph' = [f \in Files |-> IF f \in scope THEN snap[f] ELSE graph[f]]
    /\ pc' = "calls"
    /\ UNCHANGED <<disk, callsWhole, meta, hashes, marker, scope, removed, snap, outcome, history>>

\* Passes 5 and 6 over all files: every client and producer is replaced.
WriteCalls ==
    /\ pc = "calls"
    /\ callsWhole' = TRUE
    /\ pc' = "hash"
    /\ UNCHANGED <<disk, graph, meta, hashes, marker, scope, removed, snap, outcome, history>>

\* tracker.update hashes the files of the scope as they are on disk now; the
\* hashes of removed files are dropped; save replaces the store atomically, or
\* fails and is only logged.
UpdateHashes ==
    /\ pc = "hash"
    /\ \/ /\ hashes' = [f \in Files |->
                          IF f \in removed THEN Absent
                          ELSE IF f \in scope /\ disk[f] # Absent THEN disk[f]
                          ELSE hashes[f]]
          /\ mishashed' = (mishashed \ scope) \cup (edited \cap scope)
       \/ /\ hashes' = hashes
          /\ mishashed' = mishashed \cup scope
    /\ pc' = "meta"
    /\ UNCHANGED <<disk, graph, callsWhole, meta, marker, scope, removed, snap, outcome, edited, abandoned>>

WriteMeta ==
    /\ pc = "meta"
    /\ meta' = "current"
    /\ pc' = "unmark"
    /\ UNCHANGED <<disk, graph, callsWhole, hashes, marker, scope, removed, snap, outcome, history>>

RemoveMarker ==
    /\ pc = "unmark"
    /\ marker' = FALSE
    /\ Forget("incremental")
    /\ UNCHANGED <<disk, graph, callsWhole, meta, hashes, mishashed, abandoned>>

\* Mutant: the exception is reported and the run ends without a full rebuild.
ReportError ==
    /\ pc \in ScopedPcs
    /\ marker' = FALSE
    /\ Forget("incremental")
    /\ UNCHANGED <<disk, graph, callsWhole, meta, hashes, mishashed, abandoned>>

\* Any exception after the marker was written: unmark and rebuild everything.
BuildError ==
    /\ pc \in ScopedPcs
    /\ marker' = FALSE
    /\ BeginFull

----------------------------------------------------------------------------
(* the full rebuild: main without --incremental, and every fallback *)

StartFull ==
    /\ pc = "idle"
    /\ BeginFull
    /\ UNCHANGED marker

ParseAll ==
    /\ pc = "fullparse"
    /\ snap' = disk
    /\ edited' = {}
    /\ pc' = "drop"
    /\ UNCHANGED <<disk, durable, scope, removed, outcome, mishashed, abandoned>>

\* write_ladybug opens the database, creating it, and drops every table.
DropAll ==
    /\ pc = "drop"
    /\ graph' = NoFiles
    /\ callsWhole' = FALSE
    /\ meta' = "notable"
    /\ pc' = "schema"
    /\ UNCHANGED <<disk, hashes, marker, scope, removed, snap, outcome, history>>

CreateSchema ==
    /\ pc = "schema"
    /\ meta' = "norow"
    /\ pc' = "fill"
    /\ UNCHANGED <<disk, graph, callsWhole, hashes, marker, scope, removed, snap, outcome, history>>

\* _write_nodes: nodes without their edges.
FillNodes ==
    /\ pc = "fill"
    /\ graph' = [f \in Files |-> IF snap[f] = Absent THEN Absent ELSE Torn]
    /\ pc' = "fullwrite"
    /\ UNCHANGED <<disk, callsWhole, meta, hashes, marker, scope, removed, snap, outcome, history>>

\* _write_edges and _write_routes_and_exposes.
WriteAll ==
    /\ pc = "fullwrite"
    /\ graph' = snap
    /\ callsWhole' = TRUE
    /\ pc' = "fullmeta"
    /\ UNCHANGED <<disk, meta, hashes, marker, scope, removed, snap, outcome, history>>

WriteFullMeta ==
    /\ pc = "fullmeta"
    /\ meta' = "current"
    /\ pc' = "fullhash"
    /\ UNCHANGED <<disk, graph, callsWhole, hashes, marker, scope, removed, snap, outcome, history>>

\* _init_hash_tracker hashes every file as it is on disk now, in a new store;
\* here too a store that cannot be saved is only logged.
InitHashes ==
    /\ pc = "fullhash"
    /\ \/ hashes' = disk /\ mishashed' = edited
       \/ hashes' = hashes /\ mishashed' = Files
    /\ abandoned' = FALSE
    /\ Forget("full")
    /\ UNCHANGED <<disk, graph, callsWhole, meta, marker>>

----------------------------------------------------------------------------
(* jrag erase *)

\* Each file is removed on its own; one that cannot be removed is warned of and stays.
EraseGraph ==
    /\ pc = "idle"
    /\ \/ graph' = NoFiles /\ callsWhole' = FALSE /\ meta' = "nodb"
       \/ UNCHANGED <<graph, callsWhole, meta>>
    /\ outcome' = "none"
    /\ pc' = "erase"
    /\ UNCHANGED <<disk, hashes, marker, scope, removed, snap, history>>

EraseBuilderFiles ==
    /\ pc = "erase"
    /\ hashes' \in {NoFiles, hashes}
    /\ marker' \in {FALSE, marker}
    /\ abandoned' = (abandoned \/ meta # "nodb")
    /\ Forget("none")
    /\ UNCHANGED <<disk, graph, callsWhole, meta, mishashed>>

----------------------------------------------------------------------------
ScopedStep == \/ DeleteScope \/ ExceedCap \/ ParseScope \/ WriteScope \/ WriteCalls
              \/ UpdateHashes \/ WriteMeta \/ RemoveMarker
FullStep   == \/ ParseAll \/ DropAll \/ CreateSchema \/ FillNodes \/ WriteAll
              \/ WriteFullMeta \/ InitHashes
Trouble    == \/ Crash \/ Upgrade \/ BuildError \/ StartFull \/ EraseGraph
              \/ \E f \in Files, v \in Contents : Edit(f, v)

Next == StartIncrement \/ ScopedStep \/ FullStep \/ EraseBuilderFiles \/ Trouble

Spec == Init /\ [][Next]_vars

----------------------------------------------------------------------------
(* properties *)

\* The graph holds of f the version whose hash the store records.
Synced(f) == graph[f] = hashes[f]

\* The crash marker does what it is for: whatever kills an incremental run,
\* between any two writes, a graph that no marker guards holds exactly what the
\* hash store says, so that the next increment misses nothing.  Left out are the
\* files edited under the builder's hands (or never hashed, the store failing to
\* save), a full rebuild that was killed and an erase that could not remove the graph.
UnmarkedIsSynced ==
    pc = "idle" /\ ~marker /\ ~abandoned /\ meta # "nodb"
        => callsWhole /\ \A f \in Files \ mishashed : Synced(f)

\* A rebuild that reports success leaves every file whole, the edited ones too,
\* the cross-service layer whole, and the ontology version current.
SuccessIsWhole ==
    outcome \in {"incremental", "full"} /\ ~abandoned
        => /\ \A f \in Files : graph[f] # Torn
           /\ callsWhole
           /\ meta = "current"

\* The store never runs ahead of the graph: a new hash is one of a version the
\* graph already holds, unless the file was edited during the run.
HashFollowsGraph ==
    [][\A f \in Files \ edited :
         hashes'[f] # hashes[f] /\ hashes'[f] # Absent => graph[f] = hashes'[f]]_vars

\* What watch/watcher.py says of a graph phase that failed: the crash marker drives
\* the next full rebuild, so that an increment that succeeds by a scoped rebuild has
\* found the other files as the store has them.  But the fallbacks of a run that has set
\* or found the marker remove it before the full rebuild starts.  When that is killed or
\* raises in its turn, what the scoped rebuild deleted stays missing and no marker says
\* so, and the next increment rebuilds the edited files and no others.
FailureDrivesRebuild == outcome = "incremental" => \A f \in Files \ mishashed : Synced(f)

\* Once edits, kills and errors stop, repeated increments bring the graph to the
\* sources, unless a run left one of three holes: a marker no
\* increment looks at because the sources are back to what the store records, a
\* graph torn with no marker, or a hash of an edit that no build parsed.
Converges ==
    <>[][~Trouble]_vars
        => <>[](\/ marker /\ \A f \in Files : hashes[f] = disk[f]
                \/ abandoned
                \/ \A f \in Files \ mishashed : graph[f] = disk[f])
============================================================================
