---------------------------- MODULE WarmSnapshot ----------------------------
(***************************************************************************)
(* The graph reader of the watch daemon: WarmResources (watch/warm.py) over *)
(* the one cached LadybugGraph of the process (graph/ladybug_queries.py),   *)
(* used by the server's threads while the watcher's reindex thread copies   *)
(* the graph aside, lets the builder subprocess write the original, and     *)
(* drops the copy.                                                          *)
(*                                                                         *)
(* A reader is an open database: the file it reads, the version of the      *)
(* graph it was opened on, and whether the builder was writing then.        *)
(***************************************************************************)
EXTENDS Naturals

CONSTANTS
    Threads,    \* server threads
    MaxBuilds   \* bound on the number of builds (TLC only)

ASSUME MaxBuildsAssumption == MaxBuilds \in Nat

VARIABLES
    original,   \* the version in code_graph.lbug, as of the last build
    writing,    \* the builder subprocess has the original open for writing
    sidecar,    \* the version in code_graph.lbug.snapshot; NoVersion: none, or part of one
    snapshot,   \* _snapshot_path is set
    cached,     \* LadybugGraph._instance, as a set of at most one reader
    held,       \* the readers each thread's query holds
    rx          \* where the reindex thread is

vars == <<original, writing, sidecar, snapshot, cached, held, rx>>

NoVersion == MaxBuilds + 1
Version == 0..MaxBuilds
Reader == [file : {"original", "sidecar"}, version : Version, torn : BOOLEAN]

BeginPcs  == {"copy", "reset", "flip"}
CommitPcs == {"dropcopy", "unlink", "clear", "reopen"}
RxPcs     == {"idle", "run", "build", "commit"} \cup BeginPcs \cup CommitPcs

\* WarmResources._lock is the reindex thread's.
LockHeld == rx \in BeginPcs \cup CommitPcs

TypeOK ==
    /\ original \in Version
    /\ writing \in BOOLEAN
    /\ sidecar \in Version \cup {NoVersion}
    /\ snapshot \in BOOLEAN
    /\ cached \in SUBSET Reader
    /\ held \in [Threads -> SUBSET Reader]
    /\ rx \in RxPcs

Init ==
    /\ original = 0
    /\ writing = FALSE
    /\ sidecar = NoVersion
    /\ snapshot = FALSE
    /\ cached = {}
    /\ held = [t \in Threads |-> {}]
    /\ rx = "idle"

----------------------------------------------------------------------------
(* LadybugGraph *)

OpenOriginal == [file |-> "original", version |-> original, torn |-> writing]
OpenSidecar  == [file |-> "sidecar", version |-> sidecar, torn |-> FALSE]

\* get: the cached reader when it is of this file, else a new one in its place.
Get(opened) ==
    IF \E r \in cached : r.file = opened.file THEN cached ELSE {opened}

\* reset_for_path: forget the cached reader when it is of this file.  A query
\* that already holds it goes on reading.
Without(file) == {r \in cached : r.file # file}

----------------------------------------------------------------------------
(* the server's threads *)

\* dispatch calls warm.graph(): the path and its reader are taken under the lock.
StartQuery(t) ==
    /\ held[t] = {}
    /\ ~LockHeld
    /\ ~snapshot
    /\ cached' = Get(OpenOriginal)
    /\ held' = [held EXCEPT ![t] = cached']
    /\ UNCHANGED <<original, writing, sidecar, snapshot, rx>>

StartQueryOnSnapshot(t) ==
    /\ held[t] = {}
    /\ ~LockHeld
    /\ snapshot
    /\ cached' = Get(OpenSidecar)
    /\ held' = [held EXCEPT ![t] = cached']
    /\ UNCHANGED <<original, writing, sidecar, snapshot, rx>>

\* The graph expansion of a search asks LadybugGraph for the configured path
\* itself, which is the original, without WarmResources' lock.  (The engine may
\* refuse to open a database that is being written: then nothing changes.)
ExpandSearch(t) ==
    /\ held[t] # {}
    /\ cached' = Get(OpenOriginal)
    /\ held' = [held EXCEPT ![t] = held[t] \cup cached']
    /\ UNCHANGED <<original, writing, sidecar, snapshot, rx>>

EndQuery(t) ==
    /\ held[t] # {}
    /\ held' = [held EXCEPT ![t] = {}]
    /\ UNCHANGED <<original, writing, sidecar, snapshot, cached, rx>>

----------------------------------------------------------------------------
(* begin_graph_snapshot *)

StartReindex ==
    /\ rx = "idle"
    /\ original < MaxBuilds
    /\ rx' = "copy"
    /\ UNCHANGED <<original, writing, sidecar, snapshot, cached, held>>

CopyOriginal ==
    /\ rx = "copy"
    /\ sidecar' = original
    /\ rx' = "reset"
    /\ UNCHANGED <<original, writing, snapshot, cached, held>>

\* copy2 raises, possibly with a part of the copy written: nothing was flipped, the
\* builder is not started, and the commit in finally does nothing.
CopyFails ==
    /\ rx = "copy"
    /\ sidecar' \in {sidecar, NoVersion}
    /\ rx' = "idle"
    /\ UNCHANGED <<original, writing, snapshot, cached, held>>

DropOriginalReader ==
    /\ rx = "reset"
    /\ cached' = Without("original")
    /\ rx' = "flip"
    /\ UNCHANGED <<original, writing, sidecar, snapshot, held>>

FlipToSidecar ==
    /\ rx = "flip"
    /\ snapshot' = TRUE
    /\ rx' = "run"
    /\ UNCHANGED <<original, writing, sidecar, cached, held>>

----------------------------------------------------------------------------
(* run_incremental_graph: the builder subprocess *)

BuilderOpens ==
    /\ rx = "run"
    /\ writing' = TRUE
    /\ rx' = "build"
    /\ UNCHANGED <<original, sidecar, snapshot, cached, held>>

\* It ends, well or badly: the original is another database now.
BuilderEnds ==
    /\ rx = "build"
    /\ writing' = FALSE
    /\ original' = original + 1
    /\ rx' = "commit"
    /\ UNCHANGED <<sidecar, snapshot, cached, held>>

\* Mutant: no finally around the build.
BuilderFailsUncommitted ==
    /\ rx = "run"
    /\ rx' = "idle"
    /\ UNCHANGED <<original, writing, sidecar, snapshot, cached, held>>

\* The subprocess does not start, or fails before it opens the database.
BuilderFails ==
    /\ rx = "run"
    /\ rx' = "commit"
    /\ UNCHANGED <<original, writing, sidecar, snapshot, cached, held>>

----------------------------------------------------------------------------
(* commit_graph_snapshot *)

StartCommit ==
    /\ rx = "commit"
    /\ snapshot
    /\ rx' = "dropcopy"
    /\ UNCHANGED <<original, writing, sidecar, snapshot, cached, held>>

\* Mutant: commit forgets the reader of the copy.
KeepSidecarReader ==
    /\ rx = "dropcopy"
    /\ rx' = "unlink"
    /\ UNCHANGED <<original, writing, sidecar, snapshot, cached, held>>

DropSidecarReader ==
    /\ rx = "dropcopy"
    /\ cached' = Without("sidecar")
    /\ rx' = "unlink"
    /\ UNCHANGED <<original, writing, sidecar, snapshot, held>>

\* An unlink that fails is logged and the rest goes on.
UnlinkSidecar ==
    /\ rx = "unlink"
    /\ sidecar' \in {sidecar, NoVersion}
    /\ rx' = "clear"
    /\ UNCHANGED <<original, writing, snapshot, cached, held>>

ClearSnapshot ==
    /\ rx = "clear"
    /\ snapshot' = FALSE
    /\ rx' = "reopen"
    /\ UNCHANGED <<original, writing, sidecar, cached, held>>

\* Mutant: commit does not reopen the original.
KeepStaleReader ==
    /\ rx = "reopen"
    /\ rx' = "idle"
    /\ UNCHANGED <<original, writing, sidecar, snapshot, cached, held>>

DropStaleReader ==
    /\ rx = "reopen"
    /\ cached' = Without("original")
    /\ rx' = "idle"
    /\ UNCHANGED <<original, writing, sidecar, snapshot, held>>

----------------------------------------------------------------------------
Query(t) == \/ StartQuery(t) \/ StartQueryOnSnapshot(t) \/ ExpandSearch(t) \/ EndQuery(t)
Begin    == CopyOriginal \/ CopyFails \/ DropOriginalReader \/ FlipToSidecar
Build    == BuilderOpens \/ BuilderEnds \/ BuilderFails
Commit   == StartCommit \/ DropSidecarReader \/ UnlinkSidecar \/ ClearSnapshot \/ DropStaleReader

Next == StartReindex \/ Begin \/ Build \/ Commit \/ \E t \in Threads : Query(t)

Spec == Init /\ [][Next]_vars

\* The reindex thread runs on, and the builder subprocess ends.
ReindexRuns == WF_vars(Begin \/ Build \/ Commit)

----------------------------------------------------------------------------
(* properties *)

\* The first reader of a query is whole and of the version its path is to serve:
\* of the copy while a snapshot is active, of the original otherwise.  Neither begin,
\* nor commit, nor a search that opened the original during the build, leaves a
\* reader of an older or of a half-written graph in the cache for it.
StartsOnServedGraph ==
    [][\A t \in Threads :
         held[t] = {} /\ held'[t] # {} =>
             \A r \in held'[t] :
                 /\ ~r.torn
                 /\ r.version = IF snapshot THEN sidecar ELSE original]_vars

\* While the builder writes, queries are sent to a copy that exists and is of
\* the graph as it was before the build.
WritingIsCovered == writing => snapshot /\ sidecar = original

\* Between reindexes the cached reader, if any, is a whole one of the original as
\* it is now, also when a search opened the original in the middle of the build.
IdleCacheIsFresh ==
    rx = "idle" => \A r \in cached : r = [file |-> "original", version |-> original, torn |-> FALSE]

\* A snapshot is always taken down again, whatever the builder does.
SnapshotEnds == snapshot ~> ~snapshot
============================================================================
