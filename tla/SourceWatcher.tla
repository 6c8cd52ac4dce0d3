---------------------------- MODULE SourceWatcher ----------------------------
(***************************************************************************)
(* The source watcher of the watch daemon (watch/watcher.py): the observer   *)
(* thread classifies file events and collects their kinds, the debounce      *)
(* worker waits for a quiet window, takes what was collected and reindexes    *)
(* the vectors and the graph, and stop ends both from the main thread.        *)
(*                                                                         *)
(* The content of a source file is a version number.  Whoever walks the tree   *)
(* (the vector flow; the graph builder when it compares, parses and hashes)     *)
(* reads of each file a version between the one at the start of the walk and   *)
(* the one at its end.  The graph phase is the builder's run in outline, with   *)
(* what a failure leaves at each of its steps; IncrementalBuild has it write by *)
(* write.                                                                  *)
(***************************************************************************)
EXTENDS Naturals

CONSTANTS
    SourceFiles,    \* the source files
    Kinds,          \* the languages with a backend
    KindOf,         \* the language of each file
    VectorEnabled,  \* the vector stack is installed and in use
    MaxChanges      \* bound on the versions of a file (TLC only)

ASSUME KindOfAssumption == KindOf \in [SourceFiles -> Kinds]
ASSUME VectorEnabledAssumption == VectorEnabled \in BOOLEAN
ASSUME MaxChangesAssumption == MaxChanges \in Nat \ {0}

VARIABLES
    disk,        \* the version of each file
    events,      \* files with an event in the observer's queue
    hand,        \* the file whose event the observer is handling, as a set
    observer,    \* the observer thread: idle, add, set or stopped
    pending,     \* _pending
    activity,    \* _activity
    stop,        \* _stop
    stopper,     \* where stop() is
    worker,      \* where the debounce worker, or the builder it waits for, is
    kinds,       \* the kinds of the reindex that is running
    taken,       \* the sources when these kinds were taken
    base,        \* the sources when the walk that is next, or under way, could start
    vectors,     \* what the vector index holds
    graph,       \* what the graph holds, or held before it was torn
    torn,        \* files of which the graph holds a part or nothing
    hashes,      \* .graph_hashes.json
    inProgress,  \* .graph_increment_in_progress exists
    needsFull,   \* there is no database, no GraphMeta table or an old ontology
    scope,       \* the builder's scope_files
    parsed,      \* what the builder parsed
    vectorsOk,   \* vres.returncode = 0, or no vectors
    graphOk,     \* graph_rc = 0
    reported,    \* the sources of which indexing_done was last said
    overlooked,  \* history: files that the graph lacks and no event will bring back
    unembedded   \* history: the same of the vectors

eventVars == <<events, hand, observer, pending, activity>>
stopVars  == <<stop, stopper>>
buildVars == <<graph, torn, hashes, inProgress, needsFull, scope, parsed, graphOk, overlooked>>
embedVars == <<vectors, vectorsOk, unembedded>>
runVars   == <<kinds, taken, base, reported, buildVars, embedVars>>
vars == <<disk, eventVars, stopVars, worker, runVars>>

Sources    == [SourceFiles -> 0..MaxChanges]
NoVersions == [f \in SourceFiles |-> 0]
ScopedPcs  == {"rewrite", "write", "hash", "unmark"}
FullPcs    == {"reparse", "fill", "rehash"}
BuilderPcs == {"detect"} \cup ScopedPcs \cup FullPcs
ReindexPcs == {"start", "vectors", "begin", "report"} \cup BuilderPcs
WorkerPcs  == {"top", "wait", "clear", "window", "quiet", "take", "exited"} \cup ReindexPcs

\* old is no newer than new, file by file.
NoNewer(old, new) == \A f \in SourceFiles : old[f] <= new[f]

\* What a walk may read that starts over old and ends over new.
Between(old, new) == {v \in Sources : NoNewer(old, v) /\ NoNewer(v, new)}

IndexesOK ==
    /\ disk \in Sources /\ taken \in Sources /\ base \in Sources
    /\ vectors \in Sources /\ graph \in Sources /\ reported \in Sources
    /\ hashes \in Sources /\ parsed \in Sources

KindsOK ==
    /\ events \in SUBSET SourceFiles /\ hand \in SUBSET SourceFiles /\ pending \in SUBSET Kinds
    /\ kinds \in SUBSET Kinds /\ torn \in SUBSET SourceFiles /\ scope \in SUBSET SourceFiles
    /\ overlooked \in SUBSET SourceFiles /\ unembedded \in SUBSET SourceFiles

FlagsOK ==
    /\ activity \in BOOLEAN /\ stop \in BOOLEAN
    /\ vectorsOk \in BOOLEAN /\ graphOk \in BOOLEAN
    /\ inProgress \in BOOLEAN /\ needsFull \in BOOLEAN

PcsOK ==
    /\ observer \in {"idle", "add", "set", "stopped"}
    /\ stopper \in {"none", "flagged", "observer", "join", "returned"}
    /\ worker \in WorkerPcs

TypeOK == IndexesOK /\ KindsOK /\ FlagsOK /\ PcsOK

\* start: the observer runs and the worker has just been started.  What changed
\* while no watcher ran has no event, and the last build may have been killed.
Init ==
    /\ disk \in [SourceFiles -> 0..1]
    /\ torn \in SUBSET SourceFiles /\ inProgress \in BOOLEAN /\ needsFull \in BOOLEAN
    /\ unembedded = {f \in SourceFiles : disk[f] = 1}
    /\ overlooked = unembedded \cup torn
    /\ events = {} /\ hand = {} /\ observer = "idle"
    /\ pending = {} /\ activity = FALSE
    /\ stop = FALSE /\ stopper = "none"
    /\ worker = "top" /\ kinds = {} /\ scope = {} /\ vectorsOk = TRUE /\ graphOk = TRUE
    /\ taken = NoVersions /\ base = NoVersions /\ parsed = NoVersions
    /\ vectors = NoVersions /\ graph = NoVersions /\ hashes = NoVersions /\ reported = NoVersions

----------------------------------------------------------------------------
(* the file system and the observer thread *)

ChangeFile(f) ==
    /\ disk[f] < MaxChanges
    /\ disk' = [disk EXCEPT ![f] = @ + 1]
    /\ events' = events \cup {f}
    /\ UNCHANGED <<hand, observer, pending, activity, stopVars, worker, runVars>>

\* _handle_path: the event's path is classified.
TakeEvent(f) ==
    /\ observer = "idle"
    /\ f \in events
    /\ events' = events \ {f}
    /\ hand' = {f}
    /\ observer' = "add"
    /\ UNCHANGED <<disk, pending, activity, stopVars, worker, runVars>>

KindsOf(changed) == {KindOf[f] : f \in changed}

\* Mutant: the last event's kinds replace the others'.
AddPendingLast ==
    /\ observer = "add"
    /\ pending' = KindsOf(hand)
    /\ hand' = {}
    /\ observer' = "set"
    /\ UNCHANGED <<disk, events, activity, stopVars, worker, runVars>>

\* _schedule: the kind is added under the lock, ...
AddPending ==
    /\ observer = "add"
    /\ pending' = pending \cup KindsOf(hand)
    /\ hand' = {}
    /\ observer' = "set"
    /\ UNCHANGED <<disk, events, activity, stopVars, worker, runVars>>

\* ... and the worker is woken outside it.
SetActivity ==
    /\ observer = "set"
    /\ activity' = TRUE
    /\ observer' = "idle"
    /\ UNCHANGED <<disk, events, hand, pending, stopVars, worker, runVars>>

----------------------------------------------------------------------------
(* stop, on the main thread *)

FlagStop ==
    /\ stopper = "none"
    /\ stop' = TRUE
    /\ stopper' = "flagged"
    /\ UNCHANGED <<disk, eventVars, worker, runVars>>

\* Mutant: stop does not wake the worker.
LeaveWorkerAsleep ==
    /\ stopper = "flagged"
    /\ stopper' = "observer"
    /\ UNCHANGED <<disk, eventVars, stop, worker, runVars>>

UnblockWorker ==
    /\ stopper = "flagged"
    /\ activity' = TRUE
    /\ stopper' = "observer"
    /\ UNCHANGED <<disk, events, hand, observer, pending, stop, worker, runVars>>

\* observer.stop and join: it finishes the event it is handling.
StopObserver ==
    /\ stopper = "observer"
    /\ observer = "idle"
    /\ observer' = "stopped"
    /\ stopper' = "join"
    /\ UNCHANGED <<disk, events, hand, pending, activity, stop, worker, runVars>>

JoinWorker ==
    /\ stopper = "join"
    /\ worker = "exited"
    /\ stopper' = "returned"
    /\ UNCHANGED <<disk, eventVars, stop, worker, runVars>>

\* The join's ten seconds are over: with a debounce below that, only a reindex is
\* so long.
JoinTimesOut ==
    /\ stopper = "join"
    /\ worker \in ReindexPcs
    /\ stopper' = "returned"
    /\ UNCHANGED <<disk, eventVars, stop, worker, runVars>>

----------------------------------------------------------------------------
(* _debounce_loop *)

Goto(pc) == worker' = pc /\ UNCHANGED <<disk, events, hand, observer, pending, stopVars, runVars>>

\* Mutant: the event is cleared before the wait, not in the window.
ClearAtTop ==
    /\ worker = "top"
    /\ activity' = FALSE
    /\ Goto(IF stop THEN "exited" ELSE "wait")

LoopTop ==
    /\ worker = "top"
    /\ Goto(IF stop THEN "exited" ELSE "wait")
    /\ UNCHANGED activity

Wake ==
    /\ worker = "wait"
    /\ activity
    /\ Goto(IF stop THEN "exited" ELSE "clear")
    /\ UNCHANGED activity

ClearActivity ==
    /\ worker = "clear"
    /\ activity' = FALSE
    /\ Goto("window")

\* New activity in the window opens another window.
Rearm ==
    /\ worker = "window"
    /\ activity
    /\ Goto(IF stop THEN "exited" ELSE "clear")
    /\ UNCHANGED activity

WindowElapses ==
    /\ worker = "window"
    /\ ~activity
    /\ Goto("quiet")
    /\ UNCHANGED activity

CheckStop ==
    /\ worker = "quiet"
    /\ Goto(IF stop THEN "exited" ELSE "take")
    /\ UNCHANGED activity

\* The swap under the lock.
TakePending ==
    /\ worker = "take"
    /\ kinds' = pending
    /\ pending' = {}
    /\ taken' = disk
    /\ worker' = IF pending = {} THEN "top" ELSE "start"
    /\ UNCHANGED <<disk, events, hand, observer, activity, stopVars, base, reported, buildVars,
                   embedVars>>

----------------------------------------------------------------------------
(* reindex *)

\* SourceFiles of the running reindex that an index does not hold as they are: its kinds are not
\* put back when it fails.
Dropped(index) == {f \in SourceFiles : KindOf[f] \in kinds /\ index[f] # disk[f]}

\* The reindex returns, and its variables are gone.
Return ==
    /\ worker' = "top"
    /\ kinds' = {} /\ taken' = NoVersions /\ base' = NoVersions
    /\ vectorsOk' = TRUE /\ graphOk' = TRUE

\* Without the vector stack the graph is all there is to reindex.
StartVectors ==
    /\ worker = "start"
    /\ IF VectorEnabled
       THEN base' = disk /\ worker' = "vectors"
       ELSE worker' = "begin" /\ UNCHANGED base
    /\ UNCHANGED <<disk, eventVars, stopVars, kinds, taken, reported, buildVars, embedVars>>

VectorsDone ==
    /\ worker = "vectors"
    /\ vectors' \in Between(base, disk)
    /\ vectorsOk' = TRUE
    /\ unembedded' = {}
    /\ worker' = "begin" /\ base' = NoVersions
    /\ UNCHANGED <<disk, eventVars, stopVars, kinds, taken, reported, buildVars>>

\* What a run of the vector flow has committed before it failed stays.
EmbedSome ==
    /\ vectors' \in Between(vectors, disk)
    /\ unembedded' = unembedded \cup {f \in SourceFiles : KindOf[f] \in kinds /\ vectors'[f] # disk[f]}

\* Mutant: the return code of the vectors' run is not looked at.
VectorsFailUnseen ==
    /\ worker = "vectors"
    /\ EmbedSome
    /\ vectorsOk' = TRUE
    /\ worker' = "begin" /\ base' = NoVersions
    /\ UNCHANGED <<disk, eventVars, stopVars, kinds, taken, reported, buildVars>>

\* A non-zero exit: the graph is reindexed all the same.
VectorsFail ==
    /\ worker = "vectors"
    /\ EmbedSome
    /\ vectorsOk' = FALSE
    /\ worker' = "begin" /\ base' = NoVersions
    /\ UNCHANGED <<disk, eventVars, stopVars, kinds, taken, reported, buildVars>>

\* An exception: the reindex ends with the error event, without the graph.
VectorsRaise ==
    /\ worker = "vectors"
    /\ EmbedSome
    /\ overlooked' = overlooked \cup Dropped(graph)
    /\ Return
    /\ UNCHANGED <<disk, eventVars, stopVars, reported, graph, torn, hashes, inProgress, needsFull, scope,
                   parsed>>

StartGraph ==
    /\ worker = "begin"
    /\ base' = disk
    /\ worker' = "detect"
    /\ UNCHANGED <<disk, eventVars, stopVars, kinds, taken, reported, buildVars, embedVars>>

----------------------------------------------------------------------------
(* the builder's run *)

\* What every step of the builder leaves alone.
Building == UNCHANGED <<disk, eventVars, stopVars, kinds, taken, reported, embedVars>>

\* A return code 0: what is still torn no event will bring back.
Return0 ==
    /\ graphOk' = TRUE
    /\ overlooked' = overlooked \cap torn
    /\ scope' = {}
    /\ worker' = "report" /\ base' = NoVersions

\* The next step walks the tree, or writes what the last one read there.
GoRead(pc)  == worker' = pc /\ base' = disk /\ parsed' = NoVersions /\ UNCHANGED <<graphOk, overlooked>>
GoWrite(pc) == worker' = pc /\ base' = NoVersions /\ UNCHANGED <<graphOk, overlooked>>

\* A full rebuild takes every file.
GoFull == GoRead("reparse") /\ scope' = SourceFiles

DetectNeedsFull ==
    /\ worker = "detect"
    /\ needsFull
    /\ GoFull
    /\ UNCHANGED <<graph, torn, hashes, inProgress, needsFull>> /\ Building

\* Nothing differs from the hash store: a success, whatever the marker says.
DetectNothing ==
    /\ worker = "detect"
    /\ ~needsFull
    /\ hashes \in Between(base, disk)
    /\ Return0
    /\ UNCHANGED <<graph, torn, hashes, inProgress, needsFull, parsed>> /\ Building

\* The files whose hash differs, and any dependents; or all, over a marker.
DetectChanged ==
    /\ worker = "detect"
    /\ ~needsFull
    /\ \E seen \in Between(base, disk), dependents \in SUBSET SourceFiles :
         /\ seen # hashes
         /\ IF inProgress
            THEN dependents = {} /\ GoFull
            ELSE GoRead("rewrite") /\ scope' = {f \in SourceFiles : seen[f] # hashes[f]} \cup dependents
    /\ inProgress' = ~inProgress
    /\ UNCHANGED <<graph, torn, hashes, needsFull>> /\ Building

\* _delete_file_scope, and pass 1 over the scope.
RewriteScope ==
    /\ worker = "rewrite"
    /\ torn' = torn \cup scope
    /\ parsed' \in Between(base, disk)
    /\ GoWrite("write")
    /\ UNCHANGED <<graph, hashes, inProgress, needsFull, scope>> /\ Building

\* _scoped_write, and passes 5 and 6.
WriteScope ==
    /\ worker = "write"
    /\ graph' = [f \in SourceFiles |-> IF f \in scope THEN parsed[f] ELSE graph[f]]
    /\ torn' = torn \ scope
    /\ GoRead("hash")
    /\ UNCHANGED <<hashes, inProgress, needsFull, scope>> /\ Building

\* tracker.update reads the scope again; a store that cannot be saved is only logged.
HashScope ==
    \/ \E seen \in Between(base, disk) :
         hashes' = [f \in SourceFiles |-> IF f \in scope THEN seen[f] ELSE hashes[f]]
    \/ UNCHANGED hashes

UpdateHashes ==
    /\ worker = "hash"
    /\ HashScope
    /\ GoWrite("unmark")
    /\ UNCHANGED <<graph, torn, inProgress, needsFull, scope, parsed>> /\ Building

RemoveMarker ==
    /\ worker = "unmark"
    /\ inProgress' = FALSE
    /\ Return0
    /\ UNCHANGED <<graph, torn, hashes, needsFull, parsed>> /\ Building

\* An exception in the scoped rebuild: unmark, and rebuild everything.
BuildError ==
    /\ worker \in ScopedPcs
    /\ inProgress' = FALSE
    /\ GoFull
    /\ UNCHANGED <<graph, torn, hashes, needsFull>> /\ Building

\* Pass 1 over everything; then the tables are dropped.
ReparseAll ==
    /\ worker = "reparse"
    /\ parsed' \in Between(base, disk)
    /\ torn' = SourceFiles
    /\ needsFull' = TRUE
    /\ GoWrite("fill")
    /\ UNCHANGED <<graph, hashes, inProgress, scope>> /\ Building

WriteAll ==
    /\ worker = "fill"
    /\ graph' = parsed
    /\ torn' = {}
    /\ needsFull' = FALSE
    /\ GoRead("rehash")
    /\ UNCHANGED <<hashes, inProgress, scope>> /\ Building

InitHashes ==
    /\ worker = "rehash"
    /\ HashScope
    /\ Return0
    /\ UNCHANGED <<graph, torn, inProgress, needsFull, parsed>> /\ Building

\* The copy, the spawn or a full rebuild fails, or the builder is killed.  What it wrote so
\* far stays: the tables may be there again before they are filled.
GraphFails ==
    /\ worker \in BuilderPcs
    /\ graphOk' = FALSE
    /\ overlooked' = overlooked \cup Dropped(graph) \cup torn
    /\ needsFull' \in {needsFull, needsFull /\ worker # "fill"}
    /\ scope' = {} /\ parsed' = NoVersions
    /\ worker' = "report" /\ base' = NoVersions
    /\ UNCHANGED <<graph, torn, hashes, inProgress>> /\ Building

----------------------------------------------------------------------------
ReportError ==
    /\ worker = "report"
    /\ ~(vectorsOk /\ graphOk)
    /\ Return
    /\ UNCHANGED <<disk, eventVars, stopVars, reported, vectors, unembedded, graph, torn, hashes, inProgress,
                   needsFull, scope, parsed, overlooked>>

\* last_reindex is set and indexing_done is emitted.
ReportDone ==
    /\ worker = "report"
    /\ vectorsOk /\ graphOk
    /\ reported' = taken
    /\ Return
    /\ UNCHANGED <<disk, eventVars, stopVars, vectors, unembedded, graph, torn, hashes, inProgress, needsFull,
                   scope, parsed, overlooked>>

----------------------------------------------------------------------------
Observer == AddPending \/ SetActivity \/ \E f \in SourceFiles : TakeEvent(f)
Stop     == FlagStop \/ UnblockWorker \/ StopObserver \/ JoinWorker \/ JoinTimesOut
Debounce == LoopTop \/ Wake \/ ClearActivity \/ Rearm \/ WindowElapses \/ CheckStop \/ TakePending
Build    == DetectNeedsFull \/ DetectNothing \/ DetectChanged \/ RewriteScope \/ WriteScope \/ UpdateHashes
              \/ RemoveMarker \/ BuildError \/ ReparseAll \/ WriteAll \/ InitHashes \/ GraphFails
Reindex  == StartVectors \/ VectorsDone \/ VectorsFail \/ VectorsRaise \/ StartGraph \/ Build
              \/ ReportError \/ ReportDone

Next == Observer \/ Stop \/ Debounce \/ Reindex \/ \E f \in SourceFiles : ChangeFile(f)

Spec == Init /\ [][Next]_vars

\* The threads run on, a window elapses, a run ends, and a stop that was begun is
\* carried on.  Nothing makes a file change, a run fail or a stop begin.
WorkersRun ==
    /\ WF_vars(Observer)
    /\ WF_vars(Debounce \/ Reindex)
    /\ WF_vars(Stop /\ stopper # "none")

FairSpec == Spec /\ WorkersRun

----------------------------------------------------------------------------
(* properties *)

\* A change of the file is on its way to a reindex.
OnTheWay(f) == f \in events \cup hand \/ KindOf[f] \in pending

\* The hash store has a version that no build parsed: the file was edited after it was
\* parsed and before it was hashed.  No increment finds it changed until its next edit.
HashedUnread == {f \in SourceFiles : hashes[f] > graph[f]}

\* The builder, or a step before it, has not yet written what it reads.
Unwritten == {"start", "vectors", "begin", "detect", "rewrite", "write", "reparse", "fill"}

\* _schedule and _debounce_loop lose no wake-up: collected kinds always find the
\* event set, or about to be set, or the worker on its way to take them; and once
\* stop() has set the event a worker that waits finds it set, although it clears
\* the event in every window.
NoLostWakeup ==
    /\ pending # {} =>
        \/ activity
        \/ observer = "set"
        \/ worker \in {"clear", "window", "quiet", "take", "exited"}
    /\ stopper \in {"observer", "join", "returned"} /\ worker = "wait" => activity

\* A file that the graph holds an old version of is on its way to a reindex, or in one that
\* has not written it yet; or it was dropped: by a reindex that failed (which does not put
\* its kinds back), by a change while no watcher ran, or by a builder that hashed more than
\* it parsed.  A file is torn only in a build that has yet to write it, and after one that
\* failed.  The vectors drop a file only when they fail or no watcher ran.
ChangesAreCarried ==
    \A f \in SourceFiles :
        /\ graph[f] # disk[f] =>
             \/ OnTheWay(f)
             \/ f \in overlooked \cup HashedUnread
             \/ KindOf[f] \in kinds /\ worker \in Unwritten
        /\ f \in torn =>
             \/ f \in overlooked
             \/ f \in scope /\ worker \in Unwritten
        /\ VectorEnabled /\ vectors[f] # disk[f] =>
             \/ OnTheWay(f)
             \/ f \in unembedded
             \/ KindOf[f] \in kinds /\ worker \in {"start", "vectors"}

\* indexing_done tells the truth: both indexes hold at least what the sources were when
\* the reindex took its kinds, and go on doing so through later failures; the graph of
\* the files it has whole, and not of those that were hashed and never parsed.
ReportedIsIndexed ==
    /\ \A f \in SourceFiles \ (torn \cup HashedUnread) : reported[f] <= graph[f]
    /\ VectorEnabled => NoNewer(reported, vectors)

\* Every change gets into the graph, unless a reindex fails, the builder hashes the file
\* unread, or the watcher is stopped.
ChangesGetIndexed ==
    \A f \in SourceFiles :
        (graph[f] # disk[f] /\ f \notin overlooked)
            ~> (graph[f] = disk[f] /\ f \notin torn) \/ f \in overlooked \cup HashedUnread \/ stop

\* Every stop ends the worker.
StopEndsWorker == stop ~> worker = "exited"
============================================================================
