------------------------- MODULE WatchDaemonProofs -------------------------
(***************************************************************************)
(* Proofs about the watch daemon, for any set of processes and of inodes, and about  *)
(* the watcher inside it, for every set of languages and any number of changes.     *)
(* What is known of the lock is taken from ProjectLockProofs.                    *)
(***************************************************************************)
EXTENDS SourceWatcher, WatchDaemon, TLAPS

LockProofs == INSTANCE ProjectLockProofs

----------------------------------------------------------------------------
(* The watcher: no wake-up is lost, no change is forgotten, and indexing_done is true *)

(* the inductive invariant *)

\* The observer has an event in hand only until it has added its kind.
HandIsBeingAdded == hand # {} => observer = "add"

\* _stop is set exactly from the first step of stop() on.
StopFlagged == stop <=> stopper # "none"

\* Where base is the start of a walk.
Walking == {"vectors", "detect", "rewrite", "hash", "reparse", "rehash"}

\* Nothing holds more than the sources.
IndexesBehind ==
    /\ NoNewer(graph, disk) /\ NoNewer(vectors, disk) /\ NoNewer(hashes, disk)
    /\ NoNewer(taken, disk) /\ NoNewer(reported, disk)
    /\ NoNewer(base, disk) /\ NoNewer(parsed, disk)

\* A walk starts on no less than what was taken or reported, and so does what it parses.
WalksStartLate ==
    /\ worker \in Walking => NoNewer(taken, base) /\ NoNewer(reported, base)
    /\ worker \in {"write", "fill"} => NoNewer(taken, parsed) /\ NoNewer(reported, parsed)

\* What the builder skips is hashed as it was taken, and what it wrote is in the graph.
ScopeHoldsTaken ==
    /\ worker \in ScopedPcs => \A f \in SourceFiles \ scope : taken[f] <= hashes[f]
    /\ worker \in FullPcs => scope = SourceFiles
    /\ worker \in {"hash", "unmark", "rehash"} => \A f \in scope : taken[f] <= graph[f] /\ reported[f] <= graph[f]

\* A phase that went well holds what was taken.
PhasesHoldTaken ==
    /\ VectorEnabled /\ vectorsOk /\ worker \in {"begin", "report"} \cup BuilderPcs => NoNewer(taken, vectors)
    /\ graphOk /\ worker = "report" => \A f \in SourceFiles \ HashedUnread : taken[f] <= graph[f]

\* What changed since a walk started has an event.
BaseIsCarried ==
    worker \in Walking => \A f \in SourceFiles : base[f] # disk[f] => OnTheWay(f)

\* The scope is what differs, and what was parsed of it is current, but for what has an event.
ScopeIsCurrent ==
    /\ worker \in {"rewrite", "write"} => \A f \in SourceFiles \ scope : hashes[f] # disk[f] => OnTheWay(f)
    /\ worker \in {"write", "fill"} => \A f \in SourceFiles : parsed[f] # disk[f] => OnTheWay(f)
    /\ worker \in {"hash", "unmark", "rehash"} => \A f \in SourceFiles : graph[f] # disk[f] =>
           OnTheWay(f) \/ (f \notin scope /\ f \in HashedUnread)

\* Torn is what a failed build left, and what the running one has yet to write.
TornIsKnown ==
    torn \subseteq overlooked \cup (IF worker \in {"write", "reparse", "fill"} THEN scope ELSE {})

WakeInv    == HandIsBeingAdded /\ StopFlagged /\ NoLostWakeup
DataInv    == IndexesBehind /\ WalksStartLate /\ ScopeHoldsTaken /\ PhasesHoldTaken /\ ReportedIsIndexed
CarriedInv == BaseIsCarried /\ ScopeIsCurrent /\ TornIsKnown /\ ChangesAreCarried
IInv       == TypeOK /\ WakeInv /\ DataInv /\ CarriedInv

\* What a walk reads of each file is a version between the two.
LEMMA WalkReads ==
    ASSUME NEW old \in Sources, NEW new \in Sources, NEW v \in Between(old, new)
    PROVE  /\ v \in Sources /\ NoNewer(old, v) /\ NoNewer(v, new)
           /\ \A f \in SourceFiles : old[f] = new[f] => v[f] = new[f]
<1>1. v \in Sources /\ NoNewer(old, v) /\ NoNewer(v, new)
  BY DEF Between
<1>2. ASSUME NEW f \in SourceFiles, old[f] = new[f] PROVE v[f] = new[f]
  <2>1. v[f] \in Nat /\ old[f] \in Nat /\ new[f] \in Nat
    BY <1>1, MaxChangesAssumption DEF Sources
  <2>2. old[f] <= v[f] /\ v[f] <= new[f]
    BY <1>1 DEF NoNewer
  <2> QED BY <1>2, <2>1, <2>2
<1> QED BY <1>1, <1>2

LEMMA InitIInv == Init => IInv
<1> SUFFICES ASSUME Init PROVE IInv
  OBVIOUS
<1>1. NoVersions \in Sources /\ [SourceFiles -> 0..1] \subseteq Sources
  BY MaxChangesAssumption DEF Sources, NoVersions
<1>2. TypeOK
  BY <1>1 DEF Init, TypeOK, IndexesOK, KindsOK, FlagsOK, PcsOK, WorkerPcs
<1>3. WakeInv
  BY DEF Init, WakeInv, HandIsBeingAdded, StopFlagged, NoLostWakeup
<1>4. NoNewer(NoVersions, disk) /\ NoNewer(NoVersions, NoVersions)
  BY <1>2 DEF TypeOK, IndexesOK, Sources, NoNewer, NoVersions
<1>5. DataInv
  BY <1>4 DEF Init, DataInv, IndexesBehind, WalksStartLate, ScopeHoldsTaken, PhasesHoldTaken, ReportedIsIndexed,
              Walking, ScopedPcs, FullPcs, BuilderPcs, NoVersions
<1>6. \A f \in SourceFiles : NoVersions[f] # disk[f] => disk[f] = 1
  BY DEF Init, NoVersions
<1>7. CarriedInv
  BY <1>6 DEF Init, CarriedInv, BaseIsCarried, ScopeIsCurrent, TornIsKnown, ChangesAreCarried, Walking
<1> QED BY <1>2, <1>3, <1>5, <1>7 DEF IInv

----------------------------------------------------------------------------
(* no newer is a preorder *)

LEMMA NoNewerRefl ==
    ASSUME NEW v \in Sources
    PROVE  NoNewer(v, v)
BY DEF NoNewer, Sources

LEMMA NoNewerTrans ==
    ASSUME NEW u \in Sources, NEW v \in Sources, NEW w \in Sources, NoNewer(u, v), NoNewer(v, w)
    PROVE  NoNewer(u, w)
<1> SUFFICES ASSUME NEW f \in SourceFiles PROVE u[f] <= w[f]
  BY DEF NoNewer
<1>1. u[f] \in Nat /\ v[f] \in Nat /\ w[f] \in Nat
  BY MaxChangesAssumption DEF Sources
<1>2. u[f] <= v[f] /\ v[f] <= w[f]
  BY DEF NoNewer
<1> QED BY <1>1, <1>2

LEMMA NoneIsOldest ==
    ASSUME NEW v \in Sources
    PROVE  NoVersions \in Sources /\ NoNewer(NoVersions, v)
BY MaxChangesAssumption DEF NoNewer, Sources, NoVersions

\* A change leaves whatever was no newer than the sources no newer.
LEMMA ChangeGrows ==
    ASSUME TypeOK, NEW f \in SourceFiles, ChangeFile(f)
    PROVE  disk' \in Sources /\ NoNewer(disk, disk')
BY MaxChangesAssumption DEF TypeOK, IndexesOK, ChangeFile, NoNewer, Sources

----------------------------------------------------------------------------
(* types *)

\* What the builder's writes make of the graph and of the hash store are sources.
LEMMA ScopedIsSources ==
    ASSUME NEW new \in Sources, NEW old \in Sources
    PROVE  [f \in SourceFiles |-> IF f \in scope THEN new[f] ELSE old[f]] \in Sources
BY DEF Sources

LEMMA HashesStay ==
    ASSUME TypeOK, HashScope
    PROVE  /\ hashes' \in Sources
           /\ NoNewer(base, disk) /\ NoNewer(hashes, disk) => NoNewer(hashes', disk)
           /\ \A f \in SourceFiles \ scope : hashes'[f] = hashes[f]
<1>1. CASE UNCHANGED hashes
  BY <1>1 DEF TypeOK, IndexesOK
<1>2. ASSUME NEW seen \in Between(base, disk),
             hashes' = [f \in SourceFiles |-> IF f \in scope THEN seen[f] ELSE hashes[f]]
      PROVE  /\ hashes' \in Sources
             /\ NoNewer(hashes, disk) => NoNewer(hashes', disk)
             /\ \A f \in SourceFiles \ scope : hashes'[f] = hashes[f]
  <2>1. seen \in Sources /\ NoNewer(seen, disk)
    BY WalkReads DEF TypeOK, IndexesOK
  <2>2. hashes' \in Sources
    BY <1>2, <2>1, ScopedIsSources DEF TypeOK, IndexesOK
  <2> QED BY <1>2, <2>1, <2>2 DEF NoNewer
<1> QED BY <1>1, <1>2 DEF HashScope

LEMMA BuildTypes == TypeOK /\ Build => TypeOK'
<1> SUFFICES ASSUME TypeOK, Build PROVE TypeOK'
  OBVIOUS
<1> USE DEF TypeOK, Building, Return0, GoRead, GoWrite, GoFull, eventVars, stopVars, embedVars
<1>1. NoVersions \in Sources
  BY NoneIsOldest DEF IndexesOK
<1>2. IndexesOK'
  <2>1. CASE DetectNeedsFull \/ DetectNothing \/ DetectChanged
    BY <1>1, <2>1 DEF DetectNeedsFull, DetectNothing, DetectChanged, IndexesOK
  <2>2. CASE RewriteScope \/ ReparseAll
    BY <1>1, <2>2, WalkReads DEF RewriteScope, ReparseAll, IndexesOK
  <2>3. CASE WriteScope
    BY <1>1, <2>3, ScopedIsSources DEF WriteScope, IndexesOK
  <2>4. CASE UpdateHashes \/ InitHashes
    BY <1>1, <2>4, HashesStay DEF UpdateHashes, InitHashes, IndexesOK
  <2>5. CASE RemoveMarker \/ BuildError \/ WriteAll \/ GraphFails
    BY <1>1, <2>5 DEF RemoveMarker, BuildError, WriteAll, GraphFails, IndexesOK
  <2> QED BY <2>1, <2>2, <2>3, <2>4, <2>5 DEF Build
<1> USE DEF Build, DetectNeedsFull, DetectNothing, DetectChanged, RewriteScope, WriteScope, UpdateHashes,
         RemoveMarker, BuildError, ReparseAll, WriteAll, InitHashes, GraphFails
<1>3. KindsOK'
  BY DEF KindsOK, Dropped
<1>4. FlagsOK'
  BY DEF FlagsOK
<1>5. PcsOK'
  BY DEF PcsOK, WorkerPcs, ReindexPcs, BuilderPcs, ScopedPcs, FullPcs
<1> QED BY <1>2, <1>3, <1>4, <1>5

LEMMA ReindexTypes == TypeOK /\ Reindex => TypeOK'
<1> SUFFICES ASSUME TypeOK, Reindex, ~Build PROVE TypeOK'
  BY BuildTypes
<1> USE DEF TypeOK, Reindex, StartVectors, VectorsDone, VectorsFail, VectorsRaise, StartGraph, ReportError, ReportDone,
         EmbedSome, Return, eventVars, stopVars, buildVars, embedVars
<1>1. IndexesOK'
  BY NoneIsOldest, WalkReads DEF IndexesOK
<1>2. KindsOK'
  BY DEF KindsOK, Dropped
<1>3. FlagsOK'
  BY DEF FlagsOK
<1>4. PcsOK'
  BY DEF PcsOK, WorkerPcs, ReindexPcs, BuilderPcs
<1> QED BY <1>1, <1>2, <1>3, <1>4

LEMMA WatcherTypeStep == TypeOK /\ [Next]_vars => TypeOK'
<1> SUFFICES ASSUME TypeOK, [Next]_vars PROVE TypeOK'
  OBVIOUS
<1> USE DEF eventVars, stopVars, runVars, buildVars, embedVars
<1>1. CASE UNCHANGED vars
  BY <1>1 DEF vars, TypeOK, IndexesOK, KindsOK, FlagsOK, PcsOK
<1>2. CASE Observer
  <2> USE <1>2 DEF TypeOK, Observer, TakeEvent, AddPending, SetActivity
  <2>1. IndexesOK'
    BY DEF IndexesOK
  <2>2. KindsOK'
    BY KindOfAssumption DEF KindsOK, KindsOf
  <2>3. FlagsOK'
    BY DEF FlagsOK
  <2>4. PcsOK'
    BY DEF PcsOK
  <2> QED BY <2>1, <2>2, <2>3, <2>4
<1>3. CASE Stop
  <2> USE <1>3 DEF TypeOK, Stop, FlagStop, UnblockWorker, StopObserver, JoinWorker, JoinTimesOut
  <2>1. IndexesOK'
    BY DEF IndexesOK
  <2>2. KindsOK'
    BY DEF KindsOK
  <2>3. FlagsOK'
    BY DEF FlagsOK
  <2>4. PcsOK'
    BY DEF PcsOK
  <2> QED BY <2>1, <2>2, <2>3, <2>4
<1>4. CASE Debounce
  <2> USE <1>4 DEF TypeOK, Debounce, LoopTop, Wake, ClearActivity, Rearm, WindowElapses, CheckStop, TakePending, Goto
  <2>1. IndexesOK'
    BY DEF IndexesOK
  <2>2. KindsOK'
    BY DEF KindsOK
  <2>3. FlagsOK'
    BY DEF FlagsOK
  <2>4. PcsOK'
    BY DEF PcsOK, WorkerPcs, ReindexPcs
  <2> QED BY <2>1, <2>2, <2>3, <2>4
<1>5. CASE Reindex
  BY <1>5, ReindexTypes
<1>6. ASSUME NEW f \in SourceFiles, ChangeFile(f) PROVE TypeOK'
  BY <1>6, ChangeGrows DEF ChangeFile, TypeOK, IndexesOK, KindsOK, FlagsOK, PcsOK
<1> QED BY <1>1, <1>2, <1>3, <1>4, <1>5, <1>6 DEF Next

----------------------------------------------------------------------------
(* waking and stopping *)

\* A reindex leaves the threads' signals alone, and ends at the top of the worker's loop.
LEMMA ReindexLeavesSignals ==
    ASSUME Reindex
    PROVE  /\ UNCHANGED <<disk, eventVars, stopVars>>
           /\ worker \in ReindexPcs
           /\ worker' \in {"top"} \cup ReindexPcs
<1> USE DEF Reindex, ReindexPcs, BuilderPcs, ScopedPcs, FullPcs
<1>1. CASE Build
  BY <1>1 DEF Build, DetectNeedsFull, DetectNothing, DetectChanged, RewriteScope, WriteScope, UpdateHashes,
              RemoveMarker, BuildError, ReparseAll, WriteAll, InitHashes, GraphFails,
              Building, Return0, GoRead, GoWrite, GoFull
<1>2. CASE ~Build
  BY <1>2 DEF StartVectors, VectorsDone, VectorsFail, VectorsRaise, StartGraph, ReportError, ReportDone, Return
<1> QED BY <1>1, <1>2

LEMMA WakeStep == TypeOK /\ WakeInv /\ [Next]_vars => WakeInv'
<1> SUFFICES ASSUME TypeOK, WakeInv, [Next]_vars PROVE WakeInv'
  OBVIOUS
<1> USE DEF TypeOK, IndexesOK, KindsOK, FlagsOK, PcsOK, WakeInv, HandIsBeingAdded, StopFlagged, NoLostWakeup
<1>1. CASE UNCHANGED vars
  BY <1>1 DEF vars, eventVars, stopVars
<1>2. CASE Observer
  BY <1>2 DEF Observer, TakeEvent, AddPending, SetActivity, stopVars
<1>3. CASE Stop
  BY <1>3 DEF Stop, FlagStop, UnblockWorker, StopObserver, JoinWorker, JoinTimesOut, eventVars
<1>4. CASE Debounce
  <2>1. CASE LoopTop
    BY <2>1 DEF LoopTop, Goto, stopVars
  <2>2. CASE Wake \/ Rearm
    BY <2>2 DEF Wake, Rearm, Goto, stopVars
  <2>3. CASE ClearActivity \/ WindowElapses \/ CheckStop
    BY <2>3 DEF ClearActivity, WindowElapses, CheckStop, Goto, stopVars
  <2>4. CASE TakePending
    BY <2>4 DEF TakePending, stopVars
  <2> QED BY <1>4, <2>1, <2>2, <2>3, <2>4 DEF Debounce
<1>5. CASE Reindex
  BY <1>5, ReindexLeavesSignals DEF ReindexPcs, BuilderPcs, ScopedPcs, FullPcs, eventVars, stopVars
<1>6. ASSUME NEW f \in SourceFiles, ChangeFile(f) PROVE WakeInv'
  BY <1>6 DEF ChangeFile, stopVars
<1> QED BY <1>1, <1>2, <1>3, <1>4, <1>5, <1>6 DEF Next

----------------------------------------------------------------------------
(* what the indexes hold *)

\* The numbers that are compared below.
LEMMA VersionsAreNumbers ==
    ASSUME TypeOK
    PROVE  \A f \in SourceFiles :
             /\ disk[f] \in Nat /\ taken[f] \in Nat /\ base[f] \in Nat /\ reported[f] \in Nat
             /\ vectors[f] \in Nat /\ graph[f] \in Nat /\ hashes[f] \in Nat /\ parsed[f] \in Nat
BY MaxChangesAssumption DEF TypeOK, IndexesOK, Sources

\* Vectors that are filled or renewed by a walk of the reindex that runs.
LEMMA VectorsData == TypeOK /\ DataInv /\ (VectorsDone \/ VectorsFail \/ VectorsRaise) => DataInv'
<1> SUFFICES ASSUME TypeOK, DataInv, VectorsDone \/ VectorsFail \/ VectorsRaise PROVE DataInv'
  OBVIOUS
<1> USE DEF DataInv, IndexesBehind, WalksStartLate, ScopeHoldsTaken, PhasesHoldTaken, ReportedIsIndexed, HashedUnread,
         Walking, ScopedPcs, FullPcs, BuilderPcs, buildVars, embedVars
<1>0. NoVersions \in Sources /\ NoNewer(NoVersions, disk) /\ NoNewer(NoVersions, vectors)
  BY NoneIsOldest DEF TypeOK, IndexesOK
<1>1. CASE VectorsDone
  <2>1. vectors' \in Sources /\ NoNewer(base, vectors') /\ NoNewer(vectors', disk)
    BY <1>1, WalkReads DEF VectorsDone, TypeOK, IndexesOK
  <2>2. NoNewer(taken, vectors') /\ NoNewer(reported, vectors')
    BY <1>1, <2>1, NoNewerTrans DEF VectorsDone, TypeOK, IndexesOK
  <2> QED BY <1>0, <1>1, <2>1, <2>2 DEF VectorsDone, NoNewer, eventVars, stopVars
<1>2. CASE VectorsFail \/ VectorsRaise
  <2>1. vectors' \in Sources /\ NoNewer(vectors, vectors') /\ NoNewer(vectors', disk)
    BY <1>2, WalkReads DEF VectorsFail, VectorsRaise, EmbedSome, TypeOK, IndexesOK
  <2>2. VectorEnabled => NoNewer(reported, vectors')
    BY <2>1, NoNewerTrans DEF TypeOK, IndexesOK
  <2> QED BY <1>0, <1>2, <2>1, <2>2 DEF VectorsFail, VectorsRaise, Return, NoNewer, eventVars, stopVars
<1> QED BY <1>1, <1>2

\* A step of the builder: what it parses and hashes is no older than the walk's start.
LEMMA BuildData == TypeOK /\ DataInv /\ Build => DataInv'
<1> SUFFICES ASSUME TypeOK, DataInv, Build PROVE DataInv'
  OBVIOUS
<1>0. /\ NoVersions \in Sources
      /\ NoNewer(NoVersions, disk) /\ NoNewer(disk, disk)
      /\ TypeOK'
  BY NoneIsOldest, NoNewerRefl, BuildTypes DEF TypeOK, IndexesOK
<1> USE VersionsAreNumbers DEF DataInv, IndexesBehind, WalksStartLate, ScopeHoldsTaken, PhasesHoldTaken,
         ReportedIsIndexed, HashedUnread, Walking, ScopedPcs, FullPcs, BuilderPcs,
         Building, Return0, GoRead, GoWrite, GoFull, embedVars, eventVars, stopVars
<1>1. CASE DetectNeedsFull \/ BuildError
  BY <1>0, <1>1 DEF DetectNeedsFull, BuildError, NoNewer
<1>2. CASE DetectNothing
  <2>1. NoNewer(taken, hashes)
    BY <1>2, WalkReads, NoNewerTrans DEF DetectNothing, TypeOK, IndexesOK
  <2>2. ASSUME NEW f \in SourceFiles \ HashedUnread PROVE taken[f] <= graph[f]
    <3>1. taken[f] <= hashes[f] /\ ~(hashes[f] > graph[f])
      BY <2>1 DEF NoNewer
    <3> QED BY <3>1
  <2> QED BY <1>0, <1>2, <2>2 DEF DetectNothing, NoNewer
<1>3. CASE DetectChanged
  <2>1. PICK seen \in Between(base, disk), dependents \in SUBSET SourceFiles :
          IF inProgress
          THEN dependents = {} /\ GoFull
          ELSE GoRead("rewrite") /\ scope' = {f \in SourceFiles : seen[f] # hashes[f]} \cup dependents
    BY <1>3 DEF DetectChanged
  <2>2. NoNewer(taken, seen)
    BY <1>3, WalkReads, NoNewerTrans DEF DetectChanged, TypeOK, IndexesOK
  <2>3. worker' = "rewrite" => \A f \in SourceFiles \ scope' : taken[f] <= hashes[f]
    BY <2>1, <2>2 DEF NoNewer
  <2>4. \/ worker' = "reparse" /\ scope' = SourceFiles
        \/ worker' = "rewrite"
    BY <2>1
  <2>5. base' = disk /\ parsed' = NoVersions
    BY <2>1
  <2> QED BY <1>0, <1>3, <2>3, <2>4, <2>5 DEF DetectChanged, NoNewer
<1>4. CASE RewriteScope \/ ReparseAll
  <2>1. parsed' \in Sources /\ NoNewer(base, parsed') /\ NoNewer(parsed', disk)
    BY <1>4, WalkReads DEF RewriteScope, ReparseAll, TypeOK, IndexesOK
  <2>2. NoNewer(taken, parsed') /\ NoNewer(reported, parsed')
    BY <1>4, <2>1, NoNewerTrans DEF RewriteScope, ReparseAll, TypeOK, IndexesOK
  <2> QED BY <1>0, <1>4, <2>1, <2>2 DEF RewriteScope, ReparseAll, NoNewer
<1>5. CASE WriteScope \/ WriteAll
  <2>1. /\ \A f \in scope : graph'[f] = parsed[f]
        /\ \A f \in SourceFiles \ scope : graph'[f] = graph[f]
        /\ scope' = scope /\ scope \subseteq SourceFiles
    BY <1>5 DEF WriteScope, WriteAll, TypeOK, KindsOK
  <2>2. \A f \in scope : taken[f] <= graph'[f] /\ reported[f] <= graph'[f]
    BY <1>5, <2>1 DEF WriteScope, WriteAll, NoNewer
  <2>3. NoNewer(graph', disk)
    BY <2>1 DEF NoNewer
  <2>4. \A f \in SourceFiles \ (torn' \cup HashedUnread') : reported[f] <= graph'[f]
    BY <1>5, <2>1, <2>2 DEF WriteScope, WriteAll
  <2>5. /\ base' = disk /\ parsed' = NoVersions
        /\ UNCHANGED <<disk, vectors, hashes, taken, reported, vectorsOk, graphOk, scope>>
        /\ \/ worker = "write" /\ worker' = "hash"
           \/ worker = "fill" /\ worker' = "rehash"
    BY <1>5 DEF WriteScope, WriteAll
  <2> QED BY <1>0, <2>1, <2>2, <2>3, <2>4, <2>5 DEF NoNewer
<1>6. CASE UpdateHashes \/ InitHashes
  <2>1. /\ hashes' \in Sources /\ NoNewer(hashes', disk)
        /\ \A f \in SourceFiles \ scope : hashes'[f] = hashes[f]
    BY <1>6, HashesStay DEF UpdateHashes, InitHashes
  <2>2. \A f \in SourceFiles \ (torn \cup HashedUnread') : reported[f] <= graph[f]
    BY <1>6, <2>1 DEF UpdateHashes, InitHashes
  <2>3. CASE UpdateHashes
    BY <1>0, <2>1, <2>2, <2>3 DEF UpdateHashes, NoNewer
  <2>4. CASE InitHashes
    BY <1>0, <2>1, <2>2, <2>4 DEF InitHashes, NoNewer
  <2> QED BY <1>6, <2>3, <2>4
<1>7. CASE RemoveMarker
  <2>1. \A f \in SourceFiles \ HashedUnread : taken[f] <= graph[f]
    BY <1>7 DEF RemoveMarker
  <2> QED BY <1>0, <1>7, <2>1 DEF RemoveMarker, NoNewer
<1>8. CASE GraphFails
  BY <1>0, <1>8 DEF GraphFails, NoNewer
<1> QED BY <1>1, <1>2, <1>3, <1>4, <1>5, <1>6, <1>7, <1>8 DEF Build

LEMMA DataStep == TypeOK /\ DataInv /\ [Next]_vars => DataInv'
<1> SUFFICES ASSUME TypeOK, DataInv, [Next]_vars PROVE DataInv'
  OBVIOUS
<1> DEFINE Same == UNCHANGED <<disk, taken, base, reported, buildVars, embedVars>>
<1>1. ASSUME Same, worker' = worker \/ (worker \notin ReindexPcs /\ worker' \notin ReindexPcs) PROVE DataInv'
  BY <1>1 DEF buildVars, embedVars, DataInv, IndexesBehind, WalksStartLate, ScopeHoldsTaken, PhasesHoldTaken,
              ReportedIsIndexed, HashedUnread, NoNewer, Walking, ScopedPcs, FullPcs, BuilderPcs, ReindexPcs
<1>2. CASE UNCHANGED vars
  BY <1>1, <1>2 DEF vars, runVars
<1>3. CASE Observer
  BY <1>1, <1>3 DEF Observer, TakeEvent, AddPending, SetActivity, runVars
<1>4. CASE Stop
  BY <1>1, <1>4 DEF Stop, FlagStop, UnblockWorker, StopObserver, JoinWorker, JoinTimesOut, runVars
<1>5. CASE Debounce
  <2>1. CASE TakePending
    <3>1. NoNewer(disk, disk)
      BY NoNewerRefl DEF TypeOK, IndexesOK
    <3> QED BY <2>1, <3>1 DEF TakePending, buildVars, embedVars, DataInv, IndexesBehind, WalksStartLate, ScopeHoldsTaken,
              PhasesHoldTaken, ReportedIsIndexed, HashedUnread, NoNewer, Walking, ScopedPcs, FullPcs, BuilderPcs
  <2> QED BY <1>1, <1>5, <2>1 DEF Debounce, LoopTop, Wake, ClearActivity, Rearm, WindowElapses, CheckStop, Goto, runVars,
              ReindexPcs, BuilderPcs, ScopedPcs, FullPcs
<1>6. CASE Reindex
  <2> USE DEF DataInv, IndexesBehind, WalksStartLate, ScopeHoldsTaken, PhasesHoldTaken, ReportedIsIndexed, HashedUnread,
           Walking, ScopedPcs, FullPcs, BuilderPcs, buildVars, embedVars
  <2>1. CASE StartVectors \/ StartGraph
    BY <2>1, NoNewerRefl DEF StartVectors, StartGraph, TypeOK, IndexesOK
  <2>2. CASE ReportError
    BY <2>2, NoneIsOldest DEF ReportError, Return, TypeOK, IndexesOK
  <2>3. CASE ReportDone
    BY <2>3, NoneIsOldest DEF ReportDone, Return, TypeOK, IndexesOK
  <2> QED BY <1>6, <2>1, <2>2, <2>3, VectorsData, BuildData DEF Reindex
<1>7. ASSUME NEW f \in SourceFiles, ChangeFile(f) PROVE DataInv'
  <2>1. disk' \in Sources /\ NoNewer(disk, disk')
    BY <1>7, ChangeGrows
  <2>2. IndexesBehind'
    BY <1>7, <2>1, NoNewerTrans DEF ChangeFile, runVars, buildVars, embedVars, TypeOK, IndexesOK, DataInv, IndexesBehind
  <2> QED BY <1>7, <2>2 DEF ChangeFile, runVars, buildVars, embedVars, DataInv, WalksStartLate, ScopeHoldsTaken,
                            PhasesHoldTaken, ReportedIsIndexed, HashedUnread, NoNewer
<1> QED BY <1>2, <1>3, <1>4, <1>5, <1>6, <1>7 DEF Next

----------------------------------------------------------------------------
(* no change is forgotten *)

\* A change on its way stays on it while a reindex runs.
LEMMA StaysOnTheWay ==
    ASSUME TypeOK, WakeInv, Observer \/ Reindex \/ \E f \in SourceFiles : ChangeFile(f)
    PROVE  \A f \in SourceFiles : OnTheWay(f) => OnTheWay(f)'
<1> USE DEF OnTheWay, WakeInv, HandIsBeingAdded, eventVars
<1>1. CASE Observer
  <2>1. ASSUME NEW g \in SourceFiles, TakeEvent(g) PROVE \A f \in SourceFiles : OnTheWay(f) => OnTheWay(f)'
    BY <2>1 DEF TakeEvent
  <2>2. CASE AddPending \/ SetActivity
    BY <2>2 DEF AddPending, SetActivity, KindsOf
  <2> QED BY <1>1, <2>1, <2>2 DEF Observer
<1>2. CASE Reindex
  BY <1>2, ReindexLeavesSignals
<1>3. ASSUME NEW g \in SourceFiles, ChangeFile(g) PROVE \A f \in SourceFiles : OnTheWay(f) => OnTheWay(f)'
  BY <1>3 DEF ChangeFile
<1> QED BY <1>1, <1>2, <1>3

\* A step of the reindex before or after the builder's.
LEMMA PhasesCarry ==
    ASSUME TypeOK, WakeInv, DataInv, CarriedInv, Reindex, ~Build
    PROVE  CarriedInv'
<1>0. UNCHANGED <<disk, eventVars>> /\ \A f \in SourceFiles : OnTheWay(f)' = OnTheWay(f)
  BY ReindexLeavesSignals DEF OnTheWay, eventVars
<1> USE <1>0 DEF CarriedInv, BaseIsCarried, ScopeIsCurrent, TornIsKnown, ChangesAreCarried, HashedUnread, Unwritten,
         Walking, buildVars, embedVars
<1>1. CASE StartVectors \/ StartGraph
  BY <1>1 DEF StartVectors, StartGraph
<1>2. CASE VectorsDone
  <2>1. ASSUME NEW f \in SourceFiles, vectors'[f] # disk[f] PROVE OnTheWay(f)
    BY <1>2, <2>1, WalkReads DEF VectorsDone, TypeOK, IndexesOK
  <2> QED BY <1>2, <2>1 DEF VectorsDone
<1>3. CASE VectorsFail \/ VectorsRaise
  <2>1. ASSUME NEW f \in SourceFiles, vectors'[f] # disk[f] PROVE vectors[f] # disk[f]
    BY <1>3, <2>1, WalkReads DEF VectorsFail, VectorsRaise, EmbedSome, TypeOK, IndexesOK
  <2>2. CASE VectorsFail
    BY <2>1, <2>2 DEF VectorsFail, EmbedSome
  <2>3. CASE VectorsRaise
    BY <2>1, <2>3 DEF VectorsRaise, EmbedSome, Dropped, Return
  <2> QED BY <1>3, <2>2, <2>3
<1>4. CASE ReportError \/ ReportDone
  BY <1>4 DEF ReportError, ReportDone, Return
<1> QED BY <1>1, <1>2, <1>3, <1>4 DEF Reindex

\* A step of the builder: what it takes for current is, or has an event.
LEMMA BuildCarries ==
    ASSUME TypeOK, WakeInv, DataInv, CarriedInv, Build
    PROVE  CarriedInv'
<1>0. /\ UNCHANGED <<disk, eventVars, embedVars, kinds>>
      /\ \A f \in SourceFiles : OnTheWay(f)' = OnTheWay(f)
      /\ NoNewer(graph, disk) /\ scope \subseteq SourceFiles
  <2>1. Reindex
    BY DEF Reindex
  <2>2. UNCHANGED <<disk, eventVars>>
    BY <2>1, ReindexLeavesSignals
  <2>3. UNCHANGED <<embedVars, kinds>>
    BY DEF Build, DetectNeedsFull, DetectNothing, DetectChanged, RewriteScope, WriteScope, UpdateHashes,
           RemoveMarker, BuildError, ReparseAll, WriteAll, InitHashes, GraphFails, Building
  <2> QED BY <2>2, <2>3 DEF OnTheWay, eventVars, DataInv, IndexesBehind, TypeOK, KindsOK
<1> USE <1>0 DEF CarriedInv, BaseIsCarried, ScopeIsCurrent, TornIsKnown, ChangesAreCarried, Unwritten, Walking,
         embedVars, Return0, GoRead, GoWrite, GoFull
<1>1. CASE DetectNeedsFull \/ BuildError
  BY <1>1 DEF DetectNeedsFull, BuildError, HashedUnread, ScopedPcs, DataInv, ScopeHoldsTaken, FullPcs
<1>2. CASE DetectNothing
  <2>1. ASSUME NEW f \in SourceFiles, graph[f] # disk[f], ~OnTheWay(f) PROVE f \in HashedUnread
    <3>1. hashes[f] = disk[f]
      BY <1>2, <2>1, WalkReads DEF DetectNothing, TypeOK, IndexesOK
    <3>2. graph[f] <= disk[f] /\ graph[f] \in Nat /\ disk[f] \in Nat
      BY VersionsAreNumbers DEF NoNewer
    <3>3. hashes[f] > graph[f]
      BY <2>1, <3>1, <3>2
    <3> QED BY <3>3 DEF HashedUnread
  <2> QED BY <1>2, <2>1 DEF DetectNothing, HashedUnread
<1>3. CASE DetectChanged
  <2>1. PICK seen \in Between(base, disk), dependents \in SUBSET SourceFiles :
          IF inProgress
          THEN dependents = {} /\ GoFull
          ELSE GoRead("rewrite") /\ scope' = {f \in SourceFiles : seen[f] # hashes[f]} \cup dependents
    BY <1>3 DEF DetectChanged
  <2>2. ASSUME NEW f \in SourceFiles, base[f] = disk[f] PROVE seen[f] = disk[f]
    BY <2>2, WalkReads DEF TypeOK, IndexesOK
  <2>3. worker' = "rewrite" => \A f \in SourceFiles \ scope' : hashes[f] # disk[f] => OnTheWay(f)
    BY <1>3, <2>1, <2>2 DEF DetectChanged
  <2>4. \/ worker' = "reparse" /\ scope' = SourceFiles
        \/ worker' = "rewrite"
    BY <2>1
  <2>5. base' = disk /\ UNCHANGED <<graph, torn, hashes, overlooked>> /\ worker = "detect"
    BY <1>3, <2>1 DEF DetectChanged
  <2> QED BY <2>3, <2>4, <2>5 DEF HashedUnread
<1>4. CASE RewriteScope \/ ReparseAll
  <2>1. ASSUME NEW f \in SourceFiles, parsed'[f] # disk[f] PROVE OnTheWay(f)
    BY <1>4, <2>1, WalkReads DEF RewriteScope, ReparseAll, TypeOK, IndexesOK
  <2>2. worker = "reparse" => scope = SourceFiles
    BY DEF DataInv, ScopeHoldsTaken, FullPcs
  <2> QED BY <1>4, <2>1, <2>2 DEF RewriteScope, ReparseAll, HashedUnread
<1>5. CASE WriteScope \/ WriteAll
  <2>1. worker = "fill" => scope = SourceFiles
    BY DEF DataInv, ScopeHoldsTaken, FullPcs
  <2>2. /\ \A f \in scope : graph'[f] = parsed[f]
        /\ \A f \in SourceFiles \ scope : graph'[f] = graph[f]
        /\ torn' \subseteq overlooked
        /\ base' = disk /\ UNCHANGED <<hashes, scope, overlooked>>
        /\ \/ worker = "write" /\ worker' = "hash"
           \/ worker = "fill" /\ worker' = "rehash"
    BY <1>5, <2>1 DEF WriteScope, WriteAll
  <2>3. ASSUME NEW f \in SourceFiles \ scope, graph'[f] # disk[f], ~OnTheWay(f) PROVE f \in HashedUnread'
    <3>1. hashes[f] = disk[f] /\ graph'[f] = graph[f]
      BY <2>1, <2>2, <2>3
    <3>2. graph[f] <= disk[f] /\ graph[f] \in Nat /\ disk[f] \in Nat
      BY VersionsAreNumbers DEF NoNewer
    <3>3. hashes'[f] > graph'[f]
      BY <2>2, <2>3, <3>1, <3>2
    <3> QED BY <3>3 DEF HashedUnread
  <2>4. \A f \in SourceFiles : graph'[f] # disk[f] => OnTheWay(f) \/ (f \notin scope /\ f \in HashedUnread')
    BY <2>2, <2>3
  <2> QED BY <2>2, <2>4
<1>6. CASE UpdateHashes \/ InitHashes
  <2>1. \A f \in SourceFiles \ scope : hashes'[f] = hashes[f]
    BY <1>6, HashesStay DEF UpdateHashes, InitHashes
  <2>2. \A f \in SourceFiles : graph[f] # disk[f] => OnTheWay(f) \/ (f \notin scope /\ f \in HashedUnread')
    BY <1>6, <2>1 DEF UpdateHashes, InitHashes, HashedUnread
  <2>3. CASE UpdateHashes
    BY <2>2, <2>3 DEF UpdateHashes
  <2>4. CASE InitHashes
    BY <2>2, <2>4 DEF InitHashes
  <2> QED BY <1>6, <2>3, <2>4
<1>7. CASE RemoveMarker
  BY <1>7 DEF RemoveMarker, HashedUnread
<1>8. CASE GraphFails
  <2>1. /\ worker' = "report" /\ UNCHANGED <<graph, torn, hashes>>
        /\ worker \notin {"start", "vectors"}
        /\ overlooked \cup torn \subseteq overlooked'
        /\ \A f \in SourceFiles : KindOf[f] \in kinds /\ graph[f] # disk[f] => f \in overlooked'
    BY <1>8 DEF GraphFails, Dropped, BuilderPcs, ScopedPcs, FullPcs
  <2>2. TornIsKnown'
    BY <2>1 DEF TornIsKnown
  <2>3. \A f \in SourceFiles : f \in HashedUnread => f \in HashedUnread'
    BY <2>1 DEF HashedUnread
  <2> QED BY <2>1, <2>2, <2>3
<1> QED BY <1>1, <1>2, <1>3, <1>4, <1>5, <1>6, <1>7, <1>8 DEF Build

LEMMA CarriedStep == TypeOK /\ WakeInv /\ DataInv /\ CarriedInv /\ [Next]_vars => CarriedInv'
<1> SUFFICES ASSUME TypeOK, WakeInv, DataInv, CarriedInv, [Next]_vars PROVE CarriedInv'
  OBVIOUS
<1> USE DEF CarriedInv, BaseIsCarried, ScopeIsCurrent, TornIsKnown, ChangesAreCarried, HashedUnread, Unwritten, Walking
<1>1. ASSUME UNCHANGED <<disk, worker, runVars>>, \A f \in SourceFiles : OnTheWay(f) => OnTheWay(f)' PROVE CarriedInv'
  BY <1>1 DEF runVars, buildVars, embedVars
<1>2. CASE UNCHANGED vars
  BY <1>1, <1>2 DEF vars, eventVars, OnTheWay
<1>3. CASE Observer
  BY <1>1, <1>3, StaysOnTheWay DEF Observer, TakeEvent, AddPending, SetActivity
<1>4. CASE Stop
  BY <1>1, <1>4 DEF Stop, FlagStop, UnblockWorker, StopObserver, JoinWorker, JoinTimesOut, eventVars, OnTheWay
<1>5. CASE Debounce
  <2>1. CASE TakePending
    BY <2>1 DEF TakePending, OnTheWay, buildVars, embedVars
  <2> QED BY <1>5, <2>1 DEF Debounce, LoopTop, Wake, ClearActivity, Rearm, WindowElapses, CheckStop, Goto, OnTheWay,
                            runVars, buildVars, embedVars
<1>6. CASE Reindex
  BY <1>6, PhasesCarry, BuildCarries
<1>7. ASSUME NEW g \in SourceFiles, ChangeFile(g) PROVE CarriedInv'
  <2>1. \A f \in SourceFiles : disk'[f] # disk[f] => OnTheWay(f)'
    BY <1>7 DEF ChangeFile, OnTheWay, TypeOK, IndexesOK, Sources
  <2>2. \A f \in SourceFiles : OnTheWay(f) => OnTheWay(f)'
    BY <1>7, StaysOnTheWay
  <2> QED BY <1>7, <2>1, <2>2 DEF ChangeFile, runVars, buildVars, embedVars
<1> QED BY <1>2, <1>3, <1>4, <1>5, <1>6, <1>7 DEF Next

LEMMA WatcherInvariance == Spec => []IInv
<1>1. IInv /\ [Next]_vars => IInv'
  BY WatcherTypeStep, WakeStep, DataStep, CarriedStep DEF IInv
<1> QED BY <1>1, InitIInv, PTL DEF Spec

----------------------------------------------------------------------------
(* theorems *)

\* The types of the watcher's variables.
THEOREM WatcherTypeCorrect == Spec => []TypeOK
<1>1. IInv => TypeOK
  BY DEF IInv
<1> QED BY <1>1, WatcherInvariance, PTL

\* Collected kinds always find the worker awake or about to be woken, and a stop is heard.
THEOREM WakeupsKept == Spec => []NoLostWakeup
<1>1. IInv => NoLostWakeup
  BY DEF IInv, WakeInv
<1> QED BY <1>1, WatcherInvariance, PTL

\* What the graph or the vectors do not hold is on its way to a reindex, in one, or dropped:
\* by a failed one, while no watcher ran, or by a builder that hashed more than it parsed.
THEOREM ChangesCarried == Spec => []ChangesAreCarried
<1>1. IInv => ChangesAreCarried
  BY DEF IInv, CarriedInv
<1> QED BY <1>1, WatcherInvariance, PTL

\* What indexing_done was said of is in the vectors, and in the graph but for the files that
\* a failed build tore since, or the builder hashed and never parsed.
THEOREM ReportsAreTrue == Spec => []ReportedIsIndexed
<1>1. IInv => ReportedIsIndexed
  BY DEF IInv, DataInv
<1> QED BY <1>1, WatcherInvariance, PTL

----------------------------------------------------------------------------
(* The daemons *)

USE NoPidAssumption, NoInodeAssumption

\* A daemon uses the lock as ProjectLock describes it, and only so.
LEMMA LockSteps == VerbHasTarget /\ [DaemonNext]_daemonVars => [Lock!Next]_lockVars
<1> SUFFICES ASSUME VerbHasTarget, [DaemonNext]_daemonVars PROVE [Lock!Next]_lockVars
  OBVIOUS
<1>1. ASSUME NEW p \in Procs, Launch(p) \/ RunForeground(p) PROVE [Lock!Next]_lockVars
  BY <1>1 DEF Launch, RunForeground, AcquireLock, WarmModel, ModelFails, UnlinkStaleSocket, BindSocket, BindFails,
              StartWatcher, WatcherFails, WriteState, Lock!Next
<1>2. ASSUME NEW p \in Procs, Shutdown(p) PROVE [Lock!Next]_lockVars
  BY <1>2 DEF Shutdown, BeginShutdown, WatcherStopped, CloseServer, ReleaseLock, RemoveSocket, RemoveState, Exit, Lock!Next
<1>3. ASSUME NEW p \in Procs, Interrupt(p) \/ CrashDaemon(p) PROVE [Lock!Next]_lockVars
  BY <1>3 DEF Interrupt, CrashDaemon, Terminate, Kill, Lock!Next
<1>4. ASSUME NEW p \in Procs, BeginReindex(p) \/ RecordProgress(p) \/ EndReindex(p) PROVE [Lock!Next]_lockVars
  BY <1>4 DEF BeginReindex, RecordProgress, EndReindex
<1>5. CASE StopVerb
  BY <1>5 DEF StopVerb, StopReadsHolder, StopTerminates, StopPolled, StopKills, StopRemovesSocket, StopRemovesState,
              VerbHasTarget, Terminate, Kill, Lock!Next
<1>6. CASE UNCHANGED daemonVars
  BY <1>6 DEF daemonVars
<1> QED BY <1>1, <1>2, <1>3, <1>4, <1>5, <1>6 DEF DaemonNext

\* The two instances of the lock are one.
LEMMA SameLock ==
    /\ Lock!Init <=> LockProofs!Init
    /\ Lock!Next <=> LockProofs!Next
    /\ lockVars = LockProofs!lockVars
    /\ Lock!TypeOK <=> LockProofs!TypeOK
<1>1. Lock!Init <=> LockProofs!Init
  BY DEF Lock!Init, LockProofs!Init
<1>2. Lock!TypeOK <=> LockProofs!TypeOK
  BY DEF Lock!TypeOK, LockProofs!TypeOK, Lock!LockPcs, LockProofs!LockPcs, Lock!Opened, LockProofs!Opened
<1>3. Lock!Next <=> LockProofs!Next
  BY DEF Lock!Next, LockProofs!Next, Lock!Acquire, LockProofs!Acquire, Lock!Release, LockProofs!Release,
      Lock!Crash, LockProofs!Crash, Lock!Spawn, LockProofs!Spawn, Lock!Goto, LockProofs!Goto,
      Lock!OpenExisting, LockProofs!OpenExisting, Lock!OpenCreate, LockProofs!OpenCreate, Lock!TakeFlock, LockProofs!TakeFlock,
      Lock!FlockBusy, LockProofs!FlockBusy, Lock!TruncatePid, LockProofs!TruncatePid, Lock!RecordPid, LockProofs!RecordPid,
      Lock!CloseHandle, LockProofs!CloseHandle, Lock!ReadOwnPid, LockProofs!ReadOwnPid, Lock!UnlinkPid, LockProofs!UnlinkPid,
      Lock!FreeInodes, LockProofs!FreeInodes, Lock!HasLock, LockProofs!HasLock, Lock!ReadPid, LockProofs!ReadPid,
      Lock!Locked, LockProofs!Locked
<1> QED BY <1>1, <1>2, <1>3 DEF lockVars, LockProofs!lockVars

\* The lock of the daemons keeps the inductive invariant of ProjectLock.
LEMMA LockIInvInit == Lock!Init => LockProofs!IInv
BY SameLock, LockProofs!InitIInv

LEMMA LockIInvNext == LockProofs!IInv /\ [Lock!Next]_lockVars => LockProofs!IInv'
<1> SUFFICES ASSUME LockProofs!IInv, [Lock!Next]_lockVars PROVE LockProofs!IInv'
  OBVIOUS
<1>1. [LockProofs!Next]_(LockProofs!lockVars)
  BY SameLock DEF lockVars, LockProofs!lockVars
<1> QED BY <1>1, LockProofs!NextIInv

\* While the lock excludes, two processes that hold it are the same.
LEMMA OneHolder ==
    ASSUME LockProofs!IInv, ~orphaned, NEW p \in Procs, NEW q \in Procs, lockPc[p] = "held", lockPc[q] = "held"
    PROVE  p = q
<1>1. fh[p] = link /\ fh[q] = link
  BY DEF LockProofs!IInv, LockProofs!HandleMatchesPc, LockProofs!HandlesOnLink, LockProofs!Opened
<1> QED BY <1>1 DEF LockProofs!IInv, LockProofs!InodeExclusion, LockProofs!Locked

\* The history variable never turns back.
LEMMA OrphanedStays == Lock!TypeOK /\ [Lock!Next]_lockVars /\ ~orphaned' => ~orphaned
BY DEF Lock!TypeOK, lockVars, Lock!Next, Lock!Acquire, Lock!Release, Lock!Crash, Lock!Spawn, Lock!OpenExisting,
       Lock!OpenCreate, Lock!TakeFlock, Lock!FlockBusy, Lock!TruncatePid, Lock!RecordPid,
       Lock!CloseHandle, Lock!ReadOwnPid, Lock!UnlinkPid

\* What the lock's operations do to where the processes are in it.
LEMMA LockMoves ==
    ASSUME Lock!TypeOK, NEW p \in Procs, Lock!Acquire(p) \/ Lock!Release(p) \/ Lock!Crash(p)
    PROVE  \A q \in Procs : q # p => lockPc'[q] = lockPc[q]
BY DEF Lock!TypeOK, Lock!Acquire, Lock!Release, Lock!Crash, Lock!Goto, Lock!OpenExisting,
       Lock!OpenCreate, Lock!TakeFlock, Lock!FlockBusy, Lock!TruncatePid, Lock!RecordPid,
       Lock!CloseHandle, Lock!ReadOwnPid, Lock!UnlinkPid

\* The pid read_holder answers with is a process's.
LEMMA HolderType == Lock!TypeOK => Lock!ReadHolder \in Procs \cup {NoPid}
BY DEF Lock!TypeOK, Lock!ReadHolder, Lock!ReadPid

\* The verb kills only what it found.
LEMMA VerbStep ==
    ASSUME DaemonTypeOK, VerbHasTarget, [DaemonNext]_daemonVars
    PROVE  VerbHasTarget'
<1> USE DEF DaemonTypeOK, VerbHasTarget, VerbPcs, Move, Others, fileVars, verbVars, reindexVars
<1>1. ASSUME NEW p \in Procs, Launch(p) \/ RunForeground(p) PROVE VerbHasTarget'
  BY <1>1, HolderType DEF Launch, RunForeground, AcquireLock, WarmModel, ModelFails, UnlinkStaleSocket, BindSocket, BindFails,
         StartWatcher, WatcherFails, WriteState, Record
<1>2. ASSUME NEW p \in Procs, Shutdown(p) PROVE VerbHasTarget'
  BY <1>2, HolderType DEF Shutdown, BeginShutdown, WatcherStopped, CloseServer, ReleaseLock, RemoveSocket, RemoveState, Exit
<1>3. ASSUME NEW p \in Procs, BeginReindex(p) \/ RecordProgress(p) \/ EndReindex(p) PROVE VerbHasTarget'
  BY <1>3 DEF BeginReindex, RecordProgress, EndReindex, Record, Alive
<1>4. ASSUME NEW p \in Procs, Interrupt(p) \/ CrashDaemon(p) PROVE VerbHasTarget'
  BY <1>4, HolderType DEF Interrupt, CrashDaemon, Terminate, Kill, Alive, NoHandlers
<1>5. CASE StopVerb
  BY <1>5, HolderType DEF StopVerb, StopReadsHolder, StopTerminates, StopPolled, StopKills, StopRemovesSocket, StopRemovesState,
         Terminate, Kill, Alive, NoHandlers
<1>6. CASE UNCHANGED daemonVars
  BY <1>6 DEF daemonVars, lockVars
<1> QED BY <1>1, <1>2, <1>3, <1>4, <1>5, <1>6 DEF DaemonNext

\* Only a daemon that has bound owns the socket.
LEMMA SocketStep ==
    ASSUME DaemonTypeOK, VerbHasTarget, SocketOwner, [DaemonNext]_daemonVars
    PROVE  SocketOwner'
<1> USE DEF DaemonTypeOK, VerbHasTarget, SocketOwner, Listening, DaemonPcs, Starting, Move, Others, fileVars, verbVars, reindexVars
<1>1. ASSUME NEW p \in Procs, Launch(p) \/ RunForeground(p) PROVE SocketOwner'
  BY <1>1 DEF Launch, RunForeground, AcquireLock, WarmModel, ModelFails, UnlinkStaleSocket, BindSocket, BindFails,
         StartWatcher, WatcherFails, WriteState, Record
<1>2. ASSUME NEW p \in Procs, Shutdown(p) PROVE SocketOwner'
  BY <1>2 DEF Shutdown, BeginShutdown, WatcherStopped, CloseServer, ReleaseLock, RemoveSocket, RemoveState, Exit
<1>3. ASSUME NEW p \in Procs, BeginReindex(p) \/ RecordProgress(p) \/ EndReindex(p) PROVE SocketOwner'
  BY <1>3 DEF BeginReindex, RecordProgress, EndReindex, Record, Alive
<1>4. ASSUME NEW p \in Procs, Interrupt(p) \/ CrashDaemon(p) PROVE SocketOwner'
  BY <1>4 DEF Interrupt, CrashDaemon, Terminate, Kill, Alive, NoHandlers
<1>5. CASE StopVerb
  BY <1>5 DEF StopVerb, StopReadsHolder, StopTerminates, StopPolled, StopKills, StopRemovesSocket, StopRemovesState,
         Terminate, Kill, Alive, NoHandlers
<1>6. CASE UNCHANGED daemonVars
  BY <1>6 DEF daemonVars, lockVars
<1> QED BY <1>1, <1>2, <1>3, <1>4, <1>5, <1>6 DEF DaemonNext

\* A reindex is its daemon's until watcher.stop gave up on it.
LEMMA LateStep ==
    ASSUME DaemonTypeOK, VerbHasTarget, LateReindex, [DaemonNext]_daemonVars
    PROVE  LateReindex'
<1> USE DEF DaemonTypeOK, VerbHasTarget, LateReindex, Watching, Listening, Starting, Move, Others, fileVars, verbVars, reindexVars
<1>1. ASSUME NEW p \in Procs, Launch(p) \/ RunForeground(p) PROVE LateReindex'
  BY <1>1 DEF Launch, RunForeground, AcquireLock, WarmModel, ModelFails, UnlinkStaleSocket, BindSocket, BindFails,
         StartWatcher, WatcherFails, WriteState, Record
<1>2. ASSUME NEW p \in Procs, Shutdown(p) PROVE LateReindex'
  BY <1>2 DEF Shutdown, BeginShutdown, WatcherStopped, CloseServer, ReleaseLock, RemoveSocket, RemoveState, Exit
<1>3. ASSUME NEW p \in Procs, BeginReindex(p) \/ RecordProgress(p) \/ EndReindex(p) PROVE LateReindex'
  BY <1>3 DEF BeginReindex, RecordProgress, EndReindex, Record, Alive
<1>4. ASSUME NEW p \in Procs, Interrupt(p) \/ CrashDaemon(p) PROVE LateReindex'
  BY <1>4 DEF Interrupt, CrashDaemon, Terminate, Kill, Alive, NoHandlers
<1>5. CASE StopVerb
  BY <1>5 DEF StopVerb, StopReadsHolder, StopTerminates, StopPolled, StopKills, StopRemovesSocket, StopRemovesState,
         Terminate, Kill, Alive, NoHandlers
<1>6. CASE UNCHANGED daemonVars
  BY <1>6 DEF daemonVars, lockVars
<1> QED BY <1>1, <1>2, <1>3, <1>4, <1>5, <1>6 DEF DaemonNext

\* Only a daemon that wrote its state owns the state file, its late reindex, or one without a model.
LEMMA StateStep ==
    ASSUME DaemonTypeOK, VerbHasTarget, LateReindex, StateOwner, [DaemonNext]_daemonVars
    PROVE  StateOwner'
<1> USE DEF DaemonTypeOK, VerbHasTarget, LateReindex, StateOwner, Watching, Listening, Starting, Move, Others, fileVars, verbVars, reindexVars
<1>1. ASSUME NEW p \in Procs, Launch(p) \/ RunForeground(p) PROVE StateOwner'
  BY <1>1 DEF Launch, RunForeground, AcquireLock, WarmModel, ModelFails, UnlinkStaleSocket, BindSocket, BindFails,
         StartWatcher, WatcherFails, WriteState, Record
<1>2. ASSUME NEW p \in Procs, Shutdown(p) PROVE StateOwner'
  BY <1>2 DEF Shutdown, BeginShutdown, WatcherStopped, CloseServer, ReleaseLock, RemoveSocket, RemoveState, Exit
<1>3. ASSUME NEW p \in Procs, BeginReindex(p) \/ RecordProgress(p) \/ EndReindex(p) PROVE StateOwner'
  BY <1>3 DEF BeginReindex, RecordProgress, EndReindex, Record, Alive
<1>4. ASSUME NEW p \in Procs, Interrupt(p) \/ CrashDaemon(p) PROVE StateOwner'
  BY <1>4 DEF Interrupt, CrashDaemon, Terminate, Kill, Alive, NoHandlers
<1>5. CASE StopVerb
  BY <1>5 DEF StopVerb, StopReadsHolder, StopTerminates, StopPolled, StopKills, StopRemovesSocket, StopRemovesState,
         Terminate, Kill, Alive, NoHandlers
<1>6. CASE UNCHANGED daemonVars
  BY <1>6 DEF daemonVars, lockVars
<1> QED BY <1>1, <1>2, <1>3, <1>4, <1>5, <1>6 DEF DaemonNext

\* A daemon keeps the lock from acquire to release.
LEMMA HoldingStep ==
    ASSUME DaemonTypeOK, VerbHasTarget, HoldingIsHeld, [DaemonNext]_daemonVars
    PROVE  HoldingIsHeld'
<1> USE DEF DaemonTypeOK, VerbHasTarget, HoldingIsHeld, Holding, lockVars, Move, Others, fileVars, verbVars, reindexVars
<1>1. ASSUME NEW p \in Procs, Launch(p) \/ RunForeground(p) PROVE HoldingIsHeld'
  BY <1>1, LockMoves DEF Launch, RunForeground, AcquireLock, WarmModel, ModelFails, UnlinkStaleSocket, BindSocket, BindFails,
         StartWatcher, WatcherFails, WriteState, Record
<1>2. ASSUME NEW p \in Procs, Shutdown(p) PROVE HoldingIsHeld'
  BY <1>2, LockMoves DEF Shutdown, BeginShutdown, WatcherStopped, CloseServer, ReleaseLock, RemoveSocket, RemoveState, Exit
<1>3. ASSUME NEW p \in Procs, BeginReindex(p) \/ RecordProgress(p) \/ EndReindex(p) PROVE HoldingIsHeld'
  BY <1>3 DEF BeginReindex, RecordProgress, EndReindex, Record, Alive
<1>4. ASSUME NEW p \in Procs, Interrupt(p) \/ CrashDaemon(p) PROVE HoldingIsHeld'
  BY <1>4, LockMoves DEF Interrupt, CrashDaemon, Terminate, Kill, Alive, NoHandlers
<1>5. CASE StopVerb
  BY <1>5, LockMoves DEF StopVerb, StopReadsHolder, StopTerminates, StopPolled, StopKills, StopRemovesSocket, StopRemovesState,
         Terminate, Kill, Alive, NoHandlers
<1>6. CASE UNCHANGED daemonVars
  BY <1>6 DEF daemonVars, lockVars
<1> QED BY <1>1, <1>2, <1>3, <1>4, <1>5, <1>6 DEF DaemonNext

\* Every step keeps the types.
LEMMA TypeStep ==
    ASSUME DaemonTypeOK, VerbHasTarget, Lock!TypeOK', [DaemonNext]_daemonVars
    PROVE  DaemonTypeOK'
<1> USE DEF DaemonTypeOK, VerbHasTarget, DaemonPcs, Starting, Listening, VerbPcs, Move, Others, fileVars, verbVars, reindexVars
<1>1. ASSUME NEW p \in Procs, Launch(p) \/ RunForeground(p) PROVE DaemonTypeOK'
  BY <1>1, HolderType DEF Launch, RunForeground, AcquireLock, WarmModel, ModelFails, UnlinkStaleSocket, BindSocket, BindFails,
         StartWatcher, WatcherFails, WriteState, Record
<1>2. ASSUME NEW p \in Procs, Shutdown(p) PROVE DaemonTypeOK'
  BY <1>2, HolderType DEF Shutdown, BeginShutdown, WatcherStopped, CloseServer, ReleaseLock, RemoveSocket, RemoveState, Exit
<1>3. ASSUME NEW p \in Procs, BeginReindex(p) \/ RecordProgress(p) \/ EndReindex(p) PROVE DaemonTypeOK'
  BY <1>3 DEF BeginReindex, RecordProgress, EndReindex, Record, Alive
<1>4. ASSUME NEW p \in Procs, Interrupt(p) \/ CrashDaemon(p) PROVE DaemonTypeOK'
  BY <1>4, HolderType DEF Interrupt, CrashDaemon, Terminate, Kill, Alive, NoHandlers
<1>5. CASE StopVerb
  BY <1>5, HolderType DEF StopVerb, StopReadsHolder, StopTerminates, StopPolled, StopKills, StopRemovesSocket, StopRemovesState,
         Terminate, Kill, Alive, NoHandlers
<1>6. CASE UNCHANGED daemonVars
  BY <1>6 DEF daemonVars, lockVars
<1> QED BY <1>1, <1>2, <1>3, <1>4, <1>5, <1>6 DEF DaemonNext

\* Nobody binds the socket of a daemon that holds the lock and is about to bind its own.
LEMMA BindStep ==
    ASSUME DaemonTypeOK, VerbHasTarget, HoldingIsHeld, LockProofs!IInv, BindFindsPathFree, ~orphaned' => ~orphaned, [DaemonNext]_daemonVars
    PROVE  BindFindsPathFree'
<1> USE DEF DaemonTypeOK, VerbHasTarget, HoldingIsHeld, Holding, BindFindsPathFree, Move, Others, fileVars, verbVars, reindexVars
<1>1. ASSUME NEW p \in Procs, Launch(p) \/ RunForeground(p) PROVE BindFindsPathFree'
  BY <1>1, OneHolder DEF Launch, RunForeground, AcquireLock, WarmModel, ModelFails, UnlinkStaleSocket, BindSocket, BindFails,
         StartWatcher, WatcherFails, WriteState, Record
<1>2. ASSUME NEW p \in Procs, Shutdown(p) PROVE BindFindsPathFree'
  BY <1>2, OneHolder DEF Shutdown, BeginShutdown, WatcherStopped, CloseServer, ReleaseLock, RemoveSocket, RemoveState, Exit
<1>3. ASSUME NEW p \in Procs, BeginReindex(p) \/ RecordProgress(p) \/ EndReindex(p) PROVE BindFindsPathFree'
  BY <1>3 DEF BeginReindex, RecordProgress, EndReindex, Record, Alive
<1>4. ASSUME NEW p \in Procs, Interrupt(p) \/ CrashDaemon(p) PROVE BindFindsPathFree'
  BY <1>4, OneHolder DEF Interrupt, CrashDaemon, Terminate, Kill, Alive, NoHandlers
<1>5. CASE StopVerb
  BY <1>5, OneHolder DEF StopVerb, StopReadsHolder, StopTerminates, StopPolled, StopKills, StopRemovesSocket, StopRemovesState,
         Terminate, Kill, Alive, NoHandlers
<1>6. CASE UNCHANGED daemonVars
  BY <1>6 DEF daemonVars, lockVars
<1> QED BY <1>1, <1>2, <1>3, <1>4, <1>5, <1>6 DEF DaemonNext

----------------------------------------------------------------------------
\* Initially nothing runs and there are no files.
LEMMA InitDaemonInv == DaemonInit => DaemonInv /\ LockProofs!IInv
<1> SUFFICES ASSUME DaemonInit PROVE DaemonInv /\ LockProofs!IInv
  OBVIOUS
<1>1. LockProofs!IInv
  BY LockIInvInit DEF DaemonInit
<1>2. Lock!TypeOK
  BY <1>1, SameLock DEF LockProofs!IInv
<1>3. DaemonTypeOK /\ VerbHasTarget
  BY <1>2 DEF DaemonInit, DaemonTypeOK, VerbHasTarget, DaemonPcs, Starting, Listening, VerbPcs
<1>4. HoldingIsHeld /\ SocketOwner /\ LateReindex /\ StateOwner /\ BindFindsPathFree
  BY DEF DaemonInit, HoldingIsHeld, Holding, SocketOwner, LateReindex, StateOwner, BindFindsPathFree
<1> QED BY <1>1, <1>3, <1>4 DEF DaemonInv

\* Every step of a daemon, a reindex, a signal or the verb keeps the invariant.
LEMMA NextDaemonInv == DaemonInv /\ LockProofs!IInv /\ [DaemonNext]_daemonVars => DaemonInv' /\ LockProofs!IInv'
<1> SUFFICES ASSUME DaemonInv, LockProofs!IInv, [DaemonNext]_daemonVars PROVE DaemonInv' /\ LockProofs!IInv'
  OBVIOUS
<1> USE DEF DaemonInv
<1>1. [Lock!Next]_lockVars
  BY LockSteps
<1>2. LockProofs!IInv'
  BY <1>1, LockIInvNext
<1>3. LockProofs!TypeOK'
  BY <1>2 DEF LockProofs!IInv
<1>4. Lock!TypeOK'
  BY <1>3 DEF Lock!TypeOK, LockProofs!TypeOK, Lock!LockPcs, LockProofs!LockPcs, Lock!Opened, LockProofs!Opened
<1>5. ~orphaned' => ~orphaned
  BY <1>1, OrphanedStays DEF DaemonTypeOK
<1>6. DaemonTypeOK' /\ VerbHasTarget'
  BY <1>4, TypeStep, VerbStep
<1>7. HoldingIsHeld' /\ SocketOwner' /\ LateReindex' /\ StateOwner'
  BY HoldingStep, SocketStep, LateStep, StateStep
<1>8. BindFindsPathFree'
  BY <1>5, BindStep
<1> QED BY <1>2, <1>6, <1>7, <1>8

\* The invariant of the daemons and the one of their lock hold together.
THEOREM DaemonInvariance == DaemonSpec => [](DaemonInv /\ LockProofs!IInv)
BY InitDaemonInv, NextDaemonInv, PTL DEF DaemonSpec

\* The variables of daemon.py's processes, files and verb keep their types.
THEOREM TypeCorrect == DaemonSpec => []DaemonTypeOK
<1>1. DaemonInv => DaemonTypeOK
  BY DEF DaemonInv
<1> QED BY <1>1, DaemonInvariance, PTL

\* The daemons use the lock as ProjectLock specifies it: every behaviour of
\* run_foreground, _shutdown, signals and --stop is a behaviour of the lock.
THEOREM DaemonsUseLock == DaemonSpec => Lock!Spec
<1>1. DaemonInit => Lock!Init
  BY DEF DaemonInit
<1>2. DaemonInv /\ [DaemonNext]_daemonVars => [Lock!Next]_lockVars
  BY LockSteps DEF DaemonInv
<1>3. lockVars = Lock!lockVars
  BY DEF lockVars, Lock!lockVars
<1>4. DaemonInv /\ [DaemonNext]_daemonVars => [Lock!Next]_(Lock!lockVars)
  BY <1>2, <1>3 DEF lockVars, Lock!lockVars
<1> QED BY <1>1, <1>4, DaemonInvariance, PTL DEF DaemonSpec, Lock!Spec

\* The socket run_foreground unlinks before it binds is of no daemon that could
\* still accept on it, as long as the lock excludes.
THEOREM ClearsOnlyCorpses == DaemonSpec => []StaleIsCorpse
<1>1. DaemonInv /\ LockProofs!IInv => StaleIsCorpse
  <2> SUFFICES ASSUME DaemonInv, LockProofs!IInv, ~orphaned, NEW p \in Procs,
                      daemon[p] = "unlinkstale", socketFile # NoPid, daemon[socketFile] \in Listening
               PROVE  FALSE
    BY DEF StaleIsCorpse
  <2>1. socketFile \in Procs
    BY DEF DaemonInv, DaemonTypeOK
  <2>2. lockPc[p] = "held" /\ lockPc[socketFile] = "held"
    BY <2>1 DEF DaemonInv, HoldingIsHeld, Holding, Listening
  <2>3. socketFile = p
    BY <2>1, <2>2, OneHolder
  <2> QED BY <2>3 DEF Listening
<1> QED BY <1>1, DaemonInvariance, PTL

\* A daemon that comes to bind finds no file at its socket path, as long as the
\* lock excludes: neither a corpse's nor another daemon's.
THEOREM BindsFreePath == DaemonSpec => []BindFindsPathFree
<1>1. DaemonInv => BindFindsPathFree
  BY DEF DaemonInv
<1> QED BY <1>1, DaemonInvariance, PTL

\* A start clears only corpses, and binds a free path.
THEOREM StartsAlone == DaemonSpec => []StartMeetsNoDaemon
  BY ClearsOnlyCorpses, BindsFreePath, PTL DEF StartMeetsNoDaemon

\* A daemon that took one of its own exits leaves no socket behind, and a state
\* file only when its reindex outlived watcher.stop or its model did not load.
THEOREM ExitIsClean == DaemonSpec => []ExitLeavesNothing
<1>1. DaemonInv => ExitLeavesNothing
  BY DEF DaemonInv, SocketOwner, StateOwner, ExitLeavesNothing, Listening
<1> QED BY <1>1, DaemonInvariance, PTL
============================================================================
