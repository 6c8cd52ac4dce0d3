----------------------- MODULE IncrementalBuildProofs -----------------------
(***************************************************************************)
(* Proofs about IncrementalBuild, for any set of files and of contents.     *)
(***************************************************************************)
EXTENDS IncrementalBuild, TLAPS

USE VersionsAssumption, AbsentAssumption, ExpansionCapAssumption

Rebuilding == {"scope", "parse", "write", "calls", "hash"}
Recorded   == {"meta", "unmark"}

\* A run reports its outcome by ending.
RunningHasNoOutcome == pc # "idle" => outcome = "none"

\* Without a database there are no nodes of any file.
NoDbNoGraph == meta = "nodb" => graph = NoFiles

\* A full rebuild owns the history flag, and has written what it parsed.
FullRebuild ==
    /\ pc \in FullPcs => abandoned
    /\ pc \in FullPcs \ {"fullparse"} => \A f \in Files \ edited : snap[f] = disk[f]
    /\ pc \in {"schema", "fill", "fullwrite", "fullmeta", "fullhash"} => meta # "nodb"
    /\ pc \in {"fullmeta", "fullhash"} => graph = snap /\ callsWhole
    /\ pc = "fullhash" => meta = "current"

\* A scoped rebuild runs under the marker over a database that has its tables.
ScopedIsMarked == pc \in ScopedPcs => marker /\ meta \in {"norow", "current"}

\* What a scoped rebuild knows of the sources and of its own progress.
ScopedRebuild ==
    /\ pc \in Rebuilding =>
         /\ removed \subseteq scope
         /\ \A f \in removed \ edited : disk[f] = Absent
         /\ \A f \in Files \ (edited \cup removed) : disk[f] = Absent => hashes[f] = Absent
         /\ ~abandoned => \A f \in Files \ (mishashed \cup scope) : Synced(f)
         /\ ~abandoned => \A f \in Files \ scope : graph[f] # Torn
    /\ pc \in {"write", "calls", "hash"} => \A f \in scope \ edited : snap[f] = disk[f]
    /\ pc \in {"calls", "hash"} => \A f \in scope : graph[f] = snap[f]
    /\ pc \in {"hash"} \cup Recorded => callsWhole
    /\ pc = "unmark" => meta = "current"
    /\ pc \in Recorded /\ ~abandoned => \A f \in Files \ mishashed : Synced(f)
    /\ pc \in Recorded /\ ~abandoned => \A f \in Files : graph[f] # Torn

\* Files edited under the builder's hands may be stale when no marker guards the
\* graph, but they are not torn.
UnmarkedIsNotTorn ==
    pc = "idle" /\ ~marker /\ ~abandoned => \A f \in Files : graph[f] # Torn

\* An erase finds the graph as the last run left it, and removes it or not.
EraseFindsSynced ==
    pc = "erase" /\ ~marker /\ ~abandoned =>
        /\ \A f \in Files : graph[f] # Torn
        /\ meta # "nodb" => callsWhole /\ \A f \in Files \ mishashed : Synced(f)

\* The inductive invariant.
IInv ==
    /\ TypeOK
    /\ RunningHasNoOutcome
    /\ NoDbNoGraph
    /\ FullRebuild
    /\ ScopedIsMarked
    /\ ScopedRebuild
    /\ UnmarkedIsNotTorn
    /\ EraseFindsSynced
    /\ UnmarkedIsSynced
    /\ SuccessIsWhole

----------------------------------------------------------------------------
\* Before the first run there is no database and no store.
LEMMA InitIInv == Init => IInv
BY DEF Init, IInv, TypeOK, Contents, NoFiles, ScopedPcs, FullPcs, Rebuilding, Recorded,
       RunningHasNoOutcome, NoDbNoGraph, FullRebuild, ScopedIsMarked, ScopedRebuild,
       UnmarkedIsNotTorn, EraseFindsSynced, UnmarkedIsSynced, SuccessIsWhole

\* Every edit of a source file keeps the invariant: it is recorded in edited while a
\* builder runs.
LEMMA StepEdit == ASSUME IInv, NEW f \in Files, NEW v \in Contents, Edit(f, v) PROVE IInv'
<1> USE DEF IInv, TypeOK, Contents, NoFiles, ScopedPcs, FullPcs, Rebuilding, Recorded, Synced, durable, memory, history,
            Edit
<1>1. TypeOK'
  OBVIOUS
<1>2. RunningHasNoOutcome' /\ NoDbNoGraph'
  BY DEF RunningHasNoOutcome, NoDbNoGraph, FullRebuild, ScopedIsMarked
<1>3. FullRebuild'
  BY DEF FullRebuild
<1>4. ScopedIsMarked'
  BY DEF ScopedIsMarked
<1>5. ScopedRebuild'
  BY DEF ScopedRebuild, ScopedIsMarked, UnmarkedIsNotTorn, UnmarkedIsSynced
<1>6. UnmarkedIsNotTorn' /\ EraseFindsSynced' /\ UnmarkedIsSynced' /\ SuccessIsWhole'
  BY DEF UnmarkedIsNotTorn, EraseFindsSynced, UnmarkedIsSynced, SuccessIsWhole, RunningHasNoOutcome,
         FullRebuild, ScopedIsMarked, ScopedRebuild, NoDbNoGraph
<1> QED BY <1>1, <1>2, <1>3, <1>4, <1>5, <1>6

\* A kill keeps the invariant: the marker, or the history flag, survives it.
LEMMA StepCrash == ASSUME IInv, Crash PROVE IInv'
<1> USE DEF IInv, TypeOK, Contents, NoFiles, ScopedPcs, FullPcs, Rebuilding, Recorded, Synced, durable, memory, history,
            Crash, Forget
<1>1. TypeOK'
  OBVIOUS
<1>2. RunningHasNoOutcome' /\ NoDbNoGraph'
  BY DEF RunningHasNoOutcome, NoDbNoGraph, FullRebuild, ScopedIsMarked
<1>3. FullRebuild'
  BY DEF FullRebuild
<1>4. ScopedIsMarked'
  BY DEF ScopedIsMarked
<1>5. ScopedRebuild'
  BY DEF ScopedRebuild, ScopedIsMarked, UnmarkedIsNotTorn, UnmarkedIsSynced
<1>6. UnmarkedIsNotTorn' /\ EraseFindsSynced' /\ UnmarkedIsSynced' /\ SuccessIsWhole'
  BY DEF UnmarkedIsNotTorn, EraseFindsSynced, UnmarkedIsSynced, SuccessIsWhole, RunningHasNoOutcome,
         FullRebuild, ScopedIsMarked, ScopedRebuild, NoDbNoGraph
<1> QED BY <1>1, <1>2, <1>3, <1>4, <1>5, <1>6

\* A new release keeps the invariant.
LEMMA StepUpgrade == ASSUME IInv, Upgrade PROVE IInv'
<1> USE DEF IInv, TypeOK, Contents, NoFiles, ScopedPcs, FullPcs, Rebuilding, Recorded, Synced, durable, memory, history,
            Upgrade
<1>1. TypeOK'
  OBVIOUS
<1>2. RunningHasNoOutcome' /\ NoDbNoGraph'
  BY DEF RunningHasNoOutcome, NoDbNoGraph, FullRebuild, ScopedIsMarked
<1>3. FullRebuild'
  BY DEF FullRebuild
<1>4. ScopedIsMarked'
  BY DEF ScopedIsMarked
<1>5. ScopedRebuild'
  BY DEF ScopedRebuild, ScopedIsMarked, UnmarkedIsNotTorn, UnmarkedIsSynced
<1>6. UnmarkedIsNotTorn' /\ EraseFindsSynced' /\ UnmarkedIsSynced' /\ SuccessIsWhole'
  BY DEF UnmarkedIsNotTorn, EraseFindsSynced, UnmarkedIsSynced, SuccessIsWhole, RunningHasNoOutcome,
         FullRebuild, ScopedIsMarked, ScopedRebuild, NoDbNoGraph
<1> QED BY <1>1, <1>2, <1>3, <1>4, <1>5, <1>6

\* Every way into a full rebuild keeps the invariant.
LEMMA StepBegin == ASSUME IInv, IncrementNeedsFull \/ IncrementAfterCrash \/ ExceedCap \/ BuildError \/ StartFull PROVE IInv'
<1> USE DEF IInv, TypeOK, Contents, NoFiles, ScopedPcs, FullPcs, Rebuilding, Recorded, Synced, durable, memory, history,
            IncrementNeedsFull, IncrementAfterCrash, ExceedCap, BuildError, StartFull, BeginFull
<1>1. TypeOK'
  OBVIOUS
<1>2. RunningHasNoOutcome' /\ NoDbNoGraph'
  BY DEF RunningHasNoOutcome, NoDbNoGraph, FullRebuild, ScopedIsMarked
<1>3. FullRebuild'
  BY DEF FullRebuild
<1>4. ScopedIsMarked'
  BY DEF ScopedIsMarked
<1>5. ScopedRebuild'
  BY DEF ScopedRebuild, ScopedIsMarked, UnmarkedIsNotTorn, UnmarkedIsSynced
<1>6. UnmarkedIsNotTorn' /\ EraseFindsSynced' /\ UnmarkedIsSynced' /\ SuccessIsWhole'
  BY DEF UnmarkedIsNotTorn, EraseFindsSynced, UnmarkedIsSynced, SuccessIsWhole, RunningHasNoOutcome,
         FullRebuild, ScopedIsMarked, ScopedRebuild, NoDbNoGraph
<1> QED BY <1>1, <1>2, <1>3, <1>4, <1>5, <1>6

\* A no-op increment keeps the invariant.
LEMMA StepNoChange == ASSUME IInv, IncrementNoChange PROVE IInv'
<1> USE DEF IInv, TypeOK, Contents, NoFiles, ScopedPcs, FullPcs, Rebuilding, Recorded, Synced, durable, memory, history,
            IncrementNoChange
<1>1. TypeOK'
  OBVIOUS
<1>2. RunningHasNoOutcome' /\ NoDbNoGraph'
  BY DEF RunningHasNoOutcome, NoDbNoGraph, FullRebuild, ScopedIsMarked
<1>3. FullRebuild'
  BY DEF FullRebuild
<1>4. ScopedIsMarked'
  BY DEF ScopedIsMarked
<1>5. ScopedRebuild'
  BY DEF ScopedRebuild, ScopedIsMarked, UnmarkedIsNotTorn, UnmarkedIsSynced
<1>6. UnmarkedIsNotTorn' /\ EraseFindsSynced' /\ UnmarkedIsSynced' /\ SuccessIsWhole'
  BY DEF UnmarkedIsNotTorn, EraseFindsSynced, UnmarkedIsSynced, SuccessIsWhole, RunningHasNoOutcome,
         FullRebuild, ScopedIsMarked, ScopedRebuild, NoDbNoGraph
<1> QED BY <1>1, <1>2, <1>3, <1>4, <1>5, <1>6

\* An increment that starts keeps the invariant: the marker comes first.
LEMMA StepMark == ASSUME IInv, IncrementMark PROVE IInv'
<1> USE DEF IInv, TypeOK, Contents, NoFiles, ScopedPcs, FullPcs, Rebuilding, Recorded, Synced, durable, memory, history,
            IncrementMark, NeedsFull, Changed, Removed
<1>1. TypeOK'
  OBVIOUS
<1>2. RunningHasNoOutcome' /\ NoDbNoGraph'
  BY DEF RunningHasNoOutcome, NoDbNoGraph, FullRebuild, ScopedIsMarked
<1>3. FullRebuild'
  BY DEF FullRebuild
<1>4. ScopedIsMarked'
  BY DEF ScopedIsMarked
<1>5. ScopedRebuild'
  BY DEF ScopedRebuild, ScopedIsMarked, UnmarkedIsNotTorn, UnmarkedIsSynced
<1>6. UnmarkedIsNotTorn' /\ EraseFindsSynced' /\ UnmarkedIsSynced' /\ SuccessIsWhole'
  BY DEF UnmarkedIsNotTorn, EraseFindsSynced, UnmarkedIsSynced, SuccessIsWhole, RunningHasNoOutcome,
         FullRebuild, ScopedIsMarked, ScopedRebuild, NoDbNoGraph
<1> QED BY <1>1, <1>2, <1>3, <1>4, <1>5, <1>6

\* The scoped deletion keeps the invariant.
LEMMA StepDelete == ASSUME IInv, DeleteScope PROVE IInv'
<1> USE DEF IInv, TypeOK, Contents, NoFiles, ScopedPcs, FullPcs, Rebuilding, Recorded, Synced, durable, memory, history,
            DeleteScope
<1>1. TypeOK'
  OBVIOUS
<1>2. RunningHasNoOutcome' /\ NoDbNoGraph'
  BY DEF RunningHasNoOutcome, NoDbNoGraph, FullRebuild, ScopedIsMarked
<1>3. FullRebuild'
  BY DEF FullRebuild
<1>4. ScopedIsMarked'
  BY DEF ScopedIsMarked
<1>5. ScopedRebuild'
  BY DEF ScopedRebuild, ScopedIsMarked, UnmarkedIsNotTorn, UnmarkedIsSynced
<1>6. UnmarkedIsNotTorn' /\ EraseFindsSynced' /\ UnmarkedIsSynced' /\ SuccessIsWhole'
  BY DEF UnmarkedIsNotTorn, EraseFindsSynced, UnmarkedIsSynced, SuccessIsWhole, RunningHasNoOutcome,
         FullRebuild, ScopedIsMarked, ScopedRebuild, NoDbNoGraph
<1> QED BY <1>1, <1>2, <1>3, <1>4, <1>5, <1>6

\* The scoped parse keeps the invariant.
LEMMA StepParse == ASSUME IInv, ParseScope PROVE IInv'
<1> USE DEF IInv, TypeOK, Contents, NoFiles, ScopedPcs, FullPcs, Rebuilding, Recorded, Synced, durable, memory, history,
            ParseScope
<1>1. TypeOK'
  OBVIOUS
<1>2. RunningHasNoOutcome' /\ NoDbNoGraph'
  BY DEF RunningHasNoOutcome, NoDbNoGraph, FullRebuild, ScopedIsMarked
<1>3. FullRebuild'
  BY DEF FullRebuild
<1>4. ScopedIsMarked'
  BY DEF ScopedIsMarked
<1>5. ScopedRebuild'
  BY DEF ScopedRebuild, ScopedIsMarked, UnmarkedIsNotTorn, UnmarkedIsSynced
<1>6. UnmarkedIsNotTorn' /\ EraseFindsSynced' /\ UnmarkedIsSynced' /\ SuccessIsWhole'
  BY DEF UnmarkedIsNotTorn, EraseFindsSynced, UnmarkedIsSynced, SuccessIsWhole, RunningHasNoOutcome,
         FullRebuild, ScopedIsMarked, ScopedRebuild, NoDbNoGraph
<1> QED BY <1>1, <1>2, <1>3, <1>4, <1>5, <1>6

\* The scoped write keeps the invariant.
LEMMA StepWrite == ASSUME IInv, WriteScope PROVE IInv'
<1> USE DEF IInv, TypeOK, Contents, NoFiles, ScopedPcs, FullPcs, Rebuilding, Recorded, Synced, durable, memory, history,
            WriteScope
<1>1. TypeOK'
  OBVIOUS
<1>2. RunningHasNoOutcome' /\ NoDbNoGraph'
  BY DEF RunningHasNoOutcome, NoDbNoGraph, FullRebuild, ScopedIsMarked
<1>3. FullRebuild'
  BY DEF FullRebuild
<1>4. ScopedIsMarked'
  BY DEF ScopedIsMarked
<1>5. ScopedRebuild'
  BY DEF ScopedRebuild, ScopedIsMarked, UnmarkedIsNotTorn, UnmarkedIsSynced
<1>6. UnmarkedIsNotTorn' /\ EraseFindsSynced' /\ UnmarkedIsSynced' /\ SuccessIsWhole'
  BY DEF UnmarkedIsNotTorn, EraseFindsSynced, UnmarkedIsSynced, SuccessIsWhole, RunningHasNoOutcome,
         FullRebuild, ScopedIsMarked, ScopedRebuild, NoDbNoGraph
<1> QED BY <1>1, <1>2, <1>3, <1>4, <1>5, <1>6

\* Passes 5 and 6 keep the invariant.
LEMMA StepCalls == ASSUME IInv, WriteCalls PROVE IInv'
<1> USE DEF IInv, TypeOK, Contents, NoFiles, ScopedPcs, FullPcs, Rebuilding, Recorded, Synced, durable, memory, history,
            WriteCalls
<1>1. TypeOK'
  OBVIOUS
<1>2. RunningHasNoOutcome' /\ NoDbNoGraph'
  BY DEF RunningHasNoOutcome, NoDbNoGraph, FullRebuild, ScopedIsMarked
<1>3. FullRebuild'
  BY DEF FullRebuild
<1>4. ScopedIsMarked'
  BY DEF ScopedIsMarked
<1>5. ScopedRebuild'
  BY DEF ScopedRebuild, ScopedIsMarked, UnmarkedIsNotTorn, UnmarkedIsSynced
<1>6. UnmarkedIsNotTorn' /\ EraseFindsSynced' /\ UnmarkedIsSynced' /\ SuccessIsWhole'
  BY DEF UnmarkedIsNotTorn, EraseFindsSynced, UnmarkedIsSynced, SuccessIsWhole, RunningHasNoOutcome,
         FullRebuild, ScopedIsMarked, ScopedRebuild, NoDbNoGraph
<1> QED BY <1>1, <1>2, <1>3, <1>4, <1>5, <1>6

\* Hashing the scope keeps the invariant: what was not edited since it was parsed is
\* hashed as it was parsed.
LEMMA StepHashes == ASSUME IInv, UpdateHashes PROVE IInv'
<1> USE DEF IInv, TypeOK, Contents, NoFiles, ScopedPcs, FullPcs, Rebuilding, Recorded, Synced, durable, memory, history,
            UpdateHashes
<1>1. TypeOK'
  OBVIOUS
<1>2. RunningHasNoOutcome' /\ NoDbNoGraph'
  BY DEF RunningHasNoOutcome, NoDbNoGraph, FullRebuild, ScopedIsMarked
<1>3. FullRebuild'
  BY DEF FullRebuild
<1>4. ScopedIsMarked'
  BY DEF ScopedIsMarked
<1>5. ScopedRebuild'
  BY DEF ScopedRebuild, ScopedIsMarked, UnmarkedIsNotTorn, UnmarkedIsSynced
<1>6. UnmarkedIsNotTorn' /\ EraseFindsSynced' /\ UnmarkedIsSynced' /\ SuccessIsWhole'
  BY DEF UnmarkedIsNotTorn, EraseFindsSynced, UnmarkedIsSynced, SuccessIsWhole, RunningHasNoOutcome,
         FullRebuild, ScopedIsMarked, ScopedRebuild, NoDbNoGraph
<1> QED BY <1>1, <1>2, <1>3, <1>4, <1>5, <1>6

\* The GraphMeta row and the removal of the marker keep the invariant.
LEMMA StepRecord == ASSUME IInv, WriteMeta \/ RemoveMarker PROVE IInv'
<1> USE DEF IInv, TypeOK, Contents, NoFiles, ScopedPcs, FullPcs, Rebuilding, Recorded, Synced, durable, memory, history,
            WriteMeta, RemoveMarker, Forget
<1>1. TypeOK'
  OBVIOUS
<1>2. RunningHasNoOutcome' /\ NoDbNoGraph'
  BY DEF RunningHasNoOutcome, NoDbNoGraph, FullRebuild, ScopedIsMarked
<1>3. FullRebuild'
  BY DEF FullRebuild
<1>4. ScopedIsMarked'
  BY DEF ScopedIsMarked
<1>5. ScopedRebuild'
  BY DEF ScopedRebuild, ScopedIsMarked, UnmarkedIsNotTorn, UnmarkedIsSynced
<1>6. UnmarkedIsNotTorn' /\ EraseFindsSynced' /\ UnmarkedIsSynced' /\ SuccessIsWhole'
  BY DEF UnmarkedIsNotTorn, EraseFindsSynced, UnmarkedIsSynced, SuccessIsWhole, RunningHasNoOutcome,
         FullRebuild, ScopedIsMarked, ScopedRebuild, NoDbNoGraph
<1> QED BY <1>1, <1>2, <1>3, <1>4, <1>5, <1>6

\* The writes of a full rebuild keep the invariant.
LEMMA StepFull == ASSUME IInv, ParseAll \/ DropAll \/ CreateSchema \/ FillNodes \/ WriteAll \/ WriteFullMeta PROVE IInv'
<1> USE DEF IInv, TypeOK, Contents, NoFiles, ScopedPcs, FullPcs, Rebuilding, Recorded, Synced, durable, memory, history,
            ParseAll, DropAll, CreateSchema, FillNodes, WriteAll, WriteFullMeta
<1>1. TypeOK'
  OBVIOUS
<1>2. RunningHasNoOutcome' /\ NoDbNoGraph'
  BY DEF RunningHasNoOutcome, NoDbNoGraph, FullRebuild, ScopedIsMarked
<1>3. FullRebuild'
  BY DEF FullRebuild
<1>4. ScopedIsMarked'
  BY DEF ScopedIsMarked
<1>5. ScopedRebuild'
  BY DEF ScopedRebuild, ScopedIsMarked, UnmarkedIsNotTorn, UnmarkedIsSynced
<1>6. UnmarkedIsNotTorn' /\ EraseFindsSynced' /\ UnmarkedIsSynced' /\ SuccessIsWhole'
  BY DEF UnmarkedIsNotTorn, EraseFindsSynced, UnmarkedIsSynced, SuccessIsWhole, RunningHasNoOutcome,
         FullRebuild, ScopedIsMarked, ScopedRebuild, NoDbNoGraph
<1> QED BY <1>1, <1>2, <1>3, <1>4, <1>5, <1>6

\* The end of a full rebuild keeps the invariant.
LEMMA StepInitHashes == ASSUME IInv, InitHashes PROVE IInv'
<1> USE DEF IInv, TypeOK, Contents, NoFiles, ScopedPcs, FullPcs, Rebuilding, Recorded, Synced, durable, memory, history,
            InitHashes, Forget
<1>1. TypeOK'
  OBVIOUS
<1>2. RunningHasNoOutcome' /\ NoDbNoGraph'
  BY DEF RunningHasNoOutcome, NoDbNoGraph, FullRebuild, ScopedIsMarked
<1>3. FullRebuild'
  BY DEF FullRebuild
<1>4. ScopedIsMarked'
  BY DEF ScopedIsMarked
<1>5. ScopedRebuild'
  BY DEF ScopedRebuild, ScopedIsMarked, UnmarkedIsNotTorn, UnmarkedIsSynced
<1>6. UnmarkedIsNotTorn' /\ EraseFindsSynced' /\ UnmarkedIsSynced' /\ SuccessIsWhole'
  BY DEF UnmarkedIsNotTorn, EraseFindsSynced, UnmarkedIsSynced, SuccessIsWhole, RunningHasNoOutcome,
         FullRebuild, ScopedIsMarked, ScopedRebuild, NoDbNoGraph
<1> QED BY <1>1, <1>2, <1>3, <1>4, <1>5, <1>6

\* Erase keeps the invariant.
LEMMA StepErase == ASSUME IInv, EraseGraph \/ EraseBuilderFiles PROVE IInv'
<1> USE DEF IInv, TypeOK, Contents, NoFiles, ScopedPcs, FullPcs, Rebuilding, Recorded, Synced, durable, memory, history,
            EraseGraph, EraseBuilderFiles, Forget
<1>1. TypeOK'
  OBVIOUS
<1>2. RunningHasNoOutcome' /\ NoDbNoGraph'
  BY DEF RunningHasNoOutcome, NoDbNoGraph, FullRebuild, ScopedIsMarked
<1>3. FullRebuild'
  BY DEF FullRebuild
<1>4. ScopedIsMarked'
  BY DEF ScopedIsMarked
<1>5. ScopedRebuild'
  BY DEF ScopedRebuild, ScopedIsMarked, UnmarkedIsNotTorn, UnmarkedIsSynced
<1>6. UnmarkedIsNotTorn' /\ SuccessIsWhole'
  <2>1. CASE EraseGraph
    BY <2>1 DEF UnmarkedIsNotTorn, SuccessIsWhole
  <2>2. CASE EraseBuilderFiles
    <3>1. abandoned' \/ meta = "nodb"
      BY <2>2
    <3>2. CASE meta = "nodb"
      BY <2>2, <3>2, AbsentAssumption DEF NoDbNoGraph, UnmarkedIsNotTorn, SuccessIsWhole
    <3>3. CASE abandoned'
      BY <2>2, <3>3 DEF UnmarkedIsNotTorn, SuccessIsWhole
    <3> QED BY <3>1, <3>2, <3>3
  <2> QED BY <2>1, <2>2
<1>7. EraseFindsSynced' /\ UnmarkedIsSynced'
  <2>1. CASE EraseGraph
    BY <2>1 DEF EraseFindsSynced, UnmarkedIsNotTorn, UnmarkedIsSynced
  <2>2. CASE EraseBuilderFiles
    BY <2>2 DEF EraseFindsSynced, UnmarkedIsSynced
  <2> QED BY <2>1, <2>2
<1> QED BY <1>1, <1>2, <1>3, <1>4, <1>5, <1>6, <1>7

\* Every step keeps the inductive invariant.
LEMMA NextIInv == IInv /\ [Next]_vars => IInv'
<1> SUFFICES ASSUME IInv, [Next]_vars PROVE IInv'
  OBVIOUS
<1>1. CASE StartIncrement
  BY <1>1, StepBegin, StepNoChange, StepMark DEF StartIncrement
<1>2. CASE ScopedStep
  BY <1>2, StepBegin, StepDelete, StepParse, StepWrite, StepCalls, StepHashes, StepRecord
     DEF ScopedStep
<1>3. CASE FullStep
  BY <1>3, StepFull, StepInitHashes DEF FullStep
<1>4. CASE EraseBuilderFiles
  BY <1>4, StepErase
<1>5. CASE Trouble
  BY <1>5, StepEdit, StepCrash, StepUpgrade, StepBegin, StepErase DEF Trouble
<1>6. CASE UNCHANGED vars
  BY <1>6 DEF vars, durable, memory, history, IInv, TypeOK, RunningHasNoOutcome, NoDbNoGraph,
              FullRebuild, ScopedIsMarked, ScopedRebuild, UnmarkedIsNotTorn, EraseFindsSynced, UnmarkedIsSynced,
              SuccessIsWhole, Synced
<1> QED BY <1>1, <1>2, <1>3, <1>4, <1>5, <1>6 DEF Next

\* The inductive invariant holds in every reachable state.
THEOREM Invariance == Spec => []IInv
BY InitIInv, NextIInv, PTL DEF Spec

\* The variables keep their types.
THEOREM TypeCorrect == Spec => []TypeOK
<1>1. IInv => TypeOK
  BY DEF IInv
<1> QED BY <1>1, Invariance, PTL

\* Whatever kills an incremental run, a graph that no marker guards is the one the
\* hash store describes (short of an interrupted full rebuild, and file by file
\* short of edits under the builder's hands).
THEOREM CrashMarkerGuards == Spec => []UnmarkedIsSynced
<1>1. IInv => UnmarkedIsSynced
  BY DEF IInv
<1> QED BY <1>1, Invariance, PTL

\* A rebuild that reports success leaves no torn file and the current schema.
THEOREM SuccessLeavesWhole == Spec => []SuccessIsWhole
<1>1. IInv => SuccessIsWhole
  BY DEF IInv
<1> QED BY <1>1, Invariance, PTL

\* The hash store never runs ahead of the graph: only UpdateHashes and InitHashes
\* put hashes in it, after the graph was written with what was parsed.
THEOREM HashesAreEarned == Spec => HashFollowsGraph
<1> DEFINE Earned(f) ==
        hashes'[f] # hashes[f] /\ hashes'[f] # Absent => graph[f] = hashes'[f]
<1>1. ASSUME IInv, [Next]_vars PROVE [\A f \in Files \ edited : Earned(f)]_vars
  <2> SUFFICES ASSUME NEW f \in Files \ edited,
                      hashes'[f] # hashes[f], hashes'[f] # Absent
               PROVE graph[f] = hashes'[f]
    OBVIOUS
  <2>1. CASE UpdateHashes
    BY <1>1, <2>1 DEF UpdateHashes, IInv, TypeOK, ScopedRebuild, Rebuilding
  <2>2. CASE InitHashes
    BY <1>1, <2>2 DEF InitHashes, IInv, TypeOK, FullRebuild, FullPcs
  <2>3. CASE EraseBuilderFiles
    BY <2>3 DEF EraseBuilderFiles, NoFiles
  <2>4. CASE UNCHANGED hashes
    BY <2>4
  <2>5. UpdateHashes \/ InitHashes \/ EraseBuilderFiles \/ UNCHANGED hashes
    BY <1>1 DEF Next, StartIncrement, ScopedStep, FullStep, Trouble, vars, durable,
        IncrementNeedsFull, IncrementNoChange, IncrementAfterCrash, IncrementMark, BeginFull,
        DeleteScope, ExceedCap, ParseScope, WriteScope, WriteCalls, WriteMeta, RemoveMarker,
        ParseAll, DropAll, CreateSchema, FillNodes, WriteAll, WriteFullMeta,
        Crash, Upgrade, BuildError, StartFull, EraseGraph, Edit
  <2> QED BY <2>1, <2>2, <2>3, <2>4, <2>5
<1>2. IInv /\ [Next]_vars => [\A f \in Files \ edited : Earned(f)]_vars
  BY <1>1
<1> QED BY <1>2, Invariance, PTL DEF Spec, HashFollowsGraph
=============================================================================
