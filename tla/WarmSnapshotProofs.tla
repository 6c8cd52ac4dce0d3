------------------------- MODULE WarmSnapshotProofs -------------------------
(***************************************************************************)
(* The graph reader's invariants and what a starting query gets, for every  *)
(* set of server threads and every number of builds.                        *)
(***************************************************************************)
EXTENDS WarmSnapshot, TLAPS

USE DEF Version, NoVersion, RxPcs, BeginPcs, CommitPcs, LockHeld

----------------------------------------------------------------------------
(* the inductive invariant *)

\* The builder writes in one place of the reindex thread.
WritingIsBuilding == writing <=> rx = "build"

\* The snapshot is active from the flip to the end of the commit.
SnapshotSpan == snapshot <=> rx \in {"run", "build", "commit", "dropcopy", "unlink", "clear"}

\* From the copy to the end of the build the copy is of the original.
CopyIsCurrent == rx \in {"reset", "flip", "run", "build"} => sidecar = original

\* A cached reader of the copy is of this copy, and is gone before the copy is.
SidecarReaders ==
    \A r \in cached : r.file = "sidecar" =>
        /\ rx \in {"run", "build", "commit", "dropcopy"}
        /\ r.version = sidecar
        /\ ~r.torn

\* Until the builder opens the original, a cached reader of it is fresh.
OriginalReaders ==
    \A r \in cached : r.file = "original" /\ rx \in {"idle", "copy", "reset", "flip", "run"} =>
        r.version = original /\ ~r.torn

\* A build that is under way is one of the MaxBuilds.
BuildsLeft == rx \in {"copy", "reset", "flip", "run", "build"} => original < MaxBuilds

\* The process caches one reader at most.
OneCached == \A r, s \in cached : r = s

\* A copy that queries are sent to exists.
CopyExists == rx \in {"reset", "flip", "run", "build", "commit", "dropcopy", "unlink"} => sidecar \in Version

IInv ==
    /\ TypeOK
    /\ WritingIsBuilding
    /\ SnapshotSpan
    /\ CopyIsCurrent
    /\ SidecarReaders
    /\ OriginalReaders
    /\ OneCached
    /\ BuildsLeft
    /\ CopyExists

LEMMA InitIInv == Init => IInv
<1> SUFFICES ASSUME Init PROVE IInv
  OBVIOUS
<1>1. TypeOK
  <2>1. held \in [Threads -> SUBSET Reader]
    BY DEF Init
  <2>2. original \in Version /\ sidecar \in Version \cup {NoVersion} /\ rx \in RxPcs
    BY MaxBuildsAssumption DEF Init
  <2>3. writing \in BOOLEAN /\ snapshot \in BOOLEAN /\ cached \in SUBSET Reader
    BY DEF Init
  <2> QED BY <2>1, <2>2, <2>3 DEF TypeOK
<1> QED BY <1>1, MaxBuildsAssumption
   DEF Init, IInv, TypeOK, WritingIsBuilding, SnapshotSpan, CopyIsCurrent,
       SidecarReaders, OriginalReaders, OneCached, BuildsLeft, CopyExists

\* A reader opened on the original is a reader, of the original as it is.
LEMMA OpenOriginalReader ==
    ASSUME TypeOK
    PROVE  /\ OpenOriginal \in Reader
           /\ OpenOriginal.file = "original"
           /\ OpenOriginal.version = original
           /\ OpenOriginal.torn = writing
BY DEF TypeOK, OpenOriginal, Reader

\* A reader opened on a copy that exists is a reader, of the copy, and whole.
LEMMA OpenSidecarReader ==
    ASSUME sidecar \in Version
    PROVE  /\ OpenSidecar \in Reader
           /\ OpenSidecar.file = "sidecar"
           /\ OpenSidecar.version = sidecar
           /\ OpenSidecar.torn = FALSE
BY DEF OpenSidecar, Reader

\* What LadybugGraph.get returns was cached already, or is the one just opened.
LEMMA GetReturns ==
    ASSUME NEW opened, NEW r \in Get(opened)
    PROVE  r \in cached \/ r = opened
BY DEF Get

----------------------------------------------------------------------------
(* every step keeps it *)

LEMMA QueryIInv ==
    ASSUME IInv, NEW t \in Threads, Query(t)
    PROVE  IInv'
<1> USE MaxBuildsAssumption DEF IInv
<1>1. CASE StartQuery(t)
  <2>1. cached' \in SUBSET Reader
    BY <1>1, OpenOriginalReader, GetReturns DEF StartQuery, TypeOK
  <2>2. TypeOK'
    BY <1>1, <2>1 DEF StartQuery, TypeOK
  <2>3. SidecarReaders' /\ OriginalReaders'
    <3> SUFFICES ASSUME NEW r \in cached'
                 PROVE  /\ r.file = "sidecar" =>
                             rx \in {"run", "build", "commit", "dropcopy"} /\ r.version = sidecar /\ ~r.torn
                        /\ r.file = "original" /\ rx \in {"idle", "copy", "reset", "flip", "run"} =>
                             r.version = original /\ ~r.torn
      BY <1>1 DEF StartQuery, SidecarReaders, OriginalReaders
    <3>1. CASE r \in cached
      BY <3>1 DEF SidecarReaders, OriginalReaders
    <3>2. CASE r = OpenOriginal
      BY <3>2, OpenOriginalReader DEF WritingIsBuilding
    <3> QED BY <1>1, <3>1, <3>2, GetReturns DEF StartQuery
  <2> QED BY <1>1, <2>2, <2>3
          DEF StartQuery, WritingIsBuilding, SnapshotSpan, CopyIsCurrent, OneCached, BuildsLeft, CopyExists, Get
<1>2. CASE StartQueryOnSnapshot(t)
  <2>1. /\ rx \in {"run", "build", "commit"}
        /\ sidecar \in Version
    BY <1>2 DEF StartQueryOnSnapshot, SnapshotSpan, CopyExists, TypeOK
  <2>2. cached' \in SUBSET Reader
    BY <1>2, <2>1, OpenSidecarReader, GetReturns DEF StartQueryOnSnapshot, TypeOK
  <2>3. TypeOK'
    BY <1>2, <2>2 DEF StartQueryOnSnapshot, TypeOK
  <2>4. SidecarReaders' /\ OriginalReaders'
    <3> SUFFICES ASSUME NEW r \in cached'
                 PROVE  /\ r.file = "sidecar" =>
                             rx \in {"run", "build", "commit", "dropcopy"} /\ r.version = sidecar /\ ~r.torn
                        /\ r.file = "original" /\ rx \in {"idle", "copy", "reset", "flip", "run"} =>
                             r.version = original /\ ~r.torn
      BY <1>2 DEF StartQueryOnSnapshot, SidecarReaders, OriginalReaders
    <3>1. CASE r \in cached
      BY <3>1 DEF SidecarReaders, OriginalReaders
    <3>2. CASE r = OpenSidecar
      BY <2>1, <3>2, OpenSidecarReader
    <3> QED BY <1>2, <3>1, <3>2, GetReturns DEF StartQueryOnSnapshot
  <2> QED BY <1>2, <2>3, <2>4
          DEF StartQueryOnSnapshot, WritingIsBuilding, SnapshotSpan, CopyIsCurrent, OneCached, BuildsLeft, CopyExists, Get
<1>3. CASE ExpandSearch(t)
  <2>1. cached' \in SUBSET Reader
    BY <1>3, OpenOriginalReader, GetReturns DEF ExpandSearch, TypeOK
  <2>2. TypeOK'
    BY <1>3, <2>1 DEF ExpandSearch, TypeOK
  <2>3. SidecarReaders' /\ OriginalReaders'
    <3> SUFFICES ASSUME NEW r \in cached'
                 PROVE  /\ r.file = "sidecar" =>
                             rx \in {"run", "build", "commit", "dropcopy"} /\ r.version = sidecar /\ ~r.torn
                        /\ r.file = "original" /\ rx \in {"idle", "copy", "reset", "flip", "run"} =>
                             r.version = original /\ ~r.torn
      BY <1>3 DEF ExpandSearch, SidecarReaders, OriginalReaders
    <3>1. CASE r \in cached
      BY <3>1 DEF SidecarReaders, OriginalReaders
    <3>2. CASE r = OpenOriginal
      BY <3>2, OpenOriginalReader DEF WritingIsBuilding
    <3> QED BY <1>3, <3>1, <3>2, GetReturns DEF ExpandSearch
  <2> QED BY <1>3, <2>2, <2>3
          DEF ExpandSearch, WritingIsBuilding, SnapshotSpan, CopyIsCurrent, OneCached, BuildsLeft, CopyExists, Get
<1>4. CASE EndQuery(t)
  <2>1. TypeOK'
    BY <1>4 DEF EndQuery, TypeOK
  <2> QED BY <1>4, <2>1 DEF EndQuery, WritingIsBuilding, SnapshotSpan, CopyIsCurrent,
                            SidecarReaders, OriginalReaders, OneCached, BuildsLeft, CopyExists
<1> QED BY <1>1, <1>2, <1>3, <1>4 DEF Query

LEMMA BeginIInv ==
    ASSUME IInv, StartReindex \/ Begin
    PROVE  IInv'
<1> USE MaxBuildsAssumption
    DEF IInv, TypeOK, WritingIsBuilding, SnapshotSpan, CopyIsCurrent, SidecarReaders,
        OriginalReaders, OneCached, BuildsLeft, CopyExists
<1>1. CASE StartReindex
  BY <1>1 DEF StartReindex
<1>2. CASE CopyOriginal
  BY <1>2 DEF CopyOriginal
<1>3. CASE CopyFails
  BY <1>3 DEF CopyFails
<1>4. CASE DropOriginalReader
  BY <1>4 DEF DropOriginalReader, Without
<1>5. CASE FlipToSidecar
  BY <1>5 DEF FlipToSidecar
<1> QED BY <1>1, <1>2, <1>3, <1>4, <1>5 DEF Begin

LEMMA BuildIInv ==
    ASSUME IInv, Build
    PROVE  IInv'
<1> USE MaxBuildsAssumption
    DEF IInv, TypeOK, WritingIsBuilding, SnapshotSpan, CopyIsCurrent, SidecarReaders,
        OriginalReaders, OneCached, BuildsLeft, CopyExists
<1>1. CASE BuilderOpens
  BY <1>1 DEF BuilderOpens
<1>2. CASE BuilderEnds
  <2>1. original' \in Version
    BY <1>2 DEF BuilderEnds
  <2>2. SidecarReaders' /\ OriginalReaders' /\ OneCached'
    BY <1>2 DEF BuilderEnds
  <2>3. CopyExists' /\ CopyIsCurrent' /\ WritingIsBuilding' /\ SnapshotSpan' /\ BuildsLeft'
    BY <1>2 DEF BuilderEnds
  <2>4. TypeOK'
    BY <1>2, <2>1 DEF BuilderEnds
  <2> QED BY <2>2, <2>3, <2>4
<1>3. CASE BuilderFails
  BY <1>3 DEF BuilderFails
<1> QED BY <1>1, <1>2, <1>3 DEF Build

LEMMA CommitIInv ==
    ASSUME IInv, Commit
    PROVE  IInv'
<1> USE MaxBuildsAssumption
    DEF IInv, TypeOK, WritingIsBuilding, SnapshotSpan, CopyIsCurrent, SidecarReaders,
        OriginalReaders, OneCached, BuildsLeft, CopyExists
<1>1. CASE StartCommit
  BY <1>1 DEF StartCommit
<1>2. CASE DropSidecarReader
  BY <1>2 DEF DropSidecarReader, Without
<1>3. CASE UnlinkSidecar
  BY <1>3 DEF UnlinkSidecar
<1>4. CASE ClearSnapshot
  BY <1>4 DEF ClearSnapshot
<1>5. CASE DropStaleReader
  BY <1>5 DEF DropStaleReader, Without
<1> QED BY <1>1, <1>2, <1>3, <1>4, <1>5 DEF Commit

LEMMA NextIInv == IInv /\ [Next]_vars => IInv'
<1> SUFFICES ASSUME IInv, [Next]_vars
             PROVE  IInv'
  OBVIOUS
<1>1. CASE UNCHANGED vars
  BY <1>1 DEF vars, IInv, TypeOK, WritingIsBuilding, SnapshotSpan, CopyIsCurrent,
              SidecarReaders, OriginalReaders, OneCached, BuildsLeft, CopyExists
<1>2. CASE Next
  BY <1>2, QueryIInv, BeginIInv, BuildIInv, CommitIInv DEF Next
<1> QED BY <1>1, <1>2

LEMMA Invariant == Spec => []IInv
BY InitIInv, NextIInv, PTL DEF Spec

----------------------------------------------------------------------------
(* theorems *)

\* The types of the variables: no query ever opens a copy that is not there.
THEOREM TypeCorrect == Spec => []TypeOK
<1>1. IInv => TypeOK
  BY DEF IInv
<1> QED BY <1>1, Invariant, PTL

\* While the builder writes, queries are sent to a copy of the graph it replaces.
THEOREM BuildIsCovered == Spec => []WritingIsCovered
<1>1. IInv => WritingIsCovered
  BY DEF IInv, WritingIsCovered, WritingIsBuilding, SnapshotSpan, CopyIsCurrent
<1> QED BY <1>1, Invariant, PTL

\* Between reindexes the cached reader is a whole one of the last build.
THEOREM IdleCacheFresh == Spec => []IdleCacheIsFresh
<1>1. IInv => IdleCacheIsFresh
  <2> SUFFICES ASSUME IInv, rx = "idle", NEW r \in cached
               PROVE  r = [file |-> "original", version |-> original, torn |-> FALSE]
    BY DEF IdleCacheIsFresh
  <2>1. r \in Reader /\ r.file = "original" /\ r.version = original /\ ~r.torn
    BY DEF IInv, TypeOK, Reader, SidecarReaders, OriginalReaders
  <2> QED BY <2>1 DEF Reader
<1> QED BY <1>1, Invariant, PTL

\* A query that starts gets a whole reader of the version its path is to serve.
THEOREM StartsServed == Spec => StartsOnServedGraph
<1>1. ASSUME IInv, [Next]_vars, NEW t \in Threads
      PROVE  held[t] = {} /\ held'[t] # {} =>
                 \A r \in held'[t] : ~r.torn /\ r.version = IF snapshot THEN sidecar ELSE original
  <2> SUFFICES ASSUME held[t] = {}, held'[t] # {}, NEW r \in held'[t]
               PROVE  ~r.torn /\ r.version = IF snapshot THEN sidecar ELSE original
    OBVIOUS
  <2>1. \E u \in Threads : StartQuery(u) \/ StartQueryOnSnapshot(u) \/ ExpandSearch(u)
    BY <1>1 DEF Next, vars, Query, EndQuery, StartReindex, Begin, Build, Commit, CopyOriginal,
                CopyFails, DropOriginalReader, FlipToSidecar, BuilderOpens, BuilderEnds,
                BuilderFails, StartCommit, DropSidecarReader, UnlinkSidecar, ClearSnapshot,
                DropStaleReader, IInv, TypeOK
  <2>2. PICK u \in Threads : StartQuery(u) \/ StartQueryOnSnapshot(u) \/ ExpandSearch(u)
    BY <2>1
  <2>3. u = t /\ ~ExpandSearch(t)
    BY <1>1, <2>2 DEF StartQuery, StartQueryOnSnapshot, ExpandSearch, IInv, TypeOK
  <2>4. CASE StartQuery(t)
    <3>1. rx = "idle" /\ ~writing /\ ~snapshot
      BY <1>1, <2>4 DEF StartQuery, IInv, TypeOK, SnapshotSpan, WritingIsBuilding
    <3>2. r \in cached \/ r = OpenOriginal
      BY <1>1, <2>4, GetReturns DEF StartQuery, IInv, TypeOK
    <3> QED BY <1>1, <3>1, <3>2, OpenOriginalReader
            DEF IInv, TypeOK, Reader, SidecarReaders, OriginalReaders
  <2>5. CASE StartQueryOnSnapshot(t)
    <3>1. rx \in {"run", "build", "commit"} /\ snapshot /\ sidecar \in Version
      BY <1>1, <2>5 DEF StartQueryOnSnapshot, IInv, TypeOK, SnapshotSpan, CopyExists
    <3>2. r \in Get(OpenSidecar)
      BY <1>1, <2>5 DEF StartQueryOnSnapshot, IInv, TypeOK
    <3>3. r = OpenSidecar \/ (r \in cached /\ \E c \in cached : c.file = "sidecar")
      BY <3>1, <3>2, OpenSidecarReader DEF Get
    <3> QED BY <1>1, <3>1, <3>3, OpenSidecarReader DEF IInv, OneCached, SidecarReaders
  <2> QED BY <2>2, <2>3, <2>4, <2>5
<1>2. IInv /\ [Next]_vars =>
        [\A t \in Threads :
             held[t] = {} /\ held'[t] # {} =>
                 \A r \in held'[t] :
                     /\ ~r.torn
                     /\ r.version = IF snapshot THEN sidecar ELSE original]_vars
  BY <1>1
<1> QED BY <1>2, Invariant, PTL DEF Spec, StartsOnServedGraph
============================================================================
