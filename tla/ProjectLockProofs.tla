------------------------- MODULE ProjectLockProofs -------------------------
(***************************************************************************)
(* Proofs about ProjectLock, for any set of processes and of inodes.        *)
(***************************************************************************)
EXTENDS ProjectLock, TLAPS

USE NoPidAssumption, NoInodeAssumption

\* The initial state satisfies the inductive invariant: nobody has opened the
\* file, as when the machine has just booted.
LEMMA InitIInv == Init => IInv
BY DEF Init, IInv, TypeOK, LockPcs, Opened, Locked, HandleMatchesPc,
       InodeExclusion, HandlesOnLink, PidFileNamesNoOther, ReleasedIsNotNamed

\* Every call of acquire and release, every kill and every reuse of a pid
\* preserves the inductive invariant.
LEMMA NextIInv == IInv /\ [Next]_lockVars => IInv'
<1> SUFFICES ASSUME IInv, [Next]_lockVars PROVE IInv'
  OBVIOUS
<1> USE DEF IInv, TypeOK, Goto, Opened, Locked, LockPcs
<1>1. ASSUME NEW p \in Procs, OpenExisting(p) PROVE IInv'
  <2> USE <1>1 DEF OpenExisting
  <2>1. TypeOK'
    OBVIOUS
  <2>2. HandleMatchesPc' /\ HandlesOnLink'
    BY DEF HandleMatchesPc, HandlesOnLink
  <2>3. InodeExclusion'
    BY DEF InodeExclusion
  <2>4. PidFileNamesNoOther' /\ ReleasedIsNotNamed'
    BY DEF PidFileNamesNoOther, ReleasedIsNotNamed
  <2> QED BY <2>1, <2>2, <2>3, <2>4
<1>2. ASSUME NEW p \in Procs, OpenCreate(p) PROVE IInv'
  <2>1. PICK i \in (IF link = NoInode THEN FreeInodes ELSE {link}) :
            /\ link' = i
            /\ content' = [content EXCEPT ![i] = NoPid]
            /\ fh' = [fh EXCEPT ![p] = i]
    BY <1>2 DEF OpenCreate
  <2>2. i \in Inodes
    BY DEF FreeInodes
  <2> USE <1>2, <2>1, <2>2 DEF OpenCreate
  <2>4. TypeOK'
    OBVIOUS
  <2>5. HandleMatchesPc'
    BY DEF HandleMatchesPc
  <2>6. HandlesOnLink'
    BY DEF HandlesOnLink, FreeInodes
  <2>7. InodeExclusion'
    BY DEF InodeExclusion
  <2>8. PidFileNamesNoOther' /\ ReleasedIsNotNamed'
    BY DEF PidFileNamesNoOther, ReleasedIsNotNamed
  <2> QED BY <2>4, <2>5, <2>6, <2>7, <2>8
<1>3. ASSUME NEW p \in Procs, TakeFlock(p) PROVE IInv'
  <2> USE <1>3 DEF TakeFlock
  <2>1. TypeOK'
    OBVIOUS
  <2>2. HandleMatchesPc' /\ HandlesOnLink'
    BY DEF HandleMatchesPc, HandlesOnLink
  <2>3. InodeExclusion'
    BY DEF InodeExclusion, HasLock
  <2>4. PidFileNamesNoOther' /\ ReleasedIsNotNamed'
    BY DEF PidFileNamesNoOther, ReleasedIsNotNamed
  <2> QED BY <2>1, <2>2, <2>3, <2>4
<1>4. ASSUME NEW p \in Procs, FlockBusy(p) PROVE IInv'
  <2> USE <1>4 DEF FlockBusy
  <2>2. TypeOK'
    OBVIOUS
  <2>3. HandleMatchesPc' /\ HandlesOnLink' /\ InodeExclusion'
    BY DEF HandleMatchesPc, HandlesOnLink, InodeExclusion
  <2>4. PidFileNamesNoOther' /\ ReleasedIsNotNamed'
    BY DEF PidFileNamesNoOther, ReleasedIsNotNamed
  <2> QED BY <2>2, <2>3, <2>4
<1>5. ASSUME NEW p \in Procs, TruncatePid(p) PROVE IInv'
  <2> USE <1>5 DEF TruncatePid
  <2>1. TypeOK'
    OBVIOUS
  <2>2. HandleMatchesPc' /\ HandlesOnLink' /\ InodeExclusion'
    BY DEF HandleMatchesPc, HandlesOnLink, InodeExclusion
  <2>3. PidFileNamesNoOther' /\ ReleasedIsNotNamed'
    BY DEF PidFileNamesNoOther, ReleasedIsNotNamed
  <2> QED BY <2>1, <2>2, <2>3
<1>6. ASSUME NEW p \in Procs, RecordPid(p) PROVE IInv'
  <2> USE <1>6 DEF RecordPid
  <2>1. TypeOK'
    OBVIOUS
  <2>2. HandleMatchesPc' /\ HandlesOnLink' /\ InodeExclusion'
    BY DEF HandleMatchesPc, HandlesOnLink, InodeExclusion
  <2>3. \* p writes its pid in an inode only p has locked.
        PidFileNamesNoOther'
    BY DEF PidFileNamesNoOther, InodeExclusion, HandleMatchesPc
  <2>4. ReleasedIsNotNamed'
    BY DEF ReleasedIsNotNamed
  <2> QED BY <2>1, <2>2, <2>3, <2>4
<1>7. ASSUME NEW p \in Procs, CloseHandle(p) \/ Crash(p) PROVE IInv'
  <2> USE <1>7 DEF CloseHandle, Crash
  <2>1. TypeOK'
    OBVIOUS
  <2>2. HandleMatchesPc' /\ HandlesOnLink' /\ InodeExclusion'
    BY DEF HandleMatchesPc, HandlesOnLink, InodeExclusion
  <2>3. PidFileNamesNoOther' /\ ReleasedIsNotNamed'
    BY DEF PidFileNamesNoOther, ReleasedIsNotNamed
  <2> QED BY <2>1, <2>2, <2>3
<1>8. ASSUME NEW p \in Procs, ReadOwnPid(p) \/ Spawn(p) PROVE IInv'
  <2> USE <1>8 DEF ReadOwnPid, Spawn, ReadPid
  <2>1. TypeOK'
    OBVIOUS
  <2>2. HandleMatchesPc' /\ HandlesOnLink' /\ InodeExclusion'
    BY DEF HandleMatchesPc, HandlesOnLink, InodeExclusion
  <2>3. PidFileNamesNoOther' /\ ReleasedIsNotNamed'
    BY DEF PidFileNamesNoOther, ReleasedIsNotNamed
  <2> QED BY <2>1, <2>2, <2>3
<1>9. ASSUME NEW p \in Procs, UnlinkPid(p) PROVE IInv'
  <2> USE <1>9 DEF UnlinkPid
  <2>1. TypeOK'
    OBVIOUS
  <2>2. HandleMatchesPc' /\ InodeExclusion'
    BY DEF HandleMatchesPc, InodeExclusion
  <2>3. \* No handle is left on the path unless the history variable records it.
        HandlesOnLink'
    BY DEF HandlesOnLink
  <2>4. PidFileNamesNoOther' /\ ReleasedIsNotNamed'
    BY DEF PidFileNamesNoOther, ReleasedIsNotNamed
  <2> QED BY <2>1, <2>2, <2>3, <2>4
<1>10. CASE UNCHANGED lockVars
  BY <1>10 DEF lockVars, HandleMatchesPc, InodeExclusion, HandlesOnLink,
               PidFileNamesNoOther, ReleasedIsNotNamed
<1> QED
  BY <1>1, <1>2, <1>3, <1>4, <1>5, <1>6, <1>7, <1>8, <1>9, <1>10
     DEF Next, Acquire, Release

\* The inductive invariant holds in every reachable state.
THEOREM Invariance == Spec => []IInv
BY InitIInv, NextIInv, PTL DEF Spec

\* The variables keep their types.
THEOREM TypeCorrect == Spec => []TypeOK
<1>1. IInv => TypeOK
  BY DEF IInv
<1> QED BY <1>1, Invariance, PTL

\* As long as no release has unlinked a file somebody else had open, at most one
\* process is past acquire: creation races, refusals, kills and recycled pids do
\* not break the lock of lock.py.
THEOREM Exclusion == Spec => []ExclusionUnlessOrphaned
<1>1. IInv => ExclusionUnlessOrphaned
  <2> SUFFICES ASSUME IInv, ~orphaned,
                      NEW p \in Procs, NEW q \in Procs,
                      lockPc[p] = "held", lockPc[q] = "held"
               PROVE p = q
    BY DEF ExclusionUnlessOrphaned, MutualExclusion
  <2>1. fh[p] = link /\ fh[q] = link
    BY DEF IInv, HandleMatchesPc, HandlesOnLink, Opened
  <2> QED BY <2>1 DEF IInv, InodeExclusion, Locked
<1> QED BY <1>1, Invariance, PTL

\* The pid file a holder has open names that holder or nobody.
THEOREM PidFileHonest == Spec => []PidFileNamesNoOther
<1>1. IInv => PidFileNamesNoOther
  BY DEF IInv
<1> QED BY <1>1, Invariance, PTL

\* After release the pid file does not name the process that released.
THEOREM ReleaseErasesPid == Spec => []ReleasedIsNotNamed
<1>1. IInv => ReleasedIsNotNamed
  BY DEF IInv
<1> QED BY <1>1, Invariance, PTL
============================================================================
