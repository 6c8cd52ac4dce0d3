---------------------------- MODULE ProjectLock ----------------------------
(***************************************************************************)
(* The per-project lock of `jrag watch` (watch/lock.py, ProjectLock) at the *)
(* granularity of its system calls: open, flock, truncate, write, close,    *)
(* read, unlink.                                                            *)
(*                                                                         *)
(* flock(2) locks an inode while the processes agree only on a path, so the *)
(* path (link) and the inodes it has named are kept apart.  A process of    *)
(* this module is an operating-system process that runs one ProjectLock; it *)
(* may be killed between any two calls (Crash) and its pid may be given to  *)
(* a later process (Spawn).                                                 *)
(***************************************************************************)
EXTENDS FiniteSets

CONSTANTS
    Procs,      \* process ids
    Inodes,     \* inode numbers of the file system
    NoPid,      \* an empty pid file, or a read that found none
    NoInode     \* no open handle, or no pid file at the path

ASSUME NoPidAssumption == NoPid \notin Procs
ASSUME NoInodeAssumption == NoInode \notin Inodes

VARIABLES
    link,       \* the inode the pid path names
    content,    \* the pid written in each inode
    fh,         \* the handle opened by acquire
    lockPc,     \* where each process is in acquire or release
    orphaned    \* history: some unlink hit a file another process had open

lockVars == <<link, content, fh, lockPc, orphaned>>

Opened  == {"flock", "write", "record", "held"}    \* acquire's handle is open
Locked  == {"write", "record", "held"}             \* and carries the flock
LockPcs == Opened \cup {"idle", "create", "refused", "closed",
                        "unlink", "released", "dead"}

TypeOK ==
    /\ link \in Inodes \cup {NoInode}
    /\ content \in [Inodes -> Procs \cup {NoPid}]
    /\ fh \in [Procs -> Inodes \cup {NoInode}]
    /\ lockPc \in [Procs -> LockPcs]
    /\ orphaned \in BOOLEAN

Init ==
    /\ link = NoInode
    /\ content = [i \in Inodes |-> NoPid]
    /\ fh = [p \in Procs |-> NoInode]
    /\ lockPc = [p \in Procs |-> "idle"]
    /\ orphaned = FALSE

HasLock(p, i) == lockPc[p] \in Locked /\ fh[p] = i

\* An inode is reused once no directory entry and no open handle refers to it.
FreeInodes == Inodes \ ({link} \cup {fh[p] : p \in Procs})

\* _read_pid_file: the pid at the path; a missing or empty file reads as none.
ReadPid == IF link = NoInode THEN NoPid ELSE content[link]

\* read_holder: the recorded pid, when os.kill(pid, 0) finds that process.
ReadHolder == IF ReadPid # NoPid /\ lockPc[ReadPid] # "dead" THEN ReadPid ELSE NoPid

Goto(p, label) == lockPc' = [lockPc EXCEPT ![p] = label]

----------------------------------------------------------------------------
(* acquire *)

\* open(path, "r+"), which does not create the file.
OpenExisting(p) ==
    /\ lockPc[p] = "idle"
    /\ fh' = [fh EXCEPT ![p] = link]
    /\ Goto(p, IF link = NoInode THEN "create" ELSE "flock")
    /\ UNCHANGED <<link, content, orphaned>>

\* Mutant: the pid file is made aside and renamed over the path, so that every
\* creator locks an inode of its own.
OpenCreateByRename(p) ==
    /\ lockPc[p] = "create"
    /\ \E i \in FreeInodes :
         /\ link' = i
         /\ content' = [content EXCEPT ![i] = NoPid]
         /\ fh' = [fh EXCEPT ![p] = i]
    /\ Goto(p, "flock")
    /\ UNCHANGED orphaned

\* open(path, "w+") after FileNotFoundError: it creates the file, and it
\* empties the one that somebody else created in the meantime.
OpenCreate(p) ==
    /\ lockPc[p] = "create"
    /\ \E i \in IF link = NoInode THEN FreeInodes ELSE {link} :
         /\ link' = i
         /\ content' = [content EXCEPT ![i] = NoPid]
         /\ fh' = [fh EXCEPT ![p] = i]
    /\ Goto(p, "flock")
    /\ UNCHANGED orphaned

\* Mutant: a shared flock, which any number of handles can have.
TakeSharedFlock(p) ==
    /\ lockPc[p] = "flock"
    /\ Goto(p, "write")
    /\ UNCHANGED <<link, content, fh, orphaned>>

\* flock(LOCK_EX | LOCK_NB) succeeds when no handle on this inode has the lock.
TakeFlock(p) ==
    /\ lockPc[p] = "flock"
    /\ \A q \in Procs : ~HasLock(q, fh[p])
    /\ Goto(p, "write")
    /\ UNCHANGED <<link, content, fh, orphaned>>

\* BlockingIOError: the handle is closed and the recorded pid is reported.
FlockBusy(p) ==
    /\ lockPc[p] = "flock"
    /\ \E q \in Procs : HasLock(q, fh[p])
    /\ fh' = [fh EXCEPT ![p] = NoInode]
    /\ Goto(p, "refused")
    /\ UNCHANGED <<link, content, orphaned>>

\* seek(0); truncate().
TruncatePid(p) ==
    /\ lockPc[p] = "write"
    /\ content' = [content EXCEPT ![fh[p]] = NoPid]
    /\ Goto(p, "record")
    /\ UNCHANGED <<link, fh, orphaned>>

\* write(pid); flush(): the pid reaches the file.
RecordPid(p) ==
    /\ lockPc[p] = "record"
    /\ content' = [content EXCEPT ![fh[p]] = p]
    /\ Goto(p, "held")
    /\ UNCHANGED <<link, fh, orphaned>>

----------------------------------------------------------------------------
(* release *)

\* Closing the handle drops the flock.
CloseHandle(p) ==
    /\ lockPc[p] = "held"
    /\ fh' = [fh EXCEPT ![p] = NoInode]
    /\ Goto(p, "closed")
    /\ UNCHANGED <<link, content, orphaned>>

\* Mutant: release forgets the pid file.
LeavePidFile(p) ==
    /\ lockPc[p] = "closed"
    /\ Goto(p, "released")
    /\ UNCHANGED <<link, content, fh, orphaned>>

\* `if self._read_pid() == os.getpid()`.
ReadOwnPid(p) ==
    /\ lockPc[p] = "closed"
    /\ Goto(p, IF ReadPid = p THEN "unlink" ELSE "released")
    /\ UNCHANGED <<link, content, fh, orphaned>>

\* pid_path.unlink(): it removes the path, whichever inode the path names now.
UnlinkPid(p) ==
    /\ lockPc[p] = "unlink"
    /\ link' = NoInode
    /\ orphaned' = (orphaned \/ \E q \in Procs : fh[q] # NoInode /\ fh[q] = link)
    /\ Goto(p, "released")
    /\ UNCHANGED <<content, fh>>

----------------------------------------------------------------------------
(* the operating system *)

\* The process ends, by SIGKILL, a failure or an ordinary exit; the kernel
\* closes its handles, which drops the flock and leaves the file as it is.
Crash(p) ==
    /\ lockPc[p] # "dead"
    /\ fh' = [fh EXCEPT ![p] = NoInode]
    /\ Goto(p, "dead")
    /\ UNCHANGED <<link, content, orphaned>>

\* A later process is given a pid that is free again.
Spawn(p) ==
    /\ lockPc[p] = "dead"
    /\ Goto(p, "idle")
    /\ UNCHANGED <<link, content, fh, orphaned>>

Acquire(p) == \/ OpenExisting(p) \/ OpenCreate(p) \/ TakeFlock(p) \/ FlockBusy(p)
              \/ TruncatePid(p) \/ RecordPid(p)
Release(p) == CloseHandle(p) \/ ReadOwnPid(p) \/ UnlinkPid(p)

Next == \E p \in Procs : Acquire(p) \/ Release(p) \/ Crash(p) \/ Spawn(p)

Spec == Init /\ [][Next]_lockVars

----------------------------------------------------------------------------
(* properties *)

\* What lock.py's header promises: "at most one watcher ... runs per project".
\* The code breaks it, because release unlinks a path whose inode another
\* process may already have open (or locked, with its pid not yet written).
MutualExclusion ==
    \A p, q \in Procs : lockPc[p] = "held" /\ lockPc[q] = "held" => p = q

\* Mutual exclusion fails in that one way only: while no release has unlinked a
\* file that another process had open, the r+/w+ fallback, two processes that
\* create the file at once, refusals, kills and recycled pids never let two
\* processes through.
ExclusionUnlessOrphaned == orphaned \/ MutualExclusion

\* The pid file of a holder names that holder or nobody, so --stop, which
\* signals the pid it reads there, never signals some other process in its stead.
PidFileNamesNoOther ==
    \A p \in Procs : lockPc[p] = "held" => content[fh[p]] \in {p, NoPid}

\* A process that has returned from release is not named by the pid file, so
\* read_holder and is_daemon_alive do not report it while it finishes.
ReleasedIsNotNamed ==
    \A p \in Procs : lockPc[p] = "released" /\ link # NoInode => content[link] # p

\* flock excludes per inode: two processes past flock on one inode are the same.
InodeExclusion ==
    \A p, q \in Procs :
        lockPc[p] \in Locked /\ lockPc[q] \in Locked /\ fh[p] = fh[q] => p = q

\* Until an unlink orphans it, every open handle is on the file at the path.
HandlesOnLink ==
    orphaned \/ \A p \in Procs : fh[p] # NoInode => fh[p] = link

\* A handle is open exactly between a successful open and the close.
HandleMatchesPc ==
    \A p \in Procs : fh[p] # NoInode <=> lockPc[p] \in Opened

\* The inductive invariant.
IInv ==
    /\ TypeOK
    /\ HandleMatchesPc
    /\ InodeExclusion
    /\ HandlesOnLink
    /\ PidFileNamesNoOther
    /\ ReleasedIsNotNamed
============================================================================
