----------------------------- MODULE WatchDaemon -----------------------------
(***************************************************************************)
(* The life of `jrag watch` daemons of one project (watch/daemon.py) and of   *)
(* the `jrag watch --stop` verb (jrag.py), over the project lock: what they    *)
(* do to the socket and the state file, which are found by their paths, and    *)
(* to the reindex, whose thread and builder subprocess outlive a watcher that   *)
(* does not wait for them.                                                   *)
(*                                                                         *)
(* A process here is one `jrag watch`; the lock it uses is ProjectLock's, step  *)
(* by step.                                                                  *)
(***************************************************************************)
CONSTANTS
    Procs,
    Inodes,
    NoPid,      \* also: nothing at a path
    NoInode,
    StopVerbs   \* somebody uses `jrag watch --stop` (bounds TLC's liveness run)

ASSUME NoPidAssumption == NoPid \notin Procs
ASSUME NoInodeAssumption == NoInode \notin Inodes
ASSUME StopVerbsAssumption == StopVerbs \in BOOLEAN

VARIABLES
    link, content, fh, lockPc, orphaned,    \* the project lock
    daemon,      \* where each process is in run_foreground or _shutdown
    flagged,     \* processes whose _stop flag is set
    socketFile,  \* the process whose socket the socket path names
    stateFile,   \* the process that wrote the state file
    reindexing,  \* processes with a reindex that still runs: the thread, or the builder alone
    outlived,    \* history: processes whose reindex outlived watcher.stop
    unloaded,    \* history: processes whose model did not load
    verb,        \* where `jrag watch --stop` is
    target       \* the pid it read

Lock == INSTANCE ProjectLock

lockVars == <<link, content, fh, lockPc, orphaned>>
fileVars == <<socketFile, stateFile>>
verbVars == <<verb, target>>
reindexVars == <<reindexing, outlived, unloaded>>
daemonVars == <<lockVars, daemon, flagged, fileVars, reindexVars, verbVars>>

Starting   == {"locking", "warming", "unlinkstale", "bind", "watch", "state"}
Listening  == {"watch", "state", "serving", "joining", "closing", "unwind"}
Watching   == {"state", "serving", "joining"}
NoHandlers == {"locking", "warming"}
DaemonPcs  == Starting \cup Listening \cup
                {"off", "release", "giveup", "rmsock", "rmstate", "exit", "exited", "killed"}
VerbPcs    == {"idle", "term", "poll", "kill", "rmsock", "rmstate"}

DaemonTypeOK ==
    /\ Lock!TypeOK
    /\ daemon \in [Procs -> DaemonPcs]
    /\ flagged \in SUBSET Procs
    /\ socketFile \in Procs \cup {NoPid}
    /\ stateFile \in Procs \cup {NoPid}
    /\ reindexing \in SUBSET Procs
    /\ outlived \in SUBSET Procs
    /\ unloaded \in SUBSET Procs
    /\ verb \in VerbPcs
    /\ target \in Procs \cup {NoPid}

DaemonInit ==
    /\ Lock!Init
    /\ daemon = [p \in Procs |-> "off"]
    /\ flagged = {}
    /\ socketFile = NoPid
    /\ stateFile = NoPid
    /\ reindexing = {}
    /\ outlived = {}
    /\ unloaded = {}
    /\ verb = "idle"
    /\ target = NoPid

Alive(p) == daemon[p] \notin {"off", "exited", "killed"}

Move(p, from, to) == daemon[p] = from /\ daemon' = [daemon EXCEPT ![p] = to]

\* What a step of run_foreground leaves alone besides the lock and the files.
Others == UNCHANGED <<flagged, reindexVars, verbVars>>

\* _record, and the writes of the state: throttled, and a failure is only logged.
Record(p) == stateFile' \in {stateFile, p}

----------------------------------------------------------------------------
(* run_foreground *)

Launch(p) ==
    /\ Move(p, "off", "locking")
    /\ UNCHANGED <<lockVars, fileVars>> /\ Others

\* Mutant: the lock is waited for instead of refused.
AcquireBlocking(p) ==
    /\ daemon[p] = "locking"
    /\ Lock!Acquire(p)
    /\ lockPc'[p] # "refused"
    /\ daemon' = [daemon EXCEPT ![p] = IF lockPc'[p] = "held" THEN "warming" ELSE @]
    /\ UNCHANGED fileVars /\ Others

AcquireLock(p) ==
    /\ daemon[p] = "locking"
    /\ Lock!Acquire(p)
    /\ daemon' = [daemon EXCEPT ![p] =
           CASE lockPc'[p] = "held"    -> "warming"
             [] lockPc'[p] = "refused" -> "exit"      \* index in use: return 2
             [] OTHER                  -> "locking"]
    /\ UNCHANGED fileVars /\ Others

\* The model is loaded, or there is none to load; then the signal handlers.
WarmModel(p) ==
    /\ Move(p, "warming", "unlinkstale")
    /\ UNCHANGED <<lockVars, fileVars>> /\ Others

\* The model does not load: the error is recorded; lock.release, return 2, no cleanup.
ModelFails(p) ==
    /\ Move(p, "warming", "giveup")
    /\ Record(p)
    /\ unloaded' = unloaded \cup {p}
    /\ UNCHANGED <<lockVars, flagged, socketFile, reindexing, outlived, verbVars>>

UnlinkStaleSocket(p) ==
    /\ Move(p, "unlinkstale", "bind")
    /\ socketFile' = NoPid
    /\ UNCHANGED <<lockVars, stateFile>> /\ Others

\* server.start: a socket file is unlinked first when the pid file names no one alive.
BindSocket(p) ==
    /\ socketFile = NoPid \/ Lock!ReadHolder = NoPid
    /\ Move(p, "bind", "watch")
    /\ socketFile' = p
    /\ UNCHANGED <<lockVars, stateFile>> /\ Others

\* bind raises (address in use, or otherwise): lock.release, cleanup, return 2.
BindFails(p) ==
    /\ Move(p, "bind", "release")
    /\ UNCHANGED <<lockVars, fileVars>> /\ Others

\* A native observer that does not start is recorded before the polling one is tried.
StartWatcher(p) ==
    /\ Move(p, "watch", "state")
    /\ Record(p)
    /\ UNCHANGED <<lockVars, socketFile>> /\ Others

\* No observer starts: server.shutdown, cleanup, lock.release, return 2.
WatcherFails(p) ==
    /\ Move(p, "watch", "unwind")
    /\ Record(p)
    /\ UNCHANGED <<lockVars, socketFile>> /\ Others

WriteState(p) ==
    /\ Move(p, "state", "serving")
    /\ Record(p)
    /\ UNCHANGED <<lockVars, socketFile>> /\ Others

----------------------------------------------------------------------------
(* the watcher's reindex, and what it records *)

\* indexing_started
BeginReindex(p) ==
    /\ daemon[p] \in Watching
    /\ reindexing' = reindexing \cup {p}
    /\ Record(p)
    /\ UNCHANGED <<lockVars, daemon, flagged, socketFile, outlived, unloaded, verbVars>>

\* Between its phases the reindex records, and the serve loop has its heartbeat.
RecordProgress(p) ==
    /\ Alive(p)
    /\ p \in reindexing \/ daemon[p] = "serving"
    /\ Record(p)
    /\ UNCHANGED <<lockVars, daemon, flagged, socketFile, reindexVars, verbVars>>

\* Its outcome is recorded; the builder of a dead process just ends.
EndReindex(p) ==
    /\ p \in reindexing
    /\ reindexing' = reindexing \ {p}
    /\ Record(p) /\ (Alive(p) \/ UNCHANGED stateFile)
    /\ UNCHANGED <<lockVars, daemon, flagged, socketFile, outlived, unloaded, verbVars>>

----------------------------------------------------------------------------
(* _shutdown *)

BeginShutdown(p) ==
    /\ p \in flagged
    /\ Move(p, "serving", "joining")
    /\ UNCHANGED <<lockVars, fileVars>> /\ Others

\* Mutant: the join has no timeout.
JoinForever(p) ==
    /\ p \notin reindexing
    /\ Move(p, "joining", "closing")
    /\ UNCHANGED <<lockVars, flagged, fileVars, reindexVars, verbVars>>

\* watcher.stop returns, because the worker ended or because its join timed out.
WatcherStopped(p) ==
    /\ Move(p, "joining", "closing")
    /\ outlived' = outlived \cup ({p} \cap reindexing)
    /\ UNCHANGED <<lockVars, flagged, fileVars, reindexing, unloaded, verbVars>>

\* server.shutdown, of a daemon that stops or of one whose watcher did not start.
CloseServer(p) ==
    /\ Move(p, "closing", "release") \/ Move(p, "unwind", "rmsock")
    /\ UNCHANGED <<lockVars, fileVars>> /\ Others

\* Mutant: the lock is released before the server is shut down.
ReleaseBeforeClose(p) ==
    /\ daemon[p] \in {"closing", "giveup"}
    /\ Lock!Release(p)
    /\ daemon' = [daemon EXCEPT ![p] =
           IF lockPc'[p] # "released" THEN @
           ELSE IF @ = "closing" THEN "unwind" ELSE "exit"]
    /\ UNCHANGED fileVars /\ Others

\* lock.release: cleanup comes after it, except when it was the last thing to do.
ReleaseLock(p) ==
    /\ daemon[p] \in {"release", "giveup"}
    /\ Lock!Release(p)
    /\ daemon' = [daemon EXCEPT ![p] =
           IF lockPc'[p] # "released" THEN @
           ELSE IF @ = "release" THEN "rmsock" ELSE "exit"]
    /\ UNCHANGED fileVars /\ Others

\* Mutant: cleanup forgets the socket.
KeepSocket(p) ==
    /\ Move(p, "rmsock", "rmstate")
    /\ UNCHANGED <<lockVars, fileVars>> /\ Others

\* _cleanup_runtime_files: the socket path, ...
RemoveSocket(p) ==
    /\ Move(p, "rmsock", "rmstate")
    /\ socketFile' = NoPid
    /\ UNCHANGED <<lockVars, stateFile>> /\ Others

\* ... then the state path, whoever's they are now.
RemoveState(p) ==
    /\ Move(p, "rmstate", IF lockPc[p] = "held" THEN "giveup" ELSE "exit")
    /\ stateFile' = NoPid
    /\ UNCHANGED <<lockVars, socketFile>> /\ Others

\* os._exit(0) or return 2.
Exit(p) ==
    /\ Move(p, "exit", "exited")
    /\ Lock!Crash(p)
    /\ UNCHANGED fileVars /\ Others

----------------------------------------------------------------------------
(* signals *)

Kill(p) ==
    /\ Alive(p)
    /\ Lock!Crash(p)
    /\ daemon' = [daemon EXCEPT ![p] = "killed"]

\* SIGTERM or SIGINT: before the handlers are installed it ends the process.
Terminate(p) ==
    \/ daemon[p] \in NoHandlers /\ Kill(p) /\ UNCHANGED flagged
    \/ /\ Alive(p) /\ daemon[p] \notin NoHandlers
       /\ flagged' = flagged \cup {p}
       /\ UNCHANGED <<lockVars, daemon>>

\* Ctrl-C, or the operating system.
Interrupt(p) ==
    /\ Terminate(p)
    /\ UNCHANGED <<fileVars, reindexVars, verbVars>>

CrashDaemon(p) ==
    /\ Kill(p)
    /\ UNCHANGED <<fileVars, flagged, reindexVars, verbVars>>

----------------------------------------------------------------------------
(* jrag watch --stop *)

\* read_holder: with no daemon to stop, only the leftovers are removed.
StopReadsHolder ==
    /\ StopVerbs
    /\ verb = "idle"
    /\ target' = Lock!ReadHolder
    /\ verb' = IF Lock!ReadHolder = NoPid THEN "rmsock" ELSE "term"
    /\ UNCHANGED <<lockVars, daemon, flagged, fileVars, reindexVars>>

StopTerminates ==
    /\ verb = "term"
    /\ verb' = "poll"
    /\ IF Alive(target) THEN Terminate(target) ELSE UNCHANGED <<lockVars, daemon, flagged>>
    /\ UNCHANGED <<fileVars, reindexVars, target>>

\* The socket is gone, the daemon is gone, or five seconds are over.
StopPolled ==
    /\ verb = "poll"
    /\ verb' = "kill"
    /\ UNCHANGED <<lockVars, daemon, flagged, fileVars, reindexVars, target>>

StopKills ==
    /\ verb = "kill"
    /\ verb' = "rmsock"
    /\ IF Alive(target) THEN Kill(target) ELSE UNCHANGED <<lockVars, daemon>>
    /\ UNCHANGED <<flagged, fileVars, reindexVars, target>>

StopRemovesSocket ==
    /\ verb = "rmsock"
    /\ verb' = "rmstate"
    /\ socketFile' = NoPid
    /\ UNCHANGED <<lockVars, daemon, flagged, stateFile, reindexVars, target>>

StopRemovesState ==
    /\ verb = "rmstate"
    /\ verb' = "idle"
    /\ stateFile' = NoPid
    /\ target' = NoPid
    /\ UNCHANGED <<lockVars, daemon, flagged, socketFile, reindexVars>>

----------------------------------------------------------------------------
RunForeground(p) ==
    \/ AcquireLock(p) \/ WarmModel(p) \/ ModelFails(p) \/ UnlinkStaleSocket(p)
    \/ BindSocket(p) \/ BindFails(p) \/ StartWatcher(p) \/ WatcherFails(p) \/ WriteState(p)

Shutdown(p) ==
    \/ BeginShutdown(p) \/ WatcherStopped(p) \/ CloseServer(p) \/ ReleaseLock(p)
    \/ RemoveSocket(p) \/ RemoveState(p) \/ Exit(p)

StopVerb ==
    \/ StopReadsHolder \/ StopTerminates \/ StopPolled \/ StopKills
    \/ StopRemovesSocket \/ StopRemovesState

DaemonNext ==
    \/ \E p \in Procs :
         \/ Launch(p) \/ RunForeground(p) \/ Shutdown(p)
         \/ BeginReindex(p) \/ RecordProgress(p) \/ EndReindex(p) \/ Interrupt(p) \/ CrashDaemon(p)
    \/ StopVerb

DaemonSpec == DaemonInit /\ [][DaemonNext]_daemonVars

\* A daemon's main thread runs on, and watcher.stop returns.  Nothing makes a
\* reindex end, a signal arrive or a file path be free.
FairDaemonSpec == DaemonSpec /\ \A p \in Procs : WF_daemonVars(RunForeground(p) \/ Shutdown(p))

----------------------------------------------------------------------------
(* properties *)

\* The socket a starting daemon clears is a corpse: no daemon that could still
\* accept on it exists, unless the lock itself failed to exclude.
StaleIsCorpse ==
    ~orphaned => \A p \in Procs :
        daemon[p] = "unlinkstale" /\ socketFile # NoPid => daemon[socketFile] \notin Listening

\* No leftover blocks a start: bind finds the path free, unless the lock failed.
BindFindsPathFree ==
    ~orphaned => \A p \in Procs : daemon[p] = "bind" => socketFile = NoPid

\* A daemon that starts meets no other: it clears the socket of none that could accept, and binds a free path.
StartMeetsNoDaemon == StaleIsCorpse /\ BindFindsPathFree

\* A daemon that went through its own exit leaves neither socket nor state file
\* behind: a state file only when its reindex outlived the join and wrote late, or
\* when its model did not load, which is recorded and not cleaned up.
ExitLeavesNothing ==
    \A p \in Procs : daemon[p] = "exited" =>
        socketFile # p /\ (stateFile = p => p \in outlived \cup unloaded)

\* A daemon told to stop ends, whatever its reindex does.
TermEndsDaemon == \A p \in Procs : p \in flagged ~> ~Alive(p)

\* A launched process ends up serving or ends: nothing left by others wedges it.
StartIsDecided == \A p \in Procs : daemon[p] \in Starting ~> daemon[p] = "serving" \/ ~Alive(p)

----------------------------------------------------------------------------
(* the inductive invariant *)

\* Where a daemon is between acquire and the beginning of release.
Holding == {"warming", "unlinkstale", "bind", "watch", "state", "serving",
            "joining", "closing", "unwind"}

\* The verb has a target while it terminates, waits and kills.
VerbHasTarget == verb \in {"term", "poll", "kill"} => target \in Procs

HoldingIsHeld == \A p \in Procs : daemon[p] \in Holding => lockPc[p] = "held"

\* The socket at the path is of a daemon that has bound and has not cleaned up.
SocketOwner ==
    \A p \in Procs : socketFile = p => daemon[p] \in Listening \cup {"release", "rmsock", "killed"}

\* Beyond watcher.stop, only a reindex that outlived it still runs ...
LateReindex ==
    \A p \in reindexing : daemon[p] \in Watching \cup {"killed"} \/ p \in outlived

\* ... and only such a reindex brings the state file back, or a model that did not load.
StateOwner ==
    \A p \in Procs : stateFile = p =>
        \/ daemon[p] \in Listening \cup {"release", "rmsock", "rmstate", "killed"}
        \/ p \in outlived \cup unloaded

DaemonInv ==
    /\ DaemonTypeOK
    /\ VerbHasTarget
    /\ HoldingIsHeld
    /\ SocketOwner
    /\ LateReindex
    /\ StateOwner
    /\ BindFindsPathFree
============================================================================
