----------------------------- MODULE MCWatchLive -----------------------------
(***************************************************************************)
(* What a watch process must do in the end, for TLC: the daemons of a project  *)
(* that nobody kills, the source watcher inside one, on a graph-only install,   *)
(* or the relay of a subprocess that it runs.  They share no state here: a      *)
(* behaviour is of one of them.                                              *)
(***************************************************************************)
EXTENDS SourceWatcher, WatchDaemon

CONSTANTS p1, p2, i1, i2, java

VARIABLES part, filter, script, ended, child, unwritten, outLeft, outPipe, errPipe, outBuf, errBuf, outDrain, errDrain,
    held, suppress, shown, relayed, main

Relay == INSTANCE PipelineRelay WITH MaxLines <- 1, MaxOut <- 1, PipeSize <- 1, events <- relayed

relayVars == <<filter, script, ended, child, unwritten, outLeft, outPipe, errPipe, outBuf, errBuf, outDrain, errDrain,
                 held, suppress, shown, relayed, main>>
liveVars  == <<part, vars, daemonVars, relayVars>>

\* One source file, called by its language.
MCKindOf == [f \in SourceFiles |-> f]

\* A watcher that was stopped before anything changed.
WatcherRests ==
    /\ disk = NoVersions /\ overlooked = {} /\ unembedded = {}
    /\ torn = {} /\ inProgress = FALSE /\ needsFull = FALSE
    /\ events = {} /\ hand = {} /\ observer = "stopped"
    /\ pending = {} /\ activity = TRUE
    /\ stop = TRUE /\ stopper = "returned"
    /\ worker = "exited" /\ kinds = {} /\ scope = {} /\ vectorsOk = TRUE /\ graphOk = TRUE
    /\ taken = disk /\ base = disk /\ parsed = disk /\ vectors = disk /\ graph = disk /\ hashes = disk /\ reported = disk

\* A relay that was interrupted, and its child gone.
RelayRests ==
    /\ filter = "none" /\ script = <<>> /\ ended = TRUE
    /\ child = "gone" /\ unwritten = <<>> /\ outLeft = 0 /\ outPipe = <<>> /\ errPipe = <<>>
    /\ outBuf = <<>> /\ errBuf = <<>> /\ outDrain = "eof" /\ errDrain = "eof"
    /\ held = <<>> /\ suppress = FALSE /\ shown = <<>> /\ relayed = <<>>
    /\ main = "raised"

LiveInit ==
    /\ DaemonInit
    /\ part \in {"daemons", "watcher", "relay"}
    /\ IF part = "watcher" THEN Init ELSE WatcherRests
    /\ IF part = "relay" THEN Relay!Init ELSE RelayRests

LiveNext ==
    /\ UNCHANGED part
    /\ \/ part = "daemons" /\ DaemonNext /\ UNCHANGED <<vars, relayVars>>
       \/ part = "watcher" /\ Next /\ UNCHANGED <<daemonVars, relayVars>>
       \/ part = "relay" /\ Relay!Next /\ UNCHANGED <<vars, daemonVars>>

LiveSpec ==
    /\ LiveInit /\ [][LiveNext]_liveVars
    /\ \A p \in Procs : WF_daemonVars(RunForeground(p) \/ Shutdown(p))
    /\ WorkersRun
    /\ Relay!Fairness

RelayEnds == Relay!RelayEnds
=============================================================================
