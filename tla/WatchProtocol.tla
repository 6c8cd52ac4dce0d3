---------------------------- MODULE WatchProtocol ----------------------------
(***************************************************************************)
(* One read command of `jrag` against the `jrag watch` daemon: get_payload     *)
(* and request of watch/client.py, WatchServer of watch/server.py, over one    *)
(* AF_UNIX stream socket, with the codec of watch/protocol.py.                *)
(*                                                                         *)
(* The daemon accepts one connection at a time and handles it to its end; the  *)
(* others wait in the listen backlog.  It reads without a timeout.  Every      *)
(* client has a timeout on each socket operation and a cold path of its own.   *)
(* The daemon can be shut down, crash, restart, and speak another protocol     *)
(* version than the client.                                                  *)
(*                                                                         *)
(* A line in transit is "none", "part" (some of its bytes) or "line".          *)
(***************************************************************************)
EXTENDS Naturals, Sequences, FiniteSets

CONSTANTS
    Clients,    \* invocations of a read command
    Sound,      \* those whose request the payload core answers with a payload
    NoClient,
    Capacity    \* connections the kernel queues for listen(8)

ASSUME SoundAssumption == Sound \subseteq Clients
ASSUME NoClientAssumption == NoClient \notin Clients
ASSUME CapacityAssumption == Capacity \in Nat \ {0}

VARIABLES
    daemon,     \* "off", "starting", "serving", "closing" (listener closed)
    sameVersion,\* the daemon's PROTOCOL_VERSION is the client's
    socketFile, \* what the socket path names: "none", "dead", "live"
    listening,  \* the kernel still queues connections for the listener
    backlog,    \* clients connected and not accepted
    conn,       \* the client whose connection is handled
    stage,      \* where the accept thread is: "accept", "read", "reply", "ended"
    at,         \* where each client is
    up, down,   \* the request and the response line in transit
    reply,      \* the response to each client: "none", "ok", "error", "foreign"
    hungup,     \* clients whose connection the daemon's side has closed
    output,     \* what each client printed
    queriesServed,  \* the daemon's counter
    thisRun     \* history: clients to which this daemon sent an ok response

daemonVars == <<daemon, sameVersion, socketFile>>
serverVars == <<listening, backlog, conn, stage>>
clientVars == <<at, output>>
lineVars   == <<up, down, reply, hungup>>
countVars  == <<queriesServed, thisRun>>
vars == <<daemonVars, serverVars, clientVars, lineVars, countVars>>

Pieces     == {"none", "part", "line"}
Connected  == {"send", "await"}
ClientPcs  == {"idle", "connect", "cold", "done"} \cup Connected

TypeOK ==
    /\ daemon \in {"off", "starting", "serving", "closing"}
    /\ sameVersion \in BOOLEAN
    /\ socketFile \in {"none", "dead", "live"}
    /\ listening \in BOOLEAN
    /\ backlog \in Seq(Clients)
    /\ conn \in Clients \cup {NoClient}
    /\ stage \in {"accept", "read", "reply", "ended"}
    /\ at \in [Clients -> ClientPcs]
    /\ up \in [Clients -> Pieces]
    /\ down \in [Clients -> Pieces]
    /\ reply \in [Clients -> {"none", "ok", "error", "foreign"}]
    /\ hungup \in SUBSET Clients
    /\ output \in [Clients -> {"none", "payload", "error"}]
    /\ queriesServed \in Nat
    /\ thisRun \in SUBSET Clients

Init ==
    /\ daemon = "off" /\ sameVersion = TRUE /\ socketFile = "none"
    /\ listening = FALSE /\ backlog = <<>> /\ conn = NoClient /\ stage = "ended"
    /\ at = [c \in Clients |-> "idle"]
    /\ output = [c \in Clients |-> "none"]
    /\ up = [c \in Clients |-> "none"]
    /\ down = [c \in Clients |-> "none"]
    /\ reply = [c \in Clients |-> "none"]
    /\ hungup = {}
    /\ queriesServed = 0 /\ thisRun = {}

----------------------------------------------------------------------------
(* The client: request and get_payload *)

\* What the payload core answers: the daemon's and the client's are taken to agree.
Core(c) == IF c \in Sound THEN "payload" ELSE "error"

Goto(c, from, to) == at[c] \in from /\ at' = [at EXCEPT ![c] = to]

\* is_daemon_alive: the socket exists and the recorded holder is a live process.
\* A daemon that is still starting is one.
Alive == socketFile # "none" /\ daemon # "off"

Probe(c) ==
    /\ Goto(c, {"idle"}, IF Alive THEN "connect" ELSE "cold")
    /\ UNCHANGED <<daemonVars, serverVars, output, lineVars, countVars>>

Connect(c) ==
    LET accepted == socketFile = "live" /\ listening /\ Len(backlog) < Capacity
    IN  /\ Goto(c, {"connect"}, IF accepted THEN "send" ELSE "cold")
        /\ backlog' = IF accepted THEN Append(backlog, c) ELSE backlog
        /\ UNCHANGED <<daemonVars, listening, conn, stage, output, lineVars, countVars>>

\* sendall(encode_request(...)), which may go out in pieces.
Send(c, piece) ==
    /\ at[c] = "send" /\ c \notin hungup
    /\ up[c] = "none" \/ piece = "line"
    /\ up' = [up EXCEPT ![c] = piece]
    /\ at' = IF piece = "line" THEN [at EXCEPT ![c] = "await"] ELSE at
    /\ UNCHANGED <<daemonVars, serverVars, output, down, reply, hungup, countVars>>

SendFails(c) ==
    /\ c \in hungup
    /\ Goto(c, {"send"}, "cold")
    /\ UNCHANGED <<daemonVars, serverVars, output, lineVars, countVars>>

\* settimeout(_DAEMON_TIMEOUT) is per socket operation; it raises an OSError.
TimeOut(c) ==
    /\ Goto(c, {"connect", "send", "await"}, "cold")
    /\ UNCHANGED <<daemonVars, serverVars, output, lineVars, countVars>>

Deliver(c, what) == output' = [output EXCEPT ![c] = what]

\* The line is complete.  decode_response refuses a "foreign" one, which speaks
\* another protocol version; then request tests ok.
Usable(c) == reply[c] = "ok"

\* Mutant: DaemonError is rendered instead of falling back.
ReceiveError(c) ==
    /\ down[c] = "line"
    /\ Goto(c, {"await"}, "done")
    /\ Deliver(c, IF Usable(c) THEN "payload" ELSE "error")
    /\ UNCHANGED <<daemonVars, serverVars, lineVars, countVars>>

Receive(c) ==
    /\ down[c] = "line"
    /\ Goto(c, {"await"}, IF Usable(c) THEN "done" ELSE "cold")
    /\ IF Usable(c) THEN Deliver(c, "payload") ELSE UNCHANGED output
    /\ UNCHANGED <<daemonVars, serverVars, lineVars, countVars>>

\* End of file or a reset before the newline: a blank or partial line.
ReceiveEof(c) ==
    /\ c \in hungup /\ down[c] # "line"
    /\ Goto(c, {"await"}, "cold")
    /\ UNCHANGED <<daemonVars, serverVars, output, lineVars, countVars>>

Cold(c) ==
    /\ Goto(c, {"cold"}, "done")
    /\ Deliver(c, Core(c))
    /\ UNCHANGED <<daemonVars, serverVars, lineVars, countVars>>

Client(c) ==
    \/ Probe(c) \/ Connect(c) \/ SendFails(c) \/ TimeOut(c)
    \/ \E piece \in {"part", "line"} : Send(c, piece)
    \/ Receive(c) \/ ReceiveEof(c) \/ Cold(c)

\* The client's end of the connection is closed (request's `with`).
Gone(c) == at[c] \notin Connected

----------------------------------------------------------------------------
(* The accept thread: serve and _handle *)

\* The sockets in the backlog are reset when the kernel lets the listener go.
Unlisten(waiting) ==
    /\ listening' = FALSE
    /\ backlog' = <<>>
    /\ hungup' = hungup \cup {waiting[i] : i \in DOMAIN waiting}

\* A thread that was inside accept when the listener was closed still takes one
\* connection; then it sees _stopping.
Accept ==
    /\ stage = "accept" /\ listening /\ backlog # <<>>
    /\ conn' = Head(backlog)
    /\ stage' = "read"
    /\ IF daemon = "closing"
         THEN Unlisten(Tail(backlog))
         ELSE backlog' = Tail(backlog) /\ UNCHANGED <<listening, hungup>>
    /\ UNCHANGED <<daemonVars, clientVars, up, down, reply, countVars>>

\* recv returned a chunk that completes the line: _respond_to_line.  A request of
\* another version is refused.  A payload core of the daemon can fail where the
\* client's own does not.  on_query runs before the response is sent.
Dispatch ==
    /\ stage = "read" /\ up[conn] = "line"
    /\ up' = [up EXCEPT ![conn] = "none"]
    /\ stage' = "reply"
    /\ \/ /\ sameVersion /\ conn \in Sound
          /\ reply' = [reply EXCEPT ![conn] = "ok"]
          /\ queriesServed' = queriesServed + 1
       \/ /\ reply' = [reply EXCEPT ![conn] = IF sameVersion THEN "error" ELSE "foreign"]
          /\ UNCHANGED queriesServed
    /\ UNCHANGED <<daemonVars, listening, backlog, conn, clientVars, down, hungup, thisRun>>

\* sendall(encode_response(...)): blocks in the middle of a long line until the
\* peer reads on.
Reply(piece) ==
    /\ stage = "reply" /\ ~Gone(conn)
    /\ down[conn] = "none" \/ piece = "line"
    /\ down' = [down EXCEPT ![conn] = piece]
    /\ stage' = IF piece = "line" THEN "read" ELSE stage
    /\ thisRun' = IF piece = "line" /\ reply[conn] = "ok" THEN thisRun \cup {conn} ELSE thisRun
    /\ UNCHANGED <<daemonVars, listening, backlog, conn, clientVars, up, reply, hungup, queriesServed>>

\* Mutant: an empty chunk is appended like any other, so a peer's close is missed.
HangupMissed ==
    /\ stage = "reply" /\ Gone(conn)
    /\ hungup' = hungup \cup {conn}
    /\ conn' = NoClient
    /\ stage' = IF daemon = "closing" THEN "ended" ELSE "accept"
    /\ UNCHANGED <<daemonVars, listening, backlog, clientVars, up, down, reply, countVars>>

\* The peer is gone (sendall fails), or closed its end with no complete line left
\* in the buffer: _handle returns and serve closes the connection, for its next
\* accept unless _stopping is set.
Hangup ==
    /\ \/ stage = "read" /\ up[conn] # "line" /\ Gone(conn)
       \/ stage = "reply" /\ Gone(conn)
    /\ hungup' = hungup \cup {conn}
    /\ conn' = NoClient
    /\ stage' = IF daemon = "closing" THEN "ended" ELSE "accept"
    /\ UNCHANGED <<daemonVars, listening, backlog, clientVars, up, down, reply, countVars>>

\* Mutant: the close is not in a finally clause.
HandlerRaisesOpen ==
    /\ stage = "reply" /\ reply[conn] = "ok" /\ down[conn] = "none"
    /\ conn' = NoClient
    /\ stage' = IF daemon = "closing" THEN "ended" ELSE "accept"
    /\ UNCHANGED <<daemonVars, listening, backlog, clientVars, lineVars, countVars>>

\* The response cannot be encoded: the exception leaves _handle, serve logs it,
\* closes the connection and goes on.
HandlerRaises ==
    /\ stage = "reply" /\ reply[conn] = "ok" /\ down[conn] = "none"
    /\ hungup' = hungup \cup {conn}
    /\ conn' = NoClient
    /\ stage' = IF daemon = "closing" THEN "ended" ELSE "accept"
    /\ UNCHANGED <<daemonVars, listening, backlog, clientVars, up, down, reply, countVars>>

AcceptThread ==
    \/ Accept \/ Dispatch \/ Hangup \/ HandlerRaises
    \/ \E piece \in {"part", "line"} : Reply(piece)

----------------------------------------------------------------------------
(* The daemon around it *)

\* The lock is taken and the pid file written; the installed version is read once.
StartDaemon ==
    /\ daemon = "off"
    /\ daemon' = "starting"
    /\ sameVersion' \in BOOLEAN
    /\ queriesServed' = 0 /\ thisRun' = {}
    /\ UNCHANGED <<socketFile, serverVars, clientVars, lineVars>>

\* start: the stale socket is unlinked, bind, listen, the accept thread starts.
StartServer ==
    /\ daemon = "starting"
    /\ daemon' = "serving" /\ socketFile' = "live"
    /\ listening' = TRUE /\ stage' = "accept"
    /\ UNCHANGED <<sameVersion, backlog, conn, clientVars, lineVars, countVars>>

\* shutdown closes the listener.  The kernel keeps it while the accept thread is
\* inside accept, and only then; a thread on its way to accept finds it closed.
Shutdown ==
    /\ daemon = "serving"
    /\ daemon' = "closing"
    /\ \/ stage = "accept" /\ UNCHANGED <<listening, backlog, stage, hungup>>
       \/ Unlisten(backlog) /\ stage' = IF stage = "accept" THEN "ended" ELSE stage
    /\ UNCHANGED <<sameVersion, socketFile, conn, clientVars, up, down, reply, countVars>>

\* Every connection of the process is closed with it.
Vanish ==
    /\ daemon' = "off"
    /\ listening' = FALSE /\ backlog' = <<>> /\ conn' = NoClient /\ stage' = "ended"
    /\ hungup' = hungup \cup {backlog[i] : i \in DOMAIN backlog} \cup ({conn} \ {NoClient})
    /\ UNCHANGED <<sameVersion, clientVars, up, down, reply, countVars>>

\* The join ended or timed out (the accept thread is a daemon thread), the socket
\* file was removed and the process exits.
Exit == daemon = "closing" /\ socketFile' = "none" /\ Vanish

Crash ==
    /\ daemon # "off"
    /\ socketFile' = IF socketFile = "none" THEN "none" ELSE "dead"
    /\ Vanish

Daemon == StartDaemon \/ StartServer \/ Shutdown \/ Exit \/ Crash

----------------------------------------------------------------------------
Next == (\E c \in Clients : Client(c)) \/ AcceptThread \/ Daemon

\* A client process that is not stopped runs on: its timeouts fire.  The accept
\* thread runs while its process does.
Fairness == (\A c \in Clients : WF_vars(Client(c))) /\ WF_vars(AcceptThread)

Spec == Init /\ [][Next]_vars /\ Fairness

----------------------------------------------------------------------------
(* What the protocol promises *)

Promise == INSTANCE ReadCommand WITH answer <- output

\* Whatever happens to the daemon, each read command ends, once, with the answer
\* its own core gives (client.py: "never changes observable output").
ImplementsReadCommand == Promise!Spec

\* The counter that `--status` shows is never behind what this daemon's clients
\* have been sent (on_query runs before sendall, and a client that left in
\* between is counted).
CountedBeforeSent == Cardinality(thisRun) <= queriesServed

\* A client whose connection is neither queued, handled nor closed would wait for
\* its timeout: there is none.
NobodyForgotten ==
    \A c \in Clients :
        at[c] \in Connected => \/ c = conn
                               \/ c \in hungup
                               \/ \E i \in DOMAIN backlog : backlog[i] = c

\* The handler of one connection ends, so the next one in the backlog gets its
\* turn (or the daemon is gone), although the daemon reads without a timeout.
HandlerEnds == (conn # NoClient) ~> (conn = NoClient)
=============================================================================
