------------------------- MODULE WatchProtocolProofs -------------------------
(***************************************************************************)
(* The safety half of WatchProtocol: its invariants, and that every step of    *)
(* clients, server and daemon is a step of ReadCommand or leaves what was      *)
(* printed alone.  That each command ends (ReadCommand's fairness) is TLC's.   *)
(***************************************************************************)
EXTENDS WatchProtocol, FiniteSetTheorems, TLAPS

\* A client prints at its last step and not before.
PrintsLast == \A c \in Clients : at[c] # "done" => output[c] = "none"

\* What is ready to be sent or under way as ok belongs to a sound request.
OkIsSound == \A c \in Clients : reply[c] = "ok" => c \in Sound

\* The accept thread has a connection exactly while it handles one; there is
\* neither thread nor backlog when no server runs.
OneHandler ==
    /\ stage \in {"read", "reply"} <=> conn # NoClient
    /\ daemon \in {"off", "starting"} => conn = NoClient /\ backlog = <<>> /\ ~listening

\* An ok response that is not sent yet is already counted.
Counted ==
    /\ IsFiniteSet(thisRun)
    /\ Cardinality(thisRun) <= queriesServed
    /\ stage = "reply" /\ reply[conn] = "ok" => Cardinality(thisRun \cup {conn}) <= queriesServed

IInv ==
    /\ TypeOK /\ PrintsLast /\ OkIsSound /\ OneHandler /\ Counted /\ NobodyForgotten

USE SoundAssumption, NoClientAssumption, CapacityAssumption

LEMMA Initially == Init => IInv
<1> SUFFICES ASSUME Init PROVE IInv
  OBVIOUS
<1>1. TypeOK
  <2>1. <<>> \in Seq(Clients)
    OBVIOUS
  <2> QED BY <2>1 DEF Init, TypeOK, Pieces, ClientPcs, Connected
<1>2. PrintsLast /\ OkIsSound /\ OneHandler /\ NobodyForgotten
  BY DEF Init, PrintsLast, OkIsSound, OneHandler, NobodyForgotten, Connected
<1>3. Counted
  BY FS_EmptySet DEF Init, Counted
<1> QED BY <1>1, <1>2, <1>3 DEF IInv

\* Cardinalities of the history variable when one client is added.
LEMMA AddOne ==
    ASSUME NEW S, IsFiniteSet(S), NEW x
    PROVE  /\ IsFiniteSet(S \cup {x})
           /\ Cardinality(S) \in Nat /\ Cardinality(S \cup {x}) \in Nat
           /\ Cardinality(S \cup {x}) <= Cardinality(S) + 1
           /\ Cardinality(S) <= Cardinality(S \cup {x})
  BY FS_AddElement, FS_CardinalityType

\* What the steps of a client leave alone of the server.
LEMMA ClientKeeps ==
    ASSUME IInv, NEW c \in Clients, Client(c)
    PROVE  IInv'
<1> USE DEF IInv
<1>1. TypeOK'
  <2>1. CASE Connect(c)
    <3>1. backlog' \in Seq(Clients)
      BY <2>1 DEF Connect, TypeOK
    <3> QED BY <2>1, <3>1 DEF Connect, Goto, TypeOK, ClientPcs, Connected, daemonVars, lineVars, countVars
  <2>2. CASE \E piece \in {"part", "line"} : Send(c, piece)
    BY <2>2 DEF Send, TypeOK, ClientPcs, Connected, Pieces, daemonVars, serverVars, countVars
  <2>3. CASE Receive(c) \/ Cold(c)
    BY <2>3 DEF Receive, Cold, Goto, Deliver, Core, TypeOK, ClientPcs, Connected,
       daemonVars, serverVars, lineVars, countVars
  <2>4. CASE Probe(c) \/ SendFails(c) \/ TimeOut(c) \/ ReceiveEof(c)
    BY <2>4 DEF Probe, SendFails, TimeOut, ReceiveEof, Goto, TypeOK, ClientPcs, Connected,
       daemonVars, serverVars, lineVars, countVars
  <2> QED BY <2>1, <2>2, <2>3, <2>4 DEF Client
<1>2. PrintsLast' /\ OkIsSound'
  BY DEF Client, Probe, Connect, Send, SendFails, TimeOut, Receive, ReceiveEof, Cold, Goto, Deliver,
     TypeOK, ClientPcs, Connected, PrintsLast, OkIsSound, daemonVars, serverVars, clientVars, lineVars, countVars
<1>3. OneHandler'
  <2>1. CASE Connect(c)
    BY <2>1 DEF Connect, OneHandler, Goto, TypeOK, daemonVars
  <2>2. CASE ~Connect(c)
    BY <2>2 DEF Client, Probe, Send, SendFails, TimeOut, Receive, ReceiveEof, Cold, OneHandler,
       daemonVars, serverVars
  <2> QED BY <2>1, <2>2
<1>4. Counted'
  BY DEF Client, Probe, Connect, Send, SendFails, TimeOut, Receive, ReceiveEof, Cold, Counted,
     daemonVars, serverVars, lineVars, countVars
<1>5. NobodyForgotten'
  <2>1. CASE Connect(c)
    <3> SUFFICES ASSUME NEW d \in Clients, (at[d] \in Connected)'
                 PROVE  (d = conn \/ d \in hungup \/ \E i \in DOMAIN backlog : backlog[i] = d)'
      BY DEF NobodyForgotten
    <3>1. CASE d = c
      <4>1. backlog' = Append(backlog, c)
        BY <2>1, <3>1 DEF Connect, Goto, TypeOK, Connected
      <4> QED BY <4>1, <3>1 DEF TypeOK
    <3>2. CASE d # c
      <4>1. at[d] \in Connected
        BY <2>1, <3>2 DEF Connect, Goto, TypeOK
      <4>2. CASE \E i \in DOMAIN backlog : backlog[i] = d
        <5>1. PICK i \in DOMAIN backlog : backlog[i] = d
          BY <4>2
        <5>2. i \in DOMAIN backlog' /\ backlog'[i] = d
          BY <2>1, <5>1 DEF Connect, TypeOK
        <5> QED BY <5>2
      <4>3. CASE d = conn \/ d \in hungup
        BY <2>1, <4>3 DEF Connect, lineVars
      <4> QED BY <4>1, <4>2, <4>3 DEF NobodyForgotten
    <3> QED BY <3>1, <3>2
  <2>2. CASE ~Connect(c)
    <3>1. \A d \in Clients : at'[d] \in Connected => at[d] \in Connected
      BY <2>2 DEF Client, Probe, Send, SendFails, TimeOut, Receive, ReceiveEof, Cold, Goto, TypeOK, Connected
    <3>2. UNCHANGED <<conn, hungup, backlog>>
      BY <2>2 DEF Client, Probe, Send, SendFails, TimeOut, Receive, ReceiveEof, Cold, serverVars, lineVars
    <3> QED BY <3>1, <3>2 DEF NobodyForgotten
  <2> QED BY <2>1, <2>2
<1> QED BY <1>1, <1>2, <1>3, <1>4, <1>5

LEMMA AcceptThreadKeeps ==
    ASSUME IInv, AcceptThread
    PROVE  IInv'
<1> USE DEF IInv
<1>1. CASE Accept
  <2>1. /\ Head(backlog) \in Clients /\ Tail(backlog) \in Seq(Clients)
        /\ \A i \in DOMAIN backlog : \/ backlog[i] = Head(backlog)
                                     \/ \E j \in DOMAIN Tail(backlog) : Tail(backlog)[j] = backlog[i]
    <3>1. backlog \in Seq(Clients) /\ backlog # <<>>
      BY <1>1 DEF Accept, TypeOK
    <3>2. ASSUME NEW i \in DOMAIN backlog, i # 1
          PROVE  i - 1 \in DOMAIN Tail(backlog) /\ Tail(backlog)[i - 1] = backlog[i]
      BY <3>1, <3>2
    <3>3. Head(backlog) \in Clients /\ Tail(backlog) \in Seq(Clients) /\ Head(backlog) = backlog[1]
      BY <3>1
    <3>4. ASSUME NEW i \in DOMAIN backlog, i # 1
          PROVE  \E j \in DOMAIN Tail(backlog) : Tail(backlog)[j] = backlog[i]
      BY <3>2, <3>4
    <3> QED BY <3>3, <3>4
  <2>2. {Tail(backlog)[i] : i \in DOMAIN Tail(backlog)} \subseteq Clients
    BY <2>1
  <2>3. TypeOK'
    <3>1. hungup' \subseteq Clients
      <4>1. hungup' \in {hungup, hungup \cup {Tail(backlog)[i] : i \in DOMAIN Tail(backlog)}}
        BY <1>1 DEF Accept, Unlisten
      <4> QED BY <2>2, <4>1 DEF TypeOK
    <3>2. backlog' \in Seq(Clients) /\ listening' \in BOOLEAN
      <4>1. <<>> \in Seq(Clients)
        OBVIOUS
      <4> QED BY <1>1, <2>1, <4>1 DEF Accept, Unlisten, TypeOK
    <3> QED BY <1>1, <2>1, <3>1, <3>2 DEF Accept, TypeOK, daemonVars, clientVars, countVars
  <2>4. PrintsLast' /\ OkIsSound' /\ OneHandler'
    BY <1>1, <2>1 DEF Accept, Unlisten, TypeOK, PrintsLast, OkIsSound, OneHandler,
       daemonVars, clientVars
  <2>5. Counted'
    BY <1>1 DEF Accept, Counted, countVars
  <2>6. conn = NoClient
    BY <1>1 DEF Accept, OneHandler
  <2>7. NobodyForgotten'
    <3> SUFFICES ASSUME NEW c \in Clients, at'[c] \in Connected, c # conn', c \notin hungup'
                 PROVE  \E i \in DOMAIN backlog' : backlog'[i] = c
      BY DEF NobodyForgotten
    <3>1. hungup \subseteq hungup'
      BY <1>1 DEF Accept, Unlisten
    <3>2. PICK i \in DOMAIN backlog : backlog[i] = c
      BY <1>1, <2>6, <3>1 DEF Accept, NobodyForgotten, clientVars
    <3>3. PICK j \in DOMAIN Tail(backlog) : Tail(backlog)[j] = c
      BY <1>1, <2>1, <3>2 DEF Accept
    <3>4. daemon # "closing"
      BY <1>1, <3>3 DEF Accept, Unlisten
    <3> QED BY <1>1, <3>3, <3>4 DEF Accept
  <2> QED BY <2>3, <2>4, <2>5, <2>7
<1>2. CASE Dispatch
  <2>1. TypeOK' /\ PrintsLast' /\ OkIsSound' /\ OneHandler' /\ NobodyForgotten'
    BY <1>2 DEF Dispatch, TypeOK, PrintsLast, OkIsSound, OneHandler, NobodyForgotten, Pieces,
       daemonVars, clientVars
  <2>2. Counted'
    <3>1. UNCHANGED <<thisRun, conn>>
      BY <1>2 DEF Dispatch
    <3>2. /\ IsFiniteSet(thisRun)
          /\ Cardinality(thisRun) \in Nat /\ Cardinality(thisRun \cup {conn}) \in Nat
          /\ Cardinality(thisRun \cup {conn}) <= Cardinality(thisRun) + 1
          /\ Cardinality(thisRun) <= queriesServed /\ queriesServed \in Nat
      BY AddOne DEF Counted, TypeOK
    <3>3. \/ queriesServed' = queriesServed + 1
          \/ queriesServed' = queriesServed /\ reply'[conn] # "ok"
      <4>1. conn \in Clients
        BY <1>2 DEF Dispatch, OneHandler, TypeOK
      <4> QED BY <1>2, <4>1 DEF Dispatch, TypeOK
    <3> QED BY <3>1, <3>2, <3>3 DEF Counted
  <2> QED BY <2>1, <2>2
<1>3. ASSUME NEW piece \in {"part", "line"}, Reply(piece)
      PROVE  IInv'
  <2>1. TypeOK' /\ PrintsLast' /\ OkIsSound' /\ OneHandler' /\ NobodyForgotten'
    BY <1>3 DEF Reply, TypeOK, PrintsLast, OkIsSound, OneHandler, NobodyForgotten, Pieces,
       daemonVars, clientVars
  <2>2. Counted'
    BY <1>3, AddOne DEF Reply, TypeOK, Counted
  <2> QED BY <2>1, <2>2
<1>4. CASE Hangup \/ HandlerRaises
  <2>1. TypeOK' /\ PrintsLast' /\ OkIsSound' /\ OneHandler' /\ NobodyForgotten' /\ Counted'
    BY <1>4 DEF Hangup, HandlerRaises, TypeOK, PrintsLast, OkIsSound, OneHandler, NobodyForgotten, Counted,
       daemonVars, clientVars, countVars
  <2> QED BY <2>1
<1> QED BY <1>1, <1>2, <1>3, <1>4 DEF AcceptThread

LEMMA DaemonKeeps ==
    ASSUME IInv, Daemon
    PROVE  IInv'
<1> USE DEF IInv
<1>0. /\ {backlog[i] : i \in DOMAIN backlog} \subseteq Clients
      /\ <<>> \in Seq(Clients)
      /\ {conn} \ {NoClient} \subseteq Clients
  BY DEF TypeOK
<1>1. CASE StartDaemon
  BY <1>1, FS_EmptySet DEF StartDaemon, TypeOK, PrintsLast, OkIsSound, OneHandler, NobodyForgotten, Counted,
     serverVars, clientVars, lineVars
<1>2. CASE StartServer
  BY <1>2 DEF StartServer, TypeOK, PrintsLast, OkIsSound, OneHandler, NobodyForgotten, Counted,
     clientVars, lineVars, countVars
<1>3. CASE Shutdown
  <2>1. TypeOK'
    <3>1. hungup' \subseteq Clients
      <4>1. hungup' \in {hungup, hungup \cup {backlog[i] : i \in DOMAIN backlog}}
        BY <1>3 DEF Shutdown, Unlisten
      <4> QED BY <1>0, <4>1 DEF TypeOK
    <3>2. backlog' \in Seq(Clients) /\ listening' \in BOOLEAN
      BY <1>0, <1>3 DEF Shutdown, Unlisten, TypeOK
    <3>3. stage' \in {stage, "ended"}
      BY <1>3 DEF Shutdown
    <3> QED BY <1>3, <3>1, <3>2, <3>3 DEF Shutdown, TypeOK, clientVars, countVars
  <2>2. PrintsLast' /\ OkIsSound' /\ OneHandler' /\ Counted'
    BY <1>3 DEF Shutdown, Unlisten, PrintsLast, OkIsSound, OneHandler, Counted, TypeOK, clientVars, countVars
  <2>3. NobodyForgotten'
    BY <1>3 DEF Shutdown, Unlisten, NobodyForgotten, clientVars
  <2> QED BY <2>1, <2>2, <2>3
<1>4. CASE Exit \/ Crash
  <2>1. TypeOK'
    <3>1. hungup' \subseteq Clients
      <4>1. hungup' = hungup \cup {backlog[i] : i \in DOMAIN backlog} \cup ({conn} \ {NoClient})
        BY <1>4 DEF Exit, Crash, Vanish
      <4> QED BY <1>0, <4>1 DEF TypeOK
    <3> QED BY <1>0, <1>4, <3>1 DEF Exit, Crash, Vanish, TypeOK, clientVars, countVars
  <2>2. PrintsLast' /\ OkIsSound' /\ OneHandler' /\ Counted'
    BY <1>4 DEF Exit, Crash, Vanish, PrintsLast, OkIsSound, OneHandler, Counted, TypeOK, clientVars, countVars
  <2>3. NobodyForgotten'
    BY <1>4 DEF Exit, Crash, Vanish, NobodyForgotten, clientVars
  <2> QED BY <2>1, <2>2, <2>3
<1> QED BY <1>1, <1>2, <1>3, <1>4 DEF Daemon

LEMMA Inductive == IInv /\ [Next]_vars => IInv'
<1> SUFFICES ASSUME IInv, [Next]_vars PROVE IInv'
  OBVIOUS
<1>1. CASE UNCHANGED vars
  BY <1>1 DEF IInv, TypeOK, PrintsLast, OkIsSound, OneHandler, Counted, NobodyForgotten,
     vars, daemonVars, serverVars, clientVars, lineVars, countVars
<1>2. CASE Next
  BY <1>2, ClientKeeps, AcceptThreadKeeps, DaemonKeeps DEF Next
<1> QED BY <1>1, <1>2

LEMMA Invariant == Spec => []IInv
  BY Initially, Inductive, PTL DEF Spec

\* Every variable of the protocol keeps its type, for any number of clients and any
\* backlog.
THEOREM TypeCorrect == Spec => []TypeOK
<1>1. IInv => TypeOK
  BY DEF IInv
<1> QED BY <1>1, Invariant, PTL

\* The counter `--status` shows is never behind what the daemon's clients have been
\* sent, whatever the clients do in between.
THEOREM CountsFirst == Spec => []CountedBeforeSent
<1>1. IInv => CountedBeforeSent
  BY DEF IInv, Counted, CountedBeforeSent
<1> QED BY <1>1, Invariant, PTL

\* Every connected client is in the backlog, handled, or closed by the daemon's side,
\* through shutdown, crash and restart.
THEOREM NoneForgotten == Spec => []NobodyForgotten
<1>1. IInv => NobodyForgotten
  BY DEF IInv
<1> QED BY <1>1, Invariant, PTL

\* What a step prints is what the core answers, and only a client that has printed
\* nothing prints.
LEMMA StepPrints == IInv /\ [Next]_vars => [Promise!Next]_output
<1> SUFFICES ASSUME IInv, Next PROVE [Promise!Next]_output
  BY DEF vars, clientVars
<1>1. ASSUME NEW c \in Clients, Cold(c)
      PROVE  Promise!Next
  BY <1>1 DEF Cold, Goto, Deliver, Core, IInv, PrintsLast, Promise!Next, Promise!Answer, Promise!Core
<1>2. ASSUME NEW c \in Clients, Receive(c)
      PROVE  [Promise!Next]_output
  BY <1>2 DEF Receive, Goto, Deliver, Usable, IInv, PrintsLast, OkIsSound,
     Promise!Next, Promise!Answer, Promise!Core
<1>3. ASSUME NEW c \in Clients, Client(c), ~Cold(c), ~Receive(c)
      PROVE  UNCHANGED output
  BY <1>3 DEF Client, Probe, Connect, Send, SendFails, TimeOut, ReceiveEof
<1>4. CASE AcceptThread \/ Daemon
  BY <1>4 DEF AcceptThread, Accept, Dispatch, Reply, Hangup, HandlerRaises, Daemon, StartDaemon, StartServer,
     Shutdown, Exit, Crash, Vanish, clientVars
<1> QED BY <1>1, <1>2, <1>3, <1>4 DEF Next

\* The safety half of ImplementsReadCommand: whatever the daemon does, a read command
\* prints at most once, and what its own payload core answers.
THEOREM RefinesReadCommand == Spec => Promise!Init /\ [][Promise!Next]_output
<1>1. Init => Promise!Init
  BY DEF Init, Promise!Init
<1> QED BY <1>1, Invariant, StepPrints, PTL DEF Spec
=============================================================================
