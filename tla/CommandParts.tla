----------------------------- MODULE CommandParts -----------------------------
(***************************************************************************)
(* Parts of a command, for any value of their constants: the relay of a         *)
(* subprocess's output, what an identifier names in the graph and the weighing   *)
(* of a diff.                                                                 *)
(* What is promised of them is proved in CommandProofs and checked in MCParts.   *)
(***************************************************************************)
EXTENDS Naturals, Sequences, FiniteSets, SequencesExt

CONSTANTS
    Nothing,                                            \* None
    MaxLines, MaxOut, PipeSize,                         \* of the relay
    LookupGraphs, Lookups, RowLimit, CandidateCap,      \* of an identifier
    DiffBase, DiffPaths, DiffOuter, DiffTypes, DiffPrivate, DiffInterfaces, DiffLinks, DiffCalls, DiffServices,
    DiffExposes, DiffRemote, DiffContext, MaxTouches    \* of a diff

\* The child writes so many lines and units to pipes that hold so many.
ASSUME RelayAssumption == MaxLines \in Nat /\ MaxOut \in Nat /\ PipeSize \in Nat

\* A graph is finite and its nodes are numbered; names and paths are sequences of tokens,
\* an identifier is a sequence of words.
ASSUME LookupAssumption ==
    /\ CandidateCap \in Nat
    /\ \A net \in LookupGraphs :
        /\ IsFiniteSet(net)
        /\ \A n, m \in net : n.nr \in Nat /\ (n.nr = m.nr => n = m)
        /\ \A n \in net : CASE n.kind = "symbol" -> n.fqn \in Seq(ToSet(n.fqn))
                              [] n.kind = "route" -> n.path \in Seq(ToSet(n.path)) /\ n.template \in Seq(ToSet(n.template))
                              [] n.kind = "client" -> n.by.fqn \in Seq(ToSet(n.by.fqn))
                              [] OTHER -> TRUE
    /\ \A q \in Lookups :
        /\ q.hint \in {Nothing, "symbol", "route", "client", "producer"}
        /\ q.words \in Seq(ToSet(q.words)) /\ \A w \in ToSet(q.words) : w \in Seq(ToSet(w))

\* A source tree is finite, no two of its files have one path and none that of a moved one;
\* so are what declares what, calls and exposes what.
ASSUME DiffAssumption ==
    /\ DiffContext \in Nat
    /\ IsFiniteSet(DOMAIN DiffBase) /\ DOMAIN DiffPaths = DOMAIN DiffBase
    /\ \A f \in DOMAIN DiffBase : DiffBase[f] \in Seq(ToSet(DiffBase[f])) /\ DiffPaths[f] # Nothing
    /\ \A f, g \in DOMAIN DiffBase : (DiffPaths[f] = DiffPaths[g] => f = g) /\ DiffPaths[f] # <<"moved">> \o DiffPaths[g]
    /\ IsFiniteSet(DOMAIN DiffTypes) /\ IsFiniteSet(DiffCalls) /\ IsFiniteSet(DiffExposes) /\ IsFiniteSet(DiffRemote)

VARIABLES
    filter, script, ended, writer, unwritten, outLeft, outPipe, errPipe, outBuf, errBuf, outDrain, errDrain,
    held, suppress, shown, events, main,
    known, asked, queries, raw, answer,
    texts, renamed, built, touches

relayVars    == <<filter, script, ended, writer, unwritten, outLeft, outPipe, errPipe, outBuf, errBuf,
                  outDrain, errDrain, held, suppress, shown, events, main>>
resolveVars  == <<known, asked, queries, raw, answer>>
diffVars     == <<texts, renamed, built, touches>>

Relay    == INSTANCE PipelineRelay WITH child <- writer

Resolve  == INSTANCE ResolveService WITH
    Graphs <- LookupGraphs, Requests <- Lookups, graph <- known, todo <- queries, None <- Nothing

Diffs    == INSTANCE PrAnalysis WITH
    Base <- DiffBase, PathOf <- DiffPaths, Outer <- DiffOuter, TypeOf <- DiffTypes, Private <- DiffPrivate,
    Interfaces <- DiffInterfaces, Links <- DiffLinks, Calls <- DiffCalls, ServiceOf <- DiffServices, Exposes <- DiffExposes,
    Remote <- DiffRemote, Context <- DiffContext, None <- Nothing

NothingLostInRelay == Relay!NothingLostInRelay
PickIsUnique       == Resolve!PickIsUnique
DiffIsWeighed      == Diffs!DiffIsWeighed
=============================================================================
