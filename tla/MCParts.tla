------------------------------- MODULE MCParts -------------------------------
(***************************************************************************)
(* The parts of the system that run one at a time in a process of their     *)
(* own, for TLC: the usage journal, the operator's verbs, the relay of a    *)
(* subprocess's output, the optimisation of the tables, the scoped rebuild  *)
(* of the graph, the links between services in it, what an identifier names *)
(* in it, the reading of one page after page and by the CLI's commands, the *)
(* search, the tracing of a flow and the weighing of a diff.  They share no *)
(* state here: a behaviour is of one of them, `part`, and the others rest.  *)
(***************************************************************************)
EXTENDS UsageJournal, Parts, CommandParts, TLC

CONSTANTS Broken, u1, u2, javaTable, kotlinTable, fA, fB, fC

VARIABLES part,
    nodes, edges, request, summary, offset, pages, status,
    shelf, arcs, here, wish, reply, hints, led,
    stock, query, leaf, found, outcome, advice, tried

readVars     == <<nodes, edges, request, summary, offset, pages, status>>
commandVars  == <<shelf, arcs, here, wish, reply, hints, led>>
searchVars   == <<stock, query, leaf, found, outcome, advice, tried>>

MCTables == <<javaTable, kotlinTable>>

----------------------------------------------------------------------------
(* Three files: q.A, p.B which may import and extend it, and p.C which may       *)
(* extend B.                                                                 *)

Content(imports, super, methods, calls) ==
    [imports |-> imports, wildcard |-> None, super |-> super, methods |-> methods, calls |-> calls]
Call(on, args) == [on |-> on, args |-> args]

MCContents ==
    fA :> {None} \cup {Content({}, None, ms, {}) : ms \in {{}, {0}, {0, 1}}}
 @@ fB :> {None} \cup {Content(im, None, {0}, cs) : im \in {{}, {<<"q", "A">>}}, cs \in {{}, {Call("A", 0)}}}
             \cup {Content(im, s, {}, {}) : im \in {{}, {<<"q", "A">>}}, s \in {None, "A"}}
 @@ fC :> {None, Content({}, None, {}, {Call("B", 0)})}
       \cup {Content({}, "B", {}, cs) : cs \in {{}, {Call(Self, 0)}, {Call("B", 0)}}}

MCFiles     == {fA, fB, fC}
MCPackageOf == fA :> "q" @@ fB :> "p" @@ fC :> "p"
MCNameOf    == fA :> "A" @@ fB :> "B" @@ fC :> "C"

----------------------------------------------------------------------------
(* Three files of two services: an endpoint or a topic that the source or only    *)
(* the configuration knows of, a second one of the same path or of the root,     *)
(* which a Feign interface may call, and calls of all kinds.                   *)

Declared(kind, method, path, topic, from) ==
    [kind |-> kind, method |-> method, path |-> path, topic |-> topic, from |-> from]
Orders(from) == Declared("http_endpoint", "GET", "/o/{}", "", from)
Rest(path, from)  == Declared("rest_template", "GET", path, "", from) @@ [channel |-> "http"]
Send(topic, from) == Declared("kafka_send", "", "", topic, from) @@ [channel |-> "async"]
Method(routes, routeHints, calls, callHints) ==
    [routes |-> routes, routeHints |-> routeHints, calls |-> calls, callHints |-> callHints]

MCLinkContents ==
    fA :> {None, Method({Orders("builtin")}, {}, {}, {}), Method({Orders("builtin"), Orders("layer_c_source")}, {}, {}, {}),
           Method({Declared("kafka_topic", "", "", "t", "builtin")}, {}, {}, {}), Method({}, {Orders("layer_b_ann")}, {}, {})}
 @@ fB :> {None, Method({Orders("builtin")}, {}, {}, {}),
           Method({Declared("http_endpoint", "", "/", "", "builtin")}, {}, {Rest("/o/1", "rest_template")}, {}),
           Method({Declared("http_consumer", "GET", "/o/{}", "", "builtin")}, {},
                  {Declared("feign_method", "GET", "/o/{}", "", "feign_method") @@ [channel |-> "http"]}, {})}
 @@ fC :> {None, Method({}, {}, {}, {Rest("/o/1", "layer_b_ann")}),
           Method({}, {}, {Send("", "unresolved")}, {Declared("", "", "", "", "layer_a_meta") @@ [channel |-> "async"]})}
       \cup {Method({}, {}, {c}, {}) : c \in
                {Rest("/o/1", "rest_template"), Rest("", "rest_template"), Rest("/o/1", "codebase_client"),
                 Send("t", "kafka_template"), Send("", "unresolved")}}

\* The configuration may make an endpoint of what a Feign interface declares.
MCLinkHints == [f \in {fA, fB, fC} |->
    [route |-> IF f = fB THEN Declared("http_endpoint", "", "", "", "layer_b_fqn") ELSE None, call |-> None]]

MCLinkOrder   == <<fA, fB, fC>>
MCLinkService == fA :> "s1" @@ fB :> "s1" @@ fC :> "s2"
MCLinkCovers  == ("/o/{}" :> {"/o/1", "/o/{}"}) @@ ("/" :> {""})

----------------------------------------------------------------------------
(* FlowTrace: a controller, a service and its subclass, a listener of another        *)
(* service, a repository and a mapper of a library, with any of the links.          *)

Type(role, service, entry, external) == [role |-> role, service |-> service, entry |-> entry, external |-> external]
Link(kind, from, to) == [kind |-> kind, from |-> from, to |-> to]

MCFlowTypes == "Ctl"  :> Type("CONTROLLER", "s1", FALSE, FALSE)
            @@ "Svc"  :> Type("SERVICE", "s1", FALSE, FALSE)
            @@ "Sub"  :> Type("SERVICE", "s1", FALSE, FALSE)
            @@ "Far"  :> Type("COMPONENT", "s2", TRUE, FALSE)
            @@ "Repo" :> Type("REPOSITORY", "s1", FALSE, FALSE)
            @@ "Lib"  :> Type("MAPPER", "s1", FALSE, TRUE)
MCFlowEdges == {Link("INJECTS", "Ctl", "Svc"), Link("IMPLEMENTS", "Sub", "Svc"), Link("INJECTS", "Svc", "Repo"),
            Link("CALLS", "Ctl", "Sub"), Link("CALLS", "Sub", "Lib"), Link("HTTP_CALLS", "Ctl", "Far"),
            Link("HTTP_CALLS", "Far", "Repo"), Link("ASYNC_CALLS", "Sub", "Far")}
MCFlowAsks == {[seeds |-> {n}, service |-> s, depth |-> 2, calls |-> c, external |-> FALSE] :
               n \in {"Ctl", "Repo", "Svc"}, s \in {None, "s1"}, c \in BOOLEAN}
MCFlowGraphs == SUBSET MCFlowEdges

----------------------------------------------------------------------------
(* PrAnalysis: an interface, the service that implements it and exposes a route,     *)
(* and a client in another service in a directory b/.                           *)

MCDiffBase       == "port" :> <<"Port", "Port.pay">>
                 @@ "impl" :> <<None, "Impl", "Impl.pay", "Impl.pay", "Impl.log", "Impl">>
                 @@ "twin" :> <<"Twin", "Twin.call">>
MCDiffPaths      == "port" :> <<"Port">> @@ "impl" :> <<"src", "Impl">> @@ "twin" :> <<"b", "Impl">>
MCDiffTypes      == "Port" :> "Port" @@ "Port.pay" :> "Port" @@ "Impl" :> "Impl" @@ "Impl.pay" :> "Impl" @@ "Impl.log" :> "Impl"
                 @@ "Impl.new" :> "Impl" @@ "Twin" :> "Twin" @@ "Twin.call" :> "Twin"
MCDiffLinks      == {<<"Impl", "Port">>, <<"Twin", "Impl">>}
MCDiffCalls      == {<<"Impl.pay", "Impl.log">>, <<"Twin.call", "Impl.pay">>}
MCDiffServices   == "Port" :> "s1" @@ "Impl" :> "s1" @@ "Twin" :> "s2"
MCDiffExposes    == {<<"Impl.pay", "POST /pay">>}
MCDiffRemote     == {<<"client", "POST /pay">>}
MCDiffOuter      == <<>>
MCDiffPrivate    == {"Impl.log"}
MCDiffInterfaces == {"Port"}

----------------------------------------------------------------------------
(* Identifiers, pages and searches *)

Words   == INSTANCE LookupCases
MCLookupGraphs == Words!MCGraphs
MCLookups      == Words!MCRequests

Walks   == INSTANCE ReadCases
Reads   == INSTANCE GraphReads WITH Cases <- Walks!MCCases, Limit <- 2, Clamp <- 2, seen <- pages

Wishes   == INSTANCE CommandCases
Commands == INSTANCE ReadCommands WITH
    Cases <- Wishes!MCCases, Limit <- 1, ListenerFetch <- 2, WalkFactor <- 1, MaxHints <- 4,
    nodes <- shelf, edges <- arcs, asked <- wish, answer <- reply

Search  == INSTANCE SearchFusion WITH
    Cases <- Words!MCCases, Limit <- 1, OverFetch <- 2, FtsTop <- 3, ScanCap <- 4, ProbeLimit <- 3, RrfK <- 60,
    index <- stock, asked <- query, offset <- leaf, hits <- found, status <- outcome, led <- tried

----------------------------------------------------------------------------
(* Where the parts rest *)

VerbRests     == setup = "vectors" /\ builder = TRUE /\ Verbs!Init
RelayRests    == filter = "none" /\ script = <<>> /\ ended = TRUE /\ writer = "hangs" /\ Relay!Init
OptimizeRests == existing = {} /\ Optimize!Init
RebuildRests  == /\ program = [f \in MCFiles |-> None] /\ indexed = program /\ rebuilt = Rebuild!Empty
                 /\ increments = 0 /\ tame = FALSE
LinksRest     == wired = [f \in {fA, fB, fC} |-> None] /\ Wiring!Init
ResolveRests  == known = {} /\ asked = Words!Plain(<<>>) /\ queries = <<>> /\ raw = {} /\ answer = None
ReadsRest     == nodes = {} /\ edges = {} /\ request = Walks!Lookup("symbol", None, None) /\ Reads!Start
CommandsRest  == shelf = {} /\ arcs = {} /\ here = None /\ wish = Wishes!Ask("find", None) /\ Commands!Start
SearchRests   == stock = Words!Empty /\ query = Words!Asking("keywords") /\ Search!Start
FlowRests     == Flow!Start({}, CHOOSE a \in FlowAsks : TRUE)
DiffRests     == texts = [f \in DOMAIN DiffBase |-> <<>>] /\ renamed = {} /\ built = <<>> /\ touches = 0

PartsInit ==
    /\ part \in {"journal", "verbs", "relay", "optimize", "rebuild", "links", "resolve", "reads", "commands", "search", "flow", "diff"}
    /\ Init
    /\ IF part = "verbs"    THEN Verbs!Init    ELSE VerbRests
    /\ IF part = "relay"    THEN Relay!Init    ELSE RelayRests
    /\ IF part = "optimize" THEN Optimize!Init ELSE OptimizeRests
    /\ IF part = "rebuild"  THEN Rebuild!Init  ELSE RebuildRests
    /\ IF part = "links"    THEN Wiring!Init    ELSE LinksRest
    /\ IF part = "resolve"  THEN Resolve!Init  ELSE ResolveRests
    /\ IF part = "reads"    THEN Reads!Init    ELSE ReadsRest
    /\ IF part = "commands" THEN Commands!Init ELSE CommandsRest
    /\ IF part = "search"   THEN Search!Init   ELSE SearchRests
    /\ IF part = "flow"     THEN Flow!Init     ELSE FlowRests
    /\ IF part = "diff"     THEN Diffs!Init    ELSE DiffRests

allVars == <<part, vars, verbVars, relayVars, optimizeVars, rebuildVars, linkVars, resolveVars, readVars, commandVars,
             searchVars, flowVars, diffVars>>

PartsNext ==
    /\ UNCHANGED part
    /\ IF part = "journal"  THEN Next          ELSE UNCHANGED vars
    /\ IF part = "verbs"    THEN Verbs!Next    ELSE UNCHANGED verbVars
    /\ IF part = "relay"    THEN Relay!Next    ELSE UNCHANGED relayVars
    /\ IF part = "optimize" THEN Optimize!Next ELSE UNCHANGED optimizeVars
    /\ IF part = "rebuild"  THEN Rebuild!Next  ELSE UNCHANGED rebuildVars
    /\ IF part = "links"    THEN Wiring!Next    ELSE UNCHANGED linkVars
    /\ IF part = "resolve"  THEN Resolve!Next  ELSE UNCHANGED resolveVars
    /\ IF part = "reads"    THEN Reads!Next    ELSE UNCHANGED readVars
    /\ IF part = "commands" THEN Commands!Next ELSE UNCHANGED commandVars
    /\ IF part = "search"   THEN Search!Next   ELSE UNCHANGED searchVars
    /\ IF part = "flow"     THEN Flow!Next     ELSE UNCHANGED flowVars
    /\ IF part = "diff"     THEN Diffs!Next    ELSE UNCHANGED diffVars

PartsSpec == PartsInit /\ [][PartsNext]_allVars

----------------------------------------------------------------------------
ReadsAddUp         == part = "reads" => Reads!ReadsAddUp
AnswerIsWhole      == part = "commands" => Commands!AnswerIsWhole
SearchIsHonest     == part = "search" => Search!SearchIsHonest
=============================================================================
