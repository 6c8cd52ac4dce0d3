----------------------------- MODULE ReadCommands -----------------------------
(***************************************************************************)
(* The reading commands of the agent CLI (`jrag http-routes`, `callers`,         *)
(* `inspect`, ...): each reads rows of the graph, applies --service and --module *)
(* before or after it cuts them to --limit, or says that it does not apply them, *)
(* and hints at the commands to run next, which the agent then runs.            *)
(*                                                                         *)
(* The qualified names of symbols are unique: what else an identifier may name   *)
(* is ResolveService's.                                                       *)
(***************************************************************************)
EXTENDS Naturals, SequencesExt

CONSTANTS
    None,
    Cases,          \* [nodes, edges, here, asked]: graphs, the service of the working directory, and what is asked;
                    \* a node is GraphReads' and [name, file, service, cap, topic, target, exposed, external, names, phantom],
                    \* names the route whose path and method, or topic, it gives itself and target the service it calls;
                    \* a request [command, root, service, module, text, role, calls, depth], the text a name or a part of it
    Limit,          \* --limit
    ListenerFetch,  \* _CONSUMER_FETCH_LIMIT
    WalkFactor,     \* the call walk reads as many times more rows than it returns
    MaxHints

VARIABLES
    nodes, edges, here,
    asked,
    answer,     \* None, or [status, rows, truncated, told]: told the flags it says are not applied, or "auto"
    hints,      \* the commands hinted at for the root
    led         \* the command whose hint was followed

vars == <<nodes, edges, here, asked, answer, hints, led>>

Graph == INSTANCE GraphReads WITH
    Cases <- {}, Clamp <- Limit, request <- None, summary <- None, offset <- 0, seen <- <<>>, status <- "done"

NodeOf(id) == Graph!NodeOf(id)
Root       == NodeOf(asked.root)

\* A row of an edge or of a listed node; at, a call site, a hop or the handler of a flow, tells rows of one node apart.
Row(other, type, at) == [other |-> other, type |-> type, at |-> at]
Sources(es)  == {Row(e.from, e.type, None) : e \in es}
Targets(es)  == {Row(e.to, e.type, None) : e \in es}
Members(id)  == {e.to : e \in Graph!From(id, "DECLARES")}

\* LIMIT n of rows in no given order.
Cut(rows, n) == {R \in SUBSET rows : Cardinality(R) = Min({n, Cardinality(rows)})}

----------------------------------------------------------------------------
(* Scope *)

AutoScoped == {"find", "http-routes", "http-clients", "producers", "topics", "jobs", "listeners", "entities", "callers",
               "callees", "implementations", "subclasses", "dependents", "impact"}

IsAuto   == asked.service = None /\ here # None /\ asked.command \in AutoScoped
Service  == IF IsAuto THEN here ELSE asked.service
Given    == {f \in {"service", "module"} : IF f = "service" THEN Service # None ELSE asked.module # None}
Notice   == IF IsAuto THEN {"auto"} ELSE {}

InScope(row, flags) ==
    /\ "service" \in flags \cap Given => NodeOf(row.other).service = Service
    /\ "module"  \in flags \cap Given => NodeOf(row.other).module = asked.module
Scoped(rows, flags) == {r \in rows : InScope(r, flags)}

Answer(status, rows, truncated, told) ==
    [status |-> status, rows |-> rows, truncated |-> truncated, told |-> told \cup Notice]
Failure(status) == [status |-> status, rows |-> {}, truncated |-> FALSE, told |-> {}]

\* Mutant: the row beyond the limit is not asked for.
FetchLimit == Limit

\* One row more than shown, to know whether there are more.
Fetch == Limit + 1

\* mark_truncated after a fetch, which may have been filtered since.
Displayed(rows, truncated, told) == {Answer("ok", R, truncated, told) : R \in Cut(rows, Limit)}
Shown(fetched, told) == Displayed(fetched, Cardinality(fetched) > Limit, told)
Answers(rows, flags, told) == UNION {Shown(F, told) : F \in Cut(Scoped(rows, flags), Fetch)}

----------------------------------------------------------------------------
(* Rows *)

Listing ==
    "http-routes"  :> {n \in nodes : n.kind = "route" /\ n.exposed /\ n.topic = None}
 @@ "http-clients" :> {n \in nodes : n.kind = "client"}
 @@ "producers"    :> {n \in nodes : n.kind = "producer"}
 @@ "topics"       :> {n \in nodes : n.kind = "producer"}
 @@ "jobs"         :> {n \in nodes : n.cap = "SCHEDULED_TASK"}
 @@ "listeners"    :> {n \in nodes : n.cap = "MESSAGE_LISTENER"}
 @@ "entities"     :> {n \in nodes : n.kind = "symbol" /\ n.role = "ENTITY"}
 @@ "find"         :> {n \in nodes : n.kind = "symbol" /\ n.name = asked.text}
 @@ "outline"      :> {n \in nodes : n.kind = "symbol" /\ n.file = asked.text}
Listed == {Row(n.id, None, None) : n \in Listing[asked.command]}

\* The classes whose methods expose the route of a topic.
Consumers == {d.from : d \in {e \in edges : e.type = "DECLARES"
                                        /\ \E x \in Graph!From(e.to, "EXPOSES") : NodeOf(x.to).topic = asked.text}}

Supertypes == {"EXTENDS", "IMPLEMENTS"}
\* impact_analysis: what reaches the root in a number of steps.
Reaching(ids) == {e.from : e \in {x \in edges : x.to \in ids /\ x.type \in Supertypes \cup {"INJECTS"}}}
Impacted[depth \in Nat] == IF depth = 0 THEN {} ELSE Reaching({asked.root} \cup Impacted[depth - 1])

\* The services of types.
Services == {n.service : n \in {t \in nodes : Graph!IsType(t)}} \ {None}

\* find_route_callers: the callers by their edges, then those that give the route's path, method or topic.
RouteCallers(id) ==
    Sources(Graph!Into(id, "HTTP_CALLS") \cup Graph!Into(id, "ASYNC_CALLS"))
    \cup {Row(n.id, IF n.kind = "client" THEN "HTTP_CALLS" ELSE "ASYNC_CALLS", None) :
            n \in {c \in nodes : c.kind \in {"client", "producer"} /\ c.names = id}}

\* The methods that a call walk starts from.
Frontier(n) == IF Graph!IsType(n) THEN Members(n.id) ELSE {n.id}
CallerRows == {Row(e.from, "CALLS", e.at) : e \in {c \in edges : c.type = "CALLS" /\ c.to \in Frontier(Root)}}
CalleeRows == {Row(e.to, "CALLS", e.at) : e \in {c \in edges : c.type = "CALLS" /\ c.from \in Frontier(Root)}}
Exposed    == Targets(UNION {Graph!From(m, "EXPOSES") : m \in Members(asked.root)})

\* The routes that the declared clients of an interface call, or the clients themselves.
ClientTargets ==
    LET clients == {e.to : e \in UNION {Graph!From(m, "DECLARES_CLIENT") : m \in Members(asked.root)}}
    IN  UNION {IF Graph!From(c, "HTTP_CALLS") = {} THEN {Row(c, "HTTP_CALLS", None)} ELSE Targets(Graph!From(c, "HTTP_CALLS")) :
                c \in clients}

Structural ==
    "implementations" :> Sources(Graph!Into(asked.root, "IMPLEMENTS"))
 @@ "subclasses"      :> Sources(Graph!Into(asked.root, "EXTENDS"))
 @@ "dependents"      :> {Row(e.from, "INJECTS", e.at) : e \in Graph!Into(asked.root, "INJECTS")}
 @@ "dependencies"    :> {Row(e.to, "INJECTS", e.at) : e \in Graph!From(asked.root, "INJECTS")}
 @@ "overrides"       :> Targets(Graph!From(asked.root, "OVERRIDES"))
 @@ "overridden-by"   :> Sources(Graph!Into(asked.root, "OVERRIDES"))
 @@ "impact"          :> {Row(id, "IMPACTS", None) : id \in Impacted[asked.depth]}
Above == UNION {Targets(Graph!From(asked.root, t)) : t \in Supertypes}
Below == UNION {Sources(Graph!Into(asked.root, t)) : t \in Supertypes}

----------------------------------------------------------------------------
(* Flow: the symbols called, in how many hops *)

Entries == IF Graph!IsType(Root) THEN Members(asked.root) ELSE {asked.root}
Hops    == Max({1, Min({asked.depth, 8})})
Called(ids) == {e.to : e \in {c \in edges : c.type = "CALLS" /\ c.from \in ids}}

Discovered(ids, seen) == Called(ids) \ seen

\* trace_symbol_flow: [seen, frontier, rows] after some hops.
Trace[hop \in Nat] ==
    IF hop = 0 THEN [seen |-> Entries, frontier |-> Entries, rows |-> {}]
    ELSE LET last == Trace[hop - 1]
             new  == Discovered(last.frontier, last.seen)
         IN  [seen |-> last.seen \cup new, frontier |-> new, rows |-> last.rows \cup {Row(id, "CALLS", hop) : id \in new}]

\* trace_request_flow: the callers of a route, and what each of its handlers reaches, itself included.
Reach[hop \in Nat] ==
    IF hop = 0 THEN {<<e.from, e.from>> : e \in Graph!Into(asked.root, "EXPOSES")}
    ELSE Reach[hop - 1] \cup UNION {{p[1]} \X Called({p[2]}) : p \in Reach[hop - 1]}

FlowRows == IF Root.kind = "route" THEN RouteCallers(asked.root) \cup {Row(p[2], "CALLS", p[1]) : p \in Reach[Hops]}
                                   ELSE Trace[Hops].rows

----------------------------------------------------------------------------
(* Hints *)

LabelCommands ==
    "CALLS"         :> [in |-> "callers", out |-> "callees"]
 @@ "IMPLEMENTS"    :> [in |-> "implementations", out |-> "hierarchy"]
 @@ "EXTENDS"       :> [in |-> "subclasses", out |-> "hierarchy"]
 @@ "INJECTS"       :> [in |-> "dependents", out |-> "dependencies"]
 @@ "OVERRIDES"     :> [in |-> None, out |-> "overrides"]
 @@ "OVERRIDDEN_BY" :> [in |-> "overridden-by", out |-> None]
 @@ [t \in {"HTTP_CALLS", "ASYNC_CALLS", "DECLARES_CLIENT", "DECLARES_PRODUCER"} |-> [in |-> None, out |-> "callees"]]

\* The part of a composed key that has a command: of the override axis the first, of the members' the last.
Label(key) == CASE key \in Graph!MemberKeys   -> Graph!MemberTypes[key]
                [] key \in Graph!OverrideKeys -> "OVERRIDDEN_BY"
                [] OTHER                      -> key

\* The commands for the edges of some types and directions, pairs <<type, direction>>; a route has its own.
HintsFor(labels, current) ==
    LET commands == {LabelCommands[l[1]][l[2]] : l \in {k \in labels : k[1] \in DOMAIN LabelCommands}} \ {None, current}
    IN  CASE Root.kind = "route"                  -> {"flow", "inspect"} \ {current}
          [] Root.kind \in {"client", "producer"} -> commands \cap {"callees", "inspect"}
          [] OTHER                                -> commands

\* After inspect, of the directions with edges; after another command of both, for the types among its rows.
Counted ==
    LET summary == Graph!EdgeSummary(asked.root)
    IN  {<<Label(key), "in">> : key \in {k \in DOMAIN summary : summary[k].in > 0}}
        \cup {<<Label(key), "out">> : key \in {k \in DOMAIN summary : summary[k].out > 0}}

HintsAfter(rows) ==
    IF asked.command = "inspect" THEN HintsFor(Counted, None)
    ELSE HintsFor({r.type : r \in rows} \X {"in", "out"}, asked.command)
         \cup (IF asked.command = "subclasses" /\ Root.sym = "interface" THEN {"implementations"} ELSE {})

----------------------------------------------------------------------------
(* Commands *)

Lists      == DOMAIN Listing
Structured == DOMAIN Structural

\* What a command expects its root to be (_require_kind, _kind_guard); None: the command has no root.
Accepts(command) ==
    CASE command = "implementations"               -> Root.sym = "interface"
      [] command = "subclasses"                    -> Graph!IsType(Root)
      [] command \in {"overrides", "overridden-by"} -> Graph!IsMethod(Root)
      [] command \in {"hierarchy", "dependents", "dependencies"} -> Root.kind = "symbol"
      [] command = "callers"                       -> Root.kind \in {"symbol", "route"}
      [] command = "callees"                       -> Root.kind # "route"
      [] command = "connection"                    -> asked.text \in Services
      [] command = "overview"                      -> asked.service \in Services \cup {None}
      [] command = "flow"                          -> Root.kind = "route" \/ (Root.kind = "symbol" /\ Root.sym # "file")
      [] OTHER                                     -> TRUE

\* The flags that select the rows in the query, and those the command says that it does not apply.
Applied(command) ==
    CASE command \in {"http-routes", "http-clients", "producers", "topics"} -> {"service"}
      [] command \in {"jobs", "listeners", "entities", "find", "implementations", "subclasses", "dependents"} ->
            {"service", "module"}
      [] OTHER -> {}
Disclaimed(command) ==
    (CASE command \in {"hierarchy", "overrides", "overridden-by", "dependencies", "flow"} -> {"service", "module"}
       [] command \in {"impact", "topics", "connection"} -> {"module"}
       [] OTHER -> {}) \cap Given

Asks(commands) == answer = None /\ asked.command \in commands

Respond(answers) ==
    /\ \E a \in answers :
        /\ answer' = a
        /\ hints' \in IF asked.root = None \/ a.status # "ok" THEN {{}} ELSE Cut(HintsAfter(a.rows), MaxHints)
    /\ UNCHANGED <<nodes, edges, here, asked, led>>

\* The row lists, and the edges of a root, that the database cuts after all that is asked of them.
List ==
    /\ Asks({"http-routes", "http-clients", "producers", "jobs", "entities"})
    /\ Respond(Answers(Listed, Applied(asked.command), {}))

Accepted(commands) == Asks(commands) /\ Accepts(asked.command)

Traverse ==
    /\ Accepted(Structured \ {"impact"})
    /\ Respond(Answers(Structural[asked.command], Applied(asked.command), Disclaimed(asked.command)))

Hierarchy ==
    /\ Accepted({"hierarchy"})
    /\ Respond({Answer("ok", R \cup S, Cardinality(Above) > Limit \/ Cardinality(Below) > Limit, Disclaimed("hierarchy")) :
                    R \in Cut(Above, Limit), S \in Cut(Below, Limit)})

\* The service is compared after the rows were cut.
Impact ==
    /\ Asks({"impact"})
    /\ Respond(UNION {Shown(Scoped(F, {"service"}), Disclaimed("impact")) : F \in Cut(Structural["impact"], Fetch)})

\* The roles are compared after the rows were cut, and whether there is more is known of all rows only.
Find ==
    /\ Asks({"find"})
    /\ \E F \in Cut(Scoped(Listed, Applied("find")), Fetch) :
        LET rows == {r \in F : asked.role = None \/ NodeOf(r.other).role = asked.role} IN
        Respond(Displayed(rows, Cardinality(F) > Limit, {}))

\* The producers are cut, and then grouped by their topic: a row is a topic.
Topics ==
    /\ Asks({"topics"})
    /\ \E F \in Cut(Scoped(Listed, Applied("topics")), Fetch) :
        Respond(Shown({Row(NodeOf(r.other).topic, None, None) : r \in {p \in F : NodeOf(p.other).topic # None}},
                      Disclaimed("topics")))

Listeners ==
    /\ Asks({"listeners"})
    /\ \E F \in Cut(Scoped(Listed, Applied("listeners")), ListenerFetch) :
        Respond(Shown({r \in F : asked.text = None \/ r.other \in Consumers}, {}))

\* The database bounds the calls it returns, of which those of external symbols are then left out.
Walked(rows) ==
    UNION {Shown(F, {}) : F \in UNION {Cut({r \in W : ~NodeOf(r.other).external}, Fetch) :
            W \in Cut(Scoped(rows, {"service", "module"}), WalkFactor * Fetch)}}

\* --service and --module also choose the root.
RootFound == InScope(Row(asked.root, None, None), {"service", "module"})

Callers ==
    /\ Accepted({"callers"}) /\ RootFound
    /\ Respond(IF Root.kind = "route"
               THEN Displayed(RouteCallers(asked.root), Cardinality(RouteCallers(asked.root)) > Limit, {})
               ELSE {[a EXCEPT !.rows = @ \cup Exposed] : a \in Walked(CallerRows)})

\* Of the calls of one symbol one is shown, after they were cut.
Collapsed(rows) == {[r EXCEPT !.at = None] : r \in rows}

Callees ==
    /\ Accepted({"callees"})
    /\ Respond(CASE Root.kind = "client"   -> Answers(Targets(Graph!From(asked.root, "HTTP_CALLS")), {}, {})
                 [] Root.kind = "producer" -> Answers(Targets(Graph!From(asked.root, "ASYNC_CALLS")), {}, {})
                 [] Root.kind = "symbol" /\ Root.role = "CLIENT" -> Answers(ClientTargets, {}, {})
                 [] OTHER -> {[a EXCEPT !.rows = Collapsed(@)] : a \in Walked(CalleeRows)})

Flow ==
    /\ Accepted({"flow"})
    /\ Respond(Displayed(FlowRows, Cardinality(FlowRows) > Limit, Disclaimed("flow")))

\* A file's symbols are read whole.
Outline ==
    /\ Asks({"outline"})
    /\ Respond(Shown(Listed, {}))

Callings(ns) == {Row(n.id, IF n.kind = "client" THEN "HTTP_CALLS" ELSE "ASYNC_CALLS", None) : n \in ns}
Calling(row) == asked.calls = None \/ NodeOf(row.other).service = asked.calls

\* Of the clients that call a service, cut, those of the others; and the producers of the topics that its
\* listeners expose: the classes, that is, though it is their methods that do.
InboundClients   == Callings({n \in nodes : n.kind = "client" /\ n.target = asked.text})
ListenedTo       == {e.to : e \in {x \in edges : x.type = "EXPOSES" /\ NodeOf(x.from).cap = "MESSAGE_LISTENER"
                                                               /\ NodeOf(x.from).service = asked.text}}
InboundProducers == {r \in UNION {RouteCallers(id) : id \in ListenedTo} : r.type = "ASYNC_CALLS" /\ Calling(r)}
FromOthers(rows) == {r \in rows : NodeOf(r.other).service # asked.text}

OutboundClients   == Callings({n \in nodes : n.kind = "client" /\ n.service = asked.text})
OutboundProducers == Callings({n \in nodes : n.kind = "producer" /\ n.service = asked.text})
CallsTo(rows)     == {r \in rows : asked.calls = None \/ NodeOf(r.other).target = asked.calls}

Connection ==
    /\ Accepted({"connection"})
    /\ \E C \in Cut(InboundClients, Fetch), D \in Cut(OutboundClients, Fetch), P \in Cut(OutboundProducers, Fetch) :
        LET inbound  == FromOthers({r \in C : Calling(r)} \cup InboundProducers)
            outbound == CallsTo(D) \cup P
        IN  Respond({Answer("ok", R \cup S, Cardinality(inbound) > Limit \/ Cardinality(outbound) > Limit, Disclaimed("connection")) :
                        R \in Cut(inbound, Limit), S \in Cut(outbound, Limit)})

\* Rows are counts; those of what is fetched with a limit grow no further.
Tally(count, capped) == {Row(k, "count", IF k \in capped THEN Min({count[k], Fetch}) ELSE count[k]) : k \in DOMAIN count}
Counts ==
    IF asked.text \in Services
    THEN [k \in {"route", "client", "producer"} |-> Cardinality({n \in nodes : n.kind = k /\ n.service = asked.text})]
         @@ "entity" :> Cardinality({n \in nodes : n.role = "ENTITY" /\ n.service = asked.text})
    ELSE "producer" :> Cardinality({n \in nodes : n.kind = "producer" /\ n.topic = asked.text})
         @@ "consumer" :> Cardinality(Consumers)

Overview ==
    /\ Accepted({"overview"})
    /\ Respond(IF asked.root # None
               THEN Displayed(FlowRows, Cardinality(FlowRows) > Limit, {})
               ELSE {Answer("ok", Tally(Counts, DOMAIN Counts \ {"consumer"}), FALSE, {})})

Inspect ==
    /\ Asks({"inspect"})
    /\ Respond({Answer("ok", {Row(asked.root, None, None)}, FALSE, {})})

\* callers looks its root up in the scope, and only then at its kind.
NotFound == Asks({"callers"}) /\ ~RootFound /\ Respond({Failure("not_found")})

Refuse ==
    /\ answer = None /\ ~Accepts(asked.command)
    /\ asked.command = "callers" => RootFound
    /\ Respond({Failure("error")})

\* The agent runs what a hint says, without flags.
Follow ==
    /\ \E command \in hints :
        /\ asked' = [asked EXCEPT !.command = command, !.service = None, !.module = None]
        /\ led' = asked.command
    /\ answer' = None /\ hints' = {}
    /\ UNCHANGED <<nodes, edges, here>>

Start == answer = None /\ hints = {} /\ led = None

Init ==
    /\ \E c \in Cases : nodes = c.nodes /\ edges = c.edges /\ here = c.here /\ asked = c.asked
    /\ Start

Next == List \/ Traverse \/ Hierarchy \/ Impact \/ Find \/ Topics \/ Listeners \/ Callers \/ Callees \/ Flow \/ Inspect
        \/ Outline \/ Connection \/ Overview
        \/ NotFound \/ Refuse \/ Follow

Spec == Init /\ [][Next]_vars

----------------------------------------------------------------------------
\* The flags that a command neither applies nor says that it does not.
Ignored ==
    CASE asked.command \in {"http-routes", "http-clients", "producers"} -> {"module"}
      [] asked.command \in {"outline", "overview"} -> {"service", "module"}
      [] asked.command = "connection" -> {"service"}
      [] asked.command = "callers" /\ Root.kind = "route" -> {"service", "module"}
      [] asked.command = "callees" /\ (Root.kind # "symbol" \/ Root.role = "CLIENT") -> {"service", "module"}
      [] OTHER -> {}

Kept == Given \ (answer.told \cup Ignored)

Wanted ==
    CASE asked.command = "find" -> {r \in Scoped(Listed, Kept) : asked.role = None \/ NodeOf(r.other).role = asked.role}
      [] asked.command = "listeners" -> {r \in Scoped(Listed, Kept) : asked.text = None \/ r.other \in Consumers}
      [] asked.command = "topics" -> {Row(NodeOf(r.other).topic, None, None) :
                                        r \in {p \in Scoped(Listed, Kept) : NodeOf(p.other).topic # None}}
      [] asked.command \in Lists -> Scoped(Listed, Kept)
      [] asked.command \in Structured -> Scoped(Structural[asked.command], Kept)
      [] asked.command = "hierarchy" -> Scoped(Above \cup Below, Kept)
      [] asked.command = "flow" -> FlowRows
      [] asked.command = "overview" -> IF asked.root # None THEN FlowRows ELSE Tally(Counts, {})
      [] asked.command = "connection" ->
            FromOthers({r \in InboundClients : Calling(r)}) \cup CallsTo(OutboundClients) \cup OutboundProducers
      [] asked.command = "callers" /\ Root.kind = "route" -> RouteCallers(asked.root)
      [] asked.command = "callers" -> Exposed \cup {r \in Scoped(CallerRows, Kept) : ~NodeOf(r.other).external}
      [] asked.command = "callees" /\ Root.kind = "symbol" /\ Root.role # "CLIENT" ->
            Collapsed({r \in Scoped(CalleeRows, Kept) : ~NodeOf(r.other).external})
      [] asked.command = "callees" ->
            ClientTargets \cup Targets(Graph!From(asked.root, "HTTP_CALLS") \cup Graph!From(asked.root, "ASYNC_CALLS"))
      [] OTHER -> {Row(asked.root, None, None)}

\* Rows that the command drops only after it has cut them, so that others may be missing.
CutEarly ==
    CASE asked.command = "impact"    -> "service" \in Kept /\ Cardinality(Structural["impact"]) > Fetch
      [] asked.command = "find"      -> asked.role # None /\ Cardinality(Scoped(Listed, Kept)) > Fetch
      [] asked.command = "topics"    -> Cardinality(Scoped(Listed, Kept)) > Fetch
      [] asked.command = "listeners" -> Cardinality(Scoped(Listed, Kept)) > ListenerFetch
      [] asked.command = "connection" -> Max({Cardinality(InboundClients), Cardinality(OutboundClients)}) > Fetch
      [] asked.command = "overview"  -> asked.root = None /\ \E k \in DOMAIN Counts : Counts[k] > Fetch
      [] asked.command = "callees"   -> Cardinality(Scoped(CalleeRows, Kept)) > WalkFactor * Fetch
      [] OTHER -> FALSE

\* An answer that is not marked as truncated holds every row that was asked for, and none that was not:
\* of the flags the given ones and the announced service of the directory, but for those that the
\* command says it does not apply, or ignores; a truncated one lacks a row.  Not so where rows are dropped
\* after the cut, or counted after it ("inapplicable flags never silently ignored", _warn_unapplied_scope; mark_truncated).
RowsAreWhole ==
    answer # None /\ answer.status = "ok" =>
        /\ answer.rows \subseteq Wanted \/ (asked.command = "overview" /\ CutEarly)
        /\ answer.rows = Wanted \/ answer.truncated \/ CutEarly
        /\ answer.truncated => answer.rows # Wanted \/ asked.command \in {"find", "callees"}

\* A command that was hinted at accepts the root, but for `implementations` of a phantom or, where the hint is
\* not inspect's, of a class; and after inspect it finds rows, unless it is `callees`, which looks for calls
\* where only a client or an external symbol may be, or the service of the directory, which it says it applies,
\* is another ("a root never suggests a command whose kind guard would reject it", jrag_hints.py).
HintsWork ==
    led # None /\ answer # None =>
        /\ answer.status = "error" => asked.command = "implementations" /\ (Root.phantom \/ led # "inspect")
        /\ answer.status = "not_found" => IsAuto /\ Root.service # here
        /\ answer.status = "ok" /\ led = "inspect" /\ answer.rows = {} =>
                asked.command \in {"callees", "flow"} \/ "auto" \in answer.told

\* The end of a walk of some calls.
Steps[n \in Nat] == IF n = 0 THEN Entries ELSE Called(Steps[n - 1])

\* The flow of a symbol lists what its methods call, directly or not, within the hops asked for: each
\* symbol once, with the least number of calls that lead to it, and no entry ("hops (minimum BFS distance from
\* the entry frontier)", _flow_symbol_payload).
FlowIsShortest ==
    answer # None /\ answer.status = "ok" /\ asked.command = "flow" /\ Root.kind = "symbol" =>
        LET shortest == UNION {{Row(id, "CALLS", n) : id \in Steps[n] \ UNION {Steps[k] : k \in 0 .. (n - 1)}} : n \in 1 .. Hops}
        IN  answer.rows \subseteq shortest /\ (answer.rows = shortest \/ answer.truncated)

\* A command's answer can be taken at its word: for the rows it lists, after `flow` for their hops, and for the
\* commands it suggests.
AnswerIsWhole == RowsAreWhole /\ FlowIsShortest /\ HintsWork
=============================================================================
