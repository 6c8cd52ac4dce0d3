------------------------------ MODULE RouteLinks ------------------------------
(***************************************************************************)
(* Passes 4 to 6 of graph/build_ast_graph.py: the routes that the methods      *)
(* expose, the calls that they make of other services, and which route a call  *)
(* leads to; with the layers of configuration that graph_enrich.py puts over    *)
(* what is found in the source, and with what an increment makes of all that   *)
(* in the graph.                                                             *)
(*                                                                         *)
(* A file has one method.  A path is a template, a topic a name, and "" where   *)
(* the source or the configuration does not say.  There is one broker, and one  *)
(* framework to a kind of route.                                             *)
(***************************************************************************)
EXTENDS Naturals, Sequences, FiniteSets

CONSTANTS
    Order,          \* the files, in the order of their methods' node ids
    ServiceOf,      \* the microservice of each
    Contents,       \* contents each may have, None included: see Content
    FqnHint,        \* what the configuration says of the type: see Hint
    Covers,         \* of each path of a route: the paths its path_regex matches
    BrownfieldOnly, \* cross_service_resolution
    MaxPending,     \* bound on the files changed since the last build, and
    MaxIncrements,  \* on the increments since the last full one (TLC only)
    None

Files == {Order[i] : i \in DOMAIN Order}

\* What an annotation, a mapping or a call in the source, or a hint in the
\* configuration, says of a route or a call.  from: the layer it is of.
RouteDecl(kind, method, path, topic, from) ==
    [kind |-> kind, method |-> method, path |-> path, topic |-> topic, from |-> from]
CallDecl(channel, kind, method, path, topic, from) ==
    [channel |-> channel, kind |-> kind, method |-> method, path |-> path, topic |-> topic, from |-> from]

\* routes and calls: what is in the source; the hints: what the configuration says
\* of the annotations on the method.
Content(routes, routeHints, calls, callHints) ==
    [routes |-> routes, routeHints |-> routeHints, calls |-> calls, callHints |-> callHints]
Hint(route, call) == [route |-> route, call |-> call]

VARIABLES
    program,    \* the content of each file, None where there is none
    indexed,    \* the contents the graph was built from
    links,      \* [routes, exposes, clients, calls], in the graph
    shared,     \* history: the routes that two files exposed, since the last full build
    increments  \* since then

vars == <<program, indexed, links, shared, increments>>

Or(value, fallback) == IF value # "" THEN value ELSE fallback

BrownfieldLayers == {"layer_a_meta", "layer_b_ann", "layer_b_fqn", "layer_c_source"}
LayerRank == [builtin |-> 0, layer_b_ann |-> 1, layer_a_meta |-> 2, layer_c_source |-> 3, layer_b_fqn |-> 4]

----------------------------------------------------------------------------
(* The layers *)

IsHttp(r) == r.kind \in {"http_endpoint", "http_consumer"}

\* _merge_layer_c_codebase_routes: an in-source route takes the place of what the
\* framework's annotations say of the same kind, but not of the hints.
MergeLayerC(builtin, hinted, inSource) ==
    {r \in builtin : ~\E o \in inSource : IsHttp(o) = IsHttp(r)} \cup hinted \cup inSource

\* _apply_layer_b_fqn: the last word, field by field.
ApplyFqn(working, h) ==
    IF h = None THEN working
    ELSE IF working = {} THEN {[h EXCEPT !.from = "layer_b_fqn"]}
    ELSE {RouteDecl(h.kind, Or(h.method, r.method), Or(h.path, r.path), Or(h.topic, r.topic), "layer_b_fqn") : r \in working}

\* resolve_routes_for_method
ResolveRoutes(f, c) ==
    LET inSource == {r \in c.routes : r.from = "layer_c_source"}
    IN  ApplyFqn(MergeLayerC(c.routes \ inSource, c.routeHints, inSource), FqnHint[f].route)

\* The file of a route is the first parsed one's: a route that only the
\* configuration knows of has none.
RouteFile(f, c) == IF c.routes = {} THEN None ELSE f

\* _call_from_http_hint and _call_from_async_hint; base is a set of at most one call.
FromHint(h, base, layer) ==
    IF base = {} THEN [h EXCEPT !.from = layer]
    ELSE LET b == CHOOSE b \in base : TRUE
         IN  CallDecl(h.channel, Or(h.kind, b.kind), Or(h.method, b.method), Or(h.path, b.path), Or(h.topic, b.topic), layer)

\* resolve_http_client_for_method and resolve_async_producer_for_method: with any
\* hint or in-source declaration, the calls that were found count no more.
ResolveChannel(f, c, channel) ==
    LET calls    == {x \in c.calls : x.channel = channel}
        inSource == {x \in calls : x.from \in {"codebase_client", "codebase_producer"}}
        builtin  == calls \ inSource
        anchor   == IF builtin # {} THEN {CHOOSE x \in builtin : TRUE}
                    ELSE IF inSource # {} THEN {CHOOSE x \in inSource : TRUE} ELSE {}
        declared == {FromHint(h, anchor, h.from) : h \in {h \in c.callHints : h.channel = channel}}
                        \cup {[x EXCEPT !.from = "layer_c_source"] : x \in inSource}
        h        == FqnHint[f].call
        all      == IF h = None \/ h.channel # channel THEN declared
                    ELSE IF declared = {} THEN {FromHint(h, anchor, "layer_b_fqn")}
                    ELSE {FromHint(h, {x}, "layer_b_fqn") : x \in declared}
    IN  IF all # {} THEN all ELSE builtin

ResolveCalls(f, c) == ResolveChannel(f, c, "http") \cup ResolveChannel(f, c, "async")

CallFile(f, c, call) == IF \E x \in c.calls : x.channel = call.channel THEN f ELSE None

----------------------------------------------------------------------------
(* Pass 4: the routes of a scope *)

\* _route_id.  site: of a phantom that is a place in the source, else None.
RouteId(kind, method, path, topic, service, site) ==
    [kind |-> kind, method |-> method, path |-> path, topic |-> topic, service |-> service, site |-> site]

Route(id, file, layer) == [id |-> id, file |-> file, layer |-> layer]

\* The first of the files, in order.
FirstOf(fs) == Order[CHOOSE i \in DOMAIN Order : Order[i] \in fs /\ \A j \in 1..(i - 1) : Order[j] \notin fs]

Pass4Routes(p, scope) ==
    LET present == {f \in scope : p[f] # None}
        found   == UNION {{[file  |-> f, id |-> RouteId(r.kind, r.method, r.path, r.topic, ServiceOf[f], None),
                            layer |-> r.from] : r \in ResolveRoutes(f, p[f])} : f \in present}
        of(id)  == {x \in found : x.id = id}
        row(id) == LET f == FirstOf({x.file : x \in of(id)})
                       best == CHOOSE x \in of(id) : \A y \in of(id) : LayerRank[y.layer] <= LayerRank[x.layer]
                   IN  Route(id, RouteFile(f, p[f]), best.layer)
    IN  [routes  |-> {row(x.id) : x \in found},
         exposes |-> {<<x.file, x.id>> : x \in {x \in found : x.id.kind # "http_consumer"}}]

----------------------------------------------------------------------------
(* Pass 5: the calls, each to a phantom route that stands for what it names *)

ClientOf(f, call) == [member |-> f, channel |-> call.channel, kind |-> call.kind,
                      path |-> call.path, method |-> call.method, topic |-> call.topic]

\* _phantom_http_route_id and _phantom_async_route_id.
PhantomId(f, call) ==
    LET kind == IF call.channel = "http" THEN "http_endpoint" ELSE "kafka_topic"
        site == IF call.topic # "" \/ (call.path # "" /\ call.method # "") THEN None ELSE f
    IN  RouteId(kind, call.method, call.path, call.topic, "", site)

\* A Feign method that exposes a route calls that one.
SourceRoute(t, f, call) ==
    LET exposed == {x \in t.exposes : x[1] = f}
    IN  IF call.kind = "feign_method" /\ exposed # {} THEN (CHOOSE x \in exposed : TRUE)[2] ELSE PhantomId(f, call)

Pass5Edges(p, t) ==
    LET present == {f \in Files : p[f] # None}
        calls   == UNION {{[file |-> f, call |-> c, to |-> SourceRoute(t, f, c)] : c \in ResolveCalls(f, p[f])} : f \in present}
        ids     == {x.to : x \in calls} \ {r.id : r \in t.routes}
        row(id) == LET f == FirstOf({x.file : x \in {x \in calls : x.to = id}})
                       x == CHOOSE x \in calls : x.to = id /\ x.file = f
                   IN  Route(id, CallFile(f, p[f], x.call), "builtin")
    IN  [routes  |-> t.routes \cup {row(id) : id \in ids},
         exposes |-> t.exposes,
         clients |-> {ClientOf(x.file, x.call) : x \in calls},
         calls   |-> {[client |-> ClientOf(x.file, x.call), route |-> x.to, from |-> x.call.from] : x \in calls}]

----------------------------------------------------------------------------
(* Pass 6: the routes that the calls lead to *)

\* _match_call_edge.  An HTTP call is of the path of the phantom route it was given
\* in pass 5, whatever service its client names.
MatchCallEdge(t, call) ==
    LET real   == {r \in t.routes : r.id.service # ""}
        method == call.client.method
    IN  IF call.from = "unresolved" /\ call.route.path = "" /\ call.route.topic = "" THEN {}
        ELSE IF call.client.channel = "http"
        THEN {r \in real : /\ r.id.kind = "http_endpoint"
                           /\ r.id.method = "" \/ method = "" \/ r.id.method = method
                           /\ call.route.path \in Covers[r.id.path]}
        ELSE {r \in real : r.id.topic = call.route.topic}

Outcome(t, call) ==
    LET found == MatchCallEdge(t, call)
        it    == CHOOSE r \in found : TRUE
    IN  IF call.from = "unresolved" /\ call.route.path = "" /\ call.route.topic = "" THEN "unresolved"
        ELSE IF found = {} THEN "phantom"
        ELSE IF Cardinality(found) > 1 THEN "ambiguous"
        ELSE IF it.id.service = ServiceOf[call.client.member] THEN "intra_service"
        ELSE IF BrownfieldOnly /\ ~({call.from, it.layer} \subseteq BrownfieldLayers) THEN "unresolved"
        ELSE "cross_service"

Pass6Match(t) ==
    LET matched(call) ==
            LET outcome == Outcome(t, call)
            IN  [client |-> call.client, match |-> outcome,
                 route  |-> IF outcome \in {"cross_service", "intra_service"}
                            THEN (CHOOSE r \in MatchCallEdge(t, call) : TRUE).id ELSE call.route]
        calls == {matched(call) : call \in t.calls}
    IN  [t EXCEPT !.calls  = calls,
                  !.routes = {r \in @ : r.id.service # "" \/ \E call \in calls : call.route = r.id}]

----------------------------------------------------------------------------
(* Builds *)

\* What is written of the tables: the layer stays behind.
InGraph(t) == [t EXCEPT !.routes = {[id |-> r.id, file |-> r.file] : r \in @}]

FullLinks(p) == InGraph(Pass6Match(Pass5Edges(p, Pass4Routes(p, Files))))

\* Mutant: the global passes run on tables without routes.
GlobalWithoutRoutes(p) == InGraph(Pass6Match(Pass5Edges(p, [routes |-> {}, exposes |-> {}])))

\* Step 6 of an increment: passes 4 to 6 once more, over everything.
GlobalLinks(p) == FullLinks(p)

\* _delete_file_scope: the EXPOSES edges of the files in scope, and their routes
\* with every edge into them.
DeleteRoutes(g, scope) ==
    LET gone == {r \in g.routes : r.file \in scope}
    IN  [routes  |-> g.routes \ gone,
         exposes |-> {x \in g.exposes : x[1] \notin scope /\ x[2] \notin {r.id : r \in gone}}]

\* _scoped_write copies the routes of the scope: one that is there already makes
\* the copy fail, and the increment falls back to a full build.
CopyClashes(left, scoped) == {r.id : r \in left.routes} \cap {r.id : r \in scoped.routes} # {}

\* _write_clients_producers_and_calls: clients, producers and calls anew, new routes
\* copied and known ones set, none deleted and nothing exposed.
WriteGlobal(left, all) ==
    [all EXCEPT !.routes  = @ \cup {r \in left.routes : r.id \notin {q.id : q \in all.routes}},
                !.exposes = left.exposes]

IncrementLinks(g, p, scope) ==
    LET left   == DeleteRoutes(g, scope)
        scoped == InGraph(Pass4Routes(p, scope))
    IN  WriteGlobal([routes |-> left.routes \cup scoped.routes, exposes |-> left.exposes \cup scoped.exposes], GlobalLinks(p))

----------------------------------------------------------------------------
Changed == {f \in Files : program[f] # indexed[f]}

SharedBy(g) == {x[2] : x \in {x \in g.exposes : \E y \in g.exposes : y[2] = x[2] /\ y[1] # x[1]}}

Init ==
    /\ program \in [Files -> UNION {Contents[f] : f \in Files}]
    /\ \A f \in Files : program[f] \in Contents[f]
    /\ indexed = program
    /\ links = FullLinks(program)
    /\ shared = SharedBy(links)
    /\ increments = 0

EditFile(f) ==
    /\ Cardinality(Changed \cup {f}) <= MaxPending
    /\ program' \in {[program EXCEPT ![f] = c] : c \in Contents[f]}
    /\ UNCHANGED <<indexed, links, shared, increments>>

Rebuild ==
    /\ links' = FullLinks(program)
    /\ indexed' = program
    /\ shared' = SharedBy(links')
    /\ increments' = 0
    /\ UNCHANGED program

\* The changed files, with the files that depend on them, which are any here.
Increment(dependents) ==
    LET scope == Changed \cup dependents
    IN  /\ Changed # {}
        /\ increments < MaxIncrements
        /\ \A f \in dependents : program[f] # None
        /\ IF CopyClashes(DeleteRoutes(links, scope), InGraph(Pass4Routes(program, scope)))
           THEN Rebuild
           ELSE /\ links' = IncrementLinks(links, program, scope)
                /\ indexed' = program
                /\ shared' = shared \cup SharedBy(FullLinks(program))
                /\ increments' = increments + 1
                /\ UNCHANGED program

Next ==
    \/ \E f \in Files : EditFile(f)
    \/ \E dependents \in SUBSET Files : Increment(dependents)
    \/ Rebuild

Spec == Init /\ [][Next]_vars

----------------------------------------------------------------------------
(* properties *)

\* After an increment the calls, and where they lead, are those of a full build of
\* the same sources, and so are the routes, but for two kinds that stay behind:
\* phantoms nothing leads to, and routes of the configuration alone, which have no
\* file to be deleted with.  No edge is exposed that should not be; one is missing
\* only where two files had exposed the same route.
LinksFollowSources ==
    indexed = program =>
        LET full == FullLinks(program)
        IN  /\ links.calls = full.calls /\ links.clients = full.clients
            /\ full.routes \subseteq links.routes
            /\ \A r \in links.routes \ full.routes :
                 /\ \A call \in links.calls : call.route # r.id
                 /\ r.id.service = "" \/ r.file = None
            /\ links.exposes \subseteq full.exposes
            /\ \A x \in full.exposes \ links.exposes : x[2] \in shared
=============================================================================
