----------------------------- MODULE CommandCases -----------------------------
(***************************************************************************)
(* Instances of ReadCommands for TLC: two classes and an interface of two       *)
(* services, their methods, calls, clients and routes; and lists of nodes alike. *)
(***************************************************************************)
EXTENDS Naturals, FiniteSets, TLC

CONSTANT None

Node(id, kind, service) ==
    [id |-> id, kind |-> kind, sym |-> None, static |-> FALSE, role |-> None, module |-> service, rank |-> 0, name |-> None,
     service |-> service, cap |-> None, topic |-> None, target |-> None, file |-> None, exposed |-> FALSE, external |-> FALSE, names |-> None, phantom |-> FALSE]
Symbol(id, sym, service) == [Node(id, "symbol", service) EXCEPT !.sym = sym]

Link(type, from, to)     == [type |-> type, from |-> from, to |-> to, at |-> 0, sure |-> TRUE]
Site(type, from, to, at) == [Link(type, from, to) EXCEPT !.at = at]

\* P stands for a supertype outside of the sources; e is external; K is a Feign interface.
GraphNodes ==
    { Symbol("I", "interface", "s1"), Symbol("C", "class", "s1"), Symbol("D", "class", "s2"),
      [Symbol("P", "class", None) EXCEPT !.phantom = TRUE], [Symbol("K", "interface", "s1") EXCEPT !.role = "CLIENT"],
      Symbol("i", "method", "s1"), Symbol("c", "method", "s1"), Symbol("d", "method", "s2"), Symbol("k", "method", "s1"),
      [Symbol("e", "method", None) EXCEPT !.external = TRUE], Symbol("f", "file", "s1"),
      [Node("client", "client", "s1") EXCEPT !.names = "r"], Node("producer", "producer", "s1"),
      [Node("r", "route", "s2") EXCEPT !.exposed = TRUE], [Node("t", "route", "s2") EXCEPT !.topic = "t"] }

Declared == {Link("DECLARES", p[1], p[2]) : p \in {<<"I", "i">>, <<"C", "c">>, <<"D", "d">>, <<"K", "k">>}}
Optional ==
    { {Link("IMPLEMENTS", "C", "I"), Link("OVERRIDES", "c", "i"), Link("IMPLEMENTS", "D", "P")},
      {Link("IMPLEMENTS", "D", "I"), Link("OVERRIDES", "d", "i"), Link("EXTENDS", "K", "I")},
      {Link("EXTENDS", "D", "C"), Link("OVERRIDES", "d", "c")},
      {Site("INJECTS", "D", "C", 1), Site("INJECTS", "D", "C", 2), Site("INJECTS", "C", "I", 1)},
      {Site("CALLS", "c", "i", 1), Site("CALLS", "i", "d", 1), Site("CALLS", "d", "c", 1), Site("CALLS", "d", "d", 2)},
      {Site("CALLS", "c", "e", 2), Site("CALLS", "c", "i", 3), Site("CALLS", "c", "d", 4)},
      {Link("DECLARES_CLIENT", "k", "client"), Link("DECLARES_PRODUCER", "c", "producer"), Link("HTTP_CALLS", "client", "r")},
      {Link("EXPOSES", "d", "r"), Link("EXPOSES", "d", "t"), Link("ASYNC_CALLS", "producer", "t"), Link("EXPOSES", "c", "t")} }

Ask(command, root) ==
    [command |-> command, root |-> root, service |-> None, module |-> None, text |-> None, role |-> None, calls |-> None, depth |-> 2]
Of(service, module, ask) == [ask EXCEPT !.service = service, !.module = module]

Walks ==
    {Ask("inspect", root) : root \in {"I", "C", "P", "K", "c", "i", "client", "producer", "r", "t"}}
    \cup {Ask(c, root) : c \in {"implementations", "subclasses", "hierarchy"}, root \in {"I", "C", "c", "r"}}
    \cup {Ask(c, root) : c \in {"overrides", "overridden-by", "dependents", "dependencies"}, root \in {"C", "i", "client"}}
    \cup {Ask(c, root) : c \in {"callers", "callees", "flow", "impact"}, root \in {"C", "c", "client", "r", "t", "K", "f"}}
    \cup {Of(s, None, [Ask("overview", "r") EXCEPT !.depth = 5]) : s \in {None, "s1", "s9"}}
    \cup {Of("s1", "s2", Ask(c, "C")) : c \in {"subclasses", "hierarchy", "callers", "callees", "flow", "impact"}}
    \cup {Of("s1", None, Ask(c, root)) : c \in {"callers", "callees", "impact", "implementations"}, root \in {"I", "K", "r"}}
    \cup {[Ask("flow", "c") EXCEPT !.depth = n] : n \in {0, 3}}

\* Nodes of one kind of which some are of a service, a topic or a role.
Two(n)  == {n, [n EXCEPT !.id = "b", !.service = "s2", !.module = "s2"], [n EXCEPT !.id = "c"]}
Topical == {[n EXCEPT !.topic = IF n.id = "b" THEN None ELSE n.id] : n \in Two(Node("a", "producer", "s1"))}
Heard   == {Symbol("w", "class", "s1"), Symbol("m", "method", "s1"), [Node("t", "route", "s1") EXCEPT !.topic = "t"]}
Pools ==
    "http-routes"  :> {[n EXCEPT !.exposed = n.id # "c"] : n \in Two(Node("a", "route", "s1"))}
 @@ "http-clients" :> Two(Node("a", "client", "s1"))
 @@ "producers"    :> Topical
 @@ "topics"       :> Topical \cup {[n EXCEPT !.id = "d"] : n \in {p \in Topical : p.id = "a"}}
 @@ "jobs"         :> Two([Symbol("a", "class", "s1") EXCEPT !.cap = "SCHEDULED_TASK"])
 @@ "listeners"    :> Two([Symbol("a", "class", "s1") EXCEPT !.cap = "MESSAGE_LISTENER"])
 @@ "entities"     :> Two([Symbol("a", "class", "s1") EXCEPT !.role = "ENTITY"])
 @@ "find"         :> {[n EXCEPT !.name = "n", !.role = IF n.id = "a" THEN "ENTITY" ELSE None] : n \in Two(Symbol("a", "class", "s1"))}
 @@ "outline"      :> {[n EXCEPT !.file = IF n.service = "s1" THEN "F" ELSE None] : n \in Two(Symbol("a", "class", "s1"))}
 @@ "connection"   :> {[n EXCEPT !.target = IF n.service = "s1" THEN "s2" ELSE "s1"] : n \in Two(Node("a", "client", "s1"))}
                      \cup {[Node("d", "client", "s2") EXCEPT !.target = "s1"], Node("p", "producer", "s1"),
                            [Node("g", "client", "s1") EXCEPT !.target = "s1"]}
 @@ "overview"     :> Topical \cup {[n EXCEPT !.id = "d", !.topic = "a"] : n \in {p \in Topical : p.id = "c"}}
Questions(command) ==
    LET all == {Of(s, m, Ask(command, None)) : s \in {None, "s1"}, m \in {None, "s1"}}
    IN  CASE command = "listeners" -> all \cup {[q EXCEPT !.text = "t"] : q \in all}
          [] command = "find"      -> {[q EXCEPT !.text = "n", !.role = r] : q \in all, r \in {None, "ENTITY"}}
          [] command = "outline"   -> {[q EXCEPT !.text = "F"] : q \in all}
          [] command = "connection" -> {[q EXCEPT !.text = t, !.calls = c] : q \in all, t \in {"s1", "s2"}, c \in {None, "s2"}}
          [] command = "overview"  -> {[q EXCEPT !.text = t] : q \in all, t \in {"s1", "t", "a"}}
          [] OTHER                 -> all

Case(ns, es, h, q) == [nodes |-> ns, edges |-> es, here |-> h, asked |-> q]

\* Two groups of the optional edges at most, or all but one at least.
Groups == {o \in SUBSET Optional : Cardinality(o) \notin 3 .. (Cardinality(Optional) - 2)}

MCCases ==
    {Case(GraphNodes, Declared \cup UNION o, h, w) : o \in Groups, h \in {None, "s2"}, w \in Walks}
    \cup UNION {{Case(ns \cup Heard, {Link("DECLARES", "a", "m"), Link("EXPOSES", "m", "t")}, h, q) :
                    ns \in SUBSET Pools[command], h \in {None, "s2"}, q \in Questions(command)} : command \in DOMAIN Pools}
=============================================================================
