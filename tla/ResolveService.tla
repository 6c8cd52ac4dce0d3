--------------------------- MODULE ResolveService ---------------------------
(***************************************************************************)
(* What an identifier names: resolve_v2 asks the graph one query after another, *)
(* drops the mirrors of served routes, merges and ranks what it found and caps  *)
(* it; resolve_query, behind the commands, then picks one node or lists the     *)
(* candidates.  A request reads one snapshot of the graph.                      *)
(*                                                                         *)
(* An identifier is a sequence of words, a word, a path, a topic or a qualified *)
(* name a sequence of tokens; the length of a text is its number of tokens.      *)
(***************************************************************************)
EXTENDS Naturals, SequencesExt

CONSTANTS
    None,
    Graphs,         \* the graphs to ask, each a set of nodes
    Requests,       \* [words, hint, service, role]: what is asked, of which kind, where, of which role
    RowLimit,       \* _RESOLVE_PRE_DEDUP_LIMIT: rows one query returns
    CandidateCap    \* _RESOLVE_CANDIDATE_CAP

VARIABLES
    graph,      \* the nodes in the graph
    asked,      \* the request
    todo,       \* the rows of its queries that have not run
    raw,        \* the candidates found so far
    answer      \* None, or what the command says

vars == <<graph, asked, todo, raw, answer>>

NodesOf(kind) == {n \in graph : n.kind = kind}

\* _scope_clause: the service of --service, when one is given.
InScope(n) == asked.service = None \/ n.service = asked.service

\* The identifier as one text; of several words it equals no name, topic or path.
Text == IF Len(asked.words) = 1 THEN asked.words[1] ELSE <<>>
IsPath(word) == word # <<>> /\ word[1] = "/"

\* Where the first # is in a text; 0: nowhere.
HashIn(text) == SelectInSeq(text, LAMBDA t : t = "#")
HasPart(text, part) == \E i \in 1..Len(text) : IsPrefix(part, SubSeq(text, i, Len(text)))

Found(nodes, reason, spec) == {[node |-> n, reason |-> reason, spec |-> spec] : n \in nodes}
FoundBy(nodes, reason, Spec(_)) == UNION {Found({n}, reason, Spec(n)) : n \in nodes}

ById(kind) == Found({n \in NodesOf(kind) : <<n.id>> = Text /\ InScope(n)}, "exact_id", Len(Text))

----------------------------------------------------------------------------
(* The queries of each kind.  Where the code writes A OR B AND scope, the scope   *)
(* binds B alone.                                                            *)

SymbolQueries ==
    LET symbols == NodesOf("symbol")
        hash  == HashIn(Text)
        open  == hash # 0 /\ ~HasPart(Text, <<"(">>)
        short == open /\ ~HasPart(SubSeq(Text, 1, hash), <<".">>) /\ hash \in 2..(Len(Text) - 1)
        FqnLen(n) == Len(n.fqn)
    IN  << ById("symbol"),
           Found({n \in symbols : n.fqn = Text /\ InScope(n)}, "exact_fqn", Len(Text)),
           Found({n \in symbols : open /\ IsPrefix(Text \o <<"(">>, n.fqn) /\ InScope(n)}, "fqn_suffix", Len(Text) + 1),
           Found({n \in symbols : short /\ HasPart(n.fqn, <<".">> \o Text \o <<"(">>) /\ InScope(n)},
                 "fqn_suffix", Len(Text) + 1),
           FoundBy({n \in symbols : \/ n.fqn = Text
                                    \/ Text # <<>> /\ IsSuffix(<<".">> \o Text, n.fqn) /\ InScope(n)}, "fqn_suffix", FqnLen),
           Found({n \in symbols : <<n.name>> = Text /\ InScope(n)}, "short_name", Len(Text)) >>

Template(n) == IF n.template # <<>> THEN n.template ELSE n.path
Serves(n, path) == path \in {n.path, n.template}

RouteQueries ==
    LET routes == NodesOf("route")
        size   == Len(asked.words)
        last   == IF size = 0 THEN <<>> ELSE asked.words[size]
        method == IF size > 1 /\ IsPath(last) THEN asked.words[size - 1] ELSE <<>>
        \* the parameter $ms of the identifier's service is overwritten by that of the scope
        service == IF asked.service = None THEN asked.words[1] ELSE <<asked.service>>
        TemplateLen(n) == Len(Template(n))
    IN  << ById("route"),
           Found({n \in routes : /\ size = 3 /\ <<n.service>> = service /\ <<n.method>> = method
                                 /\ Serves(n, last) /\ InScope(n)}, "route_method_path", Len(last)),
           Found({n \in routes : size = 2 /\ <<n.method>> = method /\ Serves(n, last) /\ InScope(n)},
                 "route_method_path", Len(last)),
           FoundBy({n \in routes : IsPath(Text) /\ (n.path = Text \/ (n.template = Text /\ InScope(n)))},
                   "route_template", TemplateLen),
           Found({n \in routes : Text # <<>> /\ n.topic = Text /\ InScope(n)}, "route_topic", Len(Text)),
           Found({n \in routes : Text # <<>> /\ ~IsPath(Text) /\ IsPrefix(Text, n.topic) /\ InScope(n)},
                 "route_topic_prefix", Len(Text)) >>

\* `by` is the symbol that declares the client, which is of the same service.
ClientQueries ==
    LET clients == NodesOf("client")
        named   == Text # <<>> /\ ~IsPath(Text)
        prefix  == IF Len(asked.words) = 2 THEN asked.words[2] ELSE <<>>
        MemberLen(n) == Len(n.by.fqn)
    IN  << ById("client"),
           Found({n \in clients : /\ prefix # <<>> /\ <<n.target>> = asked.words[1]
                                  /\ IsPrefix(prefix, n.path) /\ InScope(n)}, "client_target_path", Len(prefix)),
           Found({n \in clients : named /\ <<n.target>> = Text /\ InScope(n)}, "client_target", Len(Text)),
           Found({n \in clients : named /\ <<n.by.name>> = Text /\ InScope(n)}, "client_name", Len(Text)),
           \* s.fqn and c.member_fqn are both the declaring method's name
           FoundBy({n \in clients : named /\ IsSuffix(<<".">> \o Text, n.by.fqn)}, "client_fqn", MemberLen) >>

ProducerQueries ==
    LET producers == NodesOf("producer")
    IN  << ById("producer"),
           Found({n \in producers : Text # <<>> /\ n.topic = Text /\ InScope(n)}, "producer_topic", Len(Text)),
           Found({n \in producers : Text # <<>> /\ ~IsPath(Text) /\ IsPrefix(Text, n.topic) /\ InScope(n)},
                 "producer_topic_prefix", Len(Text)) >>

QueriesOf(kind) == CASE kind = "symbol" -> SymbolQueries [] kind = "route"    -> RouteQueries
                     [] kind = "client" -> ClientQueries [] kind = "producer" -> ProducerQueries

\* _resolve_kinds_to_search: without a hint, every kind in this order.
Queries == IF asked.hint = None THEN SymbolQueries \o RouteQueries \o ClientQueries \o ProducerQueries
           ELSE QueriesOf(asked.hint)

----------------------------------------------------------------------------
(* From rows to an answer *)

\* The qualified name a candidate is shown by.
Fqn(n) ==
    CASE n.kind = "symbol" -> n.fqn
      [] n.kind = "client" -> n.by.fqn \o <<"->", n.target>>
      [] n.kind = "route" /\ (n.method # "" \/ Template(n) # <<>>) -> <<n.method>> \o Template(n)
      [] OTHER -> <<"topic:">> \o n.topic

\* A route nothing exposes is a mirror, dropped beside a served route of the same name.
DropMirrors(cands) ==
    {c \in cands : c.node.kind # "route" \/ c.node.exposed \/
        ~\E d \in cands : d.node.kind = "route" /\ d.node.exposed /\ Fqn(d.node) = Fqn(c.node)}

Priority(reason) ==
    CASE reason = "exact_id" -> 0
      [] reason \in {"exact_fqn", "route_method_path", "client_target_path", "producer_topic_prefix"} -> 1
      [] reason \in {"fqn_suffix", "route_template", "route_topic", "client_fqn"} -> 2
      [] OTHER -> 3

Stronger(c, d) == \/ Priority(c.reason) < Priority(d.reason)
                  \/ Priority(c.reason) = Priority(d.reason) /\ c.spec > d.spec

Alike(c, d) == ~Stronger(c, d) /\ ~Stronger(d, c)

\* Of the candidates for one node the strongest, of equals the one found first.
Dedupe(cands) ==
    {c \in cands : ~\E d \in cands :
        d.node = c.node /\ (Stronger(d, c) \/ (Alike(c, d) /\ d.left > c.left))}

Before(c, d) == Stronger(c, d) \/ (Alike(c, d) /\ c.node.nr < d.node.nr)

\* The i-th is the one that i - 1 come before.
Rank(cands) ==
    [i \in 1..Cardinality(cands) |-> CHOOSE c \in cands : Cardinality({d \in cands : Before(d, c)}) = i - 1]

\* Mutant: the last candidate within the cap is cut off.
CappedShort(ranked) == SubSeq(ranked, 1, IF Len(ranked) < CandidateCap THEN Len(ranked) ELSE CandidateCap - 1)

Capped(ranked) == SubSeq(ranked, 1, IF Len(ranked) < CandidateCap THEN Len(ranked) ELSE CandidateCap)

\* _matches_post_filters, with the filter on the role.
Passes(n) == asked.role = None \/ (n.kind = "symbol" /\ n.role = asked.role)

IsMember(n) == HasPart(Fqn(n), <<"#">>)

\* _constructor_owner_fqn: the method of n is named as its type is.
ConstructorOf(n, type) ==
    LET hash == HashIn(Fqn(n))
    IN  hash > 1 /\ SubSeq(Fqn(n), 1, hash - 1) = Fqn(type) /\ Fqn(n)[hash + 1] = Last(Fqn(type))

NotFound == [status |-> "not_found", node |-> None, candidates |-> {}]
Picked(n) == [status |-> "ok", node |-> n, candidates |-> {}]

\* resolve_query: one survivor of the filters is the answer, or the one type among its own constructors.
Pick(resolved) ==
    LET survivors == {n \in {c.node : c \in ToSet(resolved)} : Passes(n)}
        types     == {n \in survivors : ~IsMember(n)}
    IN  IF survivors = {} THEN NotFound
        ELSE IF \E n \in survivors : survivors = {n} \/ (types = {n} /\ \A m \in survivors \ {n} : ConstructorOf(m, n))
        THEN Picked(CHOOSE n \in survivors : survivors = {n} \/ types = {n})
        ELSE [status |-> "ambiguous", node |-> None, candidates |-> survivors]

----------------------------------------------------------------------------
\* An empty identifier, or one with a wildcard, is refused before any query.
Refused == asked.words = <<>> \/ \E i \in DOMAIN asked.words : HasPart(asked.words[i], <<"*">>)

Init ==
    /\ graph \in Graphs
    /\ asked \in Requests
    /\ todo = (IF Refused THEN <<>> ELSE Queries) /\ raw = {} /\ answer = None

Refuse ==
    /\ Refused /\ answer = None
    /\ answer' = NotFound
    /\ UNCHANGED <<graph, asked, todo, raw>>

\* The rows of a query, any RowLimit of them when there are more: no query orders its rows.
Cut(rows) == IF Cardinality(rows) <= RowLimit THEN {rows} ELSE kSubset(RowLimit, rows)

Query ==
    /\ todo # <<>>
    /\ \E rows \in Cut(Head(todo)) :
        LET all == raw \cup {[node |-> r.node, reason |-> r.reason, spec |-> r.spec, left |-> Len(todo)] : r \in rows}
        IN  raw' = IF Len(todo) > 1 THEN all ELSE DropMirrors(all)
    /\ todo' = Tail(todo)
    /\ UNCHANGED <<graph, asked, answer>>

Answer ==
    /\ ~Refused /\ todo = <<>> /\ answer = None
    /\ answer' = Pick(Capped(Rank(Dedupe(raw))))
    /\ UNCHANGED <<graph, asked, todo, raw>>

Next == Refuse \/ Query \/ Answer

Spec == Init /\ [][Next]_vars

----------------------------------------------------------------------------
(* Everything the identifier names, and whether neither limit cut any of it. *)
Named == {c.node : c \in DropMirrors(UNION ToSet(Queries))}
Whole == Cardinality(Named) <= CandidateCap /\ \A rows \in ToSet(Queries) : Cardinality(rows) <= RowLimit

\* When no limit cuts the search, a command answers with a node only if nothing else the
\* identifier names passes its filters, its own constructors apart, lists every such node when
\* there are several, and says "not found" only if there is none (resolve_query: "Auto-pick is forbidden").
PickIsUnique ==
    answer # None /\ ~Refused /\ Whole =>
        LET fit == {n \in Named : Passes(n)}
        IN  CASE answer.status = "ok" ->
                    answer.node \in fit /\ \A m \in fit \ {answer.node} : ConstructorOf(m, answer.node)
              [] answer.status = "ambiguous" -> answer.candidates = fit /\ Cardinality(fit) > 1
              [] answer.status = "not_found" -> fit = {}

\* A command given a service answers with a node of that service (_scope_clause: the scope is
\* pushed down into resolve "so they act as resolve-time filters").
AnswerIsInScope == answer # None /\ answer.status = "ok" => InScope(answer.node)
=============================================================================
