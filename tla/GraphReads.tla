----------------------------- MODULE GraphReads -----------------------------
(***************************************************************************)
(* An MCP client reads the graph: it has nodes described, and then follows      *)
(* their edges (neighbors_v2), or looks nodes up (find_v2), page after page,     *)
(* until the answers say that there is no more.  The graph does not change.      *)
(*                                                                         *)
(* An edge is [type, from, to, at, sure]: `at` orders the call sites of a method, *)
(* and stands for line and byte; `sure` is whether the edge filter keeps it.      *)
(***************************************************************************)
EXTENDS Naturals, SequencesExt

CONSTANTS
    None,
    Cases,      \* [nodes, edges, request]: the graphs to read and what to ask of them; a node is [id, kind,
                \* sym, static, role, module, rank], rank its place in find's order, and a request [tool, ids,
                \* dir, types, role, module, sure, unresolved, dedup]
    Limit,      \* the page size
    Clamp       \* list_routes: no more rows than this

VARIABLES
    nodes, edges,   \* the graph
    request,
    summary,    \* the edge summaries of the nodes asked about, None before describe
    offset,     \* of the next page
    seen,       \* the rows of the pages so far
    status      \* "asking", "done" or "refused"

vars == <<nodes, edges, request, summary, offset, seen, status>>

NodeOf(id) == CHOOSE n \in nodes : n.id = id
From(id, type) == {e \in edges : e.from = id /\ e.type = type}
Into(id, type) == {e \in edges : e.to = id /\ e.type = type}

MemberTypes == "DECLARES.DECLARES_CLIENT" :> "DECLARES_CLIENT" @@ "DECLARES.DECLARES_PRODUCER" :> "DECLARES_PRODUCER"
               @@ "DECLARES.EXPOSES" :> "EXPOSES"
OverrideTypes == "OVERRIDDEN_BY.DECLARES_CLIENT" :> "DECLARES_CLIENT" @@ "OVERRIDDEN_BY.EXPOSES" :> "EXPOSES"
                 @@ "OVERRIDDEN_BY.DECLARES_PRODUCER" :> "DECLARES_PRODUCER"
MemberKeys    == DOMAIN MemberTypes
OverrideKeys  == {"OVERRIDDEN_BY"} \cup DOMAIN OverrideTypes
ComposedKeys  == MemberKeys \cup OverrideKeys

IsType(n)   == n.kind = "symbol" /\ n.sym \in {"class", "interface"}
IsMethod(n) == n.kind = "symbol" /\ n.sym = "method"

----------------------------------------------------------------------------
(* describe: how many edges of each type a node has *)

MemberRows(id, type) == {<<d, e>> \in edges \X edges : d \in From(id, "DECLARES") /\ e \in From(d.to, type)}

Overriders(id) == {o.from : o \in Into(id, "OVERRIDES")}

OverrideGate(n) == IsMethod(n) /\ ~n.static

Stored(id, type) == [out |-> Cardinality(From(id, type)), in |-> Cardinality(Into(id, type))]
OutOnly(n) == [out |-> n, in |-> 0]

\* override_axis_rollup_for: of the declarations a method overrides and of the methods that override it.
OverrideRollup(id) ==
    [key \in DOMAIN OverrideTypes |-> OutOnly(Cardinality(UNION {From(m, OverrideTypes[key]) : m \in Overriders(id)}))]
    @@ "OVERRIDDEN_BY" :> OutOnly(Cardinality(Overriders(id)))
    @@ "OVERRIDES" :> OutOnly(Cardinality({o.to : o \in From(id, "OVERRIDES")}))

MergeOverrides(stored, rolled) ==
    [out |-> Max({stored.out, rolled.out}), in |-> Max({stored.in, rolled.in})]

EdgeSummary(id) ==
    LET n == NodeOf(id)
        stored == [key \in {e.type : e \in edges} |-> Stored(id, key)]
        rolled == OverrideRollup(id)
        members == [key \in MemberKeys |-> OutOnly(Cardinality(MemberRows(id, MemberTypes[key])))]
    IN  CASE IsType(n) -> members @@ stored
          [] OverrideGate(n) ->
                "OVERRIDES" :> MergeOverrides(Stored(id, "OVERRIDES"), rolled["OVERRIDES"]) @@ rolled @@ stored
          [] OTHER -> stored

Describe ==
    /\ request.tool = "neighbors" /\ summary = None
    /\ summary' = [id \in ToSet(request.ids) |-> EdgeSummary(id)]
    /\ UNCHANGED <<nodes, edges, request, offset, seen, status>>

----------------------------------------------------------------------------
(* neighbors *)

Types        == ToSet(request.types)
OnlyCalls    == request.types = <<"CALLS">>
SingleOrigin == Len(request.ids) = 1
Filtered     == request.role # None \/ request.module # None

\* A row is [origin, type, other, at, sure, kind, via]: via is the first edge of two.
Row(id, key, other, e, via) ==
    [origin |-> id, type |-> key, other |-> other, at |-> e.at, sure |-> e.sure, kind |-> "resolved", via |-> via]
FlatRows(id, key) ==
    IF request.dir = "out" THEN {Row(id, key, e.to, e, None) : e \in From(id, key)}
                           ELSE {Row(id, key, e.from, e, None) : e \in Into(id, key)}
ComposedRows(id, key) ==
    CASE key \in MemberKeys -> {Row(id, key, p[2].to, p[2], p[1].to) : p \in MemberRows(id, MemberTypes[key])}
      [] key = "OVERRIDDEN_BY" -> {Row(id, key, m, [at |-> 0, sure |-> TRUE], None) : m \in Overriders(id)}
      [] OTHER -> UNION {{Row(id, key, e.to, e, m) : e \in From(m, OverrideTypes[key])} : m \in Overriders(id)}
StoredRows(id) ==
    {r \in UNION {IF key \in ComposedKeys THEN ComposedRows(id, key) ELSE FlatRows(id, key) : key \in Types} :
        request.sure => r.sure}

\* _node_matches_filter; a filter on the role is for symbols only.
Matches(n) == /\ request.role = None \/ n.role = request.role
              /\ request.module = None \/ n.module = request.module
Inapplicable(n) == request.role # None /\ n.kind # "symbol"

\* include_unresolved: the sites of the calls that were not resolved, which no filter drops.
UnresolvedRows(id) ==
    IF request.unresolved
    THEN {[Row(id, "CALLS", e.to, e, None) EXCEPT !.kind = "unresolved"] : e \in From(id, "UNRESOLVED_AT")} ELSE {}

\* _dedup_call_edges: of the calls of one callee the first.
Collapsed(rows) ==
    IF request.dedup /\ OnlyCalls
    THEN {r \in rows : r.kind = "resolved" => \A s \in rows : s.kind = r.kind /\ s.other = r.other => r.at <= s.at} ELSE rows

OriginRows(id) == Collapsed({r \in StoredRows(id) : Matches(NodeOf(r.other))} \cup UnresolvedRows(id))
NeighborRows == UNION {OriginRows(id) : id \in ToSet(request.ids)}

\* _composed_axis_origin_error: why a composed key does not apply to a node.
AxisError(n) ==
    \/ Types \cap MemberKeys # {} /\ ~IsType(n)
    \/ Types \cap OverrideKeys # {} /\ (~IsMethod(n) \/ n.static)

NeighborsRefuse ==
    \/ request.unresolved /\ (request.sure \/ ~OnlyCalls \/ request.dir # "out")
    \/ request.sure /\ ~OnlyCalls
    \/ Types \cap ComposedKeys # {} /\ request.dir # "out"
    \/ \E id \in ToSet(request.ids) :
        AxisError(NodeOf(id)) \/ \E r \in StoredRows(id) : Inapplicable(NodeOf(r.other))

\* The order rows come in: of the origins, then, for calls alone, of the sites; otherwise of the
\* types asked for, the stored before the member keys and these before the override keys.
TypeRank(key) == SelectInSeq(request.types, LAMBDA t : t = key)
                 + (CASE key \in MemberKeys -> 10 [] key \in OverrideKeys -> 20 [] OTHER -> 0)
OriginRank(id) == SelectInSeq(request.ids, LAMBDA i : i = id)
NeighborBefore(r, s) ==
    \/ OriginRank(r.origin) < OriginRank(s.origin)
    \/ r.origin = s.origin /\ (IF OnlyCalls THEN r.at < s.at \/ (r.at = s.at /\ r.kind = "resolved" /\ s.kind # r.kind)
                                            ELSE TypeRank(r.type) < TypeRank(s.type))

----------------------------------------------------------------------------
(* find *)

\* What the query itself selects: of the symbols by every filter, of the routes by all but the module.
FindQuery ==
    IF request.types = <<"symbol">>
    THEN {n \in nodes : n.kind = "symbol" /\ n.sym # "file" /\ Matches(n)}
    ELSE {n \in nodes : n.kind = "route"}

FindRefuses == request.role # None /\ request.types # <<"symbol">>
FindBefore(n, m) == n.rank < m.rank

\* A row more than the page, to know whether there are more.
FetchCap == Limit + offset + 1

----------------------------------------------------------------------------
(* Pages *)

\* Rows that compare equal come in any order, another one each time.
Orders(rows, Before(_, _)) ==
    {q \in SetToSeqs(rows) : \A i, j \in DOMAIN q : i < j => ~Before(q[j], q[i])}
Slice(rows, from, size) == SubSeq(rows, from + 1, IF from + size < Len(rows) THEN from + size ELSE Len(rows))

\* Mutant: the row beyond the page does not count.
MoreButOne(rows) == Len(rows) > offset + Limit + 1

HasMore(rows) == Len(rows) > offset + Limit

\* neighbors_v2: the database pages the calls of one origin and then cannot tell if there are more; with a
\* filter, and for several origins, all rows are read first, and the calls of one origin returned whole.
InSql == OnlyCalls /\ SingleOrigin /\ ~Filtered /\ ~request.unresolved /\ ~request.dedup
NeighborsPage(rows) ==
    CASE InSql -> [rows |-> Slice(rows, offset, Limit), more |-> None]
      [] OnlyCalls /\ SingleOrigin /\ ~InSql -> [rows |-> rows, more |-> FALSE]
      [] OTHER -> [rows |-> Slice(rows, offset, Limit), more |-> HasMore(rows)]

FindPage(queried) ==
    LET fetched == IF request.types = <<"symbol">> THEN Slice(queried, 0, FetchCap) ELSE Slice(queried, 0, Clamp)
        rows    == SelectSeq(fetched, Matches)
    IN  [rows |-> Slice(rows, offset, Limit), more |-> HasMore(rows)]

Pages == IF request.tool = "find" THEN {FindPage(q) : q \in Orders(FindQuery, FindBefore)}
                                  ELSE {NeighborsPage(q) : q \in Orders(NeighborRows, NeighborBefore)}

Start == summary = None /\ offset = 0 /\ seen = <<>> /\ status = "asking"

Init ==
    /\ \E c \in Cases : nodes = c.nodes /\ edges = c.edges /\ request = c.request
    /\ Start

Asks == status = "asking" /\ (request.tool = "find" \/ summary # None)

Refuse ==
    /\ Asks /\ (IF request.tool = "find" THEN FindRefuses ELSE NeighborsRefuse)
    /\ status' = "refused"
    /\ UNCHANGED <<nodes, edges, request, summary, offset, seen>>

\* The client reads on while it is told that there is more, or, told nothing, while the pages are full.
NextPage ==
    /\ Asks /\ ~(IF request.tool = "find" THEN FindRefuses ELSE NeighborsRefuse)
    /\ \E page \in Pages :
        /\ seen' = seen \o page.rows
        /\ status' = IF page.more = TRUE \/ (page.more = None /\ Len(page.rows) = Limit) THEN "asking" ELSE "done"
    /\ offset' = offset + Limit
    /\ UNCHANGED <<nodes, edges, request, summary>>

Next == Describe \/ Refuse \/ NextPage

Spec == Init /\ [][Next]_vars

----------------------------------------------------------------------------
Unrestricted == ~Filtered /\ ~request.sure /\ ~request.dedup
Promised(id, key) == IF key \in DOMAIN summary[id] THEN summary[id][key][request.dir] ELSE 0

\* What describe counts can be walked: neighbors refuses no edge type that the summary of each
\* node lists, and returns, over all its pages, as many rows as the summaries promise; of the types they
\* do not list, none (`_edge_summary_for_node` against `neighbors_v2` and `_composed_axis_origin_error`).
SummaryIsNavigable ==
    request.tool = "neighbors" /\ Unrestricted =>
        /\ status = "refused" /\ ~request.unresolved =>
            \E id \in ToSet(request.ids), key \in Types : Promised(id, key) = 0
        /\ status = "done" =>
            LET counted == Types \cup (IF request.unresolved THEN {"UNRESOLVED_AT"} ELSE {})
            IN  Len(seen) = FoldSet(LAMBDA p, n : n + Promised(p[1], p[2]), 0, ToSet(request.ids) \X counted)

Wanted == IF request.tool = "find" THEN {n \in FindQuery : Matches(n)} ELSE NeighborRows
Ranked == IF request.tool = "find" THEN \A n, m \in FindQuery : n # m => n.rank # m.rank
          ELSE \A r, s \in NeighborRows : r # s => NeighborBefore(r, s) \/ NeighborBefore(s, r)
Clamped == request.tool = "find" /\ request.types # <<"symbol">> /\ Cardinality(FindQuery) > Clamp

\* A client that reads the pages to the end has seen as many rows as there are, and each of them once
\* if one page held them all or no two compare equal; of routes, if no more are listed than the clamp
\* (has_more_results: "True when additional pages remain beyond offset+limit").
PagesAreWhole ==
    status = "done" /\ ~Clamped =>
        /\ Len(seen) = Cardinality(Wanted)
        /\ Ranked \/ Len(seen) <= Limit => ToSet(seen) = Wanted

ReadsAddUp == SummaryIsNavigable /\ PagesAreWhole
=============================================================================
