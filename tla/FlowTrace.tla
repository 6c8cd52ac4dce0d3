------------------------------ MODULE FlowTrace ------------------------------
(***************************************************************************)
(* `jrag decompose`: LadybugGraph.trace_flow (graph/ladybug_queries.py) walks   *)
(* from an entry point to the services and from there to the clients and        *)
(* repositories, stage by stage, within a stage hop by hop, and in a hop over    *)
(* structural edges, calls, and calls of other services, in this order, until    *)
(* the stage is full.  The database answers in any order.                      *)
(***************************************************************************)
EXTENDS Naturals, SequencesExt, FiniteSetsExt

CONSTANTS
    Types,      \* [role, service, entry, external]: entry, it listens or is scheduled
    LinkSets,   \* graphs: sets of links [kind, from, to] between the names of types
    Asks,       \* records [seeds, service, depth, calls, external]
    StageLimit,
    None        \* of a service: not asked for

VARIABLES
    links, ask,
    stages,     \* those that are complete: sequences of functions from a type to its vias
    found,      \* the stage being walked
    frontier, next, hop,
    step,       \* the query the rows are of
    rows,       \* those not taken in
    cut         \* history: a query had more rows than it may give

vars == <<links, ask, stages, found, frontier, next, hop, step, rows, cut>>

Names == DOMAIN Types
Structural  == {"INJECTS", "EXTENDS", "IMPLEMENTS"}
EntryRoles  == {"CONTROLLER", "COMPONENT", "SERVICE", "CLIENT"}
StageRoles  == <<{"CONTROLLER"}, {"SERVICE", "COMPONENT"}, {"CLIENT", "REPOSITORY", "MAPPER"}>>
Steps       == <<"structural", "CALLS", "HTTP_CALLS", "ASYNC_CALLS">>
InScope(n)  == ask.service \in {None, Types[n].service}
Depth       == Max({1, Min({3, ask.depth})})
Visited     == UNION {DOMAIN stages[k] : k \in DOMAIN stages}

Row(n, kind, from) == [sym |-> n, kind |-> kind, from |-> from]
Suits(n, stage) == Types[n].role \in StageRoles[stage] /\ InScope(n)

\* Structural edges lead both ways; the others from the caller, in or out of its service.
RowsOf(query, from, stage) ==
    IF query = "structural"
    THEN {Row(l.to, l.kind, l.from) : l \in {l \in links : l.kind \in Structural /\ l.from \in from /\ Suits(l.to, stage)}}
         \cup {Row(l.from, l.kind, l.to) : l \in {l \in links : l.kind \in Structural /\ l.to \in from /\ Suits(l.from, stage)}}
    ELSE {Row(l.to, query, l.from) : l \in
            {l \in links : /\ l.kind = query /\ l.from \in from /\ Suits(l.to, stage)
                           /\ (query = "CALLS") = (Types[l.from].service = Types[l.to].service)}}

\* How many rows a query may give when n more types are wanted.
Cap(query, n) == IF query = "structural" THEN 4 * StageLimit ELSE 4 * n

----------------------------------------------------------------------------
(* The walk *)

Start(ls, a) ==
    /\ links = ls /\ ask = a
    /\ stages = <<>> /\ found = <<>> /\ frontier = {} /\ next = {} /\ hop = 0 /\ step = "seeds" /\ rows = {} /\ cut = FALSE
Init == \E ls \in LinkSets, a \in Asks : Start(ls, a)

\* Any seeds if none is an entry point.
Seed ==
    /\ step = "seeds"
    /\ LET there   == {n \in ask.seeds \cap Names : InScope(n)}
           entries == {n \in there : Types[n].entry \/ Types[n].role \in EntryRoles}
           seeds   == IF entries # {} THEN entries ELSE there
       IN  IF seeds = {} THEN step' = "done" /\ UNCHANGED <<stages, frontier>>
           ELSE \E S \in kSubset(Min({StageLimit, Cardinality(seeds)}), seeds) :
                    stages' = <<[n \in S |-> <<>>]>> /\ frontier' = S /\ step' = "hop"
    /\ UNCHANGED <<links, ask, found, next, hop, rows, cut>>

Query(query) ==
    LET all == RowsOf(query, frontier, Len(stages) + 1)
        cap == Cap(query, StageLimit - Cardinality(DOMAIN found))
    IN  /\ \E R \in kSubset(Min({cap, Cardinality(all)}), all) : rows' = R
        /\ cut' = (cut \/ Cardinality(all) > cap)
        /\ step' = query

BeginHop ==
    /\ step = "hop"
    /\ hop' = hop + 1 /\ next' = {}
    /\ Query("structural")
    /\ UNCHANGED <<links, ask, stages, found, frontier>>

NextQuery ==
    /\ step \in Range(Steps) \ {"ASYNC_CALLS"} /\ rows = {} /\ ask.calls
    /\ \E i \in 1..3 : step = Steps[i] /\ Query(Steps[i + 1])
    /\ UNCHANGED <<links, ask, stages, found, frontier, next, hop>>

\* Mutant: the types of earlier stages are not remembered.
IngestAgain(row) == row.kind \notin Structural /\ ~ask.external /\ Types[row.sym].external

\* A row is dropped whose type is external, if it was reached by a call, or in an earlier stage.
Dropped(row) ==
    \/ row.kind \notin Structural /\ ~ask.external /\ Types[row.sym].external
    \/ row.sym \in Visited

\* Another way to a type that was found is kept, up to four.
Taken(row) ==
    LET n   == row.sym
        via == [kind |-> row.kind, from |-> row.from, hop |-> hop]
        new == Len(found[n]) < 4 /\ \A v \in Range(found[n]) : v.kind # via.kind \/ v.from # via.from
    IN  IF Dropped(row) THEN found
        ELSE IF n \notin DOMAIN found THEN [m \in DOMAIN found \cup {n} |-> IF m = n THEN <<via>> ELSE found[m]]
        ELSE IF new THEN [found EXCEPT ![n] = Append(@, via)] ELSE found

Ingest(row) ==
    /\ found' = Taken(row)
    /\ next' = next \cup (DOMAIN Taken(row) \ DOMAIN found)
    /\ IF Cardinality(DOMAIN Taken(row)) >= StageLimit THEN rows' = {} /\ step' = "full"
       ELSE rows' = rows \ {row} /\ step' = step
    /\ UNCHANGED <<links, ask, stages, frontier, hop, cut>>

QueriesEnd == rows = {} /\ (step = "ASYNC_CALLS" \/ (step = "structural" /\ ~ask.calls))

NextHop ==
    /\ QueriesEnd /\ hop < Depth /\ next # {}
    /\ frontier' = next /\ step' = "hop"
    /\ UNCHANGED <<links, ask, stages, found, next, hop, rows, cut>>

EndStage ==
    /\ step = "full" \/ (QueriesEnd /\ (hop = Depth \/ next = {}))
    /\ IF found = <<>> THEN step' = "done" /\ UNCHANGED stages
       ELSE stages' = Append(stages, found) /\ step' = (IF Len(stages) = 2 THEN "done" ELSE "hop")
    /\ frontier' = DOMAIN found /\ found' = <<>> /\ hop' = 0 /\ next' = {}
    /\ UNCHANGED <<links, ask, rows, cut>>

Next == Seed \/ BeginHop \/ NextQuery \/ (\E row \in rows : Ingest(row)) \/ NextHop \/ EndStage

Spec == Init /\ [][Next]_vars

----------------------------------------------------------------------------
(* Properties *)

All == IF found = <<>> THEN stages ELSE Append(stages, found)

\* What led to a type is an edge of the graph.
Leads(via, n) ==
    \/ [kind |-> via.kind, from |-> via.from, to |-> n] \in links
    \/ via.kind \in Structural /\ [kind |-> via.kind, from |-> n, to |-> via.from] \in links

Grounded(stage, previous) ==
    \A n \in DOMAIN stage :
        LET via == stage[n][1]
        IN  /\ Leads(via, n)
            /\ IF via.hop = 1 THEN via.from \in DOMAIN previous
               ELSE via.from \in DOMAIN stage /\ stage[via.from][1].hop = via.hop - 1

\* Whatever is in a stage got there by an edge of the graph from the stage before or, a hop
\* later, from a type that was found in the same stage a hop before; and no type is in
\* two stages (ViaEdge: "1 = direct neighbour of previous-stage frontier").
StagesAreGrounded ==
    /\ \A k \in 2..Len(All) : Grounded(All[k], All[k - 1])
    /\ \A j, k \in DOMAIN All : j < k => DOMAIN All[j] \cap DOMAIN All[k] = {}

\* What one edge leads to from the stage before and no stage before has.
Near(k) == {row.sym : row \in RowsOf("structural", DOMAIN stages[k - 1], k)} \ UNION {DOMAIN stages[j] : j \in 1..(k - 1)}

\* Calls fill up what the structural edges leave of a stage: a type that only a call led to
\* is there only if every type that an edge leads to at that hop is; and a stage that is
\* not full has everything that one hop reaches ("Structural-first budget").
StructuralFirst ==
    ~cut => \A k \in 2..Len(stages) :
        (Cardinality(DOMAIN stages[k]) < StageLimit \/ \E n \in DOMAIN stages[k] : stages[k][n][1].kind \notin Structural)
        => Near(k) \subseteq DOMAIN stages[k]

FlowIsGrounded == StagesAreGrounded /\ StructuralFirst
=============================================================================
