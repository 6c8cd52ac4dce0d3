----------------------------- MODULE SearchFusion -----------------------------
(***************************************************************************)
(* `jrag search`, page after page until it says that there is no more: vector   *)
(* search over the chunks of the Lance table, fused with the chunks of the types *)
(* that a keyword search finds (run_search), or a keyword search over the        *)
(* symbols of the graph alone (run_lexical_search); then the filters, and, for   *)
(* an empty answer, the advice where matches are.  The index does not change.   *)
(*                                                                         *)
(* A chunk is [id, type, path, has, near, mixed, key]: its place by distance, in *)
(* LanceDB's hybrid order, and by distance less the bonuses.  A symbol is         *)
(* [id, type, path, has, fts, score]: its enclosing type, its place in the         *)
(* full-text index, 0 for none, and the score of the heuristic, 0 for no hit.    *)
(* has: the columns that the filter reads, those that are there.               *)
(***************************************************************************)
EXTENDS Naturals, SequencesExt, FiniteSetsExt

CONSTANTS
    None,
    Cases,      \* [index, asked]: an index [chunks, symbols, links, fts, text] holds the chunks and symbols in stored
                \* order, the <<from, to, confidence>> between types and whether each full-text index exists; a request
                \* is [mode, loads, hybrid, chunks, path, filter, framework], loads whether the model can be loaded
    Limit,      \* --limit
    OverFetch,  \* DEDUP_OVERFETCH
    FtsTop,     \* _FTS_CANDIDATE_K
    ScanCap,    \* _CANDIDATE_LIMIT_CAP
    ProbeLimit, \* of _zero_result_guidance
    RrfK        \* RankConfig.rrf_k

VARIABLES
    index, asked,
    offset,     \* of the next page
    hits,       \* the rows of the pages so far
    status,     \* "asking", "done" or "failed"
    advice,     \* the role that an empty answer suggested
    led         \* whether it was followed

vars == <<index, asked, offset, hits, status, advice, led>>

First(rows, n) == SubSeq(rows, 1, Min({n, Len(rows)}))
TypesIn(rows)  == {rows[i].type : i \in DOMAIN rows}

\* The NodeFilter; a column that a row does not have equals nothing.
Passes(row, filter) == \A f \in DOMAIN filter : f \in DOMAIN row.has /\ row.has[f] = filter[f]
InPath(row, q)      == q.path = None \/ row.path = q.path

\* What the queries of the vector path take of the filter.
Pushed(q) == Restrict(q.filter, DOMAIN q.filter \cap {"role"})

\* _dedup_by_fqn: the first row of each type, and every row of none.
Dedup(rows) ==
    LET kept == {i \in DOMAIN rows : rows[i].type = None \/ \A j \in 1..(i - 1) : rows[j].type # rows[i].type}
    IN  [i \in 1..Cardinality(kept) |-> rows[SetToSortSeq(kept, <)[i]]]
Deduped(rows, q) == IF q.chunks THEN rows ELSE Dedup(rows)

----------------------------------------------------------------------------
(* Vectors *)

\* Mutant: as many chunks are fetched as types are wanted.
NeedOfEach(q, end) == Max({end, 1})

\* More chunks than rows are fetched, since a type may have several.
Need(q, end) == IF q.chunks THEN end ELSE Max({end * OverFetch, end + 1})

IsHybrid(q) == q.hybrid /\ index.text
Nearest(chunks, q, n) ==
    First(SetToSortSeq(chunks, LAMBDA c, d : IF IsHybrid(q) THEN c.mixed < d.mixed ELSE c.near < d.near), n)
Fetched(chunks, q, n) == SetToSortSeq(ToSet(Nearest(chunks, q, n)), LAMBDA c, d : c.key < d.key)

VectorRows(q, n) == Fetched({c \in ToSet(index.chunks) : Passes(c, Pushed(q)) /\ InPath(c, q)}, q, n)

\* Without an index of the symbols there is none; of a type, its best symbol counts.
FtsHits == IF index.fts
           THEN First(SetToSortSeq({s \in ToSet(index.symbols) : s.fts # 0}, LAMBDA s, t : s.fts < t.fts), FtsTop)
           ELSE <<>>

Bm25Rows(q, n) ==
    LET best    == Dedup(FtsHits)
        wanted  == SelectSeq(index.chunks, LAMBDA c : c.type \in TypesIn(best) /\ Passes(c, Pushed(q)))
        fetched == First(wanted, Max({n, 4 * Len(best)}))
    IN  FlattenSeq([i \in DOMAIN best |-> SelectSeq(fetched, LAMBDA c : c.type = best[i].type)])

\* What the graph adds: types that a hit's type inherits, is injected with, or calls.
Novel(rows) == {l[2] : l \in {l \in index.links : l[1] \in TypesIn(rows)}} \ TypesIn(rows)

\* Their chunks are asked for with an argument that _search_one_table does not take,
\* and the exception is passed over.
GraphRows(rows, q, n) == <<>>

\* Reciprocal ranks, as a fraction.
Score(lists, c) ==
    LET ranks == {r \in (DOMAIN lists) \X (1..Max({Len(lists[l]) : l \in DOMAIN lists})) :
                     r[2] <= Len(lists[r[1]]) /\ lists[r[1]][r[2]] = c}
    IN  FoldSet(LAMBDA r, sum : <<sum[1] * (RrfK + r[2]) + sum[2], sum[2] * (RrfK + r[2])>>, <<0, 1>>, ranks)

RrfMerge(lists) ==
    LET rows == FlattenSeq(lists)
        At(c) == CHOOSE i \in DOMAIN rows : rows[i] = c /\ \A j \in 1..(i - 1) : rows[j] # c
        Before(c, d) == LET s == Score(lists, c)  t == Score(lists, d)
                        IN  s[1] * t[2] > t[1] * s[2] \/ (s[1] * t[2] = t[1] * s[2] /\ At(c) < At(d))
    IN  SetToSortSeq(ToSet(rows), Before)

Fused(q, n) ==
    LET vectors == VectorRows(q, n)
        others  == SelectSeq(<<GraphRows(vectors, q, n), Bm25Rows(q, n)>>, LAMBDA l : l # <<>>)
    IN  IF others = <<>> THEN vectors ELSE RrfMerge(<<vectors>> \o others)

----------------------------------------------------------------------------
(* Keywords *)

Fitting(rows, q) == SelectSeq(rows, LAMBDA s : Passes(s, q.filter) /\ InPath(s, q))

\* The scan is for want of an index, or of a hit in it.
ByIndex(q)    == Fitting(FtsHits, q)
Scanned(q)    == First(Fitting(index.symbols, q), ScanCap)
Candidates(q) == IF ByIndex(q) # <<>> THEN ToSet(ByIndex(q)) ELSE {s \in ToSet(Scanned(q)) : s.score > 0}

\* Rows of one score come as the database gives them.
Orders(q) == {rows \in SetToSeqs(Candidates(q)) : \A i \in 2..Len(rows) : rows[i - 1].score >= rows[i].score}

----------------------------------------------------------------------------
(* search_v2 *)

IsLexical(q) == q.mode # "vectors"
Ranked(q, end) == IF IsLexical(q) THEN Orders(q) ELSE {Fused(q, Need(q, end))}

\* The filter is applied once more, after the page is cut.
Page(rows, q, from, n) ==
    SelectSeq(SubSeq(Deduped(rows, q), from + 1, Min({from + n, Len(Deduped(rows, q))})),
              LAMBDA r : InPath(r, q) /\ Passes(r, q.filter))
Searches(q, from, n) == {Page(rows, q, from, n) : rows \in Ranked(q, from + n)}

----------------------------------------------------------------------------
(* The command *)

Start == offset = 0 /\ hits = <<>> /\ status = "asking" /\ advice = None /\ led = FALSE
Init  == Start /\ \E c \in Cases : index = c.index /\ asked = c.asked

InFramework(row) == asked.framework = None \/ row.type \in asked.framework

\* The role that most of what an unfiltered search finds has, the first of equals.
Probe == [asked EXCEPT !.filter = <<>>, !.chunks = FALSE]
Suggested(rows) ==
    LET Count(i) == Cardinality({j \in DOMAIN rows : rows[j].has["role"] = rows[i].has["role"]})
        best == {i \in DOMAIN rows : \A j \in DOMAIN rows : Count(i) > Count(j) \/ (Count(i) = Count(j) /\ i <= j)}
    IN  IF rows = <<>> THEN None ELSE rows[CHOOSE i \in best : TRUE].has["role"]
Guidance == IF "role" \in DOMAIN asked.filter THEN {Suggested(rows) : rows \in Searches(Probe, 0, ProbeLimit)} ELSE {None}

Shown ==
    /\ status = "asking" /\ (IsLexical(asked) \/ asked.loads)
    /\ \E rows \in Searches(asked, offset, Limit + 1) :
        LET found == SelectSeq(rows, InFramework)
        IN  /\ hits' = hits \o First(found, Limit)
            /\ IF Len(found) > Limit THEN offset' = offset + Limit /\ UNCHANGED status
                                     ELSE status' = "done" /\ UNCHANGED offset
            /\ IF found = <<>> /\ DOMAIN asked.filter # {} THEN advice' \in Guidance ELSE advice' = None
    /\ UNCHANGED <<index, asked, led>>

LoadFails ==
    /\ status = "asking" /\ ~IsLexical(asked) /\ ~asked.loads
    /\ status' = "failed"
    /\ UNCHANGED <<index, asked, offset, hits, advice, led>>

\* The agent tries the role that was suggested.
FollowAdvice ==
    /\ status = "done" /\ advice # None /\ ~led
    /\ asked' = [asked EXCEPT !.filter = [@ EXCEPT !["role"] = advice]]
    /\ offset' = 0 /\ hits' = <<>> /\ status' = "asking" /\ led' = TRUE
    /\ UNCHANGED <<index, advice>>

Next == Shown \/ LoadFails \/ FollowAdvice

Spec == Init /\ [][Next]_vars

----------------------------------------------------------------------------
(* Properties *)

Distinct(rows, f(_)) == \A i, j \in DOMAIN rows : f(rows[i]) = f(rows[j]) => i = j

\* What the request is about, whatever the ranking: the rows of the backend that match.
Matching ==
    {r \in ToSet(IF IsLexical(asked) THEN index.symbols ELSE index.chunks) : InPath(r, asked) /\ Passes(r, asked.filter)}

\* Nothing is cut before it is filtered, and no two pages rank differently.
KeywordsFit ==
    LET found == IF ByIndex(asked) # <<>> THEN {s \in Matching : s.fts # 0} ELSE {s \in Matching : s.score > 0}
    IN  /\ IF index.fts THEN Cardinality({s \in ToSet(index.symbols) : s.fts # 0}) <= FtsTop
                        ELSE Cardinality(Matching) <= ScanCap
        /\ \A s, t \in found : s.score = t.score => s = t
VectorsFit ==
    /\ DOMAIN asked.filter \subseteq {"role"}
    /\ asked.path = None \/ ~index.fts
    /\ Cardinality(Matching) <= (Limit + 1) * OverFetch

\* Every hit is of the scope and matches the filter; and when all that matches fits
\* into the first fetch, the pages that follow one another list every matching type
\* exactly once, although each is ranked, fused and deduplicated anew
\* (search_lancedb.run_search, search_lexical.run_lexical_search, mcp_v2.search_v2).
PagesOfSearch ==
    LET found == IF ~IsLexical(asked) THEN Matching
                 ELSE IF index.fts /\ \E s \in Matching : s.fts # 0 THEN {s \in Matching : s.fts # 0}
                 ELSE {s \in Matching : s.score > 0}
    IN  /\ \A i \in DOMAIN hits : hits[i] \in Matching
        /\ status = "done" /\ ~asked.chunks /\ asked.framework = None
           /\ (IF IsLexical(asked) THEN KeywordsFit ELSE VectorsFit)
           => TypesIn(hits) = {r.type : r \in found} /\ Distinct(hits, LAMBDA r : r.type)

\* An agent that asked for one role only, found nothing, and tries the role that the
\* answer suggests finds something (jrag._zero_result_guidance).
AdviceWorks ==
    led /\ status = "done" /\ DOMAIN asked.filter = {"role"} /\ asked.framework = None => hits # <<>>

SearchIsHonest == PagesOfSearch /\ AdviceWorks

\* "fuses three RRF lists - vector hits + graph-expand hits + BM25 hits"
\* (docs/ARCHITECTURE.md:99): a search of one page shows the types next to its vector
\* hits, as far as they have chunks that match.
NeighboursAreFused ==
    status = "done" /\ asked.mode = "vectors" /\ offset = 0 /\ asked.framework = None /\ DOMAIN asked.filter = {}
        /\ asked.path = None /\ ~asked.chunks
    => \A t \in Novel(VectorRows(asked, Need(asked, Limit + 1))) :
           t \in {c.type : c \in ToSet(index.chunks)} => t \in TypesIn(hits)
=============================================================================
