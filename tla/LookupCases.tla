---------------------------- MODULE LookupCases ----------------------------
(* What may be looked up, and where, for TLC.                                 *)
EXTENDS Naturals, SequencesExt, FiniteSets

CONSTANT None

(* ResolveService: a type, its constructor and its method, a type of the same name in *)
(* another service, a served path with its mirror and its namesake, a topic and a    *)
(* client, and what may be asked of them.                                       *)

Symbol(nr, id, fqn, name, service, role) ==
    [kind |-> "symbol", nr |-> nr, id |-> id, fqn |-> fqn, name |-> name, service |-> service, role |-> role]
Endpoint(nr, id, exposed, service) ==
    [kind |-> "route", nr |-> nr, id |-> id, method |-> "GET", path |-> <<"/", "o">>, template |-> <<"/", "o">>,
     topic |-> <<>>, exposed |-> exposed, service |-> service]

TypeA == <<"p", ".", "A">>
MethodM == TypeA \o <<"#", "m", "(", ")">>

MCPool ==
    { Symbol(1, "n1", TypeA, "A", "s1", "SERVICE"),
      Symbol(2, "n2", TypeA \o <<"#", "A", "(", ")">>, "A", "s1", "OTHER"),
      Symbol(3, "n3", MethodM, "m", "s1", "OTHER"),
      Symbol(4, "n4", <<"q", ".", "A">>, "A", "s2", "SERVICE"),
      Endpoint(5, "n5", TRUE, "s1"), Endpoint(6, "n6", FALSE, ""), Endpoint(7, "n7", TRUE, "s2"),
      [kind |-> "client", nr |-> 8, id |-> "n8", target |-> "s1", path |-> <<"/", "o">>, service |-> "s2",
       by |-> [name |-> "m", fqn |-> MethodM]],
      [kind |-> "producer", nr |-> 9, id |-> "n9", topic |-> <<"o", ".", "t">>, service |-> "s1"] }

\* A member is in the graph with its type, a client with the method that declares it.
MCGraphs ==
    {g \in SUBSET MCPool : LET has == {n.id : n \in g} IN
        (has \cap {"n2", "n3"} # {} => "n1" \in has) /\ ("n8" \in has => "n3" \in has)}

Ask(words, hint, service, role) == [words |-> words, hint |-> hint, service |-> service, role |-> role]
Plain(words) == Ask(words, None, None, None)

MCRequests ==
    {Plain(w) : w \in { <<>>, <<<<"*">>>>, <<<<"A">>>>, <<<<"n6">>>>, <<<<"m">>>>, <<<<"o">>>>, <<<<"s1">>>>, <<<<"/", "o">>>>,
                        <<TypeA \o <<"#", "m">>>>, <<<<"s1">>, <<"/", "o">>>>, <<<<"GET">>, <<"/", "o">>>> }}
    \cup { Ask(<<<<"A">>>>, "symbol", None, "SERVICE"), Ask(<<<<"A", "#", "m">>>>, "symbol", None, None),
           Ask(<<TypeA>>, "symbol", "s2", None), Ask(<<<<"/", "o">>>>, "route", "s1", None),
           Ask(<<<<"s1">>, <<"GET">>, <<"/", "o">>>>, "route", "s2", None),
           Ask(<<<<"s2">>, <<"GET">>, <<"/", "o">>>>, "route", None, None), Ask(<<MethodM>>, None, "s1", None) }

----------------------------------------------------------------------------
(* SearchFusion: a type of up to four chunks, the nearest, and types of one each, far *)
(* apart in the table; with symbols of theirs that the keywords find in another      *)
(* order.                                                                     *)

Chunk(id, type, path, role, near, key) ==
    [id |-> id, type |-> type, path |-> path, has |-> [role |-> role, fqn |-> type],
     near |-> near, mixed |-> 8 - near, key |-> key]
Sym(id, type, path, role, fts, score) ==
    [id |-> id, type |-> type, path |-> path, fts |-> fts, score |-> score,
     has |-> [role |-> role, fqn |-> id, annotation |-> IF type = "A" THEN "x" ELSE "y"]]

Table == << Chunk("d1", "D", "test", "OTHER", 7, 7), Chunk("b1", "B", "main", "COMPONENT", 5, 1),
            Chunk("a1", "A", "main", "SERVICE", 1, 3), Chunk("c1", "C", "test", "SERVICE", 6, 6),
            Chunk("a2", "A", "main", "SERVICE", 2, 2), Chunk("a4", "A", "main", "SERVICE", 4, 5),
            Chunk("a3", "A", "main", "SERVICE", 3, 4) >>
Always == {"a1", "a2", "c1"}

\* The second list has ties and a symbol that only the index finds.
SymbolLists ==
    { << Sym("C", "C", "test", "SERVICE", 1, 5), Sym("B#m", "B", "main", "COMPONENT", 2, 3), Sym("A", "A", "main", "SERVICE", 3, 4),
         Sym("A#m", "A", "main", "SERVICE", 0, 0) >>,
      << Sym("A#m", "A", "main", "SERVICE", 2, 2), Sym("B", "B", "main", "COMPONENT", 1, 2), Sym("D", "D", "test", "OTHER", 4, 0),
         Sym("C", "C", "test", "SERVICE", 3, 1) >> }

Indexes ==
    {[chunks |-> SelectSeq(Table, LAMBDA c : c.id \in Always \cup more), symbols |-> symbols,
      links |-> {<<"A", "C", 80>>, <<"A", "D", 100>>}, fts |-> fts, text |-> text] :
        more \in SUBSET {"a3", "a4", "b1", "d1"}, symbols \in SymbolLists, fts \in BOOLEAN, text \in BOOLEAN}

Filters == { <<>>, [role |-> "SERVICE"], [role |-> "ENTITY"], [annotation |-> "x"], [role |-> "ENTITY", annotation |-> "x"] }
Asking(mode) == [mode |-> mode, loads |-> TRUE, hybrid |-> FALSE, chunks |-> FALSE, path |-> None, filter |-> <<>>, framework |-> None]
Searches ==
    {[Asking(m) EXCEPT !.filter = f, !.path = p] : m \in {"vectors", "keywords"}, f \in Filters, p \in {None, "main"}}
    \cup {[Asking(m) EXCEPT !.framework = {"A"}] : m \in {"vectors", "keywords"}}
    \cup {[Asking("vectors") EXCEPT !.hybrid = TRUE], [Asking("vectors") EXCEPT !.chunks = TRUE],
          [Asking("vectors") EXCEPT !.loads = FALSE]}

MCCases == {c \in {[index |-> i, asked |-> q] : i \in Indexes, q \in Searches} : c.index.text \/ c.asked.hybrid}
Empty   == [chunks |-> <<>>, symbols |-> <<>>, links |-> {}, fts |-> FALSE, text |-> FALSE]
=============================================================================
