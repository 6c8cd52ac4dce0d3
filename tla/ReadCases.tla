------------------------------ MODULE ReadCases ------------------------------
(***************************************************************************)
(* Instances of GraphReads for TLC: a class whose method overrides that of an   *)
(* interface and, having the same signature, the static one of another; a second *)
(* overrider; a client, a route and calls, of which two are at one place.       *)
(***************************************************************************)
EXTENDS FiniteSets, Sequences, TLC

CONSTANT None

Symbol(id, sym, static, role, module, rank) ==
    [id |-> id, kind |-> "symbol", sym |-> sym, static |-> static, role |-> role, module |-> module, rank |-> rank]
Other(id, kind, module, rank) ==
    [id |-> id, kind |-> kind, sym |-> None, static |-> FALSE, role |-> None, module |-> module, rank |-> rank]

\* The method of C and that of D, of the same qualified name in two modules, rank alike.
MCNodes ==
    { Symbol("C", "class", FALSE, "SERVICE", "m1", 1), Symbol("I", "interface", FALSE, "OTHER", "m1", 2),
      Symbol("c", "method", FALSE, "SERVICE", "m1", 3), Symbol("d", "method", FALSE, "OTHER", "m2", 3),
      Symbol("i", "method", FALSE, "OTHER", "m1", 4), Symbol("s", "method", TRUE, "OTHER", "m1", 5),
      Symbol("f", "file", FALSE, "OTHER", "m1", 6),
      Other("client", "client", "m1", 1), Other("r1", "route", "m1", 1), Other("r2", "route", "m2", 2),
      Other("r3", "route", "m1", 3), Other("u", "unresolved", "m1", 1) }

Link(type, from, to) == [type |-> type, from |-> from, to |-> to, at |-> 0, sure |-> TRUE]
Call(to, at, sure)   == [type |-> "CALLS", from |-> "c", to |-> to, at |-> at, sure |-> sure]

Declared == {Link("DECLARES", "I", "i"), Link("DECLARES", "C", "c")}
Optional ==
    { {Link("OVERRIDES", "c", "i")}, {Link("OVERRIDES", "c", "s")}, {Link("EXPOSES", "c", "r1"), Link("EXPOSES", "c", "r2")},
      {Link("OVERRIDES", "d", "i"), Link("DECLARES_CLIENT", "c", "client"), Link("EXPOSES", "d", "r1")},
      {Call("i", 1, TRUE), Call("i", 3, FALSE)}, {Call("d", 3, TRUE)}, {[Link("UNRESOLVED_AT", "c", "u") EXCEPT !.at = 1]} }

Walk(ids, dir, types) ==
    [tool |-> "neighbors", ids |-> ids, dir |-> dir, types |-> types, role |-> None, module |-> None,
     sure |-> FALSE, unresolved |-> FALSE, dedup |-> FALSE]
Calls(ids) == Walk(ids, "out", <<"CALLS">>)

Walks ==
    { Walk(<<"C">>, "out", <<"DECLARES.EXPOSES", "DECLARES">>), Walk(<<"C", "I">>, "out", <<"DECLARES.DECLARES_CLIENT">>),
      Walk(<<"i">>, "in", <<"OVERRIDES">>), Walk(<<"c">>, "out", <<"CALLS", "OVERRIDES">>),
      Walk(<<"i">>, "out", <<"OVERRIDDEN_BY.EXPOSES", "OVERRIDDEN_BY">>), Walk(<<"s">>, "out", <<"OVERRIDDEN_BY">>),
      Walk(<<"i">>, "in", <<"OVERRIDDEN_BY">>), Walk(<<"C">>, "out", <<"OVERRIDDEN_BY">>),
      Walk(<<"r1">>, "in", <<"EXPOSES">>), Walk(<<"r1">>, "out", <<"DECLARES.EXPOSES">>), Walk(<<"i", "d">>, "in", <<"CALLS">>),
      Calls(<<"c">>), Calls(<<"c", "d">>),
      [Calls(<<"c">>) EXCEPT !.sure = TRUE], [Calls(<<"c">>) EXCEPT !.module = "m1"],
      [Calls(<<"c">>) EXCEPT !.dedup = TRUE, !.unresolved = TRUE], [Calls(<<"c">>) EXCEPT !.unresolved = TRUE],
      [Calls(<<"c">>) EXCEPT !.unresolved = TRUE, !.sure = TRUE],
      [Walk(<<"c">>, "out", <<"EXPOSES", "OVERRIDES">>) EXCEPT !.role = "OTHER"],
      [Walk(<<"c">>, "out", <<"OVERRIDES">>) EXCEPT !.role = "OTHER"] }

Lookup(kind, role, module) ==
    [tool |-> "find", ids |-> <<>>, dir |-> "out", types |-> <<kind>>, role |-> role, module |-> module,
     sure |-> FALSE, unresolved |-> FALSE, dedup |-> FALSE]

MCCases ==
    {[nodes |-> MCNodes, edges |-> Declared \cup UNION o, request |-> w] : o \in SUBSET Optional, w \in Walks}
    \cup {[nodes |-> ns, edges |-> {}, request |-> q] : ns \in SUBSET {n \in MCNodes : n.id \in {"c", "d", "i", "f", "r1", "r2", "r3"}},
            q \in {Lookup("symbol", None, None), Lookup("symbol", "SERVICE", "m1"), Lookup("symbol", "OTHER", None),
                   Lookup("route", None, None), Lookup("route", None, "m1"), Lookup("route", "OTHER", None)}}
=============================================================================
