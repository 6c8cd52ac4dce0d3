---------------------------- MODULE ScopedRebuild ----------------------------
(***************************************************************************)
(* What the incremental rebuild of graph/build_ast_graph.py computes, where    *)
(* IncrementalBuild is about when: passes 1 to 3 over a scope of files, with    *)
(* the types and members of the other files loaded back from the graph as       *)
(* stubs, next to the same passes over everything.                             *)
(*                                                                         *)
(* A file declares one type, fixed by its path.  The type may extend another,   *)
(* declares overloads of one method, told apart by their arity, and calls that  *)
(* method on itself or on a type it names.                                    *)
(***************************************************************************)
EXTENDS Naturals, FiniteSets

CONSTANTS
    Files,
    PackageOf, NameOf,  \* of the type each file declares
    Contents,           \* contents each file may have, None included: see Content
    MaxPending,         \* bound on the files changed since the last build, and
    MaxIncrements,      \* on the increments since the last full rebuild (TLC only)
    Self,               \* the receiver of an unqualified call
    None

Declares(f) == <<PackageOf[f], NameOf[f]>>

\* imports: the explicit imports; wildcard: a package imported as a whole, or None.
Content(imports, wildcard, super, methods, calls) ==
    [imports |-> imports, wildcard |-> wildcard, super |-> super, methods |-> methods, calls |-> calls]

VARIABLES
    program,    \* the content of each file, None where there is none
    indexed,    \* the contents the graph was built from
    graph,      \* [types, methods, ghosts, ghostMethods, edges]
    increments, \* since the last full rebuild
    tame        \* history: none of them was of a wild edit, see Wild

vars == <<program, indexed, graph, increments, tame>>

Present(p) == {f \in Files : p[f] # None}

----------------------------------------------------------------------------
(* The tables of a run.  types maps a qualified name to the entry that was      *)
(* registered last; named is by_simple_name, which keeps every entry; members   *)
(* is methods_by_type.  A phantom is a type or a method that is referred to and  *)
(* declared nowhere: a node without a file.                                   *)

Entry(fqn, node, parsed)  == [fqn |-> fqn, node |-> node, parsed |-> parsed]
Member(fqn, node, params) == [fqn |-> fqn, node |-> node, params |-> params]

\* pass1_parse and _register_type.
Parsed(p, scope) == {Entry(Declares(f), <<"type", f>>, TRUE) : f \in scope \cap Present(p)}

ParsedMembers(p, scope) ==
    UNION {{Member(Declares(f), <<"method", f, a>>, a) : a \in p[f].methods} : f \in scope \cap Present(p)}

\* _load_existing_types: every type node that is not of a file in scope.  That a
\* phantom has no file keeps it in.
LoadExistingTypes(g, scope) ==
    {Entry(Declares(f), <<"type", f>>, FALSE) : f \in g.types \ scope}
        \cup {Entry(fqn, <<"phantom", fqn>>, FALSE) : fqn \in g.ghosts}

\* _load_existing_members: the stub of a method has no parameters.
LoadExistingMembers(g, scope) ==
    {Member(Declares(m[2]), m, 0) : m \in {m \in g.methods : m[2] \notin scope}}
        \cup {Member(fqn, <<"phantomMethod", fqn>>, 0) : fqn \in g.ghostMethods}

\* A stub is registered after, and so over, what was parsed.
Tables(parsed, loaded, members, p) ==
    LET all == parsed \cup loaded
    IN  [types   |-> [fqn \in {e.fqn : e \in all} |->
                        IF \E e \in loaded : e.fqn = fqn
                        THEN IF \E e \in loaded : e.fqn = fqn /\ e.node[1] = "phantom"
                             THEN CHOOSE e \in loaded : e.fqn = fqn /\ e.node[1] = "phantom"
                             ELSE CHOOSE e \in loaded : e.fqn = fqn
                        ELSE CHOOSE e \in parsed : e.fqn = fqn],
         named   |-> all,
         members |-> members,
         source  |-> p]

FullTables(p) == Tables(Parsed(p, Files), {}, ParsedMembers(p, Files), p)

ScopedTables(p, g, scope) ==
    Tables(Parsed(p, scope), LoadExistingTypes(g, scope),
           ParsedMembers(p, scope) \cup LoadExistingMembers(g, scope), p)

Known(t) == DOMAIN t.types

----------------------------------------------------------------------------
(* Name resolution *)

Imported(c, name) == {fqn \in c.imports : fqn[2] = name}

\* _resolve_simple, for a file with one top-level type: an explicit import decides,
\* then the package, then the wildcard.
ResolveSimple(t, f, name) ==
    LET c     == t.source[f]
        tries == IF Imported(c, name) # {} THEN Imported(c, name)
                 ELSE IF <<PackageOf[f], name>> \in Known(t) THEN {<<PackageOf[f], name>>}
                 ELSE {<<c.wildcard, name>>}
    IN  tries \cap Known(t)

\* _phantom_target's guess at what was meant.
Guess(t, f, name) ==
    LET c == t.source[f]
    IN  IF Imported(c, name) # {} THEN CHOOSE fqn \in Imported(c, name) : TRUE
        ELSE <<IF c.wildcard # None THEN c.wildcard ELSE "", name>>

----------------------------------------------------------------------------
(* Pass 2: what is emitted for the types of this run's syntax trees *)

\* row: the kind of the edge, and the name, method or call in the file it is of.
Edge(kind, f, of, node, resolved) ==
    [file |-> f, row |-> <<kind, of>>, to |-> node, resolved |-> resolved]

\* Registered and not overwritten by a stub.
Owners(t) == {f \in Files : t.source[f] # None /\ Declares(f) \in Known(t)
                                /\ t.types[Declares(f)].node = <<"type", f>> /\ t.types[Declares(f)].parsed}

ExtendsEdge(t, f) ==
    LET name  == t.source[f].super
        found == ResolveSimple(t, f, name)
    IN  IF found # {} THEN LET fqn == CHOOSE fqn \in found : TRUE IN Edge("EXTENDS", f, fqn, t.types[fqn].node, TRUE)
        ELSE Edge("EXTENDS", f, Guess(t, f, name), <<"phantom", Guess(t, f, name)>>, FALSE)

ExtendsRows(t) == {ExtendsEdge(t, f) : f \in {f \in Owners(t) : t.source[f].super # None}}

\* _direct_supertype_fqns: the rows of this run only, so that a stub has none.
Supertypes(t, rows, fqn) ==
    {r.row[2] : r \in {r \in rows : <<"type", r.file>> = t.types[fqn].node /\ r.row[2] \in Known(t)}}

\* The type and whatever is above it: in every set of types that has it, and the
\* supertypes of what it has.
Lineage(t, rows, fqn) ==
    LET closed == {S \in SUBSET Known(t) : /\ {fqn} \cap Known(t) \subseteq S
                                           /\ \A s \in S : Supertypes(t, rows, s) \subseteq S}
    IN  {s \in Known(t) : \A S \in closed : s \in S}

----------------------------------------------------------------------------
(* Pass 3: calls *)

\* _resolve_receiver_type of an unqualified call or a call on a type's name: the
\* type, an import from elsewhere, or the only type of that name anywhere.
Receiver(t, f, call) ==
    LET found == ResolveSimple(t, f, call.on)
        named == {e \in t.named : e.fqn[2] = call.on}
    IN  IF call.on = Self THEN {Declares(f)}
        ELSE IF found # {} THEN found
        ELSE IF Imported(t.source[f], call.on) # {} THEN Imported(t.source[f], call.on)
        ELSE IF Cardinality(named) = 1 THEN {e.fqn : e \in named}
        ELSE {}

\* _lookup_method_candidates: up the hierarchy, the arity first and then the name,
\* and _collapse_supertype_duplicates: one that overrides the others stands for them.
Candidates(t, rows, fqn, args) ==
    LET found == {m \in t.members : m.fqn \in Lineage(t, rows, fqn)}
        exact == {m \in found : m.params = args}
        own   == {m \in exact : m.fqn = fqn}
    IN  IF exact = {} THEN found ELSE IF Cardinality(own) = 1 THEN own ELSE exact

\* _resolve_and_emit_call: an edge to each candidate, to a phantom method of the
\* receiver, or an unresolved call site.
CallEdges(t, rows, f, call) ==
    LET recv == Receiver(t, f, call)
    IN  IF recv = {} THEN {Edge("UNRESOLVED_AT", f, call, <<"site">>, FALSE)}
        ELSE LET fqn   == CHOOSE fqn \in recv : TRUE
                 found == Candidates(t, rows, fqn, call.args)
             IN  IF found = {} THEN {Edge("CALLS", f, call, <<"phantomMethod", fqn>>, FALSE)}
                 ELSE {Edge("CALLS", f, call, m.node, TRUE) : m \in found}

\* _populate_declares_rows and _populate_overrides_rows.
DeclaresRows(p, scope) ==
    UNION {{Edge("DECLARES", f, a, <<"method", f, a>>, TRUE) : a \in p[f].methods} : f \in scope \cap Present(p)}

OverridesRows(t, rows) ==
    UNION {{Edge("OVERRIDES", r.file, m.node[3], m.node, TRUE) :
               m \in {m \in t.members : m.node[1] = "method" /\ <<"type", m.node[2]>> = r.to
                                        /\ m.node[3] \in t.source[r.file].methods}} : r \in rows}

----------------------------------------------------------------------------
(* A build: what a run over scope writes into what is left of the graph *)

Written(t, left, scope, p) ==
    LET rows    == ExtendsRows(t)
        calls   == UNION {UNION {CallEdges(t, rows, f, c) : c \in p[f].calls} : f \in scope \cap Present(p)}
        types   == left.types \cup Owners(t)
        methods == left.methods \cup UNION {{<<"method", f, a>> : a \in p[f].methods} : f \in scope \cap Present(p)}
        nodes   == {<<"type", f>> : f \in types}
    IN  [types        |-> types,
         methods      |-> methods,
         ghosts       |-> left.ghosts \cup {r.to[2] : r \in {r \in rows : r.to[1] = "phantom"}},
         ghostMethods |-> left.ghostMethods \cup {e.to[2] : e \in {e \in calls : e.to[1] = "phantomMethod"}},
         \* a row whose end is no node is left out
         edges        |-> left.edges \cup rows \cup calls \cup OverridesRows(t, rows)
                             \cup {e \in DeclaresRows(p, scope) : <<"type", e.file>> \in nodes}]

Empty == [types |-> {}, methods |-> {}, ghosts |-> {}, ghostMethods |-> {}, edges |-> {}]

FullGraph(p) == Written(FullTables(p), Empty, Files, p)

NodesOf(fs, g) == {<<"type", f>> : f \in g.types \cap fs} \cup {m \in g.methods : m[2] \in fs}

\* Mutant: the files that depend on the changed ones stay as they are.
NoDependents(g, changed) == {}

\* _find_dependents: who has an edge into a node of a changed file.
FindDependents(g, changed) == {e.file : e \in {e \in g.edges : e.to \in NodesOf(changed, g)}}

\* _delete_file_scope: the edges of the scope, the nodes of the changed files, and
\* with these whatever edge still leads to them.
DeleteFileScope(g, changed, dependents) ==
    [g EXCEPT !.types   = @ \ changed,
              !.methods = {m \in @ : m[2] \notin changed},
              !.edges   = {e \in @ : e.file \notin changed \cup dependents /\ e.to \notin NodesOf(changed, g)}]

Changed == {f \in Files : program[f] # indexed[f]}

ScopedGraph(p, g, changed) ==
    LET dependents == FindDependents(g, changed)
        scope      == changed \cup dependents
    IN  Written(ScopedTables(p, g, scope), DeleteFileScope(g, changed, dependents), scope, p)

----------------------------------------------------------------------------
(* The sources change, and are indexed *)

\* An edit the incremental rebuild cannot follow: others may refer to what it
\* changes without an edge that leads there.  The rest changes bodies, removes
\* methods, and changes the imports of what extends nothing.
Wild(old, new) ==
    \/ None \in {old, new}
    \/ old.super # new.super
    \/ ~(new.methods \subseteq old.methods)
    \/ old.super # None /\ <<old.imports, old.wildcard>> # <<new.imports, new.wildcard>>

Mentions(c) == {c.super} \cup {call.on : call \in c.calls}

\* What a stub has lost does not matter to this run: it had no supertype and no
\* overloads, and no phantom is taken for a declaration.
StubsSuffice(p, g, scope) ==
    /\ \A f \in Present(p) \ scope : p[f].super = None /\ p[f].methods \subseteq {0}
    /\ \A fqn \in g.ghosts :
         /\ \A f \in Present(p) : Declares(f) # fqn
         /\ \A f \in scope \cap Present(p) : fqn[2] \notin Mentions(p[f])
    /\ \A fqn \in g.ghostMethods :
         \A f \in scope \cap Present(p) : fqn[2] \notin Mentions(p[f]) \cup {NameOf[f]}

Init ==
    /\ program \in [Files -> UNION {Contents[f] : f \in Files}]
    /\ \A f \in Files : program[f] \in Contents[f]
    /\ indexed = program
    /\ graph = FullGraph(program)
    /\ increments = 0
    /\ tame = TRUE

EditFile(f) ==
    /\ Cardinality(Changed \cup {f}) <= MaxPending
    /\ program' \in {[program EXCEPT ![f] = c] : c \in Contents[f]}
    /\ UNCHANGED <<indexed, graph, increments, tame>>

Increment ==
    /\ Changed # {}
    /\ increments < MaxIncrements
    /\ increments' = increments + 1
    /\ graph' = ScopedGraph(program, graph, Changed)
    /\ indexed' = program
    /\ tame' = (/\ tame
                /\ \A f \in Changed : ~Wild(indexed[f], program[f])
                /\ StubsSuffice(program, graph, Changed \cup FindDependents(graph, Changed)))
    /\ UNCHANGED program

Reprocess ==
    /\ graph' = FullGraph(program)
    /\ indexed' = program
    /\ increments' = 0
    /\ tame' = TRUE
    /\ UNCHANGED program

Next == Increment \/ Reprocess \/ \E f \in Files : EditFile(f)

Spec == Init /\ [][Next]_vars

----------------------------------------------------------------------------
(* properties *)

\* Nodes of types and methods, and the edges; not the phantoms nobody refers to.
Same(g, h) == g.types = h.types /\ g.methods = h.methods /\ g.edges = h.edges

\* "Equivalence invariant: an incremental rebuild of a state must produce the same
\* graph as a full rebuild of that state."
EquivalentToFull == indexed = program => Same(graph, FullGraph(program))

\* ... which it does when the stubs of the files out of scope suffice, in every
\* increment since the last full rebuild, and no edit was wild.
EquivalentWhenTame == indexed = program /\ tame => Same(graph, FullGraph(program))

\* Nothing in the graph is left of what is gone: every type, method and edge is of
\* the source as it was indexed, and every edge ends at a node that is there.
NothingStale ==
    /\ \A f \in graph.types : indexed[f] # None
    /\ \A m \in graph.methods : indexed[m[2]] # None /\ m[3] \in indexed[m[2]].methods
    /\ \A e \in graph.edges :
         /\ indexed[e.file] # None
         /\ e.row[1] \in {"CALLS", "UNRESOLVED_AT"} => e.row[2] \in indexed[e.file].calls
         /\ e.to[1] = "type" => e.to[2] \in graph.types
         /\ e.to[1] = "method" => e.to \in graph.methods

RebuildIsFaithful == EquivalentWhenTame /\ NothingStale
=============================================================================
