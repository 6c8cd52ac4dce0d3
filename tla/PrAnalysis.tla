------------------------------ MODULE PrAnalysis ------------------------------
(***************************************************************************)
(* `jrag analyze-pr` (analysis/pr_analysis.py): the hunks of a unified diff are *)
(* laid over the symbols of the graph, whose lines are those of the sources when *)
(* it was built, and what these symbols reach makes a risk.                   *)
(*                                                                         *)
(* A file is a sequence of rows, its old and its new text at once.  A row is      *)
(* [tag, owner]: kept, added or removed; and the member it is a line of, the type *)
(* outside its members, or None outside the type.  Names are unique.            *)
(***************************************************************************)
EXTENDS Integers, SequencesExt, FiniteSetsExt

CONSTANTS
    None,
    Base,       \* the text of each file before the change: a sequence of owners
    PathOf,     \* where each file lies in the source tree: a sequence of names
    Outer,      \* where the source tree lies in the repository the diff is of
    TypeOf,     \* the type each member is declared by; a type is its own
    Private, Interfaces,
    Links,      \* pairs of types: injects, implements or extends
    Calls,      \* pairs of methods
    ServiceOf,  \* of each type
    Exposes,    \* pairs of a method and a route
    Remote,     \* pairs of a client or producer of another service and a route
    Context,    \* lines of context around a change
    MaxTouches  \* bound on the edits (TLC only)

VARIABLES
    texts,      \* the rows of each file
    renamed,    \* the files that were moved to another directory
    built,      \* from path to owners: the sources the graph was built from
    touches

vars == <<texts, renamed, built, touches>>

Files == DOMAIN Base

\* The text without the rows of a tag: its rows, the line each of them is, and their owners.
Rows(f, tag)      == {i \in DOMAIN texts[f] : texts[f][i].tag # tag}
LineOf(f, i, tag) == Cardinality({k \in 1..i : texts[f][k].tag # tag})
Text(f, tag) ==
    [n \in 1..Cardinality(Rows(f, tag)) |-> texts[f][CHOOSE i \in Rows(f, tag) : LineOf(f, i, tag) = n].owner]
IsGone(f) == Rows(f, "removed") = {}

Path(f) == IF f \in renamed THEN <<"moved">> \o PathOf[f] ELSE PathOf[f]
Old == [p \in Range(PathOf) |-> Base[CHOOSE f \in Files : PathOf[f] = p]]
New == LET there == {f \in Files : ~IsGone(f)}
       IN  [p \in {Path(f) : f \in there} |-> Text(CHOOSE f \in there : Path(f) = p, "removed")]

----------------------------------------------------------------------------
(* The diff.  The hunks' lines are sets of line numbers, of the old and the new text. *)

\* The first and last row of each run of rows near to a change.
Runs(rows) ==
    LET changed == {i \in DOMAIN rows : rows[i].tag # "kept"}
        near    == {i \in DOMAIN rows : \E c \in changed : i \in (c - Context)..(c + Context)}
        first   == {i \in near : i - 1 \notin near}
    IN  {<<i, Min({j \in near : j >= i /\ j + 1 \notin near})>> : i \in first}

\* The lines that rows i to j are of the text without the rows of that tag.
LinesOf(f, i, j, tag) == {LineOf(f, n, tag) : n \in (i..j) \cap Rows(f, tag)}

\* A hunk without lines on one side has no range there.
Hunks(f) == {[source |-> LinesOf(f, run[1], run[2], "added"), target |-> LinesOf(f, run[1], run[2], "removed")] : run \in Runs(texts[f])}

\* A leading a/ or b/ is taken off, be it git's or a directory.
Strip(path) == IF Len(path) > 1 /\ Head(path) \in {"a", "b"} THEN Tail(path) ELSE path
TargetPath(f) == Strip(Outer \o PathOf[f])
SourcePath(f) == IF Base[f] = <<>> THEN <<"dev", "null">> ELSE Outer \o PathOf[f]

\* The file of the graph by its path, or the only one of that name in a directory.
Namesakes(path) == {p \in DOMAIN built : Len(p) > 1 /\ Last(p) = Last(path)}
Resolve(path) ==
    IF Strip(path) \in DOMAIN built THEN Strip(path)
    ELSE IF Cardinality(Namesakes(path)) = 1 THEN CHOOSE p \in Namesakes(path) : TRUE ELSE None
Ambiguous(path) == Strip(path) \notin DOMAIN built /\ Cardinality(Namesakes(path)) > 1

----------------------------------------------------------------------------
(* The symbols under the hunks *)

\* The symbols of a file of the graph and their lines, from the first to the last.
Owned(path, s) == {i \in DOMAIN built[path] : built[path][i] # None /\ s \in {built[path][i], TypeOf[built[path][i]]}}
Symbols(path)  == UNION {{o, TypeOf[o]} : o \in Range(built[path]) \ {None}}
Under(path, lines) ==
    IF path = None \/ lines = {} THEN {}
    ELSE {s \in Symbols(path) : LET own == Owned(path, s) IN Min(own) <= Max(lines) /\ Max(own) >= Min(lines)}

\* Mutant: every hunk is looked up by its old lines.
ModifiedByOldLines(f, h) == Under(Resolve(TargetPath(f)), h.source)

Modified(f, h) == Under(Resolve(TargetPath(f)), h.target)
Removed(f, h)  == IF h.target = {} THEN Under(Resolve(SourcePath(f)), h.source) ELSE {}

\* What is reported of each file.  A rename hides it.
Mapping ==
    [f \in Files |->
        LET hunks == IF f \in renamed THEN {} ELSE Hunks(f)
        IN  [modified |-> UNION {Modified(f, h) : h \in hunks}, removed |-> UNION {Removed(f, h) : h \in hunks}]]

\* A symbol that is also modified was not removed.
ChangeOf(mapping, s) ==
    IF \E f \in Files : s \in mapping[f].modified THEN "modified"
    ELSE IF \E f \in Files : s \in mapping[f].removed THEN "removed" ELSE "none"
Reported(mapping, F) == UNION {mapping[f].modified \cup mapping[f].removed : f \in F}

\* Added lines that look like a declaration: the first of a member.
Declared(f) ==
    {i \in DOMAIN texts[f] :
        /\ texts[f][i].tag = "added" /\ texts[f][i].owner \notin {None} \cup Range(TypeOf)
        /\ \A k \in 1..(i - 1) : texts[f][k].tag = "removed" \/ texts[f][k].owner # texts[f][i].owner}
Methods(mapping, path) == {s \in Reported(mapping, Files) \cap Symbols(path) : s \notin Range(TypeOf)}

\* What is said of a file that is not mapped, or not as a whole.
Notes(mapping, f) ==
    IF f \in renamed THEN {"rename"}
    ELSE (IF Hunks(f) # {} /\ (Ambiguous(TargetPath(f)) \/ Ambiguous(SourcePath(f))) THEN {"ambiguous"} ELSE {})
         \cup {"underestimated" : h \in {h \in Hunks(f) :
                   LET path == Resolve(TargetPath(f))
                   IN  path # None /\ h.target # {} /\ Cardinality(Declared(f)) > Cardinality(Methods(mapping, path))}}

----------------------------------------------------------------------------
(* The risk, in thousandths *)

Impact(type) ==
    LET hop(S) == {link[1] : link \in {l \in Links : l[2] \in S}} IN hop({type}) \cup hop(hop({type}))
Callers(s) ==
    LET hop(S) == {c \in Calls : c[2] \in S}
        first == hop({m \in DOMAIN TypeOf : m \notin Range(TypeOf) /\ s \in {m, TypeOf[m]}})
    IN  first \cup hop({c[1] : c \in first})

\* Sums over the symbols and over the routes, as numbers of pairs.
Blast(S) == Cardinality({p \in S \X DOMAIN TypeOf : p[2] \in Impact(TypeOf[p[1]])})
Crosses(c) == ServiceOf[TypeOf[c[1]]] # ServiceOf[TypeOf[c[2]]]
Cross(S) == Cardinality({p \in S \X Calls : p[2] \in Callers(p[1]) /\ Crosses(p[2])})
Touched(S) == {e \in Exposes : e[1] \in S}
Routes(S)  == {e[2] : e \in Touched(S)}
Callees(S) == {p \in Touched(S) \X Remote : p[1][2] = p[2][2]}
IsPublicInterface(s) == s \notin Range(TypeOf) \cup Private /\ TypeOf[s] \in Interfaces
Capped(n, ceiling) == Min({n, ceiling})

Score(S) ==
    Capped(4 * Capped(Blast(S), 100) + 15 * Capped(Cross(S), 20)
           + (IF \E s \in S : IsPublicInterface(s) THEN 200 ELSE 0)
           + 20 * Capped(Cardinality(Routes(S)), 5)
           + 200 * Capped(Cardinality(Callees(S)), 5), 1000)

----------------------------------------------------------------------------
(* The developer edits, the index follows sooner or later *)

Start(sources) ==
    /\ texts = [f \in Files |-> [i \in DOMAIN Base[f] |-> [tag |-> "kept", owner |-> Base[f][i]]]]
    /\ renamed = {} /\ built = sources /\ touches = 0
Init == Start(Old)

Touch == touches < MaxTouches /\ touches' = touches + 1

AddLine(f, i, owner) ==
    /\ Touch /\ i \in 0..Len(texts[f])
    /\ texts' = [texts EXCEPT ![f] = InsertAt(@, i + 1, [tag |-> "added", owner |-> owner])]
    /\ UNCHANGED <<renamed, built>>

RemoveLine(f, i) ==
    /\ Touch /\ i \in DOMAIN texts[f] /\ texts[f][i].tag # "removed"
    /\ texts' = [texts EXCEPT ![f] = IF @[i].tag = "added" THEN RemoveAt(@, i) ELSE [@ EXCEPT ![i].tag = "removed"]]
    /\ UNCHANGED <<renamed, built>>

DeleteFile(f) ==
    /\ Touch /\ ~IsGone(f) /\ f \notin renamed
    /\ texts' = [texts EXCEPT ![f] = [i \in DOMAIN Base[f] |-> [tag |-> "removed", owner |-> Base[f][i]]]]
    /\ UNCHANGED <<renamed, built>>

MoveFile(f) ==
    /\ Touch /\ Base[f] # <<>> /\ ~IsGone(f) /\ f \notin renamed
    /\ renamed' = renamed \cup {f}
    /\ UNCHANGED <<texts, built>>

Reindex == built # New /\ built' = New /\ UNCHANGED <<texts, renamed, touches>>

Next ==
    \/ \E f \in Files : \E owner \in {None} \cup {s \in DOMAIN TypeOf : TypeOf[s] \in {TypeOf[o] : o \in Range(Base[f]) \ {None}}},
           i \in 0..Len(texts[f]) : AddLine(f, i, owner)
    \/ \E f \in Files : \E i \in DOMAIN texts[f] : RemoveLine(f, i)
    \/ \E f \in Files : DeleteFile(f) \/ MoveFile(f)
    \/ Reindex

Spec == Init /\ [][Next]_vars

----------------------------------------------------------------------------
(* Properties *)

Plain == {f \in Files \ renamed : Resolve(Outer \o PathOf[f]) = PathOf[f] /\ Resolve(TargetPath(f)) = PathOf[f]}
Owners(f, tag) == {texts[f][i].owner : i \in {k \in DOMAIN texts[f] : texts[f][k].tag = tag}} \ {None}

\* Over a graph of the new sources every symbol that got a line, and its type, is
\* reported as modified, and over one of the old sources every symbol of a file that was
\* deleted is reported; a file that is not looked at is at least noted
\* (map_hunks_to_symbols, collect_diff_file_notes).
ChangesAreFound ==
    LET mapping == Mapping
    IN  /\ built = New => \A f \in Plain : \A s \in Owners(f, "added") :
            {ChangeOf(mapping, s), ChangeOf(mapping, TypeOf[s])} = {"modified"}
        /\ built = Old => \A f \in Plain : IsGone(f) =>
            \A s \in Range(Base[f]) \ {None} : ChangeOf(mapping, s) # "none"
        /\ \A f \in Files : Hunks(f) # {} /\ (f \in renamed \/ Ambiguous(TargetPath(f))) => Notes(mapping, f) # {}

\* A diff of more files is never of less risk (compute_risk).
MoreIsRiskier ==
    LET mapping == Mapping
        whole   == Score(Reported(mapping, Files))
    IN  \A F \in SUBSET {f \in Files : Hunks(f) # {}} : Score(Reported(mapping, F)) <= whole

DiffIsWeighed == ChangesAreFound /\ MoreIsRiskier
=============================================================================
