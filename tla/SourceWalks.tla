----------------------------- MODULE SourceWalks -----------------------------
(***************************************************************************)
(* Which source files count (graph/path_filtering.py), as the builder of the    *)
(* graph, the flow of the vectors and the watch daemon each find out: from the    *)
(* builtin patterns, the project's ignore file, those of the directories on the  *)
(* way to a file and then every .gitignore on that way, the last line that        *)
(* matches deciding.  The files and the ignore files are edited in between, and   *)
(* nobody edits during an index run.                                         *)
(*                                                                         *)
(* A line is [neg, slash, name]: whether it begins with "!", whether a slash comes *)
(* before the name, and the name of the directories it is about.                *)
(***************************************************************************)
EXTENDS Naturals, SequencesExt, FiniteSetsExt

CONSTANTS
    None,
    PathOf,     \* the names of the directories from the project's root to each file
    Builtin,    \* COMMON_EXCLUDED_PATH_PATTERNS, as lines
    Nuisances,  \* UNCONDITIONAL_PRUNE_DIRS
    BuildDirs,  \* BUILD_DIR_NAMES
    Modules,    \* the directories that hold a build file
    RuleSets,   \* what the ignore files may say: functions from [layer, dir] to lines
    MaxEdits    \* bound on the edits of sources and of ignore files (TLC only)

VARIABLES
    rules, version, edits,
    graph,      \* the version of each file in the graph, 0 for none
    vectors,    \* and in the vector index
    memo,       \* of each file, what the flow's memo holds: the version it processed and whether it kept it
    watching,   \* the daemon runs
    project,    \* the lines of the project's ignore file when it started
    known,      \* of each directory, the lines it has read for it
    pending,    \* a reindex is scheduled
    touched,    \* the files edited since it started
    calm,       \* since then no ignore file was edited
    settled,    \* nor since the vectors were last built from nothing
    fresh       \* nothing was edited since the last index run

vars == <<rules, version, edits, graph, vectors, memo, watching, project, known, pending, touched, calm, settled, fresh>>

Files == DOMAIN PathOf
Dirs  == {PathOf[f] : f \in Files}

----------------------------------------------------------------------------
(* LayeredIgnore *)

Read(rs, layer, dir) ==
    LET place == [layer |-> layer, dir |-> dir]
        lines == IF place \in DOMAIN rs THEN rs[place] ELSE <<>>
    IN  [i \in DOMAIN lines |-> [line |-> lines[i], layer |-> layer, dir |-> dir]]
OnTheWay(dir, from) == [i \in 1..(Len(dir) + 1 - from) |-> SubSeq(dir, 1, i - 1 + from)]
Defaults == [i \in DOMAIN Builtin |-> [line |-> Builtin[i], layer |-> "ignore", dir |-> <<>>]]

\* The lines that are asked about the files of a directory, the project's as given.
Stack(rs, top, dir) ==
    LET nested == OnTheWay(dir, 1)  gits == OnTheWay(dir, 0)
    IN  Defaults \o top \o FlattenSeq([i \in DOMAIN nested |-> Read(rs, "ignore", nested[i])])
                 \o FlattenSeq([i \in DOMAIN gits |-> Read(rs, "git", gits[i])])
TopLines(rs) == Read(rs, "ignore", <<>>)

\* A line is put behind the directory of its file, which ties it to that directory; in
\* the root's .gitignore only its slash is taken away, and it is tied to none.
Matches(rule, f) ==
    LET path == PathOf[f]  depth == Len(rule.dir)
    IN  IF depth = 0 /\ ~(rule.layer = "ignore" /\ rule.line.slash)
        THEN rule.line.name \in ToSet(path)
        ELSE Len(path) > depth /\ IsPrefix(rule.dir, path) /\ path[depth + 1] = rule.line.name

Matching(stack, f)  == {i \in DOMAIN stack : Matches(stack[i], f)}
IgnoredBy(stack, f) == Matching(stack, f) # {} /\ ~stack[Max(Matching(stack, f))].line.neg
Ignored(rs, f) == IgnoredBy(Stack(rs, TopLines(rs), PathOf[f]), f)

\* diagnose-ignore names the line that last changed the verdict.
Winning(stack, f) ==
    LET After(i) == IgnoredBy(SubSeq(stack, 1, i), f)
    IN  Max({1} \cup {i \in DOMAIN stack : After(i) # After(i - 1)})

----------------------------------------------------------------------------
(* The walks *)

Pruned(f) == \E i \in DOMAIN PathOf[f] :
    \/ PathOf[f][i] \in Nuisances
    \/ PathOf[f][i] \in BuildDirs /\ SubSeq(PathOf[f], 1, i - 1) \in Modules
GraphWalk(rs) == {f \in Files : ~Pruned(f) /\ ~Ignored(rs, f)}

\* Mutant: only the ignore files are scanned for a "!".
PermissiveByIgnore(rs) == \E p \in DOMAIN rs : p.layer = "ignore" /\ \E l \in ToSet(rs[p]) : l.neg

\* Anything re-included anywhere opens the whole tree to the flow.
Permissive(rs) == \E p \in DOMAIN rs : \E l \in ToSet(rs[p]) : l.neg
FlowWalk(rs)   == {f \in Files : Permissive(rs) \/ ~IgnoredBy(Defaults, f)}

\* An unchanged file is not processed again, so that its ignore rules are not asked.
Processed(f) == IF memo[f] # None /\ memo[f].version = version[f] THEN memo[f]
                ELSE [version |-> version[f], kept |-> ~Ignored(rules, f)]

\* The flow keeps what it knows, then the graph follows the files that count.
IndexRun ==
    /\ memo'    = [f \in Files |-> IF f \in FlowWalk(rules) THEN Processed(f) ELSE None]
    /\ vectors' = [f \in Files |-> IF f \in FlowWalk(rules) /\ Processed(f).kept THEN version[f] ELSE 0]
    /\ graph'   = [f \in Files |-> IF f \in GraphWalk(rules) THEN version[f] ELSE 0]
    /\ fresh'   = TRUE

Increment ==
    /\ ~fresh
    /\ IndexRun
    /\ UNCHANGED <<rules, version, edits, watching, project, known, pending, touched, calm, settled>>

\* The tables are dropped and the flow forgets.
Reprocess ==
    /\ memo'    = [f \in Files |-> IF f \in FlowWalk(rules)
                                   THEN [version |-> version[f], kept |-> ~Ignored(rules, f)] ELSE None]
    /\ vectors' = [f \in Files |-> IF f \in FlowWalk(rules) /\ ~Ignored(rules, f) THEN version[f] ELSE 0]
    /\ graph'   = [f \in Files |-> IF f \in GraphWalk(rules) THEN version[f] ELSE 0]
    /\ fresh' = TRUE /\ settled' = TRUE
    /\ UNCHANGED <<rules, version, edits, watching, project, known, pending, touched, calm>>

----------------------------------------------------------------------------
(* The daemon: one LayeredIgnore for its life, which reads the rules of a directory *)
(* when something in it first changes.                                       *)

StartWatching ==
    /\ ~watching
    /\ watching' = TRUE /\ project' = TopLines(rules) /\ known' = [d \in Dirs |-> None]
    /\ pending' = FALSE /\ touched' = {} /\ calm' = TRUE
    /\ UNCHANGED <<rules, version, edits, graph, vectors, memo, settled, fresh>>

StopWatching ==
    /\ watching
    /\ watching' = FALSE /\ project' = <<>> /\ known' = [d \in Dirs |-> None]
    /\ pending' = FALSE /\ touched' = {} /\ calm' = TRUE
    /\ UNCHANGED <<rules, version, edits, graph, vectors, memo, settled, fresh>>

Learned(rs, dir) == IF watching /\ dir \in Dirs /\ known[dir] = None
                    THEN [known EXCEPT ![dir] = Stack(rs, project, dir)] ELSE known

\* Only the watcher's own rules tell it whether the file counts.
EditSource(f) ==
    /\ edits < MaxEdits
    /\ edits' = edits + 1 /\ version' = [version EXCEPT ![f] = @ + 1] /\ fresh' = FALSE
    /\ known' = Learned(rules, PathOf[f])
    /\ touched' = IF watching THEN touched \cup {f} ELSE touched
    /\ pending' = (pending \/ (watching /\ ~IgnoredBy(known'[PathOf[f]], f)))
    /\ UNCHANGED <<rules, graph, vectors, memo, watching, project, calm, settled>>

\* The event of a .gitignore makes the watcher read the rules of its directory, and
\* nothing else: no backend claims the file.
EditRules(rs) ==
    /\ edits < MaxEdits /\ rs # rules
    /\ edits' = edits + 1 /\ rules' = rs /\ fresh' = FALSE /\ settled' = FALSE
    /\ calm' = ~watching
    /\ LET place(p)  == IF p \in DOMAIN rules THEN rules[p] ELSE <<>>
           changed   == {p \in DOMAIN rs : p.layer = "git" /\ place(p) # rs[p]}
       IN  known' = [d \in Dirs |-> IF \E p \in changed : p.dir = d THEN Learned(rs, d)[d] ELSE known[d]]
    /\ UNCHANGED <<version, graph, vectors, memo, watching, project, pending, touched>>

Reindex ==
    /\ watching /\ pending
    /\ IndexRun
    /\ pending' = FALSE
    /\ UNCHANGED <<rules, version, edits, watching, project, known, touched, calm, settled>>

----------------------------------------------------------------------------
Start(rs) ==
    /\ rules = rs /\ version = [f \in Files |-> 1] /\ edits = 0
    /\ graph = [f \in Files |-> 0] /\ vectors = [f \in Files |-> 0] /\ memo = [f \in Files |-> None]
    /\ watching = FALSE /\ project = <<>> /\ known = [d \in Dirs |-> None]
    /\ pending = FALSE /\ touched = {} /\ calm = TRUE /\ settled = TRUE /\ fresh = FALSE
Init == \E rs \in RuleSets : Start(rs)

Next ==
    \/ Increment \/ Reprocess \/ StartWatching \/ StopWatching \/ Reindex
    \/ \E f \in Files : EditSource(f)
    \/ \E rs \in RuleSets : EditRules(rs)

Spec == Init /\ [][Next]_vars

----------------------------------------------------------------------------
(* Properties *)

\* After an index run under rules that have not changed since the vectors were built,
\* the vector index holds the files that no rule ignores, and the graph the same but
\* for those in build output and dependency trees; the file that is ignored has a
\* line to blame, which no later one takes back (iter_source_files, app_main,
\* LayeredIgnore.cocoindex_excluded_patterns, diagnose_dict).
WalksAgree ==
    /\ fresh /\ settled => \A f \in Files :
        /\ vectors[f] = (IF Ignored(rules, f) THEN 0 ELSE version[f])
        /\ graph[f]   = (IF Pruned(f) THEN 0 ELSE vectors[f])
    /\ \A f \in Files : Ignored(rules, f) =>
        LET stack == Stack(rules, TopLines(rules), PathOf[f])  w == Winning(stack, f)
        IN  /\ Matches(stack[w], f) /\ ~stack[w].line.neg
            /\ \A i \in DOMAIN stack : i > w /\ Matches(stack[i], f) => ~stack[i].line.neg

\* While the rules stay as they were when it started, the daemon brings every edit of
\* a file that counts into both indexes (SourceWatcher._classify, whose rules are
\* read once for each directory).
EditsAreSeen ==
    watching /\ calm /\ ~pending => \A f \in touched : ~Ignored(rules, f) =>
        vectors[f] = version[f] /\ (Pruned(f) \/ graph[f] = version[f])

SourcesAreFollowed == WalksAgree /\ EditsAreSeen
=============================================================================
