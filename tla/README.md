# jrag: a TLA+ model of the indexer and its watch daemon

`jrag` (package `java_codebase_rag`) indexes Java and Kotlin source trees into a
property graph (LadybugDB, one file) and a vector index (LanceDB), and answers
questions over both. A long-running daemon, `jrag watch`, keeps the index warm
and fresh; the same verbs also run cold, one process per command.

This directory holds TLA+ modules of the parts in which processes, threads,
files and crashes interact, TLC configurations that check them on small
instances, and TLAPS proofs of what holds for every instance. Paths below are
relative to `src/java_codebase_rag/`.

## Contents

1. [Inventory](#inventory)
2. [Modules](#modules)
3. [Runs, bounds and fairness](#runs-bounds-and-fairness)
4. [Where code and documentation disagree](#where-code-and-documentation-disagree)
5. [Proofs](#proofs)
6. [What is only model-checked, and what is not modelled](#what-is-only-model-checked-and-what-is-not-modelled)

To repeat the work: `tlc -config MCProjectLock.cfg MCProjectLock` for a run and
`tlapm ProjectLockProofs.tla` for the proofs of a module.

## Inventory

`PROJECT.json` lists all 29 components. Those that keep state, or share it:

| Component | State it keeps | Operations | What makes it hard | What makes it correct |
|---|---|---|---|---|
| Project lock (`watch/lock.py`) | pid file, its inode, the flock on it | `acquire`, `release`, `read_holder` | six system calls, each visible to other processes; a path and the inode it names part company; kills; recycled pids | at most one holder; the file names the holder or nobody |
| Graph builder (`graph/build_ast_graph.py`) | the graph file, `.graph_hashes.json`, `.graph_increment_in_progress` | `incremental_rebuild`, full rebuild, fallback, `erase` | killed between any two writes; sources edited meanwhile; a failed scoped build falls back to a full one | an unmarked graph is the one the hashes describe; repeated increments reach the sources |
| Warm resources (`watch/warm.py`, `graph/ladybug_queries.py`) | sidecar copy of the graph, the one cached reader | `graph`, `begin_graph_snapshot`, `commit_graph_snapshot` | queries, the reindex thread and the builder subprocess overlap; any step may fail | no query starts on a stale or half-written graph |
| Source watcher (`watch/watcher.py`) | `_pending`, `_activity`, `_stop`, three threads | file events, debounce, `reindex`, `stop` | the event is set outside the lock and cleared by the other thread; two-phase reindex that may fail half-way | no lost wake-up, no lost change, truthful `indexing_done` |
| Watch daemon (`watch/daemon.py`) and its verbs (`jrag.py`) | lock, socket file, state file, builder subprocess | `run_foreground`, `_shutdown`, signals, `--stop` | files found by path, removed by whoever cleans up; builder outlives the daemon; five ways out of a failed start | a start clears only a corpse's socket; an exit leaves nothing; a stop ends |
| Watch server and client (`watch/server.py`, `watch/client.py`) | listening socket, one accept thread | `dispatch`, `request`, cold fallback | timeouts, half-read frames, a daemon that is starting or leaving | every request is answered once, warm or cold |
| Lifecycle verbs (`cli.py`, `pipeline.py`) | none of their own; write graph and vectors | `init`, `increment`, `reprocess`, `erase` | no project lock: concurrent with the daemon and with each other | exit code tells what was updated |
| Lance optimisation (`lance_optimize.py`) | fragments and versions of a table | compaction with retries | concurrent commits | gives up cleanly, loses no row |
| Usage telemetry (`usage/`) | day files and a drop counter | append, count, prune | several processes share the files | a host command never fails because of it |

How they interact. The daemon's main thread takes the **lock**, loads the
embedding model, clears a stale socket, binds the **server**, starts the
**watcher**, writes the state file and waits for its stop flag. The watcher's
debounce thread collects kinds from the observer's thread and calls `reindex`,
which runs the vector flow and then, between **warm resources**' begin and commit,
the **graph builder** in a subprocess. The server answers queries through the warm
resources' current reader. The stop verb is another process: it reads the lock's
pid file, signals, polls, kills, and unlinks the runtime files by their paths. The
builder never takes the lock; the one who started it holds it, or did.

Those that keep no state of their own but answer in several steps, over what another
process may have left:

| Component | Operations | What makes it hard | What makes it correct |
|---|---|---|---|
| Graph passes (`graph/build_ast_graph.py`, `graph/graph_enrich.py`) | passes 1 to 6 over everything or over a scope | the scoped build sees stubs of what it does not parse; calls and routes are global | an increment leaves what a rebuild would make, or at least nothing stale |
| Resolve service (`analysis/resolve_service.py`, `jrag_envelope.py`) | identifier to candidates to one node | queries capped before and filters applied after the ranking | picks only when one fits |
| MCP tools (`mcp/mcp_v2.py`, `graph/ladybug_queries.py`) | `describe`, `find`, `neighbors` with offsets | counts by one query, rows by another; filters after the page is cut | what `describe` counts `neighbors` finds; pages are whole |
| Reading commands (`jrag.py`, `read_payloads.py`) | `find`, `callers`, `flow`, `inspect`, ... | limits, scopes and kind guards of some 25 commands; hints from one to the next | an answer that says it is whole is; a hinted command works |
| Search (`search/`) | pages of a ranked list | each page is ranked, fused, cut and filtered anew | the pages list every match once, and hits match |
| Path filtering (`graph/path_filtering.py`) | which files count, for three walkers | rules change between walks; memo; frozen rules | both indexes hold what no rule ignores |
| Configuration (`config.py`) | tree, index, settings of a process | found from any directory, by YAML, index or pointer | a project's processes agree |
| PR analysis (`analysis/pr_analysis.py`) | a diff to symbols to a risk | line numbers of one version over a graph of another | every touched symbol is reported |
| Flow tracing (`LadybugGraph.trace_flow`) | stages of types | budgets, hops and rows in any order | each type got there by an edge; structure before calls |
| Installer (`installer.py`) | `install`, `update` | many files of several owners, each step failing alone; killed in between | exit 0 means the hosts are as the marker says |

The remaining components (parsing, rendering, evaluation) are
functions of their input; `PROJECT.json` says for each why it is left out.

`PROJECT.json` also lists the hazards: the places in this code where something can
go wrong that a test would hardly reach, each at its line, with the properties
that cover it or the reason why none does yet.

## Modules

                               ProjectLock --- MCProjectLock         ProjectLockProofs
                                  ^ INSTANCE
    SourceWatcher, ----------- WatchDaemon --- MCWatch, MCWatchLive  WatchDaemonProofs
    SourceWalks, OperatorConfig, Installer
                                  |
                                Setup -------- MCWatch               SetupProofs
    ReadCommand <--refines-- WatchProtocol --- MCWatchProtocol.cfg   WatchProtocolProofs
                          IncrementalBuild --- MCIncrementalBuild    IncrementalBuildProofs
           IncrementalBuild, WarmSnapshot  --- MCGraphLive           WarmSnapshotProofs
                             ScopedRebuild --- MCScopedRebuild       (proved in PartsProofs)
                            ResolveService --- MCResolve             (LookupCases)
                              SearchFusion --- MCSearch              (LookupCases)
    LifecycleVerbs, LanceOptimize, FlowTrace, ScopedRebuild, RouteLinks
                                  |
                                Parts -------- MCParts               PartsProofs
    PipelineRelay, ResolveService, PrAnalysis
                                  |
                           CommandParts ------ MCParts               CommandProofs
    UsageJournal ---------------------------/                        CommandProofs
    SearchFusion (LookupCases), GraphReads (ReadCases),
    ReadCommands (CommandCases) -- in MCParts as well;
    PipelineRelay in MCWatchLive too

Each specification is parameterised by CONSTANTS with named assumptions; an `MC`
module extends it with model values and a symmetry set; a `Proofs` module extends it
with theorems. Operators preceded by a comment that begins with `Mutant:` are
variants of the definition below them with a plausible bug; no specification uses
them. They show which property would notice.

### ProjectLock

One action per system call of `acquire` (open `r+`, open `w+`, `flock`, truncate,
write of the pid) and of `release` (close, read, unlink). `flock` locks an inode
while processes agree only on a path, so `link` (the inode the path names),
`content` (the pid in each inode) and `fh` (each process's handle) are kept apart. A
process may be killed between any two calls and its pid given to a new one. Inodes
are reused as file systems reuse them, when no name and no handle refers to
them. `orphaned` is a history variable: some `release` unlinked a file another process
had open.

### IncrementalBuild

The graph is one value per source file: the version whose nodes and edges it holds,
`Absent`, or `Torn`. Actions follow `incremental_rebuild` write by write: detection,
the early returns in the order of the code (full rebuild needed, nothing changed,
crash marker), the marker, `_delete_file_scope`, the expansion cap, the passes,
`_scoped_write`, the call edges, the hash store, the meta row, removal of the marker;
and `write_ladybug` likewise (drop, schema, nodes, edges, meta, hashes), for every way
into it. The environment edits, reverts and deletes files, kills the builder, and
installs a release with a new ontology version. Which files join the scope as dependents
is any subset of the files in the graph: what the properties say must not hinge on
the quality of the dependency analysis. `jrag erase` removes the graph first and the
builder's own files second, and is two actions; a file that cannot be removed is only a
warning, so that each may stay.

Three history variables name what the properties leave out, each a real event:
`edited` (files edited since detection), `mishashed` (files whose stored hash is not
of what was parsed) and `abandoned` (a full rebuild was begun and none has completed).

### WarmSnapshot

A reader is a record: the file it has open, the version it saw, and whether the
builder was writing. `cached` is `LadybugGraph`'s one cached instance, `held` what
each query holds. The reindex thread's `begin` (copy, drop the original's reader, flip)
and `commit` (drop the copy's reader, unlink, clear, drop the stale reader of the
original) are separate actions; `LockHeld` says when they keep queries from choosing a
path. `ExpandSearch` is the path of a search's graph expansion, which opens the
configured graph by itself, whatever the snapshot says. Copy, spawn and build may fail.

### SourceWatcher

The observer thread, the debounce worker and the thread that calls `stop` interleave
at the granularity of accesses to `_pending`, `_activity` and `_stop`. The content of a file
is a version number, and each index, the hash store and what the builder parsed are a version
of each file. A walk over the tree (of the vector flow; of the builder when it compares, parses
and hashes) reads of each file any version between the one at its start and the one at its end,
because the tree changes meanwhile. The graph phase is the builder's run in outline: detection
with the early returns of `incremental_rebuild`, the marker, scope, write, hash store, unmark, or
the full rebuild; it may fail or be killed before each step and leaves what it wrote by
then. `IncrementalBuild` has the same run write by write. `Init` has changes made while no
watcher ran and whatever a build that was killed then may have left.

What no event brings back has three names. `overlooked` and `unembedded` are history variables:
files whose change the graph, and the vectors, lost because no watcher ran when it was made or
the reindex that took it failed. `HashedUnread` is read off the state: the hash store has a
later version of the file than the graph, as it was edited between the parse and
`tracker.update`. A reindex then finds nothing changed, returns 0 and says so, until the file
is edited again. `ChangesAreCarried`, `ReportedIsIndexed` and `ChangesGetIndexed` except such
files by name and no others.

### WatchDaemon

Composes `ProjectLock` by INSTANCE over its own variables: a daemon in `locking` takes
`Lock!Acquire` steps, one in `release` takes `Lock!Release` steps, and its death is
`Lock!Crash`. Around it: the phases of `run_foreground` with the exits of each failure,
`_shutdown` step by step, signals before and after the handlers are installed, the
builder subprocess that a daemon may leave running, and `jrag watch --stop`. Socket and
state file are what the paths name: the process that made them, or nothing. Every write of the
state file (starting, indexing, idle, error) is an action, or part of one, and may fail, because
`_record` passes over an `OSError`. Two history variables name the ways in which a daemon
leaves files behind: `outlived`, a
reindex was still running when `watcher.stop` gave up the join, and may write the state file late; `unloaded`, the
model could not be loaded, which records an error and returns without a clean-up. That
unlinking fails is not modelled. Pids are not reused here; `ProjectLock` covers that.

### WatchProtocol, ReadCommand

The client of one read command (probe, connect, send, await, cold path) against the
daemon's accept thread, over sockets whose lines arrive whole, in part or never. The
daemon starts, closes, crashes, restarts and may speak another version. `ReadCommand`
says what a command promises, whoever computes it: it prints once, what its own core
answers. The refinement maps `output` to that answer. `Core` is one function for client and daemon:
that a daemon of the same protocol version and index computes what the client would have
is assumed (it is the same code over the same index) and not shown.

### LifecycleVerbs, PipelineRelay, LanceOptimize, UsageJournal

`LifecycleVerbs`: each verb is a plan, a sequence of steps (preflight, vectors, graph,
optimise, drop, remove) that a subprocess each carries out; a second writer may be at
work next to it. `PipelineRelay`: the parent, its two drain threads and the child with its
pipes, chunk by chunk, and what reaches the screen. `LanceOptimize`: the loop over
the tables with the retries of a conflicting commit. `UsageJournal`: `record_event` of
several processes, file operation by file operation, over the turn of a day.

`Parts` instantiates `LifecycleVerbs`, `LanceOptimize`, `FlowTrace`, `ScopedRebuild` and
`RouteLinks`, and `CommandParts` instantiates `PipelineRelay`, `ResolveService` and
`PrAnalysis`, each over variables of its own, so that `PartsProofs` and `CommandProofs` can
prove what `MCParts` checks.

### SourceWalks, OperatorConfig

`SourceWalks`: which files count. Ignore files of two layers are edited, and the graph builder,
the vector flow with its memo and the daemon with its rules frozen per directory each find out
by themselves; `Ignored` is the layered matcher, line by line. `OperatorConfig`: which tree,
index and settings a process resolves by walking up from its directory to a YAML or an index,
by a pointer in a bare index, and by the tiers flag, environment, YAML, default; operators build
and erase in several directories while the YAMLs change, and a daemon is detached.

`Setup` instantiates both and `Installer`, each over variables of its own: what a watch process
finds when it starts. `SetupProofs` proves of them what `MCWatch` checks.

### ScopedRebuild, RouteLinks

What the passes compute, for programs of a few files: `ScopedRebuild` has types, members,
supertypes and calls (passes 1 to 3), `RouteLinks` routes, clients, producers and the
matching of calls to routes (passes 4 to 6) under the layers of configuration. In each,
`Increment` is what `incremental_rebuild` leaves in the graph and `Reprocess` (`Rebuild`)
what a full build makes; a history variable says which known divergences have occurred.

### ResolveService, GraphReads, ReadCommands

The reading side. A graph is a set of nodes and a set of edges; each query is the set of
the rows it returns, in the order the code asks for, or in any order where it asks for
none. `ResolveService` runs its queries one action each. `GraphReads` is an MCP client that
describes nodes and then pages through what it was told of. `ReadCommands` is the agent
that runs a command and then one it was hinted at. The graphs and requests TLC tries
are in `LookupCases`, `ReadCases` and `CommandCases`.

### SearchFusion, FlowTrace, PrAnalysis

`SearchFusion` asks page after page: each page fetches, fuses the two ranked lists by reciprocal
rank, keeps one row per type, cuts and filters anew, and an empty answer suggests a role.
`FlowTrace` is `decompose`, one query and one row at a time, with the row limit of a query and
the budget of a stage. `PrAnalysis` lays the hunks of a diff over the lines of a graph that was
built from the old or the new sources, and sums up the risk.

### Installer

A place is a host at a scope; an install or update is a sequence of operations on the
configuration entry and the files of each, any of which may fail, then the marker, then
the index. The user edits, and a release changes what is shipped.

## Runs, bounds and fairness

| Run | What it asks | Instance | Distinct states |
|---|---|---|---|
| `lock` | exclusion until an unlink orphans a file; honest pid file | 3 processes, 4 inodes, symmetric | 46 000 |
| `lock_exclusion` | is there ever a second holder? (there is) | the same | |
| `build` | unmarked graph = hash store; success means whole; hashes never run ahead | 2 edited files with 2 contents and a third that nobody edits, cap 2, symmetric | 6.1 million |
| `build_fallback` | does a rebuild that failed always leave what drives the next one? (it does not) | as `build` | |
| `graph_live` | repeated increments reach the sources; readers served are whole and current; every snapshot ends | 2 files, cap 1; 2 query threads, 2 builds | 310 000 |
| `watch` | wake-ups, changes, reports of the watcher; a start meets no live daemon's files and an exit leaves nothing; the walks follow the ignore files; a project's processes agree on its configuration; an update's exit code | 2 files of a language each, 2 changes each and 3 in all, or 2 if it is stopped; 2 daemons, 2 inodes, stop verb, symmetric; 5 files and 8 rule sets; 6 directories and 8 YAML sets; 1 host | 990 000 |
| `watch_live` | a stopped daemon ends and a launched one is decided; changes get indexed on a graph-only install; the relay of a subprocess ends | 2 daemons, 1 file, 2 changes, 1 line | 131 000 |
| `protocol` | every command prints once what its core gives; no client forgotten; handlers end | 2 clients, 1 refused, backlog 1 | 28 000 |
| `parts` | the parts that run alone in a process (below) | below | 700 000 |
| `parity` | does an increment always leave what a rebuild makes? (it does not) | 3 files | |
| `resolve_scope` | is an answer always of the service asked for? (it is not) | pool of 9 nodes | |
| `fusion` | does a search show its hits' neighbours in the graph? (it does not) | 7 indexes | |

Four MC modules are disjoint sums. `MCParts`, `MCWatch`, `MCGraphLive` and `MCWatchLive` instantiate
several specifications that share no state; the variable `part` says of which one a
behaviour is, and the others rest in one initial state. A property of a part is stated
of the sum as `part = ... => ...`, unless it holds of the resting state.

Why the bounds are enough. The lock's interesting case needs one process that releases,
one that opened the file before the unlink and one that creates a new file: three, and
an inode more than that so that one can be reused. A build's hazards relate one file to
itself, or to a dependent in the same scope: two files, and a third that can only be
pulled in; two contents give edit and revert. `ExpansionCap` 2 lets a dependent fit into
the scope, 1 makes it overflow. `MaxBuilds` 2 lets a reader of the first build be stale for
the second. Two languages let one be collected while the other is reindexed; two changes of a file let
one come before and one after the swap of `_pending`, or the parse and the hashing; the third is one
of the other file meanwhile. What a killed build left matters when both files changed while no watcher ran,
and is tried there only. Two daemons are a predecessor that leaves and a successor
that starts. `MaxBuilds` and `MaxChanges` bound the state space for TLC only: the proofs
hold for every value. `StopVerbs` switches the stop verb off where a daemon must end
without anybody to kill it, and where symmetry cannot be used.

Of `parts`: three lines of output with one at most on the other pipe, and pipes of two
chunks, let a line be split, a header be parted from its frames and a pipe be full. Two
tables and three attempts let the first fail and the second go on. Two processes over two
days, with a cap of one event and a retention of none, reach the cap, the drop counter and
the pruning. Three files are a type, its user and its user's user; two increments let
the second start from what the first left. The limits of queries and pages are 1 or 2 (the
code's are 20 to 500), so that a handful of nodes overflows them. The cases of
`ReadCommands` have 15 nodes, with groups of edges present or not. The installer has one
host, three commands and one event in between.

`CHECK_DEADLOCK FALSE` stands where the system may really stop: a watcher that has been
stopped and has seen its last change, daemons that all have ended.

Fairness. It is stated for threads that run on by themselves and never for the
environment. `IncrementalBuild`: a started builder goes on, and increments keep being asked
for; no fairness of edits, kills, errors. `Converges` is therefore conditional: *if* trouble
stops, the graph reaches the sources. `WarmSnapshot`: the reindex thread goes on and the
builder subprocess ends (a run of it is waited for). `SourceWatcher`: the observer, the
worker and a `stop` that has begun go on; nothing makes a file change, a run fail, or a
stop begin. `WatchDaemon`: each daemon's main thread goes on, and `watcher.stop` returns,
because its joins have timeouts; nothing makes a builder end or a signal arrive.
`PipelineRelay`: child, drains and main go on, and a child that hangs is interrupted in the
end (or does not hang). `WatchProtocol`: clients and the accept thread go on; a client's
timeout is what ends a wait that nobody answers.

## Where code and documentation disagree

Five runs end in a counterexample, and `PROJECT.json` quotes the line each refutes.

* **Two holders of the lock** (`lock_exclusion`). `release` closes, reads and unlinks. A
  process that opened the file before the unlink and locks it after the close, and has
  not written its pid yet, is left with a lock on an inode without a name. The next
  process creates a new file and locks that.
* **A torn graph that no marker drives to a rebuild** (`build_fallback`). `watch/watcher.py:283` says that
  after a failed graph phase the crash marker drives the next full rebuild. The fallbacks of a
  run that has set or found the marker (after an exception, over the expansion cap, over a
  crash) remove it before the full rebuild, which sets none. A scoped rebuild that has
  deleted its scope raises, the full rebuild is killed; the next increment rebuilds the
  edited file and succeeds, and a dependent that was deleted with it stays torn.
* **An increment is not a rebuild** (`parity`). Names that resolve differently because a type
  came, went or got another supertype keep their old edges in files that are not in scope.
* **A scoped identifier leaves its scope** (`resolve_scope`). The scope clause is appended to
  a condition with OR and binds its last branch.
* **The graph's neighbours never reach the ranking** (`fusion`). The query for their chunks passes an
  argument its function does not have, and the exception is passed over.

The models show more that the code does nothing to prevent, so that no property states
it. Of the processes:

* a daemon whose model does not load leaves its state file behind; two that both found no pid file may truncate each other's (the holder is then
  alive and unnamed); an increment over unchanged sources returns before it
  looks at the crash marker; an edit between parse and hashing is recorded as indexed, and the
  watcher then says `indexing_done` of it;
* `SourceWatcher.stop` may return while a reindex runs or even begins; the builder of a
  daemon that is gone writes next to its successor's; a search's graph expansion opens the
  original while the builder writes it; a leaving daemon cleans up after it released the
  lock and `--stop` cleans up without it, so that either may unlink a serving daemon's
  socket; after a crash `is_daemon_alive` holds while the next daemon is still loading;
* the asynchronous refresh emits two failed events when the vector phase cannot be spawned
  and none for a graph builder that died, and reports success when the builder is
  missing; erase exits 0 when a file could not be removed (`cli.py:815` says otherwise);
  the optimisation ends with "done" when it is cancelled; a no-op increment of a bm25 index
  records the config source; `ProgressRelay.flush` routes a held half-line its comment
  says it drops; `record_event` returns True for lines that were cut short.

Of what an increment leaves (the counterexamples of `parity`, and of `RouteLinks` when
`tame` or `shared` is dropped): phantom types are loaded as known types and phantom methods as
candidates, files without edges are not rescoped, stubs have no supertypes or
parameters; the service of a Feign target is not used in pass 6; EXPOSES edges of an
unchanged file to a route of a changed one are lost; phantom routes nobody calls any more
stay; a second file exposing an existing route makes the increment fall back; routes only
the configuration knows have no file and are never deleted; a producer without topic is
matched against all HTTP routes, and a call without path against the root.

Of the reading side:

* rows are filtered after they were cut, so that an answer may silently lack rows:
  `impact --service`, `find --role`, `topics`, `listeners` beyond 200, `connection`,
  `callees` beyond eight times the limit of external ones; `find`'s `has_more_results` is
  wrong beyond the clamp of 500; rows without an order repeat or are skipped between pages;
  `overview`'s counts stop at the limit unmarked; `decompose` is never marked truncated;
* `--module` on `http-routes`, `http-clients` and `producers`, both scopes on `outline`,
  `overview` and the callers of a route, and `--service` on `connection`, are ignored
  without a word; `connection`'s inbound producers look for EXPOSES edges of listener
  types, which only methods have, and are always empty (`jrag.py:3773`);
* hints that cannot work: `implementations` for a phantom interface or for a class after
  `hierarchy` (against `jrag_hints.py:56`), `callees` for declared clients outside CLIENT
  types, `callers` from within another service's directory; `overridden-by` is never
  hinted, because its rollup counts incoming edges as 0;
* `--service` on `callers` chooses one of two methods of one name and the walk may start at
  the other.

Of the search: rows of the vector search have neither annotations nor a Java kind and those of
the keyword search no `generated`, so that a filter on them finds nothing; the path filter is not
applied to the fused lists, and every filter once more after the page is cut; the ranking depends
on how many rows are needed, `--chunks` fetches no more than that, and the keyword index is cut
before it is filtered. Of `decompose`: the row of an asynchronous call has lost its caller (the
query returns `caller_producer_id`, `_ingest_flow_row` reads `caller_client_id`); types that were
visited may use up a query's rows; types of one name in other services act as seeds. Of
`analyze-pr`: neither a graph of the old nor one of the new sources maps both added and removed
lines right; replaced lines are looked up by the new ones only; a dependent counts once for each
symbol of a type; a directory named `a` or `b` may be taken for git's prefix.

Of the walks: ignore rules are not git's (`docs/CONFIGURATION.md:797`): a root `.gitignore` line
loses its slash and a nested line is tied to its directory; a re-included `node_modules` is indexed
as vectors and not in the graph; the memo keeps the verdict of an unchanged file when the rules
change, and so do the daemon's rules of a directory. Of the configuration: `erase` leaves
`vocab_index.json`, so that the directory stays an anchor (`tests/package/test_java_codebase_rag_cli.py:200`
expects it gone); brownfield sections are read at the source root only; a detached daemon may not
find the YAML with its `watch:` block; a first init that fails leaves no pointer; a bare
index in the home directory never anchors, and from below the home directory one above it is never
found (a condition of `IndexIsFound` that no run had missed and the proof did).

Of the installer: `update` records the new surface even when its deployment failed; an
install over another surface or other hosts leaves old artifacts and forgets hosts; a
marker that cannot be written is a warning; one killed before the marker leaves a CLI
install nobody sees; a host's configuration is read, merged and replaced without a lock;
`docs/ARCHITECTURE.md:72` and `docs/JRAG-CLI.md:127` describe hooks (`merge_session_start_hook`)
that `installer.py` does not have.

## Proofs

TLAPS checks, for every value of the constants under their assumptions:

| Module | Theorems | Inductive invariant |
|---|---|---|
| `ProjectLockProofs` | `TypeCorrect`, `Exclusion`, `PidFileHonest`, `ReleaseErasesPid` | `IInv`: a handle is open exactly between open and close; one lock per inode; until an unlink orphans it, every handle is on the inode the path names |
| `IncrementalBuildProofs` | `TypeCorrect`, `CrashMarkerGuards`, `SuccessLeavesWhole`, `HashesAreEarned` | what each step of a run has already made whole, and what the marker still covers |
| `WarmSnapshotProofs` | `TypeCorrect`, `BuildIsCovered`, `IdleCacheFresh`, `StartsServed` | the span of a snapshot, that the copy is current until the build ends, and which readers may be cached at which step of begin and commit |
| `WatchDaemonProofs`, the watcher | `WatcherTypeCorrect`, `WakeupsKept`, `ChangesCarried`, `ReportsAreTrue` | two independent ones: `_activity` against worker, observer and stopper; and, file by file, what was taken, when each walk began, what the builder has parsed, written and hashed at each of its steps, which files it has torn, and what no event will bring back (`IndexesBehind`, `WalksStartLate`, `ScopeIsCurrent`, `TornIsKnown`) |
| the daemons | `TypeCorrect`, `DaemonsUseLock`, `StartsAlone`, `ExitIsClean` | `DaemonInv` with the lock's `IInv`: a daemon between acquire and release holds the lock; who may own the socket and the state file at which step; whose builder may still run |
| `WatchProtocolProofs` | `TypeCorrect`, `CountsFirst`, `NoneForgotten`, `RefinesReadCommand` | which of client, backlog, handler and line holds a request at each step, across shutdown and crash |
| `CommandProofs`, the lookups | `PickStaysUnique` | `LookupInv`: while no limit cuts, the candidates found so far are for exactly the nodes that the queries so far name, one candidate for a node from each query. That the answer then loses none: the strongest candidate of a node exists (`FirstExists`), and members of a finite set in a total order, each at the place that the number of those before it says, fill all places (`PlacesAreFilled`) |
| the diff | `DiffStaysWeighed` | `DiffInv`: each text is a sequence of rows, and each line of the old text has a row of its own that was not added (`CoveredBy`); what the graph was built from are finitely many lists of lines. Then a row that was added has a line in the new text that its hunk covers and its symbol's lines enclose, and every row of a deleted file lies in a hunk without target lines. That more files are no less risk: each sum is the size of a set of pairs, which only grows |
| the relay | `RelayLosesNothing` | `RelayInv`: of what the child writes to each pipe a first part is captured, the next is in the pipe and the rest unwritten (`ErrFlows`, `OutFlows`); the filter is what it must be after the captured halves, with the lines they complete, and the noise the next one stands under (`FilterKnows`); who waits for whom (`Threads`). A chunk of any length is a recursive function, followed by a least counterexample over its halves (`UpTo`, `FedAfter`) |
| the journal | `TypeCorrect`, `JournalIsSound` | by day: the processes on their way to the file or the counter are counted, so that file, counter and processes together never exceed what was asked for (`NoneTwice`) and, on a day without trouble, make up exactly that, with one carrier of the count at most (`NoneMissing`); room is granted to as many as there are processes above the cap (`RoomIsCapped`) |
| `PartsProofs` | `OptimizeIsTruthful`, `VerbsTellTruth`, `VerbsKeepIndex` | `OptimizeInv`: which tables have their answer, and that the one in hand has attempts left. `VerbsInv`: which tasks may be running at each phase of each verb, with which exit code (`ControlOK`, `OpenOK`), what of the index each phase has already written or removed (`LanceOK`, `GraphOK`), and what `init` and `erase` may still touch (`InitOK`, `EraseOK`) |
| `PartsProofs`, the flow | `FlowStaysGrounded` | `FlowInv`: the walk under way is over rows of the graph (`WalkOK`), the stages that are grounded share no type (`GroundOK`), and the first hop's finds are all structural neighbours (`FirstOK`) |
| the rebuilds | `RebuildsStayFaithful` | `RebuildInv`: all that is in the graph is of the sources indexed last and ends at a node; while `tame`, it is the full graph of them. The step: the tables of a scoped run agree with those of a full one up to phantoms, and an edge of a file out of scope stays because none leads from it into a changed file |
| the links | `LinksStayFaithful` | `LinksInv`: `Followed` of the sources linked last, whatever was edited since; the file of each row declares its route, or the row is a phantom that no file declares (`RowIsOf`); what two files expose is in `shared` |
| `SetupProofs`, the walks | `SourcesStayFollowed` | `WalkInv`: the flow's memo tells the truth of every file while `settled`, and of the touched ones while a daemon watches and `calm`; what the daemon has learned is what it would learn now (`Knows`); a file indexed under these rules, and a touched one with no reindex due, is `Current` |
| the configuration | `ConfigStaysShared` | `ConfigInv`: what a steady index was built with is what its YAML's directory gave then (`At`), and, where the index lies in its tree, also what the directory it points to gives or, where no YAML is there, what its tree does; a pointer that an earlier build left stays only where it leads nowhere. With it, the nearest anchor (`DiscoverIs`) leads to the same settings. What a daemon is handed needs no invariant: what is in the environment is taken as it is, key by key (`DaemonAgrees`) |
| the installer | `UpdatesTellTruth` | `InstallInv`: in an update that may still exit with 0, every operation its plan holds (`Planned`) is still to do, or something failed, or its effect `Stands`, through the operations on other surfaces and kinds; the marker is written when the plan is done (`MarkerOK`); a dry run's disk is the disk it found |

Each follows the same argument: `Init` implies the invariant; every action preserves it,
one step of the proof per action; the property follows. `MutualExclusion` alone is not an
invariant of the lock, and the inductive invariant shows exactly why: exclusion is by
inode, and `HandlesOnLink` carries it over to the path until `orphaned` holds.
`UnmarkedIsSynced` needs to know of every step of a run which files of the scope are
whole and that the marker stands until hashes and graph agree. `WatchDaemonProofs` proves nothing about
the lock again: it shows that every step of the composition is a step of `ProjectLock` or
leaves its variables alone, so that `ProjectLockProofs`'s invariant carries over, and gets
from it that two daemons that hold the lock are the same. `StartsOnServedGraph` and
`HashFollowsGraph` are action properties, proved of each step from the same invariants.
Assumptions on constants: the sentinels (`NoPid`, `NoInode`, `Absent`, `Torn`) are not
members of the sets they extend; bounds are natural numbers; `Procs` is finite where writers
are counted; the tables to optimise are at least one and no two the same; `None` is no exit
code, phase or outcome; graphs and hosts are finite; the routes, files and edges of a flow, a
source or a link come from the sets they are said to be of (`FlowAssumption`,
`SourcesAssumption`, `LinksAssumption`); paths, ignore files and manifests are sequences
(`WalksAssumption`, `InstallAssumption`); nodes are numbered, names and identifiers are
sequences (`LookupAssumption`); directories are sequences of names, the settings are the seven that
the model knows, and no variable sets the debounce (`ConfigAssumption`); what a child writes and a pipe holds are
numbers (`RelayAssumption`); a source tree is finite and no two of its files have one path (`DiffAssumption`). TLC evaluates them in every run.

The invariant of the lifecycle verbs is the largest. A verb's plan only loses its head, so
the proof names the few sequences that may be left (`Rests`) and says for each what is already
written. All of it is conditional on `alone`: neither the lock nor anything else keeps a second
process from building at the same time, and `ExitZeroIsDone` and `IndexIsKept` promise nothing then.

## What is only model-checked, and what is not modelled

Only model-checked: all liveness (`Converges`, `SnapshotEnds`, `ChangesGetIndexed`, `StopEndsWorker`,
`TermEndsDaemon`, `StartIsDecided`, `RelayEnds`, `HandlerEnds`, the liveness half of the
refinement), which is out of the prover's reach; and four safety properties:

* `AnswerIsWhole`, `ReadsAddUp`, `SearchIsHonest` and `HintsWork` are about sequences
  that are sorted, filtered, cut and joined several times (`SortSeq`, `SelectSeq`,
  `SetToSortSeq`), of which the provers know nothing without an induction over data: the library's induction
  theorems take an operator as a parameter, which none of them can instantiate (the one
  sort of a lookup is by rank, which counting shows to lose nothing, and the sums of a diff are
  sizes of sets of pairs).

Only proved: the type invariants, `CountsFirst` and `BuildIsCovered`, which TLC confirmed
before they were proved.

Abstracted inside modelled parts: what the AST passes compute (one version per file); which
files depend on a changed one (any); the debounce window's length (any time may pass);
the observer's backend and path classification beyond the language; the vector phase of
the watcher (an outcome and the versions it read); the model's loading (succeeds or not);
`ProjectLock.is_holder`, which has no caller; panel, telemetry and log output.

Not modelled: the components `PROJECT.json` marks `not_modelled`, with the reason at each:
pure functions of text (parsing, rendering, enrichment), external engines (cocoindex,
LanceDB, LadybugDB), and the evaluation tools.

