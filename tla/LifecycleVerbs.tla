--------------------------- MODULE LifecycleVerbs ---------------------------
(***************************************************************************)
(* The operator's verbs that build, refresh and remove an index: init,       *)
(* increment, reprocess (each with its flags) and erase of cli.py, over the   *)
(* subprocess phases of pipeline.py and of run_refresh_pipeline (mcp/server). *)
(* One operator runs them one after the other, and may interrupt any.  None    *)
(* takes the project lock: a second writer may be at work next to a verb, the  *)
(* child of one that was interrupted or the builder of the watch daemon.       *)
(*                                                                         *)
(* The vector tables and the graph are each absent, torn or whole.  Whether a  *)
(* whole graph is current is IncrementalBuild's subject, not this module's.    *)
(***************************************************************************)
EXTENDS Naturals, Sequences

CONSTANT None

VARIABLES
    setup,      \* "vectors", "bm25", "nostack" or "nococo": see Preflight
    builder,    \* build_ast_graph.py is in the bundle
    lance, graph, pointer,  \* the index: tables, graph, config_source
    foreign,    \* the phase a second writer is in
    verb,       \* what runs, or ran last
    plan,       \* the steps it has left
    child,      \* the phase its subprocess runs
    tore,       \* that subprocess has begun to write
    result,     \* how the subprocess ended: None, "ok", "failed"
    code,       \* the exit code, or None while the verb runs
    open,       \* progress tasks shown as running
    before,     \* history: the index when the verb started
    alone,      \* history: no second writer since
    trouble     \* history: "spawn" raised, or a "remove" failed

config  == <<setup, builder>>
index   == <<lance, graph, pointer>>
control == <<verb, plan, code, open>>
work    == <<child, tore, result>>
history == <<before, alone, trouble>>
vars    == <<config, index, foreign, control, work, history>>

Builds   == {"init", "increment", "increment_vectors", "reprocess", "reprocess_vectors", "reprocess_graph"}
Commands == Builds \cup {"erase"}
Phases   == {"drop", "update", "graph", "increment"}
Steps    == Phases \cup {"check", "confirm", "refuse", "optimize", "rm_graph", "rm_files", "scan"}
Artifact == {"absent", "torn", "whole"}

TypeOK ==
    /\ setup \in {"vectors", "bm25", "nostack", "nococo"} /\ builder \in BOOLEAN
    /\ lance \in Artifact /\ graph \in Artifact /\ pointer \in BOOLEAN
    /\ foreign \in Phases \cup {None} /\ child \in Phases \cup {None}
    /\ verb \in Commands \cup {None}
    /\ plan \in Seq(Steps)
    /\ tore \in BOOLEAN /\ result \in {None, "ok", "failed"}
    /\ code \in {None, 0, 1, 2, 130}
    /\ open \in SUBSET {"vectors", "optimize", "graph"}
    /\ before \in Artifact \X Artifact \X BOOLEAN
    /\ alone \in BOOLEAN /\ trouble \in SUBSET {"spawn", "remove"}

Init ==
    /\ setup \in {"vectors", "bm25", "nostack", "nococo"} /\ builder \in BOOLEAN
    /\ lance = "absent" /\ graph = "absent" /\ pointer = FALSE
    /\ foreign = None /\ child = None /\ tore = FALSE /\ result = None
    /\ verb = None /\ plan = <<>> /\ code = 0 /\ open = {}
    /\ before = index /\ alone = TRUE /\ trouble = {}

Running == code = None

----------------------------------------------------------------------------
(* The handlers: which steps a command is made of *)

\* is_cocoindex_preflight_blocker: the binary or the flow file is missing, which
\* init and increment skip.  In "nostack" the Python packages are missing too.
Preflight == setup \in {"nostack", "nococo"}

VectorPhase == IF setup = "vectors" THEN <<"update", "optimize">> ELSE <<>>

\* Mutant: a full refresh forgets the graph.
RefreshVectorsOnly ==
    IF setup \in {"bm25", "nostack"} THEN <<"graph">>
    ELSE IF Preflight THEN <<"refuse">>
    ELSE <<"drop", "update", "optimize">>

\* run_refresh_pipeline skips the vectors only where the packages are missing.
RefreshPlan ==
    IF setup \in {"bm25", "nostack"} THEN <<"graph">>
    ELSE IF Preflight THEN <<"refuse">>
    ELSE <<"drop", "update", "optimize", "graph">>

\* The vectors alone: the drop is skipped where there is nothing to run it.
ReprocessVectorsPlan ==
    IF Preflight THEN <<"refuse">>
    ELSE IF setup = "bm25" THEN <<>>
    ELSE <<"drop">> \o VectorPhase

InitPlan      == <<"check">> \o VectorPhase \o <<"graph">>
IncrementPlan == VectorPhase \o <<"increment">>
ErasePlan     == <<"confirm", "drop", "rm_graph", "rm_files", "scan">>

Plan(c) ==
    CASE c = "init"              -> InitPlan
      [] c = "increment"         -> IncrementPlan
      [] c = "increment_vectors" -> VectorPhase
      [] c = "reprocess"         -> RefreshPlan
      [] c = "reprocess_vectors" -> ReprocessVectorsPlan
      [] c = "reprocess_graph"   -> <<"graph">>
      [] c = "erase"             -> ErasePlan

\* A full reprocess outside bm25 is the pipeline of mcp/server.py: asynchronous,
\* with errors of its own.
Async == verb = "reprocess" /\ setup # "bm25"

Start(c) ==
    /\ ~Running /\ child = None
    /\ verb' = c /\ plan' = Plan(c)
    /\ code' = None /\ open' = {}
    /\ before' = index /\ alone' = (foreign = None) /\ trouble' = {}
    /\ UNCHANGED <<config, index, foreign, work>>

----------------------------------------------------------------------------
At(step) == Running /\ plan # <<>> /\ Head(plan) = step

Advance == plan' = Tail(plan) /\ UNCHANGED code

\* The verb returns: what is left of its plan is dropped.
Exit(c) == plan' = <<>> /\ code' = c

\* _run_with_pipeline_progress: on 0 a build records which YAML it used.
Finish ==
    /\ Running /\ plan = <<>>
    /\ Exit(0)
    /\ pointer' = (pointer \/ verb \in Builds)
    /\ UNCHANGED <<config, lance, graph, foreign, verb, open, work, history>>

\* index_dir_has_existing_artifacts: a table listing that raises is no table.
Occupied(listed) == graph # "absent" \/ (lance # "absent" /\ listed)

MayList(listed) == IF listed THEN setup # "nostack" ELSE setup = "nostack" \/ lance = "torn"

CheckEmpty ==
    /\ At("check")
    /\ \E listed \in BOOLEAN :
         /\ MayList(listed)
         /\ IF Occupied(listed) THEN Exit(2) ELSE Advance
    /\ UNCHANGED <<config, index, foreign, verb, open, work, history>>

\* Refused: by the preflight of reprocess, or by erase without a yes.
Refuse ==
    /\ At("refuse") \/ At("confirm")
    /\ Exit(2)
    /\ UNCHANGED <<config, index, foreign, verb, open, work, history>>

Confirm ==
    /\ At("confirm")
    /\ Advance
    /\ UNCHANGED <<config, index, foreign, verb, open, work, history>>

----------------------------------------------------------------------------
(* The phases, each in a subprocess *)

Task(step) == CASE step = "update"                 -> {"vectors"}
                [] step \in {"graph", "increment"} -> {"graph"}
                [] OTHER                           -> {}

Ready(step) == At(step) /\ child = None /\ result = None

\* Without the binary there is nothing to run, without the flow file nothing to
\* drop: neither blocks what follows.
SkipDrop ==
    /\ Ready("drop") /\ Preflight
    /\ Advance
    /\ UNCHANGED <<config, index, foreign, verb, open, work, history>>

Runnable(step) == CASE step = "drop" -> ~Preflight [] step = "update" -> TRUE [] OTHER -> builder

Spawn(step) ==
    /\ Ready(step) /\ Runnable(step)
    /\ child' = step
    /\ open' = open \cup Task(step)
    /\ UNCHANGED <<config, index, foreign, verb, plan, code, tore, result, history>>

\* The builder file is missing.  After good vectors the pipeline of mcp/server.py
\* takes the graph code None for a success.
NoBuilder ==
    /\ ~builder
    /\ Ready("graph") \/ Ready("increment")
    /\ IF Async /\ setup = "vectors" THEN Advance
       ELSE Exit(IF verb \in {"reprocess", "reprocess_graph"} THEN 2 ELSE 1)
    /\ UNCHANGED <<config, index, foreign, verb, open, work, history>>

\* The fork or exec raises.  The pipeline goes on without its drop and reports a
\* graph that did not start; the other verbs end in main's guard, with 2.
SpawnRaises(step) ==
    /\ Ready(step) /\ Runnable(step)
    /\ IF Async /\ step = "drop" THEN Advance
       ELSE Exit(IF Async /\ step = "graph" /\ setup = "vectors" THEN 1 ELSE 2)
    /\ trouble' = trouble \cup {"spawn"}
    /\ UNCHANGED <<config, index, foreign, verb, open, work, before, alone>>

Tear(phase) ==
    /\ phase \in {"update", "graph", "increment"}
    /\ IF phase = "update" THEN lance' = "torn" /\ UNCHANGED graph
                           ELSE graph' = "torn" /\ UNCHANGED lance
    /\ UNCHANGED pointer

\* What a phase that succeeds leaves.  Two writers may leave anything, and an
\* increment that finds nothing to do leaves what there is.
Complete(phase, contended, idle) ==
    /\ CASE phase = "drop"   -> lance' = "absent" /\ UNCHANGED graph
         [] phase = "update" -> lance' \in {"whole"} \cup (IF contended THEN {"torn"} ELSE {}) /\ UNCHANGED graph
         [] OTHER            -> graph' \in {"whole"} \cup (IF contended \/ idle THEN {"torn"} ELSE {}) /\ UNCHANGED lance
    /\ UNCHANGED pointer

ChildTears ==
    /\ child # None
    /\ Tear(child)
    /\ tore' = TRUE
    /\ UNCHANGED <<config, foreign, control, child, result, history>>

\* A builder says "done" itself.
ChildOk ==
    /\ child # None
    /\ Complete(child, foreign # None, child = "increment" /\ ~tore /\ graph = "torn")
    /\ child' = None /\ tore' = FALSE /\ result' = "ok"
    /\ open' = open \ {"graph"}
    /\ UNCHANGED <<config, foreign, verb, plan, code, history>>

\* It exits with an error or dies; a builder may have said "done" before it did.
ChildFails ==
    /\ child # None
    /\ child' = None /\ tore' = FALSE /\ result' = "failed"
    /\ open' \in {open, open \ {"graph"}}
    /\ UNCHANGED <<config, index, foreign, verb, plan, code, history>>

\* Mutant: a phase that failed is answered like one that was refused.
ReapExitsTwo ==
    /\ Running /\ result # None
    /\ result' = None
    /\ IF result = "ok" \/ Head(plan) = "drop" THEN Advance ELSE Exit(2)
    /\ open' = open \ (IF Async THEN {"vectors"} ELSE {"vectors", "graph"})
    /\ UNCHANGED <<config, index, foreign, verb, child, tore, history>>

\* The phase returned.  A failed drop is not fatal, any other failure is.  The
\* parent emits the terminal event of the vectors, and of a graph that failed,
\* but for the pipeline of mcp/server.py, which leaves that one to the builder.
Reap ==
    /\ Running /\ result # None
    /\ result' = None
    /\ IF result = "ok" \/ Head(plan) = "drop" THEN Advance ELSE Exit(1)
    /\ open' = open \ (IF Async THEN {"vectors"} ELSE {"vectors", "graph"})
    /\ UNCHANGED <<config, index, foreign, verb, child, tore, history>>

\* optimize_lance_tables, in the process: whatever happens to it, the vectors
\* phase has succeeded.
BeginOptimize ==
    /\ At("optimize") /\ "optimize" \notin open
    /\ open' = open \cup {"optimize"}
    /\ UNCHANGED <<config, index, foreign, verb, plan, code, work, history>>

EndOptimize ==
    /\ At("optimize") /\ "optimize" \in open
    /\ open' = open \ {"optimize"}
    /\ Advance
    /\ UNCHANGED <<config, index, foreign, verb, work, history>>

----------------------------------------------------------------------------
(* erase, in the process: a removal that fails is only warned of *)

Removal(step) == At(step) /\ Advance /\ UNCHANGED <<config, foreign, verb, open, work, before, alone>>

RemovalFails ==
    /\ \E step \in {"rm_graph", "rm_files", "scan"} : Removal(step)
    /\ trouble' = trouble \cup {"remove"}
    /\ UNCHANGED index

RemoveGraph ==
    /\ Removal("rm_graph")
    /\ graph' = "absent"
    /\ UNCHANGED <<lance, pointer, trouble>>

RemoveFiles ==
    /\ Removal("rm_files")
    /\ pointer' = FALSE
    /\ UNCHANGED <<lance, graph, trouble>>

DropByScan ==
    /\ Removal("scan")
    /\ lance' = "absent"
    /\ UNCHANGED <<graph, pointer, trouble>>

Erase == RemoveGraph \/ RemoveFiles \/ DropByScan \/ RemovalFails

----------------------------------------------------------------------------
(* Ctrl-C, and the second writer *)

\* The parent emits the terminal events that are its own.  The child has the
\* signal too, or is told to terminate, and is not waited for: it may run on.
\* (A verb that is killed reports nothing; with --quiet the child is killed too.)
Interrupt ==
    /\ Running
    /\ Exit(130)
    /\ child' = None /\ tore' = FALSE /\ result' = None
    /\ \/ foreign' = foreign
       \/ child # None /\ foreign = None /\ foreign' = child
    /\ open' = open \ (IF Async THEN {"vectors", "optimize"} ELSE open)
    /\ UNCHANGED <<config, index, verb, history>>

\* The daemon reindexes: no lock keeps it from the index of a running verb.
ForeignStarts ==
    /\ foreign = None
    /\ foreign' \in {"update", "increment"}
    /\ alone' = FALSE
    /\ UNCHANGED <<config, index, control, work, before, trouble>>

ForeignWrites ==
    /\ foreign # None
    /\ \/ Tear(foreign) /\ UNCHANGED foreign
       \/ Complete(foreign, child # None, foreign = "increment" /\ graph = "torn") /\ foreign' = None
       \/ UNCHANGED index /\ foreign' = None
    /\ alone' = FALSE
    /\ UNCHANGED <<config, control, work, before, trouble>>

----------------------------------------------------------------------------
Phase ==
    \/ \E step \in Phases : Spawn(step) \/ SpawnRaises(step)
    \/ SkipDrop \/ NoBuilder \/ Reap \/ BeginOptimize \/ EndOptimize

Child == ChildTears \/ ChildOk \/ ChildFails

Verb == CheckEmpty \/ Refuse \/ Confirm \/ Phase \/ Erase \/ Finish

Next ==
    \/ Verb \/ Child \/ Interrupt \/ ForeignStarts \/ ForeignWrites
    \/ \E c \in Commands : Start(c)

\* A verb runs on, and its subprocesses end.
Fairness == WF_vars(Verb) /\ WF_vars(ChildOk \/ ChildFails)

Spec == Init /\ [][Next]_vars /\ Fairness

----------------------------------------------------------------------------
(* properties, of a verb next to which nothing else writes *)

\* An exit code of 0 is true.  A build leaves its artifacts whole, whatever failed
\* on the way, with two exceptions that are the code's own: an increment over a
\* graph an earlier run tore may find nothing to do (IncrementalBuild), and the
\* pipeline of mcp/server.py reports success without a graph when the builder is
\* missing.  After an erase with no failed removal init is not refused: "init
\* refused ... or `jrag erase --yes` then `init` for a clean slate".  And however a
\* verb ends no task is left "running" on the screen, but for the graph of the
\* asynchronous pipeline, whose builder died without a word or was interrupted.
Built ==
    /\ verb \in {"init", "increment", "reprocess", "reprocess_graph"} =>
         \/ graph = "whole"
         \/ verb = "increment" /\ before[2] = "torn"
         \/ Async /\ setup = "vectors" /\ ~builder
    /\ setup = "vectors" /\ verb # "reprocess_graph" => lance = "whole"

Erased == "remove" \notin trouble => ~Occupied(TRUE) /\ ~pointer

ExitZeroIsDone ==
    /\ code = 0 /\ alone /\ verb # None => IF verb = "erase" THEN Erased ELSE Built
    /\ ~Running => open \subseteq (IF Async /\ code \in {1, 130} THEN {"graph"} ELSE {})

\* init overwrites no index, neither a graph nor tables it can list; and an exit
\* code of 2, from any verb, means that nothing was run: unless a subprocess could
\* not be spawned half way, the index is as it was.
IndexIsKept ==
    alone =>
        /\ verb = "init" /\ before[2] # "absent" => graph = before[2]
        /\ verb = "init" /\ before[1] = "whole" => lance = "whole"
        /\ code = 2 /\ "spawn" \notin trouble => before = index
=============================================================================
