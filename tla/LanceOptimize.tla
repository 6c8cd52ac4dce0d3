---------------------------- MODULE LanceOptimize ----------------------------
(***************************************************************************)
(* optimize_lance_tables of lance_optimize.py: after the vector flow has run,  *)
(* every known table is compacted in turn; a commit conflict is retried with    *)
(* backoff, another error is the table's own.  The store is external: any call  *)
(* may raise, or be cancelled.  The renderer's task is told of the beginning    *)
(* and of the end.                                                          *)
(***************************************************************************)
EXTENDS Naturals, Sequences, SequencesExt

CONSTANTS
    Tables,     \* LANCE_TABLE_NAMES, a sequence
    MaxAttempts \* _MAX_ATTEMPTS

VARIABLES
    at,         \* "connect", "list", "open", "compact", "index", "close", "returned", "raised"
    todo,       \* tables not finished yet, the current one first
    existing,   \* what the listing found
    attempt,    \* compactions of the current table that were tried
    results,    \* table -> "ok", "skipped" or "error"
    failed,     \* the local flag
    task,       \* what the renderer was told last: "none", "running", "done", "failed"
    cancelled,  \* history: a CancelledError or KeyboardInterrupt went through
    healthy     \* history: tables whose compaction succeeded

vars == <<at, todo, existing, attempt, results, failed, task, cancelled, healthy>>

Names == ToSet(Tables)

TypeOK ==
    /\ at \in {"connect", "list", "open", "compact", "index", "close", "returned", "raised"}
    /\ todo \in Seq(Names) /\ existing \subseteq Names /\ attempt \in 0..MaxAttempts
    /\ DOMAIN results \subseteq Names
    /\ \A n \in DOMAIN results : results[n] \in {"ok", "skipped", "error"}
    /\ failed \in BOOLEAN /\ cancelled \in BOOLEAN /\ healthy \subseteq Names
    /\ task \in {"running", "done", "failed"}

\* The entry has told the renderer already.
Init ==
    /\ at = "connect" /\ todo = Tables /\ existing \in SUBSET Names /\ attempt = 0
    /\ results = <<>> /\ failed = FALSE /\ task = "running"
    /\ cancelled = FALSE /\ healthy = {}

Connect ==
    /\ at = "connect"
    /\ at' = "list"
    /\ UNCHANGED <<todo, existing, attempt, results, failed, task, cancelled, healthy>>

List ==
    /\ at = "list"
    /\ at' = "open"
    /\ UNCHANGED <<todo, existing, attempt, results, failed, task, cancelled, healthy>>

\* A listing that fails is an error of every table.
ListRaises ==
    /\ at = "list"
    /\ at' = "close" /\ todo' = <<>>
    /\ results' = [n \in Names |-> "error"] /\ failed' = TRUE
    /\ UNCHANGED <<existing, attempt, task, cancelled, healthy>>

\* The current table is finished, and the loop goes on with the next.
Finish(outcome) ==
    /\ results' = [n \in DOMAIN results \cup {Head(todo)} |-> IF n = Head(todo) THEN outcome ELSE results[n]]
    /\ failed' = (failed \/ outcome = "error")
    /\ todo' = Tail(todo) /\ at' = "open" /\ attempt' = 0
    /\ UNCHANGED <<existing, task, cancelled>>

SkipAbsent == at = "open" /\ todo # <<>> /\ Head(todo) \notin existing /\ Finish("skipped") /\ UNCHANGED healthy
OpenRaises == at = "open" /\ todo # <<>> /\ Head(todo) \in existing /\ Finish("error") /\ UNCHANGED healthy

OpenTable ==
    /\ at = "open" /\ todo # <<>> /\ Head(todo) \in existing
    /\ at' = "compact"
    /\ UNCHANGED <<todo, existing, attempt, results, failed, task, cancelled, healthy>>

\* A retryable conflict, with attempts left.
Conflict ==
    /\ at = "compact" /\ attempt < MaxAttempts - 1
    /\ attempt' = attempt + 1
    /\ UNCHANGED <<at, todo, existing, results, failed, task, cancelled, healthy>>

\* The last conflict, or another error.
CompactRaises == at = "compact" /\ Finish("error") /\ UNCHANGED healthy

Compact ==
    /\ at = "compact"
    /\ at' = "index" /\ healthy' = healthy \cup {Head(todo)}
    /\ UNCHANGED <<todo, existing, attempt, results, failed, task, cancelled>>

\* The scalar and full-text indexes: whether they can be made changes nothing.
CreateIndexes == at = "index" /\ Finish("ok") /\ UNCHANGED healthy

EndLoop ==
    /\ at = "open" /\ todo = <<>>
    /\ at' = "close"
    /\ UNCHANGED <<todo, existing, attempt, results, failed, task, cancelled, healthy>>

\* The finally clauses: close, and the terminal event.
Ended(flag) == task' = IF flag THEN "failed" ELSE "done"

Return ==
    /\ at = "close"
    /\ at' = "returned" /\ Ended(failed)
    /\ UNCHANGED <<todo, existing, attempt, results, failed, cancelled, healthy>>

\* Mutant: the flag is not set before the exception goes on.
RaiseUnmarked ==
    /\ at \in {"connect", "close"}
    /\ at' = "raised" /\ Ended(failed)
    /\ UNCHANGED <<todo, existing, attempt, results, failed, cancelled, healthy>>

\* connect or close raises: marked and re-raised.
Raise ==
    /\ at \in {"connect", "close"}
    /\ at' = "raised" /\ failed' = TRUE /\ Ended(TRUE)
    /\ UNCHANGED <<todo, existing, attempt, results, cancelled, healthy>>

\* A cancellation is no Exception: nothing marks it, and the renderer is told
\* what the flag says.
Cancel ==
    /\ at \notin {"returned", "raised"}
    /\ at' = "raised" /\ cancelled' = TRUE /\ Ended(failed)
    /\ UNCHANGED <<todo, existing, attempt, results, failed, healthy>>

Next ==
    \/ Connect \/ List \/ ListRaises \/ SkipAbsent \/ OpenRaises \/ OpenTable
    \/ Conflict \/ CompactRaises \/ Compact \/ CreateIndexes \/ EndLoop
    \/ Return \/ Raise \/ Cancel

Spec == Init /\ [][Next]_vars

----------------------------------------------------------------------------
(* properties *)

\* "the renderer must reflect the truth": unless it was cancelled, its task ends as
\* failed exactly when something failed, and it never ends as running.  One table's
\* trouble is not another's: a run that returns has an answer for each table, ok for
\* those that were compacted and only for those.
TaskTellsTruth ==
    /\ at = "returned" =>
        /\ DOMAIN results = Names /\ {n \in Names : results[n] = "ok"} = healthy
        /\ task = "failed" <=> \E n \in Names : results[n] = "error"
    /\ at = "raised" => task \in (IF cancelled THEN {"done", "failed"} ELSE {"failed"})
=============================================================================
