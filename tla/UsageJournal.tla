---------------------------- MODULE UsageJournal ----------------------------
(***************************************************************************)
(* The usage journal (usage/writer.py): processes append one line per event to *)
(* the file of the day, without a lock; past the cap of the day, or when the   *)
(* line is too long, the event is dropped and a counter file is incremented.   *)
(* Whoever appends also removes the days that are past retention.  Nothing of  *)
(* this may fail the command: an error is swallowed and answered with False.   *)
(*                                                                         *)
(* A line is one unit of size, a day's file the number of its lines.          *)
(***************************************************************************)
EXTENDS Integers, FiniteSets

CONSTANTS
    Procs,
    DayCap,     \* DAY_FILE_CAP_BYTES, in lines
    Retention,  \* RETENTION_DAYS
    LastDay,    \* bound on the calendar (TLC only)
    MaxEvents   \* bound on the events of a day (TLC only)

ASSUME ProcsAssumption == IsFiniteSet(Procs)
ASSUME DayCapAssumption == DayCap \in Nat \ {0}
ASSUME RetentionAssumption == Retention \in Nat
ASSUME LastDayAssumption == LastDay \in Nat

VARIABLES
    day,        \* the calendar
    lines,      \* lines in each day's file; none: no file
    drops,      \* each day's counter file: a number, or Blank
    pc,         \* where each process is in record_event
    today,      \* the date it took at the beginning
    seen,       \* the count it read from the counter file
    emitted,    \* history: events each day was asked to record
    disturbed   \* history: days on which a step failed, a process was killed
                \* or two updates of the counter overlapped

vars == <<day, lines, drops, pc, today, seen, emitted, disturbed>>

Days == 0..LastDay

\* bump_drops takes a counter file that is missing or no number for 0: a day
\* without one, and one that was truncated and not yet written, are Blank.
Blank == -1
Count(d) == IF drops[d] = Blank THEN 0 ELSE drops[d]

Bumping == {"bump_read", "bump_truncate", "bump_write"}

TypeOK ==
    /\ day \in Days
    /\ lines \in [Days -> Nat]
    /\ drops \in [Days -> Nat \cup {Blank}]
    /\ pc \in [Procs -> {"idle", "check", "append", "prune"} \cup Bumping]
    /\ today \in [Procs -> Days]
    /\ seen \in [Procs -> Nat]
    /\ emitted \in [Days -> Nat]
    /\ disturbed \in SUBSET Days

Init ==
    /\ day = 0
    /\ lines = [d \in Days |-> 0] /\ drops = [d \in Days |-> Blank]
    /\ pc = [p \in Procs |-> "idle"] /\ today = [p \in Procs |-> 0] /\ seen = [p \in Procs |-> 0]
    /\ emitted = [d \in Days |-> 0] /\ disturbed = {}

Goto(p, from, to) == pc[p] = from /\ pc' = [pc EXCEPT ![p] = to]

\* A new day: what a process took for today no longer is.
Midnight ==
    /\ day < LastDay
    /\ day' = day + 1
    /\ UNCHANGED <<lines, drops, pc, today, seen, emitted, disturbed>>

\* record_event: a line that is too long without its query too is a drop.
Emit(p) ==
    /\ emitted[day] < MaxEvents
    /\ Goto(p, "idle", "check") \/ Goto(p, "idle", "bump_read")
    /\ today' = [today EXCEPT ![p] = day]
    /\ emitted' = [emitted EXCEPT ![day] = @ + 1]
    /\ UNCHANGED <<day, lines, drops, seen, disturbed>>

CheckSize(p) ==
    /\ Goto(p, "check", IF lines[today[p]] >= DayCap THEN "bump_read" ELSE "append")
    /\ UNCHANGED <<day, lines, drops, today, seen, emitted, disturbed>>

AppendLine(p) ==
    /\ Goto(p, "append", "prune")
    /\ lines' = [lines EXCEPT ![today[p]] = @ + 1]
    /\ UNCHANGED <<day, drops, today, seen, emitted, disturbed>>

\* _prune_old, by the date this process took.
PruneOld(p) ==
    /\ Goto(p, "prune", "idle")
    /\ lines' = [d \in Days |-> IF d < today[p] - Retention THEN 0 ELSE lines[d]]
    /\ drops' = [d \in Days |-> IF d < today[p] - Retention THEN Blank ELSE drops[d]]
    /\ UNCHANGED <<day, today, seen, emitted, disturbed>>

BumpRead(p) ==
    /\ Goto(p, "bump_read", "bump_truncate")
    /\ seen' = [seen EXCEPT ![p] = Count(today[p])]
    /\ disturbed' = disturbed \cup
         {today[q] : q \in {q \in Procs \ {p} : pc[q] \in {"bump_truncate", "bump_write"} /\ today[q] = today[p]}}
    /\ UNCHANGED <<day, lines, drops, today, emitted>>

\* write_text truncates ...
BumpTruncate(p) ==
    /\ Goto(p, "bump_truncate", "bump_write")
    /\ drops' = [drops EXCEPT ![today[p]] = Blank]
    /\ UNCHANGED <<day, lines, today, seen, emitted, disturbed>>

\* Mutant: what was read is written back.
BumpWriteSame(p) ==
    /\ Goto(p, "bump_write", "idle")
    /\ drops' = [drops EXCEPT ![today[p]] = seen[p]]
    /\ UNCHANGED <<day, lines, today, seen, emitted, disturbed>>

\* ... and then writes.
BumpWrite(p) ==
    /\ Goto(p, "bump_write", "idle")
    /\ drops' = [drops EXCEPT ![today[p]] = seen[p] + 1]
    /\ UNCHANGED <<day, lines, today, seen, emitted, disturbed>>

\* A step raises, which is swallowed, or the process is killed there.  (A removal
\* that fails answers False too, for an event that was written.)
GiveUp(p) ==
    /\ pc[p] # "idle"
    /\ pc' = [pc EXCEPT ![p] = "idle"]
    /\ disturbed' = disturbed \cup {today[p]}
    /\ UNCHANGED <<day, lines, drops, today, seen, emitted>>

Record(p) == Emit(p) \/ CheckSize(p) \/ AppendLine(p) \/ PruneOld(p)
Bump(p)   == BumpRead(p) \/ BumpTruncate(p) \/ BumpWrite(p)

Next == Midnight \/ \E p \in Procs : Record(p) \/ Bump(p) \/ GiveUp(p)

Spec == Init /\ [][Next]_vars

----------------------------------------------------------------------------
(* properties *)

\* The cap is checked before the append and not with it: a day's file exceeds it
\* by at most one line for each process but one.
DayIsBounded == \A d \in Days : lines[d] <= DayCap + Cardinality(Procs) - 1

Quiet(d) == \A p \in Procs : pc[p] # "idle" => today[p] # d

\* Events are in the file or in the counter, "overflow is dropped and counted":
\* never counted twice, and none missing when nothing went wrong that day and no
\* two processes updated the counter together.
EventsAreAccounted ==
    \A d \in Days : d >= day - Retention =>
        /\ lines[d] + Count(d) <= emitted[d]
        /\ d \notin disturbed /\ Quiet(d) => lines[d] + Count(d) = emitted[d]

JournalAddsUp == DayIsBounded /\ EventsAreAccounted
=============================================================================
