------------------------- MODULE MCIncrementalBuild -------------------------
(* IncrementalBuild for TLC: two files that are edited, and a third that nobody *)
(* edits.  The two have two contents each while the third is absent, and one    *)
(* while it is there.  The cap is two files: one dependent of one change fits    *)
(* in the scope, two do not.                                                     *)
EXTENDS IncrementalBuild, TLC

CONSTANTS f1, f2, f3, v1, v2

MCSymmetry == Permutations({f1, f2})

Sources == {d \in [Files -> Contents] : d[f3] # Absent => \A f \in Files : d[f] # v2}

MCSpec == /\ Init /\ disk \in Sources
          /\ [][Next /\ disk' \in Sources /\ disk'[f3] = disk[f3]]_vars

(* The run that looks at the fallbacks starts from what a full rebuild has left, over  *)
(* two files that are there, and then only increments run; edits fall between them.   *)
Built ==
    /\ disk \in [Files -> Versions]
    /\ graph = disk /\ hashes = disk /\ callsWhole = TRUE /\ meta = "current"
    /\ marker = FALSE /\ pc = "idle" /\ scope = {} /\ removed = {} /\ snap = NoFiles
    /\ outcome = "full" /\ edited = {} /\ mishashed = {} /\ abandoned = FALSE

EditBetweenRuns == pc = "idle" /\ \E f \in Files, v \in Versions : Edit(f, v)

IncrementsSpec ==
    Built /\ [][StartIncrement \/ ScopedStep \/ FullStep \/ BuildError \/ Crash \/ EditBetweenRuns]_vars
============================================================================
