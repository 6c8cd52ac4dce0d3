----------------------------- MODULE PartsProofs -----------------------------
(***************************************************************************)
(* What is promised of the parts, for any value of their constants.            *)
(***************************************************************************)
EXTENDS Parts, FiniteSetTheorems, SequenceTheorems, WellFoundedInduction, TLAPS

Unlike(s) == \A i, j \in 1..Len(s) : s[i] = s[j] => i = j

\* The tail of a sequence whose elements are unlike is the sequence without its head.
LEMMA TailOfUnlike ==
    ASSUME NEW S, NEW s \in Seq(S), s # <<>>, Unlike(s)
    PROVE  /\ Head(s) \in S /\ Head(s) \in ToSet(s) /\ Tail(s) \in Seq(S) /\ Unlike(Tail(s))
           /\ ToSet(Tail(s)) = ToSet(s) \ {Head(s)}
<1>1. /\ Head(s) \in S /\ Tail(s) \in Seq(S) /\ Len(Tail(s)) = Len(s) - 1 /\ Len(s) \in Nat
      /\ \A i \in 1..Len(Tail(s)) : Tail(s)[i] = s[i + 1]
      /\ Head(s) = s[1] /\ Len(s) # 0
  BY HeadTailProperties, LenProperties, EmptySeq
<1>2. DOMAIN s = 1..Len(s) /\ DOMAIN Tail(s) = 1..(Len(s) - 1)
  BY <1>1, LenProperties
<1>3. Unlike(Tail(s))
  <2> SUFFICES ASSUME NEW i \in 1..Len(Tail(s)), NEW j \in 1..Len(Tail(s)), Tail(s)[i] = Tail(s)[j] PROVE i = j
    BY DEF Unlike
  <2>1. i + 1 \in 1..Len(s) /\ j + 1 \in 1..Len(s) /\ s[i + 1] = s[j + 1]
    BY <1>1
  <2>2. i + 1 = j + 1
    BY <2>1 DEF Unlike
  <2> QED BY <1>1, <2>2
<1>4. ToSet(Tail(s)) \subseteq ToSet(s) \ {Head(s)}
  <2> SUFFICES ASSUME NEW i \in DOMAIN Tail(s) PROVE Tail(s)[i] \in ToSet(s) \ {Head(s)}
    BY DEF ToSet
  <2>1. i + 1 \in 1..Len(s) /\ Tail(s)[i] = s[i + 1] /\ i + 1 # 1 /\ 1 \in 1..Len(s)
    BY <1>1, <1>2
  <2>2. s[i + 1] # s[1]
    BY <2>1 DEF Unlike
  <2> QED BY <1>1, <1>2, <2>1, <2>2 DEF ToSet
<1>5. ToSet(s) \ {Head(s)} \subseteq ToSet(Tail(s))
  <2> SUFFICES ASSUME NEW i \in DOMAIN s, s[i] # s[1] PROVE s[i] \in ToSet(Tail(s))
    BY <1>1 DEF ToSet
  <2>1. i - 1 \in 1..(Len(s) - 1) /\ (i - 1) + 1 = i
    BY <1>1, <1>2
  <2>2. Tail(s)[i - 1] = s[i]
    BY <1>1, <2>1
  <2> QED BY <1>2, <2>1, <2>2 DEF ToSet
<1>6. Head(s) \in ToSet(s)
  BY <1>1, <1>2 DEF ToSet
<1> QED BY <1>1, <1>3, <1>4, <1>5, <1>6

----------------------------------------------------------------------------
(* The optimisation of the tables *)

OptimizeInv ==
    /\ Optimize!TypeOK /\ Unlike(todo)
    /\ at \in {"connect", "list"} => todo = LanceTables /\ results = <<>> /\ failed = FALSE /\ healthy = {}
    /\ at \in {"open", "compact", "index"} => DOMAIN results = Optimize!Names \ ToSet(todo)
    /\ at \in {"compact", "index"} => todo # <<>>
    /\ at \in {"close", "returned"} => DOMAIN results = Optimize!Names
    /\ at # "raised" =>
        /\ {n \in DOMAIN results : results[n] = "ok"} = IF at = "index" THEN healthy \ {Head(todo)} ELSE healthy
        /\ failed <=> \E n \in DOMAIN results : results[n] = "error"
    /\ at = "index" => Head(todo) \in healthy
    /\ at = "returned" => task = IF failed THEN "failed" ELSE "done"
    /\ at = "raised" => task \in (IF cancelled THEN {"done", "failed"} ELSE {"failed"})

LEMMA NamesOfTables == Optimize!Names = ToSet(LanceTables)
BY DEF Optimize!Names, Optimize!ToSet, ToSet

LEMMA OptimizeStarts == Optimize!Init => OptimizeInv
<1> SUFFICES ASSUME Optimize!Init PROVE OptimizeInv
  OBVIOUS
<1>1. todo \in Seq(Optimize!Names) /\ attempt \in 0..MaxAttempts
  <2>1. todo = LanceTables /\ attempt = 0
    BY DEF Optimize!Init
  <2>2. LanceTables \in Seq(Optimize!Names)
    BY TablesAssumption, NamesOfTables
  <2>3. 0 \in 0..MaxAttempts
    BY AttemptsAssumption
  <2> QED BY <2>1, <2>2, <2>3
<1>2. results = <<>> /\ DOMAIN results = {}
  BY DEF Optimize!Init
<1>3. Optimize!TypeOK
  BY <1>1, <1>2 DEF Optimize!Init, Optimize!TypeOK
<1> QED BY <1>2, <1>3, TablesAssumption DEF Optimize!Init, OptimizeInv, Unlike

\* A table that is finished: its answer is its own.
LEMMA TableEnds ==
    ASSUME OptimizeInv, at \in {"open", "compact", "index"}, todo # <<>>,
           NEW outcome \in {"ok", "skipped", "error"}, Optimize!Finish(outcome),
           healthy' = healthy, outcome = "ok" <=> at = "index"
    PROVE  OptimizeInv'
<1> USE DEF OptimizeInv, Optimize!TypeOK, Optimize!Finish
<1> DEFINE t == Head(todo)
<1>1. /\ t \in Optimize!Names /\ t \in ToSet(todo) /\ todo' \in Seq(Optimize!Names) /\ Unlike(todo')
      /\ ToSet(todo') = ToSet(todo) \ {t}
  BY TailOfUnlike
<1>2. DOMAIN results' = Optimize!Names \ ToSet(todo')
  BY <1>1
<1>3. \A n \in DOMAIN results' : results'[n] = IF n = t THEN outcome ELSE results[n]
  OBVIOUS
<1>4. t \notin DOMAIN results /\ DOMAIN results' = DOMAIN results \cup {t}
  BY <1>1
<1> HIDE DEF t
<1>5. {n \in DOMAIN results' : results'[n] = "ok"} = healthy
  <2>1. CASE at = "index"
    BY <1>3, <1>4, <2>1 DEF t
  <2>2. CASE at # "index"
    BY <1>3, <1>4, <2>2
  <2> QED BY <2>1, <2>2
<1>6. failed' <=> \E n \in DOMAIN results' : results'[n] = "error"
  BY <1>3, <1>4
<1>7. Optimize!TypeOK'
  BY <1>1, <1>3, <1>4, AttemptsAssumption
<1> QED BY <1>1, <1>2, <1>5, <1>6, <1>7

\* Steps that finish no table.
LEMMA OptimizeGoesOn ==
    ASSUME OptimizeInv,
           \/ Optimize!Connect \/ Optimize!List \/ Optimize!ListRaises \/ Optimize!OpenTable \/ Optimize!Conflict
           \/ Optimize!Compact \/ Optimize!EndLoop
    PROVE  OptimizeInv'
<1> USE DEF OptimizeInv, Optimize!TypeOK
<1>1. CASE Optimize!Connect
  BY <1>1 DEF Optimize!Connect
<1>2. CASE Optimize!List
  <2>1. DOMAIN results = {} /\ ToSet(todo) = Optimize!Names
    <3>1. results = <<>> /\ todo = LanceTables
      BY <1>2 DEF Optimize!List
    <3>2. DOMAIN <<>> = {}
      OBVIOUS
    <3> QED BY <3>1, <3>2, NamesOfTables
  <2> QED BY <1>2, <2>1 DEF Optimize!List
<1>3. CASE Optimize!ListRaises
  <2>1. /\ \A n \in DOMAIN results' : results'[n] = "error"
        /\ DOMAIN results' = Optimize!Names /\ todo' \in Seq(Optimize!Names)
    BY <1>3 DEF Optimize!ListRaises
  <2>2. \E n \in Optimize!Names : TRUE
    <3>1. LanceTables[1] \in ToSet(LanceTables)
      BY TablesAssumption, HeadTailProperties
    <3> QED BY <3>1, NamesOfTables
  <2>3. Unlike(todo')
    BY <1>3 DEF Optimize!ListRaises, Unlike
  <2> QED BY <1>3, <2>1, <2>2, <2>3 DEF Optimize!ListRaises
<1>4. CASE Optimize!OpenTable
  BY <1>4 DEF Optimize!OpenTable
<1>5. CASE Optimize!Conflict
  BY <1>5, AttemptsAssumption DEF Optimize!Conflict
<1>6. CASE Optimize!Compact
  <2>1. /\ todo # <<>> /\ todo' = todo /\ results' = results /\ failed' = failed /\ at = "compact" /\ at' = "index"
        /\ healthy' = healthy \cup {Head(todo)}
    BY <1>6 DEF Optimize!Compact
  <2>2. Head(todo) \in ToSet(todo) /\ Head(todo) \in Optimize!Names
    BY <2>1, TailOfUnlike
  <2>3. Head(todo) \notin healthy
    BY <2>1, <2>2
  <2>4. healthy' \ {Head(todo')} = healthy
    BY <2>1, <2>3
  <2> QED BY <1>6, <2>1, <2>2, <2>4 DEF Optimize!Compact
<1>7. CASE Optimize!EndLoop
  <2>1. ToSet(<<>>) = {}
    BY DEF ToSet
  <2> QED BY <1>7, <2>1 DEF Optimize!EndLoop
<1> QED BY <1>1, <1>2, <1>3, <1>4, <1>5, <1>6, <1>7

LEMMA OptimizeEnds ==
    ASSUME OptimizeInv, Optimize!Return \/ Optimize!Raise \/ Optimize!Cancel
    PROVE  OptimizeInv'
<1> USE DEF OptimizeInv, Optimize!TypeOK, Optimize!Ended
<1>1. CASE Optimize!Return
  BY <1>1 DEF Optimize!Return
<1>2. CASE Optimize!Raise
  BY <1>2 DEF Optimize!Raise
<1>3. CASE Optimize!Cancel
  BY <1>3 DEF Optimize!Cancel
<1> QED BY <1>1, <1>2, <1>3

LEMMA OptimizeSteps == OptimizeInv /\ [Optimize!Next]_(Optimize!vars) => OptimizeInv'
<1> SUFFICES ASSUME OptimizeInv, [Optimize!Next]_(Optimize!vars) PROVE OptimizeInv'
  OBVIOUS
<1>1. CASE Optimize!SkipAbsent \/ Optimize!OpenRaises
  BY <1>1, TableEnds DEF Optimize!SkipAbsent, Optimize!OpenRaises
<1>2. CASE Optimize!CompactRaises \/ Optimize!CreateIndexes
  <2>1. todo # <<>> /\ at \in {"compact", "index"}
    BY <1>2 DEF OptimizeInv, Optimize!CompactRaises, Optimize!CreateIndexes
  <2> QED BY <1>2, <2>1, TableEnds DEF Optimize!CompactRaises, Optimize!CreateIndexes
<1>3. CASE UNCHANGED Optimize!vars
  BY <1>3 DEF Optimize!vars, OptimizeInv, Optimize!TypeOK
<1> QED BY <1>1, <1>2, <1>3, OptimizeGoesOn, OptimizeEnds DEF Optimize!Next

\* Unless it was cancelled, the optimisation's task ends as failed exactly when something
\* failed, and a run that returns has an answer for each table, ok for those that were
\* compacted and only for those ("the renderer must reflect the truth", lance_optimize.py).
THEOREM OptimizeIsTruthful == Optimize!Spec => []TaskTellsTruth
<1>1. OptimizeInv => TaskTellsTruth
  <2> SUFFICES ASSUME OptimizeInv PROVE TaskTellsTruth
    OBVIOUS
  <2> USE DEF OptimizeInv, TaskTellsTruth, Optimize!TaskTellsTruth, Optimize!TypeOK
  <2>1. CASE at = "returned"
    BY <2>1
  <2>2. CASE at # "returned"
    BY <2>2
  <2> QED BY <2>1, <2>2
<1> QED BY <1>1, OptimizeStarts, OptimizeSteps, PTL DEF Optimize!Spec
----------------------------------------------------------------------------
(* The verbs.  A verb's plan only ever loses its head, so that what it has left *)
(* to do is one of few sequences, named here by the initials of their steps.    *)

CUOG == <<"check", "update", "optimize", "graph">>
UOG  == <<"update", "optimize", "graph">>
OG   == <<"optimize", "graph">>
G    == <<"graph">>
CG   == <<"check", "graph">>
UOI  == <<"update", "optimize", "increment">>
OI   == <<"optimize", "increment">>
I    == <<"increment">>
UO   == <<"update", "optimize">>
O    == <<"optimize">>
F    == <<"refuse">>
DUOG == <<"drop", "update", "optimize", "graph">>
DUO  == <<"drop", "update", "optimize">>
E5   == <<"confirm", "drop", "rm_graph", "rm_files", "scan">>
E4   == <<"drop", "rm_graph", "rm_files", "scan">>
E3   == <<"rm_graph", "rm_files", "scan">>
E2   == <<"rm_files", "scan">>
E1   == <<"scan">>

\* What a verb may have left to do.
RestsOf(v, s) ==
    CASE v = "init"              -> IF s = "vectors" THEN {CUOG, UOG, OG, G, <<>>} ELSE {CG, G, <<>>}
      [] v = "increment"         -> IF s = "vectors" THEN {UOI, OI, I, <<>>} ELSE {I, <<>>}
      [] v = "increment_vectors" -> IF s = "vectors" THEN {UO, O, <<>>} ELSE {<<>>}
      [] v = "reprocess"         -> IF s = "vectors" THEN {DUOG, UOG, OG, G, <<>>}
                                       ELSE IF s = "nococo" THEN {F} ELSE {G, <<>>}
      [] v = "reprocess_vectors" -> IF s = "vectors" THEN {DUO, UO, O, <<>>}
                                       ELSE IF s = "bm25" THEN {<<>>} ELSE {F}
      [] v = "reprocess_graph"   -> {G, <<>>}
      [] v = "erase"             -> {E5, E4, E3, E2, E1, <<>>}
      [] OTHER                      -> {}

Rests == RestsOf(verb, setup)

\* The step a verb is at; and that it has not written yet.
Doing(step) == plan # <<>> /\ Head(plan) = step
Fresh == child = None /\ result = None
         /\ \/ \E s \in {"check", "refuse", "confirm"} : Doing(s)
            \/ Doing("graph") /\ (verb = "reprocess_graph" \/ (verb = "reprocess" /\ setup # "vectors"))

\* What a verb is doing fits what it has left.
ControlOK ==
    /\ setup \in {"vectors", "bm25", "nostack", "nococo"}
    /\ code # None => plan = <<>> /\ child = None /\ result = None
    /\ code = None => plan \in Rests
    /\ child # None => child \in Verbs!Phases /\ Doing(child) /\ result = None
    /\ result # None => \E s \in Verbs!Phases : Doing(s)
    /\ tore => child # None

\* The tasks on the screen are those of the step it is at.
OpenOK ==
    open \subseteq IF code # None THEN (IF Verbs!Async /\ code \in {1, 130} THEN {"graph"} ELSE {})
                   ELSE IF Doing("update") /\ (child # None \/ result # None) THEN {"vectors"}
                   ELSE IF Doing("optimize") THEN {"optimize"}
                   ELSE IF (Doing("graph") \/ Doing("increment")) /\ (child # None \/ result # None) /\ result # "ok" THEN {"graph"}
                   ELSE {}

\* Past its update a verb has whole tables.
LanceOK ==
    setup = "vectors" /\ verb \notin {"reprocess_graph", "erase"} /\
        (plan \in {OG, G, OI, I, O, <<>>} \/ (Doing("update") /\ result = "ok")) => lance = "whole"
\* The graph is as it was until the increment has written, and whole after it.
GraphOK ==
    /\ verb = "increment" /\ plan # <<>> /\ ~(Doing("increment") /\ (tore \/ result # None)) => graph = before[2]
    /\ verb \in {"init", "increment", "reprocess", "reprocess_graph"} /\
        (plan = <<>> \/ ((Doing("graph") \/ Doing("increment")) /\ result = "ok")) =>
         \/ graph = "whole"
         \/ verb = "increment" /\ before[2] = "torn"
         \/ Verbs!Async /\ setup = "vectors" /\ ~builder
\* Past its check init has nothing to overwrite, except torn tables or tables it cannot list.
InitOK ==
    verb = "init" =>
        IF Doing("check") THEN before[1] = lance /\ before[2] = graph
        ELSE before[2] = "absent" /\ (before[1] = "whole" => setup # "vectors" /\ lance = "whole")
\* What the steps of erase have removed stays removed.
EraseOK ==
    verb = "erase" /\ "remove" \notin trouble =>
        /\ plan \in {E2, E1, <<>>} => graph = "absent"
        /\ plan \in {E1, <<>>} => ~pointer
        /\ plan = <<>> => lance = "absent"

VerbsInv ==
    /\ ControlOK /\ OpenOK
    /\ alone => foreign = None \/ code = 130
    /\ alone /\ code = None => LanceOK /\ GraphOK /\ InitOK /\ EraseOK /\ (Fresh => before = Verbs!index)
    /\ alone /\ code # None => ExitZeroIsDone /\ IndexIsKept

LEMMA HeadsAndTails ==
    /\ CUOG # <<>> /\ Head(CUOG) = "check" /\ Tail(CUOG) = UOG
    /\ UOG # <<>> /\ Head(UOG) = "update" /\ Tail(UOG) = OG
    /\ OG # <<>> /\ Head(OG) = "optimize" /\ Tail(OG) = G
    /\ G # <<>> /\ Head(G) = "graph" /\ Tail(G) = <<>>
    /\ CG # <<>> /\ Head(CG) = "check" /\ Tail(CG) = G
    /\ UOI # <<>> /\ Head(UOI) = "update" /\ Tail(UOI) = OI
    /\ OI # <<>> /\ Head(OI) = "optimize" /\ Tail(OI) = I
    /\ I # <<>> /\ Head(I) = "increment" /\ Tail(I) = <<>>
    /\ UO # <<>> /\ Head(UO) = "update" /\ Tail(UO) = O
    /\ O # <<>> /\ Head(O) = "optimize" /\ Tail(O) = <<>>
    /\ F # <<>> /\ Head(F) = "refuse" /\ Tail(F) = <<>>
    /\ DUOG # <<>> /\ Head(DUOG) = "drop" /\ Tail(DUOG) = UOG
    /\ DUO # <<>> /\ Head(DUO) = "drop" /\ Tail(DUO) = UO
    /\ E5 # <<>> /\ Head(E5) = "confirm" /\ Tail(E5) = E4
    /\ E4 # <<>> /\ Head(E4) = "drop" /\ Tail(E4) = E3
    /\ E3 # <<>> /\ Head(E3) = "rm_graph" /\ Tail(E3) = E2
    /\ E2 # <<>> /\ Head(E2) = "rm_files" /\ Tail(E2) = E1
    /\ E1 # <<>> /\ Head(E1) = "scan" /\ Tail(E1) = <<>>
<1>1. CUOG # <<>> /\ Head(CUOG) = "check" /\ Tail(CUOG) = UOG
  BY DEF CUOG, UOG
<1>2. UOG # <<>> /\ Head(UOG) = "update" /\ Tail(UOG) = OG
  BY DEF UOG, OG
<1>3. OG # <<>> /\ Head(OG) = "optimize" /\ Tail(OG) = G
  BY DEF OG, G
<1>4. G # <<>> /\ Head(G) = "graph" /\ Tail(G) = <<>>
  BY DEF G
<1>5. CG # <<>> /\ Head(CG) = "check" /\ Tail(CG) = G
  BY DEF CG, G
<1>6. UOI # <<>> /\ Head(UOI) = "update" /\ Tail(UOI) = OI
  BY DEF UOI, OI
<1>7. OI # <<>> /\ Head(OI) = "optimize" /\ Tail(OI) = I
  BY DEF OI, I
<1>8. I # <<>> /\ Head(I) = "increment" /\ Tail(I) = <<>>
  BY DEF I
<1>9. UO # <<>> /\ Head(UO) = "update" /\ Tail(UO) = O
  BY DEF UO, O
<1>10. O # <<>> /\ Head(O) = "optimize" /\ Tail(O) = <<>>
  BY DEF O
<1>11. F # <<>> /\ Head(F) = "refuse" /\ Tail(F) = <<>>
  BY DEF F
<1>12. DUOG # <<>> /\ Head(DUOG) = "drop" /\ Tail(DUOG) = UOG
  BY DEF DUOG, UOG
<1>13. DUO # <<>> /\ Head(DUO) = "drop" /\ Tail(DUO) = UO
  BY DEF DUO, UO
<1>14. E5 # <<>> /\ Head(E5) = "confirm" /\ Tail(E5) = E4
  BY DEF E5, E4
<1>15. E4 # <<>> /\ Head(E4) = "drop" /\ Tail(E4) = E3
  BY DEF E4, E3
<1>16. E3 # <<>> /\ Head(E3) = "rm_graph" /\ Tail(E3) = E2
  BY DEF E3, E2
<1>17. E2 # <<>> /\ Head(E2) = "rm_files" /\ Tail(E2) = E1
  BY DEF E2, E1
<1>18. E1 # <<>> /\ Head(E1) = "scan" /\ Tail(E1) = <<>>
  BY DEF E1
<1> QED BY <1>1, <1>2, <1>3, <1>4, <1>5, <1>6, <1>7, <1>8, <1>9, <1>10, <1>11, <1>12, <1>13, <1>14, <1>15, <1>16, <1>17, <1>18

LEMMA Later == \A p \in {CUOG, UOG, UOI, UO, DUOG, DUO} : p \notin {OG, G, OI, I, O, <<>>}
<1>1. \A p \in {CUOG, UOG, UOI, UO, DUOG, DUO} : Head(p) \in {"check", "update", "drop"} /\ p # <<>>
  BY HeadsAndTails, SMTT(30)
<1>2. \A p \in {OG, G, OI, I, O} : Head(p) \notin {"check", "update", "drop"}
  BY HeadsAndTails
<1> QED BY <1>1, <1>2

\* What is left after each step.
LEMMA Left ==
    ASSUME plan \in Rests
    PROVE  /\ plan # <<>> => \E s \in Verbs!Steps : Doing(s)
           /\ plan # <<>> /\ ~Doing("refuse") => Tail(plan) \in Rests
           /\ plan # <<>> /\ ~Doing("refuse") =>
                /\ Tail(plan) \in {<<>>, UOG, UO, OG, OI, O, G, I, E4, E3, E2, E1}
                /\ Tail(plan) = G => verb = "init" \/ (setup = "vectors" /\ verb # "reprocess_graph")
           /\ Doing("check") => /\ verb = "init" /\ Tail(plan) # <<>> /\ Head(Tail(plan)) # "check"
                                /\ Tail(plan) \in (IF setup = "vectors" THEN {UOG} ELSE {G})
           /\ Doing("refuse") => setup # "vectors" /\ verb \in {"reprocess", "reprocess_vectors"}
           /\ Doing("confirm") => verb = "erase" /\ Tail(plan) = E4
           /\ Doing("drop") => \/ verb = "erase" /\ Tail(plan) = E3
                               \/ verb = "reprocess" /\ Tail(plan) = UOG /\ setup = "vectors"
                               \/ verb = "reprocess_vectors" /\ Tail(plan) = UO /\ setup = "vectors"
           /\ Doing("update") => /\ setup = "vectors" /\ verb \notin {"reprocess_graph", "erase"}
                                 /\ Tail(plan) \in {OG, OI, O}
                                 /\ verb = "increment" => Tail(plan) = OI
           /\ Doing("optimize") => /\ setup = "vectors" /\ plan \in {OG, OI, O} /\ verb \notin {"reprocess_graph", "erase"}
                                   /\ Tail(plan) \in {G, I, <<>>}
                                   /\ Tail(plan) = <<>> => verb \in {"increment_vectors", "reprocess_vectors"}
           /\ Doing("graph") => Tail(plan) = <<>> /\ verb \in {"init", "reprocess", "reprocess_graph"}
                                /\ (verb = "reprocess" => setup # "nococo")
           /\ Doing("increment") => Tail(plan) = <<>> /\ verb = "increment"
           /\ Doing("rm_graph") => Tail(plan) = E2 /\ verb = "erase"
           /\ Doing("rm_files") => Tail(plan) = E1 /\ verb = "erase"
           /\ Doing("scan") => Tail(plan) = <<>> /\ verb = "erase"
<1> USE HeadsAndTails DEF Rests, RestsOf, Doing, Verbs!Steps, Verbs!Phases
<1>1. CASE verb = "init"
  BY <1>1, ZenonT(40)
<1>2. CASE verb = "increment"
  BY <1>2, ZenonT(40)
<1>3. CASE verb = "increment_vectors"
  BY <1>3
<1>4. CASE verb = "reprocess"
  <2>1. CASE setup = "vectors"
    BY <1>4, <2>1, ZenonT(40)
  <2>2. CASE setup = "nococo"
    BY <1>4, <2>2
  <2>3. CASE setup \notin {"vectors", "nococo"}
    BY <1>4, <2>3
  <2> QED BY <2>1, <2>2, <2>3
<1>5. CASE verb = "reprocess_vectors"
  <2>1. CASE setup = "vectors"
    BY <1>5, <2>1
  <2>2. CASE setup = "bm25"
    BY <1>5, <2>2
  <2>3. CASE setup \notin {"vectors", "bm25"}
    BY <1>5, <2>3
  <2> QED BY <2>1, <2>2, <2>3
<1>6. CASE verb = "reprocess_graph"
  BY <1>6
<1>7. CASE verb = "erase"
  BY <1>7, ZenonT(40)
<1> QED BY <1>1, <1>2, <1>3, <1>4, <1>5, <1>6, <1>7

LEMMA VerbsStart == Verbs!Init => VerbsInv
<1> USE NoneAssumption
<1> QED BY DEF Verbs!Init, VerbsInv, ControlOK, OpenOK, Verbs!Async, Verbs!Running, ExitZeroIsDone, IndexIsKept,
      Verbs!ExitZeroIsDone, Verbs!IndexIsKept, Verbs!index, Doing

\* Short sequences, put together.
LEMMA Joins ==
    /\ \A a : <<a>> \o <<>> = <<a>> /\ <<>> \o <<a>> = <<a>>
    /\ \A a, b : <<a>> \o <<b>> = <<a, b>>
    /\ \A a, b, c : <<a>> \o <<b, c>> = <<a, b, c>> /\ <<a, b>> \o <<c>> = <<a, b, c>>
    /\ \A a, b, c, d : <<a, b, c>> \o <<d>> = <<a, b, c, d>>
<1>1. \A a : <<a>> \o <<>> = <<a>> /\ <<>> \o <<a>> = <<a>>
  <2> SUFFICES ASSUME NEW a PROVE <<a>> \o <<>> = <<a>> /\ <<>> \o <<a>> = <<a>>
    OBVIOUS
  <2>1. <<a>> \in Seq({a})
    OBVIOUS
  <2> QED BY <2>1, ConcatEmptySeq
<1>2. \A a, b : <<a>> \o <<b>> = <<a, b>>
  <2> TAKE a, b
  <2> DEFINE S == {a, b}
  <2>1. <<a>> \o <<b>> = <<a, b>>
    <3> DEFINE s == <<a>> \o <<b>>
    <3>1. <<a>> \in Seq(S) /\ <<b>> \in Seq(S) /\ <<a, b>> \in Seq(S) /\ Len(<<a, b>>) = 2
      OBVIOUS
    <3>2. s \in Seq(S) /\ Len(s) = 2 /\ s[1] = a /\ s[2] = b
      BY <3>1, ConcatProperties
    <3> HIDE DEF s
    <3>3. \A i \in 1..2 : s[i] = <<a, b>>[i]
      BY <3>2
    <3>4. s = <<a, b>>
      BY <3>1, <3>2, <3>3, SeqEqual
    <3> QED BY <3>4 DEF s
  <2> QED BY <2>1
<1>3. \A a, b, c : <<a>> \o <<b, c>> = <<a, b, c>> /\ <<a, b>> \o <<c>> = <<a, b, c>>
  <2> TAKE a, b, c
  <2> DEFINE S == {a, b, c}
  <2>1. <<a>> \o <<b, c>> = <<a, b, c>>
    <3> DEFINE s == <<a>> \o <<b, c>>
    <3>1. <<a>> \in Seq(S) /\ <<b, c>> \in Seq(S) /\ <<a, b, c>> \in Seq(S) /\ Len(<<a, b, c>>) = 3
      OBVIOUS
    <3>2. s \in Seq(S) /\ Len(s) = 3 /\ s[1] = a /\ s[2] = b /\ s[3] = c
      BY <3>1, ConcatProperties
    <3> HIDE DEF s
    <3>3. \A i \in 1..3 : s[i] = <<a, b, c>>[i]
      BY <3>2
    <3>4. s = <<a, b, c>>
      BY <3>1, <3>2, <3>3, SeqEqual
    <3> QED BY <3>4 DEF s
  <2>2. <<a, b>> \o <<c>> = <<a, b, c>>
    <3> DEFINE s == <<a, b>> \o <<c>>
    <3>1. <<a, b>> \in Seq(S) /\ <<c>> \in Seq(S) /\ <<a, b, c>> \in Seq(S) /\ Len(<<a, b, c>>) = 3
      OBVIOUS
    <3>2. s \in Seq(S) /\ Len(s) = 3 /\ s[1] = a /\ s[2] = b /\ s[3] = c
      BY <3>1, ConcatProperties
    <3> HIDE DEF s
    <3>3. \A i \in 1..3 : s[i] = <<a, b, c>>[i]
      BY <3>2
    <3>4. s = <<a, b, c>>
      BY <3>1, <3>2, <3>3, SeqEqual
    <3> QED BY <3>4 DEF s
  <2> QED BY <2>1, <2>2
<1>4. \A a, b, c, d : <<a, b, c>> \o <<d>> = <<a, b, c, d>>
  <2> TAKE a, b, c, d
  <2> DEFINE S == {a, b, c, d}
  <2>1. <<a, b, c>> \o <<d>> = <<a, b, c, d>>
    <3> DEFINE s == <<a, b, c>> \o <<d>>
    <3>1. <<a, b, c>> \in Seq(S) /\ <<d>> \in Seq(S) /\ <<a, b, c, d>> \in Seq(S) /\ Len(<<a, b, c, d>>) = 4
      OBVIOUS
    <3>2. s \in Seq(S) /\ Len(s) = 4 /\ s[1] = a /\ s[2] = b /\ s[3] = c /\ s[4] = d
      BY <3>1, ConcatProperties
    <3> HIDE DEF s
    <3>3. \A i \in 1..4 : s[i] = <<a, b, c, d>>[i]
      BY <3>2
    <3>4. s = <<a, b, c, d>>
      BY <3>1, <3>2, <3>3, SeqEqual
    <3> QED BY <3>4 DEF s
  <2> QED BY <2>1
<1> QED BY <1>1, <1>2, <1>3, <1>4

LEMMA Joined ==
    /\ (<<"check">> \o <<"update", "optimize">>) \o <<"graph">> = CUOG
    /\ (<<"check">> \o <<>>) \o <<"graph">> = CG
    /\ <<"update", "optimize">> \o <<"increment">> = UOI
    /\ <<>> \o <<"increment">> = I
    /\ <<"drop">> \o <<"update", "optimize">> = DUO
<1>1. (<<"check">> \o <<"update", "optimize">>) \o <<"graph">> = CUOG
  <2>1. <<"check">> \o <<"update", "optimize">> = <<"check", "update", "optimize">>
    BY Joins
  <2>2. <<"check", "update", "optimize">> \o <<"graph">> = <<"check", "update", "optimize", "graph">>
    BY Joins
  <2> QED BY <2>1, <2>2 DEF CUOG
<1>2. (<<"check">> \o <<>>) \o <<"graph">> = CG
  BY Joins DEF CG
<1>3. <<"update", "optimize">> \o <<"increment">> = UOI
  BY Joins DEF UOI
<1>4. <<>> \o <<"increment">> = I
  BY Joins DEF I
<1>5. <<"drop">> \o <<"update", "optimize">> = DUO
  BY Joins DEF DUO
<1> QED BY <1>1, <1>2, <1>3, <1>4, <1>5

LEMMA PlanIsRest == ASSUME setup \in {"vectors", "bm25", "nostack", "nococo"}, NEW c \in Verbs!Commands
                    PROVE  /\ Verbs!Plan(c) \in RestsOf(c, setup)
                           /\ setup = "vectors" /\ c \notin {"reprocess_graph", "erase"} =>
                                Verbs!Plan(c) \in {CUOG, UOI, UO, DUOG, DUO}
                           /\ c = "init" => Verbs!Plan(c) \in {CUOG, CG}
                           /\ c = "increment" => Verbs!Plan(c) \in {UOI, I}
                           /\ c \in {"reprocess", "reprocess_graph"} => Verbs!Plan(c) \in {DUOG, G, F}
                           /\ c = "erase" => Verbs!Plan(c) = E5
<1> USE Joined DEF RestsOf, Verbs!Plan, Verbs!Commands, Verbs!Builds, Verbs!InitPlan, Verbs!IncrementPlan, Verbs!RefreshPlan,
      Verbs!ReprocessVectorsPlan, Verbs!ErasePlan, Verbs!VectorPhase, Verbs!Preflight, UO, F, DUOG, G, E5
<1>1. CASE setup = "vectors"
  BY <1>1
<1>2. CASE setup = "bm25"
  BY <1>2
<1>3. CASE setup = "nostack"
  BY <1>3
<1>4. CASE setup = "nococo"
  BY <1>4
<1> QED BY <1>1, <1>2, <1>3, <1>4

LEMMA StartOK == ASSUME VerbsInv, NEW c \in Verbs!Commands, Verbs!Start(c) PROVE VerbsInv'
<1> USE NoneAssumption DEF VerbsInv, Verbs!Start, Verbs!Running, Verbs!index, Verbs!config, Verbs!work
<1>1. plan' \in Rests' /\ code' = None /\ child' = None /\ result' = None /\ verb' \in Verbs!Commands
  <2>1. plan' = Verbs!Plan(c) /\ verb' = c /\ setup' = setup /\ setup \in {"vectors", "bm25", "nostack", "nococo"}
        /\ child = None /\ result = None
    BY DEF ControlOK
  <2>2. Verbs!Plan(c) \in RestsOf(c, setup)
    BY <2>1, PlanIsRest
  <2>3. Rests' = RestsOf(c, setup)
    BY <2>1 DEF Rests
  <2> QED BY <2>1, <2>2, <2>3
<1>2. ControlOK'
  BY <1>1 DEF ControlOK, Verbs!Commands
<1>3. OpenOK'
  BY <1>1 DEF OpenOK
<1>4. alone' => before' = Verbs!index' /\ foreign' = None
  OBVIOUS
<1>5. ASSUME alone' PROVE LanceOK' /\ GraphOK' /\ InitOK' /\ EraseOK'
  <2>1. setup' = setup /\ verb' = c /\ plan' = Verbs!Plan(c) /\ setup \in {"vectors", "bm25", "nostack", "nococo"}
    BY DEF ControlOK
  <2>2. lance' = before'[1] /\ graph' = before'[2]
    BY <1>4, <1>5
  <2>3. /\ setup = "vectors" /\ c \notin {"reprocess_graph", "erase"} => plan' \in {CUOG, UOI, UO, DUOG, DUO}
        /\ c = "init" => plan' \in {CUOG, CG}
        /\ c = "increment" => plan' \in {UOI, I}
        /\ c \in {"reprocess", "reprocess_graph"} => plan' \in {DUOG, G, F}
        /\ c = "erase" => plan' = E5
    BY <2>1, PlanIsRest
  <2> HIDE DEF Verbs!Start, VerbsInv
  <2>4. LanceOK'
    BY <1>1, <2>1, <2>3, Later DEF LanceOK
  <2>5. GraphOK'
    BY <1>1, <2>1, <2>2, <2>3, HeadsAndTails DEF GraphOK, Doing
  <2>6. InitOK'
    <3>1. c = "init" => plan' # <<>> /\ Head(plan') = "check"
      BY <2>3, HeadsAndTails, SMTT(30)
    <3> QED BY <2>1, <2>2, <3>1 DEF InitOK, Doing
  <2>7. EraseOK'
    <3>1. c = "erase" => plan' \notin {E2, E1, <<>>}
      <4>1. Head(E5) = "confirm" /\ Head(E2) # "confirm" /\ Head(E1) # "confirm" /\ E5 # <<>>
        BY HeadsAndTails
      <4> QED BY <2>3, <4>1
    <3> QED BY <2>1, <3>1 DEF EraseOK
  <2> QED BY <2>4, <2>5, <2>6, <2>7
<1> QED BY <1>1, <1>2, <1>3, <1>4, <1>5

\* The verb ends, and not as done.
LEMMA Exits ==
    ASSUME VerbsInv, code = None, NEW c \in {1, 2, 130}, Verbs!Exit(c), child' = None, result' = None, ~tore',
           UNCHANGED <<setup, verb, before, lance, graph, pointer, alone>>,
           alone => foreign' = None \/ c = 130,
           alone /\ c = 2 => before = Verbs!index \/ "spawn" \in trouble',
           open' \subseteq (IF Verbs!Async /\ c \in {1, 130} THEN {"graph"} ELSE {})
    PROVE  VerbsInv'
<1> USE NoneAssumption DEF VerbsInv, Verbs!Exit
<1>1. Verbs!Async' = Verbs!Async /\ code' = c /\ code' # None /\ plan' = <<>> /\ code' # 0
  BY DEF Verbs!Async
<1>2. ControlOK'
  BY <1>1 DEF ControlOK
<1>3. OpenOK'
  BY <1>1 DEF OpenOK
<1>4. ExitZeroIsDone'
  BY <1>1 DEF ExitZeroIsDone, Verbs!ExitZeroIsDone, Verbs!Running
<1>5. alone' => IndexIsKept'
  BY <1>1 DEF IndexIsKept, Verbs!IndexIsKept, InitOK, Verbs!index
<1> QED BY <1>1, <1>2, <1>3, <1>4, <1>5

\* A step of the plan is over.
LEMMA Advances ==
    ASSUME VerbsInv, code = None, plan # <<>>, ~Doing("refuse"), Verbs!Advance,
           child' = None, result' = None, ~tore', open' = {},
           UNCHANGED <<setup, builder, verb, before, alone, foreign>>,
           alone => LanceOK' /\ GraphOK' /\ InitOK' /\ EraseOK'
    PROVE  VerbsInv'
<1> USE NoneAssumption DEF VerbsInv, Verbs!Advance
<1>1. plan \in Rests /\ plan' = Tail(plan) /\ code' = None
  BY DEF ControlOK
<1>2. plan' \in Rests'
  BY <1>1, Left DEF Rests
<1>3. ControlOK'
  BY <1>1, <1>2 DEF ControlOK
<1>4. OpenOK'
  BY <1>1 DEF OpenOK
<1>5. ~Fresh'
  <2>2. /\ plan' \in {<<>>, UOG, UO, OG, OI, O, G, I, E4, E3, E2, E1}
        /\ plan' = G => verb = "init" \/ (setup = "vectors" /\ verb # "reprocess_graph")
    BY <1>1, Left
  <2>3. \A p \in {UOG, UO, OG, OI, O, I, E4, E3, E2, E1} : Head(p) \notin {"check", "refuse", "confirm", "graph"}
    BY HeadsAndTails
  <2> QED BY <2>2, <2>3, HeadsAndTails, ZenonT(40) DEF Fresh, Doing
<1> QED BY <1>1, <1>3, <1>4, <1>5

\* Between two phases: nothing of this verb is open.
LEMMA AtRest ==
    ASSUME VerbsInv, code = None, plan # <<>>, child = None, result = None, ~Doing("optimize")
    PROVE  plan \in Rests /\ ~tore /\ open = {}
BY DEF VerbsInv, ControlOK, OpenOK

\* A check of init, a refusal, a question.
LEMMA ChecksOK ==
    ASSUME VerbsInv, Verbs!CheckEmpty \/ Verbs!Refuse \/ Verbs!Confirm
    PROVE  VerbsInv'
<1> USE NoneAssumption DEF Verbs!At, Verbs!Running, Verbs!config, Verbs!work, Verbs!history, Verbs!index
<1>1. /\ code = None /\ plan # <<>> /\ child = None /\ result = None
      /\ \/ Verbs!CheckEmpty /\ Doing("check")
         \/ Verbs!Refuse /\ (Doing("refuse") \/ Doing("confirm"))
         \/ Verbs!Confirm /\ Doing("confirm")
  BY HeadsAndTails DEF Verbs!CheckEmpty, Verbs!Refuse, Verbs!Confirm, VerbsInv, ControlOK, Doing, Verbs!Phases
<1>2. plan \in Rests /\ ~tore /\ open = {}
  BY <1>1, AtRest DEF Doing
<1>3. /\ child' = None /\ result' = None /\ ~tore' /\ open' = {}
      /\ UNCHANGED <<setup, builder, verb, before, lance, graph, pointer, foreign, alone, trouble>>
  BY <1>1, <1>2 DEF Verbs!CheckEmpty, Verbs!Refuse, Verbs!Confirm
<1>4. alone => before = Verbs!index /\ foreign = None
  BY <1>1 DEF VerbsInv, Fresh
<1>5. CASE Verbs!Exit(2)
  BY <1>1, <1>3, <1>4, <1>5, Exits
<1>6. CASE Verbs!Confirm
  <2>1. verb = "erase" /\ plan' = E4 /\ Verbs!Advance
    BY <1>1, <1>2, <1>6, Left, HeadsAndTails DEF Verbs!Confirm, Verbs!Advance, Doing
  <2>2. LanceOK' /\ GraphOK' /\ InitOK' /\ EraseOK'
    BY <1>3, <2>1, HeadsAndTails DEF LanceOK, GraphOK, InitOK, EraseOK
  <2>3. ~Doing("refuse")
    BY <1>6 DEF Doing, Verbs!Confirm
  <2> QED BY <1>1, <1>3, <2>1, <2>2, <2>3, Advances
<1>7. CASE Verbs!CheckEmpty /\ ~Verbs!Exit(2)
  <2>1. /\ verb = "init" /\ Verbs!Advance /\ plan' \in (IF setup = "vectors" THEN {UOG} ELSE {G})
        /\ graph = "absent" /\ (lance = "absent" \/ setup = "nostack" \/ lance = "torn")
    <3>1. PICK listed \in BOOLEAN : Verbs!MayList(listed) /\ ~Verbs!Occupied(listed) /\ Verbs!Advance
      BY <1>7 DEF Verbs!CheckEmpty
    <3>2. Doing("check")
      BY <1>7 DEF Verbs!CheckEmpty, Doing
    <3>3. graph = "absent" /\ (lance = "absent" \/ setup = "nostack" \/ lance = "torn")
      BY <3>1 DEF Verbs!Occupied, Verbs!MayList
    <3> QED BY <1>2, <3>1, <3>2, <3>3, Left DEF Verbs!Advance
  <2>2. ASSUME alone PROVE LanceOK' /\ GraphOK' /\ InitOK' /\ EraseOK'
    <3>1. before'[1] = lance /\ before'[2] = graph
      BY <1>3, <1>4, <2>2
    <3>2. plan' # <<>> /\ Head(plan') # "check" /\ (setup = "vectors" => plan' = UOG)
      BY <2>1, HeadsAndTails
    <3>3. LanceOK'
      BY <1>3, <2>1, <3>2, Later DEF LanceOK
    <3>4. InitOK'
      BY <1>3, <2>1, <3>1, <3>2 DEF InitOK, Doing
    <3> QED BY <1>3, <2>1, <3>2, <3>3, <3>4 DEF GraphOK, EraseOK
  <2>3. ~Doing("refuse")
    BY <1>1, <1>7 DEF Doing, Verbs!CheckEmpty
  <2> QED BY <1>1, <1>3, <2>1, <2>2, <2>3, Advances
<1> QED BY <1>1, <1>5, <1>6, <1>7 DEF Verbs!Refuse

\* A phase is entered, skipped, or cannot be run.
LEMMA SpawnsOK ==
    ASSUME VerbsInv, NEW step \in Verbs!Phases, Verbs!Spawn(step)
    PROVE  VerbsInv'
<1> USE NoneAssumption DEF Verbs!Spawn, Verbs!Ready, Verbs!At, Verbs!Running, Verbs!config, Verbs!history, Verbs!index
<1>1. code = None /\ plan # <<>> /\ child = None /\ result = None /\ Doing(step) /\ ~Doing("optimize")
  BY DEF Doing, Verbs!Phases
<1>2. plan \in Rests /\ ~tore /\ open = {}
  BY <1>1, AtRest
<1>3. ControlOK'
  BY <1>1, <1>2 DEF VerbsInv, ControlOK, Doing, Rests
<1>5. OpenOK'
  <2>1. open' = Verbs!Task(step) /\ code' = None /\ child' = step /\ child' # None /\ result' = None /\ Doing(step)'
    BY <1>1, <1>2 DEF Doing, Verbs!Phases
  <2>2. Verbs!Task(step) = IF step = "update" THEN {"vectors"} ELSE IF step \in {"graph", "increment"} THEN {"graph"} ELSE {}
    BY DEF Verbs!Task, Verbs!Phases
  <2> QED BY <2>1, <2>2 DEF OpenOK, Doing
<1>4. ASSUME alone PROVE LanceOK' /\ GraphOK' /\ InitOK' /\ EraseOK' /\ (Fresh' => before' = Verbs!index')
  BY <1>1, <1>2, <1>4 DEF VerbsInv, LanceOK, GraphOK, InitOK, EraseOK, Fresh, Doing
<1> QED BY <1>1, <1>3, <1>4, <1>5 DEF VerbsInv

LEMMA SkipDropOK == ASSUME VerbsInv, Verbs!SkipDrop PROVE VerbsInv'
<1> USE NoneAssumption DEF Verbs!SkipDrop, Verbs!Ready, Verbs!At, Verbs!Running, Verbs!config, Verbs!work, Verbs!history, Verbs!index
<1>1. code = None /\ plan # <<>> /\ child = None /\ result = None /\ Doing("drop") /\ ~Doing("optimize") /\ ~Doing("refuse")
  BY DEF Doing
<1>2. plan \in Rests /\ ~tore /\ open = {}
  BY <1>1, AtRest
<1>3. verb = "erase" /\ plan' = E3 /\ Verbs!Advance
  BY <1>1, <1>2, Left DEF Verbs!Advance, Verbs!Preflight
<1>4. LanceOK' /\ GraphOK' /\ InitOK' /\ EraseOK'
  BY <1>3, HeadsAndTails DEF LanceOK, GraphOK, InitOK, EraseOK
<1> QED BY <1>1, <1>2, <1>3, <1>4, Advances

LEMMA NoBuilderOK == ASSUME VerbsInv, Verbs!NoBuilder PROVE VerbsInv'
<1> USE NoneAssumption DEF Verbs!NoBuilder, Verbs!Ready, Verbs!At, Verbs!Running, Verbs!config, Verbs!work, Verbs!history
<1>1. /\ code = None /\ plan # <<>> /\ child = None /\ result = None /\ ~Doing("optimize") /\ ~Doing("refuse")
      /\ Doing("graph") \/ Doing("increment")
  BY DEF Doing
<1>2. plan \in Rests /\ ~tore /\ open = {}
  BY <1>1, AtRest
<1>3. CASE Verbs!Async /\ setup = "vectors"
  <2>1. Verbs!Advance /\ verb = "reprocess" /\ plan' = <<>>
    BY <1>1, <1>2, <1>3, Left DEF Verbs!Async, Verbs!Advance
  <2>2. plan = G
    BY <1>1, <1>2, <1>3, <2>1, HeadsAndTails DEF Rests, RestsOf, Doing, Verbs!Async
  <2>3. ASSUME alone PROVE LanceOK' /\ GraphOK' /\ InitOK' /\ EraseOK'
    <3>1. lance = "whole"
      BY <1>1, <1>3, <2>1, <2>2, <2>3 DEF VerbsInv, LanceOK
    <3>2. lance' = lance /\ verb' = "reprocess" /\ setup' = setup /\ builder' = builder /\ ~builder
      BY <2>1 DEF Verbs!index
    <3>3. GraphOK'
      BY <1>3, <3>2, <2>1 DEF GraphOK, Verbs!Async
    <3> QED BY <3>1, <3>2, <3>3 DEF LanceOK, InitOK, EraseOK
  <2> QED BY <1>1, <1>2, <2>1, <2>3, Advances
<1>4. CASE ~(Verbs!Async /\ setup = "vectors")
  <2>1. PICK c \in {1, 2} : Verbs!Exit(c) /\ (c = 2 => verb \in {"reprocess", "reprocess_graph"})
    BY <1>4
  <2>2. alone /\ c = 2 => before = Verbs!index
    <3> SUFFICES ASSUME alone, c = 2 PROVE before = Verbs!index
      OBVIOUS
    <3>1. Doing("graph") /\ (verb = "reprocess_graph" \/ (verb = "reprocess" /\ setup # "vectors"))
      BY <1>1, <1>2, <1>4, <2>1, Left DEF Verbs!Async
    <3> QED BY <1>1, <3>1 DEF VerbsInv, Fresh
  <2>3. alone => foreign' = None
    BY <1>1 DEF VerbsInv
  <2>4. /\ child' = None /\ result' = None /\ ~tore' /\ open' = {} /\ c \in {1, 2, 130}
        /\ UNCHANGED <<setup, verb, before, lance, graph, pointer, alone, trouble>>
    BY <1>1, <1>2 DEF Verbs!index
  <2> QED BY <1>1, <2>1, <2>2, <2>3, <2>4, Exits
<1> QED BY <1>3, <1>4

LEMMA SpawnRaisesOK ==
    ASSUME VerbsInv, NEW step \in Verbs!Phases, Verbs!SpawnRaises(step)
    PROVE  VerbsInv'
<1> USE NoneAssumption DEF Verbs!SpawnRaises, Verbs!Ready, Verbs!At, Verbs!Running, Verbs!config, Verbs!work
<1>1. /\ code = None /\ plan # <<>> /\ child = None /\ result = None /\ Doing(step) /\ ~Doing("optimize") /\ ~Doing("refuse")
  BY DEF Doing, Verbs!Phases
<1>2. plan \in Rests /\ ~tore /\ open = {} /\ (alone => foreign' = None)
  BY <1>1, AtRest DEF VerbsInv
<1>3. CASE Verbs!Async /\ step = "drop"
  <2>1. Verbs!Advance /\ verb = "reprocess" /\ plan' = UOG
    BY <1>1, <1>2, <1>3, Left DEF Verbs!Async, Verbs!Advance
  <2>2. LanceOK' /\ GraphOK' /\ InitOK' /\ EraseOK'
    BY <1>1, <2>1, Later DEF LanceOK, GraphOK, InitOK, EraseOK
  <2> QED BY <1>1, <1>2, <2>1, <2>2, Advances DEF Verbs!index
<1>4. CASE ~(Verbs!Async /\ step = "drop")
  <2>1. PICK c \in {1, 2} : Verbs!Exit(c)
    BY <1>4
  <2> QED BY <1>1, <1>2, <2>1, Exits DEF Verbs!index
<1> QED BY <1>3, <1>4

\* What the subprocess does while nobody else writes.
LEMMA ChildOKs ==
    ASSUME VerbsInv, Verbs!Child
    PROVE  VerbsInv'
<1> USE NoneAssumption DEF Verbs!Child, Verbs!config, Verbs!control, Verbs!history
<1>1. code = None /\ child # None /\ child \in Verbs!Phases /\ Doing(child) /\ result = None /\ plan \in Rests
  BY DEF Verbs!ChildTears, Verbs!ChildOk, Verbs!ChildFails, VerbsInv, ControlOK
<1>2. /\ UNCHANGED <<setup, builder, verb, plan, code, before, alone, trouble, foreign>>
      /\ \/ Verbs!ChildTears /\ child' = child /\ tore' = TRUE /\ result' = None /\ open' = open
         \/ Verbs!ChildOk /\ child' = None /\ ~tore' /\ result' = "ok" /\ open' = open \ {"graph"}
         \/ Verbs!ChildFails /\ child' = None /\ ~tore' /\ result' = "failed" /\ open' \subseteq open
  BY <1>1 DEF Verbs!ChildTears, Verbs!ChildOk, Verbs!ChildFails
<1>3. ControlOK'
  BY <1>1, <1>2 DEF VerbsInv, ControlOK, Doing, Rests
<1>4. OpenOK'
  BY <1>1, <1>2 DEF VerbsInv, OpenOK, Doing
<1>5. ~Fresh'
  BY <1>1, <1>2, NoneAssumption DEF Fresh
<1>6. ASSUME alone PROVE LanceOK' /\ GraphOK' /\ InitOK' /\ EraseOK'
  <2>1. LanceOK /\ GraphOK /\ InitOK /\ EraseOK /\ foreign = None
    BY <1>1, <1>6 DEF VerbsInv
  <2>2. CASE child = "drop"
    <3>1. Doing("drop")
      BY <1>1, <2>2
    <3>2. UNCHANGED <<graph, pointer>> /\ (lance' = lance \/ lance' = "absent")
      BY <1>2, <2>2 DEF Verbs!ChildTears, Verbs!ChildOk, Verbs!ChildFails, Verbs!Complete, Verbs!Tear, Verbs!index
    <3>3. LanceOK'
      <4>1. plan \notin {OG, G, OI, I, O, <<>>}
        BY <3>1, HeadsAndTails DEF Doing
      <4> QED BY <1>2, <3>1, <4>1 DEF LanceOK, Doing
    <3>4. GraphOK' /\ InitOK'
      BY <1>1, <1>2, <2>1, <3>1, <3>2, Left DEF GraphOK, InitOK, Doing
    <3>5. EraseOK'
      <4>1. plan \notin {E2, E1, <<>>}
        BY <3>1, HeadsAndTails DEF Doing
      <4> QED BY <1>2, <4>1 DEF EraseOK
    <3> QED BY <3>3, <3>4, <3>5
  <2>3. CASE child = "update"
    <3>1. Doing("update") /\ verb # "erase" /\ plan # <<>> /\ setup = "vectors"
      BY <1>1, <2>3, Left DEF Doing
    <3>2. UNCHANGED <<graph, pointer>> /\ (result' = "ok" => lance' = "whole")
      BY <1>2, <2>1, <2>3, NoneAssumption DEF Verbs!ChildTears, Verbs!ChildOk, Verbs!ChildFails, Verbs!Complete, Verbs!Tear, Verbs!index
    <3>3. LanceOK'
      <4>1. plan \notin {OG, G, OI, I, O, <<>>}
        BY <3>1, HeadsAndTails DEF Doing
      <4> QED BY <1>2, <3>1, <3>2, <4>1 DEF LanceOK
    <3>4. GraphOK' /\ EraseOK'
      BY <1>1, <1>2, <2>1, <3>1, <3>2 DEF GraphOK, EraseOK, Doing
    <3>5. InitOK'
      BY <1>1, <1>2, <2>1, <3>1, <3>2 DEF InitOK, Doing
    <3> QED BY <3>3, <3>4, <3>5
  <2>4. CASE child \in {"graph", "increment"}
    <3>1. Doing(child) /\ plan # <<>> /\ verb # "erase" /\ ~Doing("check")
          /\ (verb = "increment" => child = "increment") /\ (verb = "init" => child = "graph")
      BY <1>1, <2>4, Left DEF Doing
    <3>2. UNCHANGED <<lance, pointer>>
      BY <1>2, <2>4 DEF Verbs!ChildTears, Verbs!ChildOk, Verbs!ChildFails, Verbs!Complete, Verbs!Tear, Verbs!index
    <3>3. LanceOK' /\ InitOK' /\ EraseOK'
      BY <1>1, <1>2, <2>1, <2>4, <3>1, <3>2, NoneAssumption DEF LanceOK, InitOK, EraseOK, Doing
    <3>4. GraphOK'
      <4>1. result' = "ok" => graph' = "whole" \/ (child = "increment" /\ ~tore /\ graph = "torn")
        BY <1>2, <2>1, <2>4, NoneAssumption DEF Verbs!ChildTears, Verbs!ChildOk, Verbs!ChildFails, Verbs!Complete
      <4>2. child = "increment" => verb = "increment"
        BY <1>1, <3>1, Left
      <4>3. child = "increment" /\ ~tore => graph = before[2]
        BY <1>1, <2>1, <3>1, <4>2 DEF GraphOK, Doing
      <4> QED BY <1>1, <1>2, <2>4, <3>1, <4>1, <4>2, <4>3, NoneAssumption DEF GraphOK, Doing
    <3> QED BY <3>3, <3>4
  <2> QED BY <1>1, <2>2, <2>3, <2>4 DEF Verbs!Phases
<1> QED BY <1>1, <1>2, <1>3, <1>4, <1>5, <1>6 DEF VerbsInv

LEMMA ReapOK == ASSUME VerbsInv, Verbs!Reap PROVE VerbsInv'
<1> USE NoneAssumption DEF Verbs!Reap, Verbs!Running, Verbs!config, Verbs!history
<1>1. /\ code = None /\ result # None /\ child = None /\ ~tore /\ plan \in Rests /\ plan # <<>>
      /\ \E s \in Verbs!Phases : Doing(s)
  BY DEF VerbsInv, ControlOK, Doing
<1>2. ~Doing("optimize") /\ ~Doing("refuse") /\ ~Doing("check") /\ ~Doing("confirm")
  BY <1>1 DEF Doing, Verbs!Phases
<1>3. /\ child' = None /\ result' = None /\ ~tore'
      /\ UNCHANGED <<setup, builder, verb, before, lance, graph, pointer, alone, trouble, foreign>>
  BY <1>1 DEF Verbs!index
<1>4. alone => foreign = None
  BY <1>1 DEF VerbsInv
<1>5. CASE result = "ok" \/ Doing("drop")
  <2>1. Verbs!Advance
    BY <1>1, <1>5 DEF Doing
  <2>2. open' = {}
    <3>1. open' = open \ (IF Verbs!Async THEN {"vectors"} ELSE {"vectors", "graph"})
      OBVIOUS
    <3>2. open \subseteq {"vectors"}
      <4>1. OpenOK
        BY DEF VerbsInv
      <4>2. CASE Doing("drop")
        BY <1>1, <4>1, <4>2 DEF OpenOK, Doing
      <4>3. CASE ~Doing("drop") /\ result = "ok"
        BY <1>1, <1>2, <4>1, <4>3 DEF OpenOK, Doing
      <4> QED BY <1>5, <4>2, <4>3
    <3> QED BY <3>1, <3>2
  <2>3. ASSUME alone PROVE LanceOK' /\ GraphOK' /\ InitOK' /\ EraseOK'
    <3>1. LanceOK /\ GraphOK /\ InitOK /\ EraseOK
      BY <1>1, <2>3 DEF VerbsInv
    <3>2. plan' = Tail(plan)
      BY <2>1 DEF Verbs!Advance
    <3>3. CASE Doing("drop")
      <4>1. plan' \in {E3, UOG, UO} /\ verb \in {"erase", "reprocess", "reprocess_vectors"} /\ (verb = "erase" => plan' = E3)
        BY <1>1, <3>2, <3>3, Left
      <4>2. \A p \in {E3, UOG, UO} : p \notin {OG, G, OI, I, O, <<>>} /\ p # <<>>
        <5>1. Head(E3) = "rm_graph" /\ E3 # <<>> /\ \A p \in {OG, G, OI, I, O} : Head(p) # "rm_graph"
          BY HeadsAndTails
        <5>2. E3 \notin {OG, G, OI, I, O, <<>>}
          BY <5>1
        <5> QED BY <5>1, <5>2, Later
      <4>3. E3 \notin {E2, E1, <<>>}
        BY HeadsAndTails
      <4> QED BY <1>3, <4>1, <4>2, <4>3 DEF LanceOK, GraphOK, InitOK, EraseOK
    <3>4. CASE Doing("update")
      <4>1. /\ setup = "vectors" /\ verb \notin {"reprocess_graph", "erase"} /\ lance = "whole" /\ result = "ok"
            /\ plan' \in {OG, OI, O}
        BY <1>1, <1>5, <3>1, <3>2, <3>4, Left, HeadsAndTails DEF LanceOK, Doing
      <4>2. plan' # <<>> /\ Head(plan') = "optimize"
        BY <4>1, HeadsAndTails, SMTT(30)
      <4>3. GraphOK'
        BY <1>1, <1>3, <3>1, <3>4, <4>2 DEF GraphOK, Doing
      <4> QED BY <1>2, <1>3, <3>1, <4>1, <4>2, <4>3 DEF LanceOK, InitOK, EraseOK, Doing
    <3>5. CASE Doing("graph") \/ Doing("increment")
      <4>1. /\ result = "ok" /\ plan' = <<>> /\ verb \in {"init", "increment", "reprocess", "reprocess_graph"}
        BY <1>1, <1>5, <3>2, <3>5, Left, HeadsAndTails DEF Doing
      <4>2. setup = "vectors" /\ verb # "reprocess_graph" => lance = "whole"
        <5>1. SUFFICES ASSUME setup = "vectors", verb # "reprocess_graph" PROVE plan \in {G, I}
          BY <3>1, <4>1 DEF LanceOK
        <5> QED BY <1>1, <3>5, <5>1, <4>1, HeadsAndTails DEF Rests, RestsOf, Doing
      <4>3. GraphOK'
        BY <1>1, <1>3, <3>1, <3>5, <4>1 DEF GraphOK, Verbs!Async
      <4> QED BY <1>2, <1>3, <3>1, <4>1, <4>2, <4>3, HeadsAndTails, SMTT(30) DEF LanceOK, InitOK, EraseOK, Doing
    <3> QED BY <1>1, <3>3, <3>4, <3>5 DEF Verbs!Phases
  <2> QED BY <1>1, <1>2, <1>3, <2>1, <2>2, <2>3, Advances
<1>6. CASE ~(result = "ok" \/ Doing("drop"))
  <2>1. Verbs!Exit(1)
    BY <1>1, <1>6 DEF Doing
  <2>2. open' \subseteq (IF Verbs!Async THEN {"graph"} ELSE {})
    BY <1>1, <1>2 DEF VerbsInv, OpenOK
  <2>3. open' \subseteq (IF Verbs!Async /\ 1 \in {1, 130} THEN {"graph"} ELSE {})
    BY <2>2
  <2>4. (alone => foreign' = None \/ 1 = 130) /\ (alone /\ 1 = 2 => before = Verbs!index \/ "spawn" \in trouble')
    BY <1>3, <1>4
  <2>5. 1 \in {1, 2, 130}
    OBVIOUS
  <2> HIDE DEF Verbs!Reap, Verbs!Running, Verbs!config, Verbs!history
  <2> QED BY <1>1, <1>3, <2>1, <2>3, <2>4, <2>5, Exits
<1> QED BY <1>5, <1>6

LEMMA OptimizesOK == ASSUME VerbsInv, Verbs!BeginOptimize \/ Verbs!EndOptimize PROVE VerbsInv'
<1> USE NoneAssumption DEF Verbs!At, Verbs!Running, Verbs!config, Verbs!history, Verbs!work
<1>1. code = None /\ Doing("optimize") /\ plan # <<>>
  BY DEF Doing, Verbs!BeginOptimize, Verbs!EndOptimize
<1>2. plan \in Rests /\ child = None /\ result = None /\ ~tore
  BY <1>1 DEF VerbsInv, ControlOK, Doing, Verbs!Phases
<1>3. UNCHANGED <<setup, builder, verb, before, lance, graph, pointer, alone, trouble, foreign, child, result, tore>>
  BY DEF Verbs!BeginOptimize, Verbs!EndOptimize, Verbs!index
<1>4. CASE Verbs!BeginOptimize
  <2>1. plan' = plan /\ code' = None /\ open' = {"optimize"}
    BY <1>1, <1>4 DEF Verbs!BeginOptimize, VerbsInv, OpenOK, Doing
  <2>2. ControlOK' /\ OpenOK'
    BY <1>1, <1>2, <1>3, <2>1 DEF VerbsInv, ControlOK, OpenOK, Doing, Rests
  <2>3. ASSUME alone PROVE LanceOK' /\ GraphOK' /\ InitOK' /\ EraseOK' /\ ~Fresh'
    BY <1>1, <1>2, <1>3, <2>1, <2>3 DEF VerbsInv, LanceOK, GraphOK, InitOK, EraseOK, Fresh, Doing
  <2> QED BY <1>1, <1>3, <2>1, <2>2, <2>3 DEF VerbsInv
<1>5. CASE Verbs!EndOptimize
  <2>1. Verbs!Advance /\ plan' = Tail(plan) /\ open' = {} /\ ~Doing("refuse")
    BY <1>1, <1>5 DEF Verbs!EndOptimize, Verbs!Advance, VerbsInv, OpenOK, Doing
  <2>2. /\ setup = "vectors" /\ verb \notin {"reprocess_graph", "erase"} /\ plan \in {OG, OI, O}
        /\ plan' \in {G, I, <<>>}
        /\ plan' = <<>> => verb \in {"increment_vectors", "reprocess_vectors"}
    BY <1>1, <1>2, <2>1, Left
  <2>3. ASSUME alone PROVE LanceOK' /\ GraphOK' /\ InitOK' /\ EraseOK'
    <3>1. LanceOK /\ GraphOK /\ InitOK /\ EraseOK /\ lance = "whole"
      BY <1>1, <2>2, <2>3 DEF VerbsInv, LanceOK
    <3>2. plan' # <<>> => ~Doing("check")'
      BY <2>2, HeadsAndTails DEF Doing
    <3> QED BY <1>1, <1>2, <1>3, <2>2, <3>1, <3>2 DEF LanceOK, GraphOK, InitOK, EraseOK, Doing
  <2> QED BY <1>1, <1>2, <1>3, <2>1, <2>3, Advances
<1> QED BY <1>4, <1>5

LEMMA EraseActsOK == ASSUME VerbsInv, Verbs!Erase PROVE VerbsInv'
<1> USE NoneAssumption DEF Verbs!Removal, Verbs!At, Verbs!Running, Verbs!config, Verbs!work, Verbs!index
<1>1. /\ code = None /\ plan # <<>> /\ Verbs!Advance /\ plan' = Tail(plan)
      /\ UNCHANGED <<setup, builder, foreign, verb, open, child, result, tore, before, alone>>
      /\ Doing("rm_graph") \/ Doing("rm_files") \/ Doing("scan")
      /\ \/ Verbs!RemovalFails /\ trouble' = trouble \cup {"remove"}
         \/ trouble' = trouble /\ \/ Doing("rm_graph") /\ graph' = "absent" /\ UNCHANGED pointer
                                  \/ Doing("rm_files") /\ pointer' = FALSE /\ UNCHANGED graph
                                  \/ Doing("scan") /\ lance' = "absent" /\ UNCHANGED <<graph, pointer>>
  BY DEF Doing, Verbs!Erase, Verbs!RemovalFails, Verbs!RemoveGraph, Verbs!RemoveFiles, Verbs!DropByScan, Verbs!Advance
<1>2. /\ child = None /\ result = None /\ ~Doing("optimize") /\ ~Doing("refuse")
  BY <1>1 DEF VerbsInv, ControlOK, Doing, Verbs!Phases
<1>3. plan \in Rests /\ ~tore /\ open = {}
  BY <1>1, <1>2, AtRest
<1>4. verb = "erase" /\ (Doing("rm_graph") => plan' = E2) /\ (Doing("rm_files") => plan' = E1) /\ (Doing("scan") => plan' = <<>>)
  BY <1>1, <1>3, Left
<1>5. ASSUME alone PROVE EraseOK'
  <2>1. SUFFICES ASSUME "remove" \notin trouble'
                 PROVE  /\ plan' \in {E2, E1, <<>>} => graph' = "absent"
                        /\ plan' \in {E1, <<>>} => ~pointer'
                        /\ plan' = <<>> => lance' = "absent"
    BY DEF EraseOK
  <2>2. EraseOK /\ "remove" \notin trouble /\ ~Verbs!RemovalFails
    BY <1>1, <1>5, <2>1 DEF VerbsInv, Verbs!RemovalFails
  <2>3. CASE Doing("rm_graph")
    BY <1>1, <1>4, <2>1, <2>2, <2>3, HeadsAndTails DEF Doing
  <2>4. CASE Doing("rm_files")
    <3>1. plan = E2
      BY <1>3, <1>4, <2>4, HeadsAndTails DEF Rests, RestsOf, Doing
    <3> QED BY <1>1, <1>4, <2>1, <2>2, <2>4, <3>1, HeadsAndTails DEF Doing, EraseOK
  <2>5. CASE Doing("scan")
    <3>1. plan = E1
      BY <1>3, <1>4, <2>5, HeadsAndTails DEF Rests, RestsOf, Doing
    <3> QED BY <1>1, <1>4, <2>1, <2>2, <2>5, <3>1, HeadsAndTails, SMTT(30) DEF Doing, EraseOK
  <2> QED BY <1>1, <2>3, <2>4, <2>5
<1>6. LanceOK' /\ GraphOK' /\ InitOK'
  BY <1>1, <1>4 DEF LanceOK, GraphOK, InitOK
<1> QED BY <1>1, <1>2, <1>3, <1>5, <1>6, Advances

\* The end with 0.
LEMMA FinishOK == ASSUME VerbsInv, Verbs!Finish PROVE VerbsInv'
<1> USE NoneAssumption DEF Verbs!Finish, Verbs!Exit, Verbs!Running, Verbs!config, Verbs!work, Verbs!history
<1>1. code = None /\ plan = <<>> /\ child = None /\ result = None /\ code' = 0 /\ plan' = <<>> /\ plan \in Rests
  BY DEF VerbsInv, ControlOK, Doing
<1>2. ControlOK'
  BY <1>1 DEF VerbsInv, ControlOK
<1>3. open' = {} /\ OpenOK'
  BY <1>1 DEF VerbsInv, OpenOK, Doing
<1>4. ASSUME alone PROVE ExitZeroIsDone' /\ IndexIsKept'
  <2>1. LanceOK /\ GraphOK /\ InitOK /\ EraseOK
    BY <1>1, <1>4 DEF VerbsInv
  <2>2. IndexIsKept'
    BY <1>1, <2>1 DEF InitOK, IndexIsKept, Verbs!IndexIsKept, Doing
  <2>3. CASE verb = "erase"
    <3>1. Verbs!Erased'
      <4>1. "remove" \notin trouble => graph = "absent" /\ lance = "absent" /\ ~pointer
        BY <1>1, <2>1, <2>3 DEF EraseOK
      <4>2. UNCHANGED <<graph, lance, trouble>> /\ pointer' = (pointer \/ verb \in Verbs!Builds) /\ verb \notin Verbs!Builds
        BY <2>3 DEF Verbs!Builds
      <4> QED BY <4>1, <4>2 DEF Verbs!Erased, Verbs!Occupied
    <3>2. verb' = "erase"
      BY <2>3
    <3> QED BY <1>1, <1>3, <2>2, <3>1, <3>2 DEF ExitZeroIsDone, Verbs!ExitZeroIsDone
  <2>4. CASE verb # "erase"
    <3>1. UNCHANGED <<setup, builder, verb, before, lance, graph>>
      OBVIOUS
    <3>2. /\ verb \in {"init", "increment", "reprocess", "reprocess_graph"} =>
               graph = "whole" \/ (verb = "increment" /\ before[2] = "torn") \/ (Verbs!Async /\ setup = "vectors" /\ ~builder)
          /\ setup = "vectors" /\ verb # "reprocess_graph" => lance = "whole"
      BY <1>1, <2>1, <2>4 DEF LanceOK, GraphOK
    <3>3. Verbs!Built'
      BY <3>1, <3>2 DEF Verbs!Built, Verbs!Async
    <3>4. verb' # "erase"
      BY <2>4
    <3> QED BY <1>1, <1>3, <2>2, <3>3, <3>4 DEF ExitZeroIsDone, Verbs!ExitZeroIsDone
  <2> QED BY <2>2, <2>3, <2>4
<1> QED BY <1>1, <1>2, <1>3, <1>4 DEF VerbsInv

LEMMA InterruptOK == ASSUME VerbsInv, Verbs!Interrupt PROVE VerbsInv'
<1> USE NoneAssumption DEF Verbs!Interrupt, Verbs!Running, Verbs!config, Verbs!history, Verbs!index
<1>1. code = None /\ Verbs!Exit(130) /\ child' = None /\ result' = None /\ ~tore'
  OBVIOUS
<1>2. open' \subseteq (IF Verbs!Async THEN {"graph"} ELSE {})
  BY <1>1 DEF VerbsInv, OpenOK, Verbs!Interrupt
<1>3. UNCHANGED <<setup, verb, before, lance, graph, pointer, alone>>
  OBVIOUS
<1>4. open' \subseteq (IF Verbs!Async /\ 130 \in {1, 130} THEN {"graph"} ELSE {})
  BY <1>2
<1>5. (alone => foreign' = None \/ 130 = 130) /\ (alone /\ 130 = 2 => before = Verbs!index \/ "spawn" \in trouble') /\ 130 \in {1, 2, 130}
  OBVIOUS
<1> HIDE DEF Verbs!Interrupt, Verbs!Running, Verbs!config, Verbs!history, Verbs!index
<1> QED BY <1>1, <1>3, <1>4, <1>5, Exits

LEMMA ForeignOK == ASSUME VerbsInv, Verbs!ForeignStarts \/ Verbs!ForeignWrites PROVE VerbsInv'
<1>1. /\ alone' = FALSE /\ UNCHANGED <<setup, builder, verb, plan, code, open, child, tore, result>>
  BY DEF Verbs!ForeignStarts, Verbs!ForeignWrites, Verbs!config, Verbs!control, Verbs!work
<1>2. ControlOK' /\ OpenOK'
  BY <1>1 DEF VerbsInv, ControlOK, OpenOK, Rests, Doing, Verbs!Async
<1> QED BY <1>1, <1>2 DEF VerbsInv

LEMMA VerbsStep == VerbsInv /\ [Verbs!Next]_(Verbs!vars) => VerbsInv'
<1> SUFFICES ASSUME VerbsInv, [Verbs!Next]_(Verbs!vars) PROVE VerbsInv'
  OBVIOUS
<1>1. CASE UNCHANGED Verbs!vars
  <2>1. UNCHANGED <<setup, builder, lance, graph, pointer, foreign, verb, plan, child, tore, result, code, open, before,
                    alone, trouble>>
    BY <1>1 DEF Verbs!vars, Verbs!config, Verbs!index, Verbs!control, Verbs!work, Verbs!history
  <2>2. ControlOK' /\ OpenOK'
    BY <2>1 DEF VerbsInv, ControlOK, OpenOK, Rests, Doing, Verbs!Async
  <2>3. ASSUME alone, code = None PROVE LanceOK' /\ GraphOK' /\ InitOK' /\ EraseOK' /\ (Fresh' => before' = Verbs!index')
    BY <2>1, <2>3 DEF VerbsInv, LanceOK, GraphOK, InitOK, EraseOK, Fresh, Doing, Verbs!index, Verbs!Async
  <2>4. ASSUME alone, code # None PROVE ExitZeroIsDone' /\ IndexIsKept'
    BY <2>1, <2>4 DEF VerbsInv, ExitZeroIsDone, Verbs!ExitZeroIsDone, Verbs!Erased, Verbs!Occupied, Verbs!Built,
       Verbs!Async, Verbs!Running, IndexIsKept, Verbs!IndexIsKept, Verbs!index
  <2> QED BY <2>1, <2>2, <2>3, <2>4 DEF VerbsInv
<1> QED BY <1>1, ChecksOK, SpawnsOK, SkipDropOK, NoBuilderOK, SpawnRaisesOK, ChildOKs, ReapOK, OptimizesOK, EraseActsOK,
     FinishOK, InterruptOK, ForeignOK, StartOK DEF Verbs!Next, Verbs!Verb, Verbs!Phase

\* The exit codes of the operator's verbs are true: next to no other writer, a verb that
\* exits with 0 has left whole what it builds, or nothing of what it erases, whatever failed
\* or was interrupted in the verbs before it; and no verb ends with a task still running on
\* the screen, but for the graph of the asynchronous pipeline (cli.py, pipeline.py).
THEOREM VerbsTellTruth == Verbs!Spec => []ExitZeroIsDone
<1>1. VerbsInv => ExitZeroIsDone
  BY NoneAssumption DEF VerbsInv, OpenOK, ExitZeroIsDone, Verbs!ExitZeroIsDone, Verbs!Running
<1> QED BY <1>1, VerbsStart, VerbsStep, PTL DEF Verbs!Spec

\* Next to no other writer, init never replaces a graph, or tables it can list, that were
\* there when it started, and a verb that exits with 2 has changed nothing, unless one of its
\* subprocesses could not be spawned (cli.py, index_dir_has_existing_artifacts).
THEOREM VerbsKeepIndex == Verbs!Spec => []IndexIsKept
<1>1. VerbsInv => IndexIsKept
  BY NoneAssumption DEF VerbsInv, InitOK, IndexIsKept, Verbs!IndexIsKept, Verbs!index
<1> QED BY <1>1, VerbsStart, VerbsStep, PTL DEF Verbs!Spec
----------------------------------------------------------------------------
(* The tracing of a flow.  A stage is walked while the ones before it stay; what *)
(* an edge of the stage before leads to is found, or among the rows to take in,   *)
(* before the first call is followed.                                       *)

FlowNames == DOMAIN FlowTypes
FlowKinds == {"INJECTS", "EXTENDS", "IMPLEMENTS", "CALLS", "HTTP_CALLS", "ASYNC_CALLS"}
Vias  == [kind : FlowKinds, from : FlowNames, hop : Nat]
StageFns == UNION {[S -> Seq(Vias)] : S \in SUBSET FlowNames}
FlowRows == [sym : FlowNames, kind : FlowKinds, from : FlowNames]
Queried == {"structural", "CALLS", "HTTP_CALLS", "ASYNC_CALLS"}

LastStage == flowStages[Len(flowStages)]
Walking == queried \notin {"seeds", "done"}

FlowTypeOK ==
    /\ web \in FlowGraphs /\ flowStages \in Seq(StageFns)
    /\ reached \in StageFns /\ IsFiniteSet(DOMAIN reached)
    /\ hop \in Nat /\ cut \in BOOLEAN
    /\ queried \in Queried \cup {"seeds", "hop", "full", "done"}
    /\ rows \in SUBSET FlowRows

\* Where the walk is.
WalkOK ==
    /\ queried = "seeds" => flowStages = <<>> /\ hop = 0
    /\ Walking => flowStages # <<>>
    /\ \A n \in DOMAIN reached : reached[n] # <<>>
    /\ ~Walking \/ hop = 0 => reached = <<>>
    /\ queried \notin Queried => rows = {}
    /\ queried \in Queried \cup {"full"} => hop # 0
    /\ queried = "hop" /\ hop = 0 => frontier = DOMAIN LastStage

\* A type of the hop before, or of the stage before.
At(h) == IF h = 0 THEN DOMAIN LastStage ELSE {n \in DOMAIN reached : reached[n][1].hop = h}

GroundOK ==
    /\ \A k \in 2..Len(flowStages) : Flow!Grounded(flowStages[k], flowStages[k - 1])
    /\ \A j, k \in DOMAIN flowStages : j < k => DOMAIN flowStages[j] \cap DOMAIN flowStages[k] = {}
    /\ Walking => Flow!Grounded(reached, LastStage)
    /\ DOMAIN reached \cap Flow!Visited = {}
    /\ queried = "hop" => frontier \subseteq At(hop)
    /\ queried \in Queried =>
        /\ frontier \subseteq At(hop - 1) /\ nearby \subseteq At(hop)
        /\ \A row \in rows : Flow!Leads(row, row.sym) /\ row.from \in frontier
        /\ queried = "structural" => \A row \in rows : row.kind \in Flow!Structural

\* What the edges of the stage before lead to is found, while calls have not been asked for.
NearNow == Flow!Near(Len(flowStages) + 1)
AllStructural == \A n \in DOMAIN reached : reached[n][1].kind \in Flow!Structural
FirstOK ==
    /\ Flow!StructuralFirst
    /\ ~cut /\ Walking =>
        IF queried = "structural" /\ hop = 1
        THEN NearNow \subseteq DOMAIN reached \cup {row.sym : row \in rows} /\ AllStructural
        ELSE \/ queried = "hop" /\ hop = 0
             \/ NearNow \subseteq DOMAIN reached
             \/ queried = "full" /\ AllStructural
    /\ queried = "full" => Cardinality(DOMAIN reached) >= StageLimit

FlowInv == FlowTypeOK /\ WalkOK /\ GroundOK /\ FirstOK

LEMMA CardOfFlow == \A S : Flow!Cardinality(S) = Cardinality(S)
BY Zenon DEF Cardinality, Flow!Cardinality

LEMMA EmptyStage == <<>> \in StageFns /\ DOMAIN <<>> = {} /\ IsFiniteSet({})
<1>1. <<>> \in [{} -> Seq(Vias)]
  OBVIOUS
<1>2. {} \in SUBSET FlowNames
  OBVIOUS
<1> QED BY <1>1, <1>2, FS_EmptySet DEF StageFns

LEMMA FlowStarts == Flow!Init => FlowInv
<1> SUFFICES ASSUME Flow!Init PROVE FlowInv
  OBVIOUS
<1> USE DEF Flow!Init, Flow!Start
<1>1. FlowTypeOK
  <2>1. <<>> \in Seq(StageFns)
    OBVIOUS
  <2>2. IsFiniteSet(DOMAIN reached) /\ reached \in StageFns
    <3>1. reached = <<>>
      OBVIOUS
    <3> QED BY ONLY <3>1, EmptyStage
  <2> HIDE DEF Flow!Init
  <2>3. /\ web \in FlowGraphs /\ flowStages = <<>> /\ hop = 0 /\ cut = FALSE
        /\ queried = "seeds" /\ rows = {}
    BY DEF Flow!Init
  <2> QED BY <2>1, <2>2, <2>3 DEF FlowTypeOK, Queried
<1>2. WalkOK
  BY DEF WalkOK, Walking, Queried
<1>3. GroundOK
  BY DEF GroundOK, Walking, Queried, Flow!Visited
<1>4. FirstOK
  BY DEF FirstOK, Walking, Flow!StructuralFirst
<1> QED BY <1>1, <1>2, <1>3, <1>4 DEF FlowInv

\* What a query gives is edges from where it was asked.
LEMMA RowsLead ==
    ASSUME web \in FlowGraphs, NEW q \in Queried, NEW src, NEW k
    PROVE  \A row \in Flow!RowsOf(q, src, k) :
              /\ row \in FlowRows /\ row.from \in src /\ Flow!Leads(row, row.sym)
              /\ q = "structural" => row.kind \in Flow!Structural
<1>0. web \subseteq [kind : FlowKinds, from : FlowNames, to : FlowNames]
  BY FlowAssumption DEF FlowKinds, FlowNames
<1> SUFFICES ASSUME NEW row \in Flow!RowsOf(q, src, k)
             PROVE  /\ row \in FlowRows /\ row.from \in src /\ Flow!Leads(row, row.sym)
                    /\ q = "structural" => row.kind \in Flow!Structural
  OBVIOUS
<1>1. ASSUME NEW l \in web, l.from \in src, row = Flow!Row(l.to, l.kind, l.from)
      PROVE  row \in FlowRows /\ row.from \in src /\ Flow!Leads(row, row.sym) /\ row.kind = l.kind
  <2>1. l = [kind |-> l.kind, from |-> l.from, to |-> l.to] /\ l.kind \in FlowKinds /\ l.from \in FlowNames /\ l.to \in FlowNames
    BY <1>0
  <2> QED BY <1>1, <2>1 DEF Flow!Row, Flow!Leads, FlowRows
<1>2. ASSUME NEW l \in web, l.to \in src, l.kind \in Flow!Structural, row = Flow!Row(l.from, l.kind, l.to)
      PROVE  row \in FlowRows /\ row.from \in src /\ Flow!Leads(row, row.sym) /\ row.kind = l.kind
  <2>1. l = [kind |-> l.kind, from |-> l.from, to |-> l.to] /\ l.kind \in FlowKinds /\ l.from \in FlowNames /\ l.to \in FlowNames
    BY <1>0
  <2> QED BY <1>2, <2>1 DEF Flow!Row, Flow!Leads, FlowRows
<1>3. CASE q = "structural"
  <2>1. \/ \E l \in web : l.kind \in Flow!Structural /\ l.from \in src /\ row = Flow!Row(l.to, l.kind, l.from)
        \/ \E l \in web : l.kind \in Flow!Structural /\ l.to \in src /\ row = Flow!Row(l.from, l.kind, l.to)
    BY <1>3 DEF Flow!RowsOf
  <2> QED BY <2>1, <1>1, <1>2
<1>4. CASE q # "structural"
  <2>1. \E l \in web : l.kind = q /\ l.from \in src /\ row = Flow!Row(l.to, q, l.from)
    BY <1>4 DEF Flow!RowsOf
  <2> QED BY <2>1, <1>1, <1>4
<1> QED BY <1>3, <1>4

LEMMA RowsAreFinite == ASSUME web \in FlowGraphs, NEW src, NEW k PROVE IsFiniteSet(Flow!RowsOf("structural", src, k))
<1> DEFINE S1 == {l \in web : l.kind \in Flow!Structural /\ l.from \in src /\ Flow!Suits(l.to, k)}
           S2 == {l \in web : l.kind \in Flow!Structural /\ l.to \in src /\ Flow!Suits(l.from, k)}
           f1 == [l \in S1 |-> Flow!Row(l.to, l.kind, l.from)]
           f2 == [l \in S2 |-> Flow!Row(l.from, l.kind, l.to)]
           T1 == {Flow!Row(l.to, l.kind, l.from) : l \in S1}
           T2 == {Flow!Row(l.from, l.kind, l.to) : l \in S2}
<1>1. IsFiniteSet(S1) /\ IsFiniteSet(S2)
  <2>1. IsFiniteSet(web)
    BY FlowAssumption
  <2>2. S1 \in SUBSET web /\ S2 \in SUBSET web
    OBVIOUS
  <2> HIDE DEF S1, S2
  <2> QED BY <2>1, <2>2, FS_Subset
<1>2. f1 \in Surjection(S1, T1)
  <2> HIDE DEF S1
  <2> QED BY DEF Surjection
<1>3. f2 \in Surjection(S2, T2)
  <2> HIDE DEF S2
  <2> QED BY DEF Surjection
<1>4. IsFiniteSet(T1) /\ IsFiniteSet(T2)
  <2> HIDE DEF f1, f2, S1, S2, T1, T2
  <2> QED BY <1>1, <1>2, <1>3, FS_Surjection
<1>5. Flow!RowsOf("structural", src, k) = T1 \cup T2
  BY DEF Flow!RowsOf
<1> HIDE DEF T1, T2
<1> QED BY <1>4, <1>5, FS_Union

\* A query that is not cut gives all there is.
LEMMA QueryGives ==
    ASSUME FlowTypeOK, NEW q \in Queried, Flow!Query(q)
    PROVE  /\ rows' \subseteq Flow!RowsOf(q, frontier, Len(flowStages) + 1)
           /\ queried' = q /\ cut' \in BOOLEAN /\ (~cut' => ~cut)
           /\ q = "structural" /\ ~cut' => rows' = Flow!RowsOf(q, frontier, Len(flowStages) + 1)
<1> DEFINE all == Flow!RowsOf(q, frontier, Len(flowStages) + 1)
           cap == Flow!Cap(q, StageLimit - Cardinality(DOMAIN reached))
<1>1. /\ \E R \in Flow!kSubset(Flow!Min({cap, Cardinality(all)}), all) : rows' = R
      /\ cut' = (cut \/ Cardinality(all) > cap)
      /\ queried' = q
  BY CardOfFlow DEF Flow!Query
<1>2. rows' \in SUBSET all /\ Cardinality(rows') = Flow!Min({cap, Cardinality(all)})
  BY <1>1, CardOfFlow DEF Flow!kSubset
<1>3. ASSUME q = "structural", ~cut' PROVE rows' = all
  <2>1. cap \in Nat
    BY <1>3, FlowAssumption DEF Flow!Cap
  <2>2. IsFiniteSet(all)
    BY <1>3, RowsAreFinite DEF FlowTypeOK
  <2> HIDE DEF all, cap
  <2>3. Cardinality(all) \in Nat
    BY <2>2, FS_CardinalityType
  <2>6. ~(Cardinality(all) > cap)
    BY <1>1, <1>3
  <2>4. Cardinality(all) <= cap
    BY <2>1, <2>3, <2>6
  <2>5. Flow!Min({cap, Cardinality(all)}) = Cardinality(all)
    BY <2>1, <2>3, <2>4 DEF Flow!Min
  <2> QED BY <1>2, <2>2, <2>5, FS_Subset
<1> HIDE DEF all
<1>4. cut' \in BOOLEAN /\ (~cut' => ~cut)
  BY <1>1 DEF FlowTypeOK
<1> QED BY <1>1, <1>2, <1>3, <1>4 DEF all

\* Nothing but the stages, and what is asked, decides what is near.
LEMMA NearStays ==
    ASSUME web' = web, ask' = ask, NEW k \in Nat,
           flowStages'[k - 1] = flowStages[k - 1], \A j \in 1..(k - 1) : flowStages'[j] = flowStages[j]
    PROVE  Flow!Near(k)' = Flow!Near(k)
<1>1. (UNION {DOMAIN flowStages[j] : j \in 1..(k - 1)})' = UNION {DOMAIN flowStages[j] : j \in 1..(k - 1)}
  OBVIOUS
<1>2. Flow!RowsOf("structural", DOMAIN flowStages[k - 1], k)' = Flow!RowsOf("structural", DOMAIN flowStages[k - 1], k)
  BY DEF Flow!RowsOf, Flow!Row, Flow!Suits, Flow!InScope
<1> QED BY <1>1, <1>2 DEF Flow!Near

\* Where the stages stay, what is promised of them does.
LEMMA StagesStay ==
    ASSUME FlowTypeOK, web' = web, ask' = ask, flowStages' = flowStages
    PROVE  /\ NearNow' = NearNow /\ Flow!Visited' = Flow!Visited /\ LastStage' = LastStage
           /\ Flow!StructuralFirst /\ (~cut' => ~cut) => Flow!StructuralFirst'
<1>1. Len(flowStages) \in Nat
  BY DEF FlowTypeOK
<1>2. NearNow' = NearNow
  <2>1. Flow!Near(Len(flowStages) + 1)' = Flow!Near(Len(flowStages) + 1)
    <3> DEFINE k == Len(flowStages) + 1
    <3>1. k \in Nat /\ k' = k
      BY <1>1
    <3> HIDE DEF k
    <3>2. Flow!Near(k)' = Flow!Near(k)
      BY <3>1, NearStays
    <3> QED BY <3>2 DEF k
  <2> QED BY <2>1 DEF NearNow
<1>3. ASSUME NEW k \in 2..Len(flowStages) PROVE Flow!Near(k)' = Flow!Near(k)
  BY <1>1, NearStays
<1>4. Flow!StructuralFirst /\ (~cut' => ~cut) => Flow!StructuralFirst'
  BY <1>1, <1>3, CardOfFlow DEF Flow!StructuralFirst, Flow!Structural
<1> QED BY <1>2, <1>4 DEF Flow!Visited, LastStage

LEMMA SeedOK == ASSUME FlowInv, Flow!Seed PROVE FlowInv'
<1> USE DEF FlowInv
<1>1. CASE queried' = "done" /\ UNCHANGED <<web, ask, flowStages, frontier, reached, nearby, hop, rows, cut>>
  <2>1. FlowTypeOK' /\ WalkOK'
    BY <1>1 DEF FlowTypeOK, WalkOK, Walking, Queried, Flow!Seed
  <2>2. GroundOK'
    BY <1>1, StagesStay DEF GroundOK, Walking, Queried, Flow!Grounded, Flow!Leads
  <2>3. FirstOK'
    BY <1>1, StagesStay DEF FirstOK, Walking
  <2> QED BY <2>1, <2>2, <2>3
<1>2. ASSUME NEW S \in SUBSET FlowNames, flowStages' = <<[n \in S |-> <<>>]>>, frontier' = S, queried' = "hop",
             UNCHANGED <<web, ask, reached, nearby, hop, rows, cut>>
      PROVE  FlowInv'
  <2>1. [n \in S |-> <<>>] \in StageFns
    <3>1. [n \in S |-> <<>>] \in [S -> Seq(Vias)]
      OBVIOUS
    <3> QED BY <3>1 DEF StageFns
  <2> DEFINE f == [n \in S |-> <<>>]
  <2>2. flowStages' = <<f>> /\ f \in StageFns /\ DOMAIN f = S
    BY <1>2, <2>1
  <2> HIDE DEF f
  <2>3. flowStages' \in Seq(StageFns) /\ Len(flowStages') = 1 /\ flowStages'[1] = f /\ flowStages' # <<>>
    BY <2>2
  <2>4. queried = "seeds" /\ hop = 0 /\ reached = <<>> /\ DOMAIN reached = {} /\ rows = {}
    BY EmptyStage DEF Flow!Seed, WalkOK, Walking, Queried
  <2>5. FlowTypeOK'
    BY <1>2, <2>3 DEF FlowTypeOK, Queried
  <2>6. WalkOK'
    BY <1>2, <2>2, <2>3, <2>4 DEF WalkOK, Walking, Queried, LastStage
  <2>7. GroundOK'
    BY <1>2, <2>2, <2>3, <2>4 DEF GroundOK, Walking, Queried, LastStage, At, Flow!Grounded
  <2>8. FirstOK'
    BY <1>2, <2>3, <2>4 DEF FirstOK, Walking, Flow!StructuralFirst
  <2> QED BY <2>5, <2>6, <2>7, <2>8
<1>3. \/ queried' = "done" /\ UNCHANGED <<flowStages, frontier>>
      \/ \E S \in SUBSET FlowNames : flowStages' = <<[n \in S |-> <<>>]>> /\ frontier' = S /\ queried' = "hop"
  <2> DEFINE there   == {n \in ask.seeds \cap FlowNames : Flow!InScope(n)}
             entries == {n \in there : FlowTypes[n].entry \/ FlowTypes[n].role \in Flow!EntryRoles}
             seeds   == IF entries # {} THEN entries ELSE there
  <2>1. IF seeds = {} THEN queried' = "done" /\ UNCHANGED <<flowStages, frontier>>
        ELSE \E S \in Flow!kSubset(Flow!Min({StageLimit, Flow!Cardinality(seeds)}), seeds) :
                flowStages' = <<[n \in S |-> <<>>]>> /\ frontier' = S /\ queried' = "hop"
    BY Zenon DEF Flow!Seed, Flow!Names, FlowNames
  <2>2. seeds \subseteq FlowNames
    OBVIOUS
  <2>3. \A k : Flow!kSubset(k, seeds) \subseteq SUBSET seeds
    BY DEF Flow!kSubset
  <2> HIDE DEF seeds
  <2> QED BY <2>1, <2>2, <2>3
<1> QED BY <1>1, <1>2, <1>3 DEF Flow!Seed

LEMMA BeginHopOK == ASSUME FlowInv, Flow!BeginHop PROVE FlowInv'
<1> USE DEF FlowInv
<1>1. /\ queried = "hop" /\ hop' = hop + 1 /\ nearby' = {} /\ Flow!Query("structural")
      /\ web' = web /\ ask' = ask /\ flowStages' = flowStages /\ reached' = reached /\ frontier' = frontier
  BY DEF Flow!BeginHop
<1>2. /\ rows' \subseteq Flow!RowsOf("structural", frontier, Len(flowStages) + 1)
      /\ queried' = "structural" /\ cut' \in BOOLEAN /\ (~cut' => ~cut)
      /\ ~cut' => rows' = Flow!RowsOf("structural", frontier, Len(flowStages) + 1)
  BY <1>1, QueryGives DEF Queried
<1>3. \A row \in rows' : row \in FlowRows /\ row.from \in frontier /\ Flow!Leads(row, row.sym) /\ row.kind \in Flow!Structural
  BY <1>2, RowsLead DEF FlowTypeOK, Queried
<1>4. hop \in Nat
  BY DEF FlowTypeOK
<1>5. FlowTypeOK'
  BY <1>1, <1>2, <1>3 DEF FlowTypeOK, Queried
<1>6. WalkOK'
  BY <1>1, <1>2, <1>4 DEF WalkOK, Walking, Queried
<1>7. GroundOK'
  <2>1. frontier \subseteq At(hop)
    BY <1>1 DEF GroundOK
  <2>3. frontier' \subseteq At(hop - 1)'
    BY <1>1, <1>4, <2>1 DEF At, LastStage
  <2>4. (Walking => Flow!Grounded(reached, LastStage))'
    BY <1>1 DEF GroundOK, Walking, LastStage, Flow!Grounded, Flow!Leads
  <2>5. (DOMAIN reached \cap Flow!Visited = {})'
    BY <1>1 DEF GroundOK, Flow!Visited
  <2>6. /\ \A k \in 2..Len(flowStages') : Flow!Grounded(flowStages[k], flowStages[k - 1])'
        /\ \A j, k \in DOMAIN flowStages' : j < k => DOMAIN flowStages'[j] \cap DOMAIN flowStages'[k] = {}
    BY <1>1 DEF GroundOK, Flow!Grounded, Flow!Leads
  <2>7. \A row \in rows' : Flow!Leads(row, row.sym)' /\ row.from \in frontier'
    BY <1>1, <1>3 DEF Flow!Leads
  <2> QED BY <1>1, <1>2, <1>3, <2>3, <2>4, <2>5, <2>6, <2>7 DEF GroundOK, Queried
<1>8. FirstOK'
  <2>1. Flow!StructuralFirst' /\ NearNow' = NearNow
    BY <1>1, <1>2, StagesStay DEF FirstOK
  <2>2. ASSUME ~cut', hop = 0 PROVE NearNow \subseteq {row.sym : row \in rows'} /\ DOMAIN reached = {}
    <3>1. frontier = DOMAIN LastStage /\ reached = <<>>
      BY <1>1, <2>2 DEF WalkOK
    <3>2. Len(flowStages) \in Nat /\ Len(flowStages) + 1 - 1 = Len(flowStages)
      BY DEF FlowTypeOK
    <3>3. NearNow \subseteq {row.sym : row \in Flow!RowsOf("structural", DOMAIN LastStage, Len(flowStages) + 1)}
      BY <3>2 DEF NearNow, Flow!Near, LastStage
    <3> QED BY <1>2, <2>2, <3>1, <3>3, EmptyStage
  <2>3. ASSUME ~cut', hop # 0 PROVE NearNow \subseteq DOMAIN reached
    BY <1>1, <1>2, <2>3 DEF FirstOK, Walking
  <2> QED BY <1>1, <1>2, <1>4, <2>1, <2>2, <2>3 DEF FirstOK, AllStructural
<1> QED BY <1>5, <1>6, <1>7, <1>8

LEMMA NextQueryOK == ASSUME FlowInv, Flow!NextQuery PROVE FlowInv'
<1> USE DEF FlowInv
<1>1. /\ rows = {}
      /\ UNCHANGED <<web, ask, flowStages, reached, frontier, nearby, hop>>
  BY DEF Flow!NextQuery
<1>2. PICK q \in {"CALLS", "HTTP_CALLS", "ASYNC_CALLS"} : Flow!Query(q) /\ queried \in Queried
  <2>1. PICK i \in 1..3 : queried = Flow!Steps[i] /\ Flow!Query(Flow!Steps[i + 1])
    BY DEF Flow!NextQuery
  <2>2. i \in {1, 2, 3}
    OBVIOUS
  <2> QED BY <2>1, <2>2 DEF Flow!Steps, Queried
<1>3. /\ rows' \subseteq Flow!RowsOf(q, frontier, Len(flowStages) + 1)
      /\ queried' = q /\ cut' \in BOOLEAN /\ (~cut' => ~cut)
  BY <1>2, QueryGives DEF Queried
<1>4. \A row \in rows' : row \in FlowRows /\ row.from \in frontier /\ Flow!Leads(row, row.sym)
  BY <1>3, RowsLead DEF FlowTypeOK, Queried
<1>5. FlowTypeOK'
  BY <1>1, <1>2, <1>3, <1>4 DEF FlowTypeOK, Queried
<1>6. WalkOK'
  BY <1>1, <1>2, <1>3 DEF WalkOK, Walking, Queried
<1>7. GroundOK'
  <2>1. /\ (Walking => Flow!Grounded(reached, LastStage))'
        /\ (DOMAIN reached \cap Flow!Visited = {})'
    BY <1>1, <1>2 DEF GroundOK, Walking, LastStage, Flow!Grounded, Flow!Leads, Queried, Flow!Visited
  <2>2. /\ \A k \in 2..Len(flowStages') : Flow!Grounded(flowStages[k], flowStages[k - 1])'
        /\ \A j, k \in DOMAIN flowStages' : j < k => DOMAIN flowStages'[j] \cap DOMAIN flowStages'[k] = {}
    BY <1>1 DEF GroundOK, Flow!Grounded, Flow!Leads
  <2>3. frontier' \subseteq At(hop - 1)' /\ nearby' \subseteq At(hop)'
    BY <1>1, <1>2 DEF GroundOK, At, LastStage
  <2>4. \A row \in rows' : Flow!Leads(row, row.sym)' /\ row.from \in frontier'
    BY <1>1, <1>4 DEF Flow!Leads
  <2> QED BY <1>1, <1>2, <1>3, <2>1, <2>2, <2>3, <2>4 DEF GroundOK, Queried
<1>8. FirstOK'
  <2>1. Flow!StructuralFirst' /\ NearNow' = NearNow
    BY <1>1, <1>3, StagesStay DEF FirstOK
  <2>2. ~cut => NearNow \subseteq DOMAIN reached
    BY <1>1, <1>2 DEF FirstOK, Walking, Queried
  <2> QED BY <1>1, <1>2, <1>3, <2>1, <2>2 DEF FirstOK
<1> QED BY <1>5, <1>6, <1>7, <1>8

LEMMA NextHopOK == ASSUME FlowInv, Flow!NextHop PROVE FlowInv'
<1> USE DEF FlowInv
<1>1. /\ rows = {} /\ queried \in Queried /\ frontier' = nearby /\ queried' = "hop"
      /\ UNCHANGED <<web, ask, flowStages, reached, nearby, hop, rows, cut>>
  BY DEF Flow!NextHop, Flow!QueriesEnd, Queried
<1>5. FlowTypeOK'
  BY <1>1 DEF FlowTypeOK, Queried
<1>6. WalkOK'
  BY <1>1 DEF WalkOK, Walking, Queried
<1>7. GroundOK'
  <2>1. /\ (Walking => Flow!Grounded(reached, LastStage))'
        /\ (DOMAIN reached \cap Flow!Visited = {})'
    BY <1>1 DEF GroundOK, Walking, LastStage, Flow!Grounded, Flow!Leads, Queried, Flow!Visited
  <2>2. /\ \A k \in 2..Len(flowStages') : Flow!Grounded(flowStages[k], flowStages[k - 1])'
        /\ \A j, k \in DOMAIN flowStages' : j < k => DOMAIN flowStages'[j] \cap DOMAIN flowStages'[k] = {}
    BY <1>1 DEF GroundOK, Flow!Grounded, Flow!Leads
  <2>3. frontier' \subseteq At(hop)'
    BY <1>1 DEF GroundOK, At, LastStage
  <2> QED BY <1>1, <2>1, <2>2, <2>3 DEF GroundOK, Queried
<1>8. FirstOK'
  <2>1. Flow!StructuralFirst' /\ NearNow' = NearNow
    BY <1>1, StagesStay DEF FirstOK
  <2>2. ~cut => NearNow \subseteq DOMAIN reached
    BY <1>1 DEF FirstOK, Walking, Queried
  <2> QED BY <1>1, <2>1, <2>2 DEF FirstOK
<1> QED BY <1>5, <1>6, <1>7, <1>8

\* What taking in a row makes of the stage.
LEMMA TakenAdds ==
    ASSUME FlowTypeOK, WalkOK, NEW row \in FlowRows, NEW T, T = Flow!Taken(row)
    PROVE  /\ T \in StageFns /\ IsFiniteSet(DOMAIN T)
           /\ DOMAIN reached \subseteq DOMAIN T /\ DOMAIN T \subseteq DOMAIN reached \cup {row.sym}
           /\ \A n \in DOMAIN reached : T[n][1] = reached[n][1]
           /\ \A n \in DOMAIN T : T[n] # <<>>
           /\ row.sym \in DOMAIN T \ DOMAIN reached =>
                T[row.sym][1] = [kind |-> row.kind, from |-> row.from, hop |-> hop] /\ row.sym \notin Flow!Visited
           /\ row.sym \in DOMAIN T \/ row.sym \in Flow!Visited \/ row.kind \notin Flow!Structural
<1> DEFINE n == row.sym
           via == [kind |-> row.kind, from |-> row.from, hop |-> hop]
           T1 == [m \in DOMAIN reached \cup {n} |-> IF m = n THEN <<via>> ELSE reached[m]]
           T2 == [reached EXCEPT ![n] = Append(@, via)]
<1>1. via \in Vias /\ n \in FlowNames
  BY DEF FlowTypeOK, FlowRows, Vias
<1>2. PICK S \in SUBSET FlowNames : reached \in [S -> Seq(Vias)]
  BY DEF FlowTypeOK, StageFns
<1>3. DOMAIN reached = S
  BY <1>2
<1>4. \A m \in S : reached[m] \in Seq(Vias) /\ reached[m] # <<>>
  BY <1>2, <1>3 DEF WalkOK
<1>5. IsFiniteSet(S)
  BY <1>3 DEF FlowTypeOK
<1>6. \/ Flow!Dropped(row) /\ T = reached
      \/ ~Flow!Dropped(row) /\ n \notin S /\ T = T1
      \/ ~Flow!Dropped(row) /\ n \in S /\ T \in {T2, reached}
  BY <1>3, Zenon DEF Flow!Taken
<1> HIDE DEF via
<1>7. CASE Flow!Dropped(row) /\ T = reached
  BY <1>7, <1>3, <1>4, <1>5 DEF FlowTypeOK, Flow!Dropped
<1>8. CASE ~Flow!Dropped(row) /\ n \notin S /\ T = T1
  <2>1. T \in [S \cup {n} -> Seq(Vias)]
    BY <1>8, <1>1, <1>3, <1>4
  <2>2. T \in StageFns /\ DOMAIN T = S \cup {n}
    BY <2>1, <1>1 DEF StageFns
  <2>3. IsFiniteSet(DOMAIN T)
    BY <2>2, <1>5, FS_AddElement
  <2>4. T[n] = <<via>> /\ \A m \in S : T[m] = reached[m]
    BY <1>8, <1>3
  <2>5. n \notin Flow!Visited
    BY <1>8 DEF Flow!Dropped
  <2> QED BY <2>2, <2>3, <2>4, <2>5, <1>3, <1>4 DEF via
<1>9. CASE ~Flow!Dropped(row) /\ n \in S /\ T \in {T2, reached}
  <2>1. CASE T = reached
    BY <2>1, <1>9, <1>3, <1>4, <1>5 DEF FlowTypeOK
  <2>2. CASE T = T2
    <3>1. Append(reached[n], via) \in Seq(Vias) /\ Append(reached[n], via) # <<>> /\ Append(reached[n], via)[1] = reached[n][1]
      BY <1>1, <1>4, <1>9
    <3>2. T \in [S -> Seq(Vias)] /\ T[n] = Append(reached[n], via) /\ \A m \in S : m # n => T[m] = reached[m]
      BY <2>2, <3>1, <1>2, <1>3, <1>9
    <3>3. T \in StageFns /\ DOMAIN T = S
      BY <3>2 DEF StageFns
    <3> QED BY <3>1, <3>2, <3>3, <1>3, <1>4, <1>5, <1>9
  <2> QED BY <1>9, <2>1, <2>2
<1> QED BY <1>6, <1>7, <1>8, <1>9

LEMMA IngestOK == ASSUME FlowInv, NEW row \in rows, Flow!Ingest(row) PROVE FlowInv'
<1> USE DEF FlowInv
<1> DEFINE T == Flow!Taken(row)
<1>0. /\ row \in FlowRows /\ queried \in Queried /\ hop \in Nat \ {0} /\ Walking
  BY DEF FlowTypeOK, WalkOK, Walking, Queried
<1>1. /\ reached' = T /\ nearby' = nearby \cup (DOMAIN T \ DOMAIN reached)
      /\ IF Cardinality(DOMAIN T) >= StageLimit THEN rows' = {} /\ queried' = "full"
         ELSE rows' = rows \ {row} /\ queried' = queried
      /\ web' = web /\ ask' = ask /\ flowStages' = flowStages /\ frontier' = frontier /\ hop' = hop /\ cut' = cut
  BY CardOfFlow DEF Flow!Ingest
<1>2. /\ T \in StageFns /\ IsFiniteSet(DOMAIN T)
      /\ DOMAIN reached \subseteq DOMAIN T /\ DOMAIN T \subseteq DOMAIN reached \cup {row.sym}
      /\ \A n \in DOMAIN reached : T[n][1] = reached[n][1]
      /\ \A n \in DOMAIN T : T[n] # <<>>
      /\ row.sym \in DOMAIN T \ DOMAIN reached =>
           T[row.sym][1] = [kind |-> row.kind, from |-> row.from, hop |-> hop] /\ row.sym \notin Flow!Visited
      /\ row.sym \in DOMAIN T \/ row.sym \in Flow!Visited \/ row.kind \notin Flow!Structural
  BY <1>0, TakenAdds
<1> HIDE DEF T
<1>5. FlowTypeOK'
  BY <1>0, <1>1, <1>2 DEF FlowTypeOK, Queried
<1>6. WalkOK'
  BY <1>0, <1>1, <1>2 DEF WalkOK, Walking, Queried
<1>7. GroundOK'
  <2>1. /\ \A k \in 2..Len(flowStages') : Flow!Grounded(flowStages[k], flowStages[k - 1])'
        /\ \A j, k \in DOMAIN flowStages' : j < k => DOMAIN flowStages'[j] \cap DOMAIN flowStages'[k] = {}
    BY <1>1 DEF GroundOK, Flow!Grounded, Flow!Leads
  <2>2. DOMAIN T \cap Flow!Visited = {}
    BY <1>2 DEF GroundOK
  <2>3. (DOMAIN reached \cap Flow!Visited = {})'
    BY <1>1, <2>2 DEF Flow!Visited
  <2>4. At(hop - 1) \subseteq At(hop - 1)' /\ At(hop) \subseteq At(hop)'
    BY <1>0, <1>1, <1>2 DEF At, LastStage
  <2>5. DOMAIN T \ DOMAIN reached \subseteq At(hop)'
    BY <1>0, <1>1, <1>2 DEF At
  <2>6. Flow!Grounded(T, LastStage)
    <3> SUFFICES ASSUME NEW n \in DOMAIN T
                 PROVE  /\ Flow!Leads(T[n][1], n)
                        /\ IF T[n][1].hop = 1 THEN T[n][1].from \in DOMAIN LastStage
                           ELSE T[n][1].from \in DOMAIN T /\ T[T[n][1].from][1].hop = T[n][1].hop - 1
      BY DEF Flow!Grounded
    <3>1. CASE n \in DOMAIN reached
      BY <3>1, <1>0, <1>2 DEF GroundOK, Flow!Grounded
    <3>2. CASE n \notin DOMAIN reached
      <4>1. n = row.sym /\ T[n][1] = [kind |-> row.kind, from |-> row.from, hop |-> hop]
        BY <3>2, <1>2
      <4>2. T[n][1].kind = row.kind /\ T[n][1].from = row.from /\ T[n][1].hop = hop
        BY <4>1
      <4>3. Flow!Leads(row, row.sym) /\ row.from \in At(hop - 1)
        BY <1>0 DEF GroundOK
      <4>4. Flow!Leads(T[n][1], n)
        BY <4>1, <4>2, <4>3 DEF Flow!Leads
      <4>5. CASE hop = 1
        BY <4>2, <4>3, <4>4, <4>5 DEF At
      <4>6. CASE hop # 1
        BY <4>2, <4>3, <4>4, <4>6, <1>0, <1>2 DEF At
      <4> QED BY <4>5, <4>6
    <3> QED BY <3>1, <3>2
  <2>7. (Walking => Flow!Grounded(reached, LastStage))'
    BY <1>1, <2>6 DEF Flow!Grounded, Flow!Leads, LastStage
  <2>8. queried' \in Queried =>
           /\ frontier' \subseteq At(hop - 1)' /\ nearby' \subseteq At(hop)'
           /\ \A r \in rows' : Flow!Leads(r, r.sym)' /\ r.from \in frontier'
           /\ queried' = "structural" => \A r \in rows' : r.kind \in Flow!Structural
    <3>1. /\ frontier \subseteq At(hop - 1) /\ nearby \subseteq At(hop)
          /\ \A r \in rows : Flow!Leads(r, r.sym) /\ r.from \in frontier
          /\ queried = "structural" => \A r \in rows : r.kind \in Flow!Structural
      BY <1>0 DEF GroundOK
    <3>2. rows' \subseteq rows /\ (queried' \in Queried => queried' = queried)
      BY <1>1 DEF Queried
    <3>3. \A r \in rows' : Flow!Leads(r, r.sym)' /\ r.from \in frontier'
      BY <1>1, <3>1, <3>2 DEF Flow!Leads
    <3> QED BY <1>1, <2>4, <2>5, <3>1, <3>2, <3>3
  <2>9. queried' # "hop"
    BY <1>0, <1>1 DEF Queried
  <2> QED BY <2>1, <2>3, <2>7, <2>8, <2>9 DEF GroundOK
<1>8. FirstOK'
  <2>1. Flow!StructuralFirst' /\ NearNow' = NearNow
    BY <1>1, StagesStay DEF FirstOK
  <2>2. queried' = "full" => Cardinality(DOMAIN T) >= StageLimit
    BY <1>0, <1>1 DEF Queried
  <2>3. ASSUME ~cut, queried = "structural", hop = 1
        PROVE  NearNow \subseteq DOMAIN T \cup {r.sym : r \in rows \ {row}} /\ \A n \in DOMAIN T : T[n][1].kind \in Flow!Structural
    <3>1. NearNow \subseteq DOMAIN reached \cup {r.sym : r \in rows} /\ \A n \in DOMAIN reached : reached[n][1].kind \in Flow!Structural
      BY <2>3, <1>0 DEF FirstOK, AllStructural
    <3>2. row.kind \in Flow!Structural
      BY <2>3 DEF GroundOK, Queried
    <3>3. row.sym \in DOMAIN T \/ row.sym \in Flow!Visited
      BY <3>2, <1>2
    <3>4. NearNow \cap Flow!Visited = {}
      <4>1. Len(flowStages) \in Nat /\ DOMAIN flowStages = 1..(Len(flowStages) + 1 - 1)
        BY DEF FlowTypeOK
      <4> QED BY <4>1 DEF NearNow, Flow!Near, Flow!Visited
    <3>5. \A n \in DOMAIN T : T[n][1].kind \in Flow!Structural
      BY <3>1, <3>2, <1>2
    <3> QED BY <3>1, <3>3, <3>4, <3>5, <1>2
  <2>4. ASSUME ~cut, ~(queried = "structural" /\ hop = 1) PROVE NearNow \subseteq DOMAIN T
    BY <2>4, <1>0, <1>2 DEF FirstOK, Queried
  <2>5. (~cut /\ Walking =>
          IF queried = "structural" /\ hop = 1
          THEN NearNow \subseteq DOMAIN reached \cup {r.sym : r \in rows} /\ AllStructural
          ELSE \/ queried = "hop" /\ hop = 0
               \/ NearNow \subseteq DOMAIN reached
               \/ queried = "full" /\ AllStructural)'
    <3>1. CASE queried' = "full"
      BY <3>1, <1>1, <2>1, <2>3, <2>4 DEF AllStructural
    <3>2. CASE queried' # "full"
      BY <3>2, <1>1, <2>1, <2>3, <2>4 DEF AllStructural
    <3> QED BY <3>1, <3>2
  <2> QED BY <1>1, <2>1, <2>2, <2>5 DEF FirstOK
<1> QED BY <1>5, <1>6, <1>7, <1>8

LEMMA EndStageOK == ASSUME FlowInv, Flow!EndStage PROVE FlowInv'
<1> USE DEF FlowInv
<1>0. /\ Walking /\ queried # "hop" /\ rows = {} /\ hop # 0 /\ flowStages # <<>>
      /\ queried = "full" \/ queried \in Queried
  BY DEF Flow!EndStage, Flow!QueriesEnd, WalkOK, Walking, Queried
<1>1. /\ frontier' = DOMAIN reached /\ reached' = <<>> /\ hop' = 0 /\ nearby' = {}
      /\ web' = web /\ ask' = ask /\ rows' = rows /\ cut' = cut
      /\ \/ reached = <<>> /\ queried' = "done" /\ flowStages' = flowStages
         \/ flowStages' = Append(flowStages, reached) /\ queried' \in {"done", "hop"}
  BY DEF Flow!EndStage
<1>2. reached' \in StageFns /\ DOMAIN reached' = {} /\ IsFiniteSet(DOMAIN reached')
  <2>1. reached' = <<>>
    BY <1>1
  <2> QED BY ONLY <2>1, EmptyStage
<1>3. CASE queried' = "done" /\ flowStages' = flowStages
  <2>1. FlowTypeOK' /\ WalkOK'
    BY <1>0, <1>1, <1>2, <1>3 DEF FlowTypeOK, WalkOK, Walking, Queried
  <2>2. GroundOK'
    BY <1>1, <1>2, <1>3 DEF GroundOK, Walking, Queried, Flow!Grounded, Flow!Leads, Flow!Visited
  <2>3. FirstOK'
    BY <1>1, <1>3, StagesStay DEF FirstOK, Walking
  <2> QED BY <2>1, <2>2, <2>3
<1>4. CASE flowStages' = Append(flowStages, reached) /\ queried' \in {"done", "hop"}
  <2> DEFINE N == Len(flowStages)
  <2>0. N \in Nat \ {0} /\ flowStages \in Seq(StageFns) /\ reached \in StageFns /\ DOMAIN flowStages = 1..N
    BY <1>0 DEF FlowTypeOK
  <2>1. /\ flowStages' \in Seq(StageFns) /\ Len(flowStages') = N + 1 /\ flowStages' # <<>> /\ DOMAIN flowStages' = 1..(N + 1)
        /\ flowStages'[N + 1] = reached /\ \A k \in 1..N : flowStages'[k] = flowStages[k]
    BY <1>4, <2>0
  <2> HIDE DEF N
  <2>2. LastStage = flowStages[N] /\ LastStage' = reached
    BY <2>1 DEF LastStage, N
  <2>3. FlowTypeOK'
    BY <1>0, <1>1, <1>2, <1>4, <2>1 DEF FlowTypeOK, Queried
  <2>4. WalkOK'
    BY <1>0, <1>1, <1>2, <1>4, <2>1, <2>2 DEF WalkOK, Walking, Queried
  <2>5. GroundOK'
    <3>1. ASSUME NEW k \in 2..(N + 1) PROVE Flow!Grounded(flowStages'[k], flowStages'[k - 1])
      <4>1. CASE k = N + 1
        BY <4>1, <1>0, <2>0, <2>1, <2>2 DEF GroundOK
      <4>2. CASE k # N + 1
        <5>1. k \in 2..N /\ k - 1 \in 1..N /\ k \in 1..N
          BY <4>2, <2>0
        <5> QED BY <5>1, <2>1 DEF GroundOK, N
      <4> QED BY <4>1, <4>2
    <3>2. \A k \in 2..Len(flowStages') : Flow!Grounded(flowStages[k], flowStages[k - 1])'
      BY <3>1, <1>1, <2>1 DEF Flow!Grounded, Flow!Leads
    <3>3. ASSUME NEW j \in 1..(N + 1), NEW k \in 1..(N + 1), j < k PROVE DOMAIN flowStages'[j] \cap DOMAIN flowStages'[k] = {}
      <4>1. CASE k = N + 1
        <5>1. j \in 1..N /\ flowStages'[j] = flowStages[j] /\ flowStages'[k] = reached
          BY <4>1, <3>3, <2>0, <2>1
        <5>2. DOMAIN flowStages[j] \subseteq Flow!Visited
          BY <5>1, <2>0 DEF Flow!Visited
        <5> QED BY <5>1, <5>2 DEF GroundOK
      <4>2. CASE k # N + 1
        <5>1. j \in 1..N /\ k \in 1..N
          BY <4>2, <3>3, <2>0
        <5> QED BY <5>1, <3>3, <2>0, <2>1 DEF GroundOK
      <4> QED BY <4>1, <4>2
    <3>4. (Walking => Flow!Grounded(reached, LastStage))' /\ (DOMAIN reached \cap Flow!Visited = {})'
      BY <1>2 DEF Flow!Grounded
    <3>5. queried' = "hop" => frontier' \subseteq At(hop)'
      BY <1>1, <2>2 DEF At
    <3> QED BY <1>4, <2>1, <3>2, <3>3, <3>4, <3>5 DEF GroundOK, Queried
  <2>6. FirstOK'
    <3>1. ASSUME NEW k \in 2..(N + 1) PROVE Flow!Near(k)' = Flow!Near(k)
      <4>1. k \in Nat /\ k - 1 \in 1..N /\ \A j \in 1..(k - 1) : j \in 1..N
        BY <2>0
      <4>2. flowStages'[k - 1] = flowStages[k - 1] /\ \A j \in 1..(k - 1) : flowStages'[j] = flowStages[j]
        BY <4>1, <2>1
      <4> QED BY <4>1, <4>2, <1>1, NearStays
    <3>2. ASSUME ~cut, NEW k \in 2..(N + 1),
                 \/ Cardinality(DOMAIN flowStages'[k]) < StageLimit
                 \/ \E n \in DOMAIN flowStages'[k] : flowStages'[k][n][1].kind \notin Flow!Structural
          PROVE  Flow!Near(k) \subseteq DOMAIN flowStages'[k]
      <4>1. CASE k = N + 1
        <5>1. flowStages'[k] = reached
          BY <4>1, <2>1
        <5>2. ~(queried = "full" /\ AllStructural)
          <6>1. Cardinality(DOMAIN reached) \in Nat /\ StageLimit \in Nat
            BY FlowAssumption, FS_CardinalityType DEF FlowTypeOK
          <6>2. queried = "full" => Cardinality(DOMAIN reached) >= StageLimit
            BY DEF FirstOK
          <6> QED BY <6>1, <6>2, <5>1, <3>2 DEF AllStructural
        <5>3. NearNow \subseteq DOMAIN reached
          BY <3>2, <5>2, <1>0 DEF FirstOK
        <5> QED BY <5>1, <5>3, <4>1 DEF NearNow, N
      <4>2. CASE k # N + 1
        <5>1. k \in 2..N /\ flowStages'[k] = flowStages[k]
          BY <4>2, <2>0, <2>1
        <5> QED BY <5>1, <3>2, CardOfFlow DEF FirstOK, Flow!StructuralFirst, N
      <4> QED BY <4>1, <4>2
    <3>3. Flow!StructuralFirst'
      BY <3>1, <3>2, <1>1, <2>1, CardOfFlow DEF Flow!StructuralFirst, Flow!Structural
    <3> QED BY <3>3, <1>1, <1>4 DEF FirstOK, Walking
  <2> QED BY <2>3, <2>4, <2>5, <2>6
<1> QED BY <1>1, <1>3, <1>4

LEMMA FlowSteps == FlowInv /\ [Flow!Next]_(Flow!vars) => FlowInv'
<1> SUFFICES ASSUME FlowInv, [Flow!Next]_(Flow!vars) PROVE FlowInv'
  OBVIOUS
<1>1. CASE Flow!Next
  BY <1>1, SeedOK, BeginHopOK, NextQueryOK, IngestOK, NextHopOK, EndStageOK DEF Flow!Next
<1>2. CASE UNCHANGED Flow!vars
  <2>1. UNCHANGED <<web, ask, flowStages, reached, frontier, nearby, hop, queried, rows, cut>>
    BY <1>2 DEF Flow!vars
  <2>2. FlowTypeOK' /\ WalkOK'
    BY <2>1 DEF FlowInv, FlowTypeOK, WalkOK, Walking, Queried, LastStage
  <2>3. GroundOK'
    BY <2>1 DEF FlowInv, GroundOK, Walking, LastStage, Flow!Grounded, Flow!Leads, Flow!Visited, At, Queried
  <2>4. FirstOK'
    BY <2>1, StagesStay DEF FlowInv, FirstOK, Walking, AllStructural
  <2> QED BY <2>2, <2>3, <2>4 DEF FlowInv
<1> QED BY <1>1, <1>2

\* Whatever the graph, the question and the order in which the database answers: what a
\* stage of a traced flow holds is led to by an edge from the stage before or from the hop before, no type
\* is in two stages, and calls only fill up what the structural edges leave.
THEOREM FlowStaysGrounded == Flow!Spec => []FlowIsGrounded
<1>1. FlowInv => FlowIsGrounded
  <2> SUFFICES ASSUME FlowInv PROVE FlowIsGrounded
    OBVIOUS
  <2> DEFINE N == Len(flowStages)
  <2>0. N \in Nat /\ flowStages \in Seq(StageFns) /\ reached \in StageFns /\ DOMAIN flowStages = 1..N
    BY DEF FlowInv, FlowTypeOK
  <2>1. CASE reached = <<>>
    BY <2>0, <2>1 DEF FlowInv, GroundOK, FirstOK, FlowIsGrounded, Flow!FlowIsGrounded, Flow!StagesAreGrounded, Flow!All
  <2>2. CASE reached # <<>>
    <3> DEFINE A == Append(flowStages, reached)
    <3>1. Flow!All = A
      BY <2>2 DEF Flow!All
    <3>2. Walking /\ flowStages # <<>>
      BY <2>2 DEF FlowInv, WalkOK
    <3>3. N # 0 /\ LastStage = flowStages[N] /\ Len(A) = N + 1 /\ DOMAIN A = 1..(N + 1) /\ A[N + 1] = reached /\ \A k \in 1..N : A[k] = flowStages[k]
      BY <2>0, <3>2 DEF LastStage
    <3> HIDE DEF A, N
    <3>4. ASSUME NEW k \in 2..(N + 1) PROVE Flow!Grounded(A[k], A[k - 1])
      <4>1. CASE k = N + 1
        BY <4>1, <2>0, <3>2, <3>3 DEF FlowInv, GroundOK
      <4>2. CASE k # N + 1
        <5>1. k \in 2..N /\ k - 1 \in 1..N /\ k \in 1..N
          BY <4>2, <2>0
        <5> QED BY <5>1, <3>3 DEF FlowInv, GroundOK, N
      <4> QED BY <4>1, <4>2
    <3>5. ASSUME NEW j \in 1..(N + 1), NEW k \in 1..(N + 1), j < k PROVE DOMAIN A[j] \cap DOMAIN A[k] = {}
      <4>1. CASE k = N + 1
        <5>1. j \in 1..N /\ A[j] = flowStages[j] /\ A[k] = reached
          BY <4>1, <3>5, <2>0, <3>3
        <5>2. DOMAIN flowStages[j] \subseteq Flow!Visited
          BY <5>1, <2>0 DEF Flow!Visited
        <5> QED BY <5>1, <5>2 DEF FlowInv, GroundOK
      <4>2. CASE k # N + 1
        <5>1. j \in 1..N /\ k \in 1..N
          BY <4>2, <3>5, <2>0
        <5> QED BY <5>1, <3>5, <2>0, <3>3 DEF FlowInv, GroundOK
      <4> QED BY <4>1, <4>2
    <3> QED BY <3>1, <3>3, <3>4, <3>5 DEF FlowInv, FirstOK, FlowIsGrounded, Flow!FlowIsGrounded, Flow!StagesAreGrounded
  <2> QED BY <2>1, <2>2
<1> QED BY <1>1, FlowStarts, FlowSteps, PTL DEF Flow!Spec

----------------------------------------------------------------------------
(* The scoped rebuild. *)

\* Every type, method and edge is of the source, and ends at a node.
Sound(g, p) ==
    /\ \A f \in g.types : f \in Rebuild!Present(p)
    /\ \A m \in g.methods : \E f \in Rebuild!Present(p) : \E a \in p[f].methods : m = <<"method", f, a>>
    /\ \A e \in g.edges :
        /\ e.file \in Rebuild!Present(p)
        /\ e.row[1] \in {"CALLS", "UNRESOLVED_AT"} => e.row[2] \in p[e.file].calls
        /\ e.to[1] = "type" => \E f \in g.types : e.to = <<"type", f>>
        /\ e.to[1] = "method" => e.to \in g.methods

\* What the tables of a run over scope name is parsed, or a node of what is left, or a phantom.
TablesOK(t, left, scope, p) ==
    /\ t.source = p
    /\ \A fqn \in Rebuild!Known(t) : t.types[fqn] \in t.named /\ t.types[fqn].fqn = fqn
    /\ \A e \in t.named :
        \/ \E f \in scope \cap Rebuild!Present(p) : e = Rebuild!Entry(Rebuild!Declares(f), <<"type", f>>, TRUE)
        \/ \E f \in left.types \ scope : e = Rebuild!Entry(Rebuild!Declares(f), <<"type", f>>, FALSE)
        \/ \E fqn \in left.ghosts : e = Rebuild!Entry(fqn, <<"phantom", fqn>>, FALSE)
    /\ \A m \in t.members :
        \/ \E f \in scope \cap Rebuild!Present(p) : \E a \in p[f].methods :
              m = Rebuild!Member(Rebuild!Declares(f), <<"method", f, a>>, a)
        \/ \E n \in left.methods : m = Rebuild!Member(Rebuild!Declares(n[2]), n, 0) /\ n[2] \notin scope
        \/ \E fqn \in left.ghostMethods : m = Rebuild!Member(fqn, <<"phantomMethod", fqn>>, 0)

LEMMA TypesAreNamed ==
    ASSUME NEW parsed, NEW loaded, NEW members, NEW p, NEW t, t = Rebuild!Tables(parsed, loaded, members, p)
    PROVE  /\ t.source = p /\ t.members = members /\ t.named = parsed \cup loaded
           /\ Rebuild!Known(t) = {e.fqn : e \in parsed \cup loaded}
           /\ \A fqn \in Rebuild!Known(t) :
                /\ t.types[fqn] \in t.named /\ t.types[fqn].fqn = fqn
                /\ (\A e \in loaded : e.fqn # fqn) => t.types[fqn] \in parsed
                /\ (\E e \in loaded : e.fqn = fqn) => t.types[fqn] \in loaded
                /\ (\E e \in loaded : e.fqn = fqn /\ e.node[1] = "phantom") => t.types[fqn].node[1] = "phantom"
<1> DEFINE all == parsed \cup loaded
           ghost(fqn) == \E e \in loaded : e.fqn = fqn /\ e.node[1] = "phantom"
           ty == [fqn \in {e.fqn : e \in all} |->
                        IF \E e \in loaded : e.fqn = fqn
                        THEN IF ghost(fqn)
                             THEN CHOOSE e \in loaded : e.fqn = fqn /\ e.node[1] = "phantom"
                             ELSE CHOOSE e \in loaded : e.fqn = fqn
                        ELSE CHOOSE e \in parsed : e.fqn = fqn]
<1>1. t.types = ty /\ t.source = p /\ t.members = members /\ t.named = all
  BY DEF Rebuild!Tables
<1>2. DOMAIN ty = {e.fqn : e \in all}
  OBVIOUS
<1>3. ASSUME NEW fqn \in {e.fqn : e \in all}
      PROVE  /\ ty[fqn] \in all /\ ty[fqn].fqn = fqn
             /\ (\A e \in loaded : e.fqn # fqn) => ty[fqn] \in parsed
             /\ (\E e \in loaded : e.fqn = fqn) => ty[fqn] \in loaded
             /\ ghost(fqn) => ty[fqn].node[1] = "phantom"
  <2>1. CASE ghost(fqn)
    <3>1. ty[fqn] = CHOOSE e \in loaded : e.fqn = fqn /\ e.node[1] = "phantom"
      BY <2>1
    <3> QED BY <3>1, <2>1
  <2>2. CASE ~ghost(fqn) /\ \E e \in loaded : e.fqn = fqn
    <3>1. ty[fqn] = CHOOSE e \in loaded : e.fqn = fqn
      BY <2>2
    <3> QED BY <3>1, <2>2
  <2>3. CASE ~ \E e \in loaded : e.fqn = fqn
    <3>1. ty[fqn] = CHOOSE e \in parsed : e.fqn = fqn
      BY <2>3
    <3>2. \E e \in parsed : e.fqn = fqn
      BY <2>3
    <3> QED BY <3>1, <3>2, <2>3
  <2> QED BY <2>1, <2>2, <2>3
<1> HIDE DEF ty
<1> QED BY <1>1, <1>2, <1>3 DEF Rebuild!Known

\* A run over everything, and one over a scope, have such tables.
LEMMA FullTablesOK == ASSUME NEW p PROVE TablesOK(Rebuild!FullTables(p), Rebuild!Empty, JavaFiles, p)
<1> DEFINE t == Rebuild!FullTables(p)
<1>1. t = Rebuild!Tables(Rebuild!Parsed(p, JavaFiles), {}, Rebuild!ParsedMembers(p, JavaFiles), p)
  BY DEF Rebuild!FullTables
<1> HIDE DEF t
<1> DEFINE parsed == Rebuild!Parsed(p, JavaFiles)
<1> HIDE DEF parsed
<1>3. t = Rebuild!Tables(parsed, {}, Rebuild!ParsedMembers(p, JavaFiles), p)
  BY <1>1 DEF parsed
<1>4. parsed \cup {} = parsed
  OBVIOUS
<1>2. /\ t.source = p /\ t.members = Rebuild!ParsedMembers(p, JavaFiles) /\ t.named = parsed
      /\ \A fqn \in Rebuild!Known(t) : t.types[fqn] \in t.named /\ t.types[fqn].fqn = fqn
  <2> DEFINE none == {}  members == Rebuild!ParsedMembers(p, JavaFiles)
  <2> HIDE DEF none, members
  <2>0. t = Rebuild!Tables(parsed, none, members, p)
    BY <1>3 DEF none, members
  <2>1. /\ t.source = p /\ t.members = members /\ t.named = parsed \cup none
        /\ \A fqn \in Rebuild!Known(t) : t.types[fqn] \in t.named /\ t.types[fqn].fqn = fqn
    BY <2>0, TypesAreNamed
  <2> QED BY <2>1, <1>4 DEF none, members
<1> QED BY <1>2 DEF TablesOK, Rebuild!Parsed, Rebuild!ParsedMembers, t, parsed

LEMMA ScopedTablesOK ==
    ASSUME NEW p, NEW g, NEW scope PROVE TablesOK(Rebuild!ScopedTables(p, g, scope), g, scope, p)
<1> DEFINE t == Rebuild!ScopedTables(p, g, scope)
           loaded == Rebuild!LoadExistingTypes(g, scope)
           stubs == Rebuild!LoadExistingMembers(g, scope)
           parsed == Rebuild!Parsed(p, scope)
           members == Rebuild!ParsedMembers(p, scope)
<1>1. t = Rebuild!Tables(parsed, loaded, members \cup stubs, p)
  BY DEF Rebuild!ScopedTables
<1>2. \A e \in parsed : \E f \in scope \cap Rebuild!Present(p) : e = Rebuild!Entry(Rebuild!Declares(f), <<"type", f>>, TRUE)
  BY DEF Rebuild!Parsed
<1>3. \A e \in loaded : \/ \E f \in g.types \ scope : e = Rebuild!Entry(Rebuild!Declares(f), <<"type", f>>, FALSE)
                        \/ \E fqn \in g.ghosts : e = Rebuild!Entry(fqn, <<"phantom", fqn>>, FALSE)
  BY DEF Rebuild!LoadExistingTypes
<1>4. \A m \in members : \E f \in scope \cap Rebuild!Present(p) : \E a \in p[f].methods :
              m = Rebuild!Member(Rebuild!Declares(f), <<"method", f, a>>, a)
  BY DEF Rebuild!ParsedMembers
<1>5. \A m \in stubs : \/ \E n \in g.methods : m = Rebuild!Member(Rebuild!Declares(n[2]), n, 0) /\ n[2] \notin scope
                       \/ \E fqn \in g.ghostMethods : m = Rebuild!Member(fqn, <<"phantomMethod", fqn>>, 0)
  BY DEF Rebuild!LoadExistingMembers
<1> HIDE DEF t, parsed, loaded, members, stubs
<1>6. /\ t.source = p /\ t.members = members \cup stubs /\ t.named = parsed \cup loaded
      /\ \A fqn \in Rebuild!Known(t) : t.types[fqn] \in t.named /\ t.types[fqn].fqn = fqn
  BY <1>1, TypesAreNamed
<1> QED BY <1>2, <1>3, <1>4, <1>5, <1>6 DEF TablesOK, t

USE DEF Rebuild!Entry, Rebuild!Member, Rebuild!Edge

\* What is written over a sound rest is sound.
LEMMA WrittenIsSound ==
    ASSUME NEW t, NEW left, NEW scope \in SUBSET JavaFiles, NEW p,
           TablesOK(t, left, scope, p), Sound(left, p)
    PROVE  Sound(Rebuild!Written(t, left, scope, p), p)
<1> DEFINE P       == Rebuild!Present(p)
           rws     == Rebuild!ExtendsRows(t)
           calls   == UNION {UNION {Rebuild!CallEdges(t, rws, f, c) : c \in p[f].calls} : f \in scope \cap P}
           types   == left.types \cup Rebuild!Owners(t)
           methods == left.methods \cup UNION {{<<"method", f, a>> : a \in p[f].methods} : f \in scope \cap P}
           over    == Rebuild!OverridesRows(t, rws)
           decl    == {e \in Rebuild!DeclaresRows(p, scope) : <<"type", e.file>> \in {<<"type", f>> : f \in types}}
           g       == Rebuild!Written(t, left, scope, p)
           Fine(e) == /\ e.file \in P
                      /\ e.row[1] \in {"CALLS", "UNRESOLVED_AT"} => e.row[2] \in p[e.file].calls
                      /\ e.to[1] = "type" => \E f \in types : e.to = <<"type", f>>
                      /\ e.to[1] = "method" => e.to \in methods
<1>0. /\ g.types = types /\ g.methods = methods
      /\ g.edges = left.edges \cup rws \cup calls \cup over \cup decl
  BY DEF Rebuild!Written
<1> HIDE DEF g
<1>1. /\ t.source = p
      /\ \A fqn \in Rebuild!Known(t) : t.types[fqn] \in t.named /\ t.types[fqn].fqn = fqn
      /\ \A e \in t.named :
        \/ \E f \in scope \cap P : e = Rebuild!Entry(Rebuild!Declares(f), <<"type", f>>, TRUE)
        \/ \E f \in left.types \ scope : e = Rebuild!Entry(Rebuild!Declares(f), <<"type", f>>, FALSE)
        \/ \E fqn \in left.ghosts : e = Rebuild!Entry(fqn, <<"phantom", fqn>>, FALSE)
      /\ \A m \in t.members :
        \/ \E f \in scope \cap P : \E a \in p[f].methods :
              m = Rebuild!Member(Rebuild!Declares(f), <<"method", f, a>>, a)
        \/ \E n \in left.methods : m = Rebuild!Member(Rebuild!Declares(n[2]), n, 0) /\ n[2] \notin scope
        \/ \E fqn \in left.ghostMethods : m = Rebuild!Member(fqn, <<"phantomMethod", fqn>>, 0)
  BY DEF TablesOK
<1>2. Rebuild!Owners(t) \subseteq P
  BY <1>1 DEF Rebuild!Owners, Rebuild!Present
<1>3. \A f \in types : f \in P
  BY <1>2 DEF Sound
<1>4. \A m \in methods : \E f \in P : \E a \in p[f].methods : m = <<"method", f, a>>
  BY DEF Sound
<1>5. \A m \in t.members : m.node[1] = "method" => m.node \in methods
  <2> SUFFICES ASSUME NEW m \in t.members, m.node[1] = "method" PROVE m.node \in methods
    OBVIOUS
  <2>1. CASE \E f \in scope \cap P : \E a \in p[f].methods : m = Rebuild!Member(Rebuild!Declares(f), <<"method", f, a>>, a)
    BY <2>1
  <2>2. CASE \E n \in left.methods : m = Rebuild!Member(Rebuild!Declares(n[2]), n, 0)
    BY <2>2
  <2>3. CASE \E fqn \in left.ghostMethods : m = Rebuild!Member(fqn, <<"phantomMethod", fqn>>, 0)
    BY <2>3
  <2> QED BY <1>1, <2>1, <2>2, <2>3
<1>6. \A fqn \in Rebuild!Known(t) : t.types[fqn].node[1] = "type" => \E f \in types : t.types[fqn].node = <<"type", f>>
  <2> SUFFICES ASSUME NEW fqn \in Rebuild!Known(t), t.types[fqn].node[1] = "type"
               PROVE  \E f \in types : t.types[fqn].node = <<"type", f>>
    OBVIOUS
  <2> DEFINE e == t.types[fqn]
  <2>1. CASE \E f \in scope \cap P : e = Rebuild!Entry(Rebuild!Declares(f), <<"type", f>>, TRUE)
    <3>1. PICK f \in scope \cap P : e = Rebuild!Entry(Rebuild!Declares(f), <<"type", f>>, TRUE)
      BY <2>1
    <3>2. Rebuild!Declares(f) = fqn
      BY <3>1, <1>1
    <3>3. f \in Rebuild!Owners(t)
      BY <3>1, <3>2, <1>1 DEF Rebuild!Owners, Rebuild!Present
    <3> QED BY <3>1, <3>3
  <2>2. CASE \E f \in left.types : e = Rebuild!Entry(Rebuild!Declares(f), <<"type", f>>, FALSE)
    BY <2>2
  <2>3. CASE \E x \in left.ghosts : e = Rebuild!Entry(x, <<"phantom", x>>, FALSE)
    BY <2>3
  <2> QED BY <1>1, <2>1, <2>2, <2>3
<1>7. \A r \in rws : Fine(r)
  <2> SUFFICES ASSUME NEW f \in Rebuild!Owners(t), NEW r, r = Rebuild!ExtendsEdge(t, f) PROVE Fine(r)
    BY DEF Rebuild!ExtendsRows
  <2> DEFINE found == Rebuild!ResolveSimple(t, f, t.source[f].super)
             fqn == CHOOSE fqn \in found : TRUE
             guess == Rebuild!Guess(t, f, t.source[f].super)
  <2>1. \/ found # {} /\ r = Rebuild!Edge("EXTENDS", f, fqn, t.types[fqn].node, TRUE)
        \/ r = Rebuild!Edge("EXTENDS", f, guess, <<"phantom", guess>>, FALSE)
    BY DEF Rebuild!ExtendsEdge
  <2>2. found \subseteq Rebuild!Known(t)
    BY DEF Rebuild!ResolveSimple
  <2> HIDE DEF found, guess
  <2>3. found # {} => fqn \in Rebuild!Known(t)
    BY <2>2
  <2> HIDE DEF fqn, types, methods
  <2>4. f \in P
    BY <1>2
  <2>5. CASE r = Rebuild!Edge("EXTENDS", f, guess, <<"phantom", guess>>, FALSE)
    BY <2>5, <2>4
  <2>6. CASE found # {} /\ r = Rebuild!Edge("EXTENDS", f, fqn, t.types[fqn].node, TRUE)
    <3>1. r.file = f /\ r.row[1] = "EXTENDS" /\ r.to = t.types[fqn].node
      BY <2>6
    <3>2. \/ \E x \in scope \cap P : t.types[fqn].node = <<"type", x>>
          \/ \E x \in left.types : t.types[fqn].node = <<"type", x>>
          \/ \E x \in left.ghosts : t.types[fqn].node = <<"phantom", x>>
      BY <2>3, <2>6, <1>1
    <3>3. t.types[fqn].node[1] # "method"
      BY <3>2
    <3> QED BY <3>1, <3>3, <1>6, <2>3, <2>4, <2>6
  <2> QED BY <2>1, <2>5, <2>6
<1>8. \A e \in calls : Fine(e)
  <2> SUFFICES ASSUME NEW f \in scope \cap P, NEW c \in p[f].calls, NEW e \in Rebuild!CallEdges(t, rws, f, c) PROVE Fine(e)
    OBVIOUS
  <2> DEFINE fqn == CHOOSE fqn \in Rebuild!Receiver(t, f, c) : TRUE
             found == Rebuild!Candidates(t, rws, fqn, c.args)
  <2>1. \/ e = Rebuild!Edge("UNRESOLVED_AT", f, c, <<"site">>, FALSE)
        \/ e = Rebuild!Edge("CALLS", f, c, <<"phantomMethod", fqn>>, FALSE)
        \/ \E m \in found : e = Rebuild!Edge("CALLS", f, c, m.node, TRUE)
    BY DEF Rebuild!CallEdges
  <2>2. found \subseteq t.members
    BY DEF Rebuild!Candidates
  <2> HIDE DEF found, fqn, types, methods
  <2>3. CASE \E m \in found : e = Rebuild!Edge("CALLS", f, c, m.node, TRUE)
    <3>1. PICK m \in t.members : e = Rebuild!Edge("CALLS", f, c, m.node, TRUE)
      BY <2>2, <2>3
    <3>2. m.node[1] # "type"
      <4>1. \/ \E x, a : m = Rebuild!Member(Rebuild!Declares(x), <<"method", x, a>>, a)
            \/ \E n \in left.methods : m = Rebuild!Member(Rebuild!Declares(n[2]), n, 0)
            \/ \E x : m = Rebuild!Member(x, <<"phantomMethod", x>>, 0)
        BY <1>1
      <4>2. \A n \in left.methods : n[1] # "type"
        BY DEF Sound
      <4> QED BY <4>1, <4>2
    <3> QED BY <3>1, <3>2, <1>5
  <2>4. CASE e = Rebuild!Edge("UNRESOLVED_AT", f, c, <<"site">>, FALSE)
    BY <2>4
  <2>5. CASE e = Rebuild!Edge("CALLS", f, c, <<"phantomMethod", fqn>>, FALSE)
    BY <2>5
  <2> QED BY <2>1, <2>3, <2>4, <2>5
<1>9. \A e \in over : Fine(e)
  <2> SUFFICES ASSUME NEW r \in rws, NEW m \in t.members, m.node[1] = "method",
                      NEW e, e = Rebuild!Edge("OVERRIDES", r.file, m.node[3], m.node, TRUE)
               PROVE  Fine(e)
    BY DEF Rebuild!OverridesRows
  <2> HIDE DEF types, methods
  <2> QED BY <1>5, <1>7
<1>10. \A e \in decl : Fine(e)
  <2> SUFFICES ASSUME NEW f \in scope \cap P, NEW a \in p[f].methods,
                      NEW e, e = Rebuild!Edge("DECLARES", f, a, <<"method", f, a>>, TRUE)
               PROVE  Fine(e)
    BY DEF Rebuild!DeclaresRows
  <2>1. <<"method", f, a>> \in methods
    OBVIOUS
  <2> HIDE DEF types, methods
  <2> QED BY <2>1
<1>11. \A e \in left.edges : Fine(e)
  BY DEF Sound
<1> HIDE DEF types, methods, rws, calls, over, decl, Fine
<1>12. \A e \in g.edges : Fine(e)
  BY <1>0, <1>7, <1>8, <1>9, <1>10, <1>11
<1>13. \A e \in g.edges :
          /\ e.file \in P
          /\ e.row[1] \in {"CALLS", "UNRESOLVED_AT"} => e.row[2] \in p[e.file].calls
          /\ e.to[1] = "type" => \E f \in g.types : e.to = <<"type", f>>
          /\ e.to[1] = "method" => e.to \in g.methods
  BY <1>0, <1>12 DEF Fine
<1>14. (\A f \in g.types : f \in P) /\ \A m \in g.methods : \E f \in P : \E a \in p[f].methods : m = <<"method", f, a>>
  BY <1>0, <1>3, <1>4
<1> HIDE DEF g
<1>15. Sound(g, p)
  BY <1>13, <1>14 DEF Sound
<1> QED BY <1>15 DEF g

LEMMA FullIsSound == ASSUME NEW p PROVE Sound(Rebuild!FullGraph(p), p)
<1>1. Sound(Rebuild!Empty, p)
  BY DEF Sound, Rebuild!Empty
<1> QED BY <1>1, FullTablesOK, WrittenIsSound DEF Rebuild!FullGraph

ChangedFrom(p, q) == {f \in JavaFiles : q[f] # p[f]}

\* What deleting the scope leaves is sound, in the old sources and the new.
LEMMA LeftIsSound ==
    ASSUME NEW g, NEW p, NEW q, Sound(g, p), NEW D
    PROVE  Sound(Rebuild!DeleteFileScope(g, ChangedFrom(p, q), D), q)
<1> DEFINE C == ChangedFrom(p, q)
           left == Rebuild!DeleteFileScope(g, C, D)
<1>1. /\ left.types = g.types \ C /\ left.methods = {m \in g.methods : m[2] \notin C}
      /\ left.edges = {e \in g.edges : e.file \notin C \cup D /\ e.to \notin Rebuild!NodesOf(C, g)}
      BY DEF Rebuild!DeleteFileScope
<1>2. \A f \in Rebuild!Present(p) : f \notin C => f \in Rebuild!Present(q) /\ q[f] = p[f]
  BY DEF Rebuild!Present, ChangedFrom
<1> HIDE DEF left, C
<1>3. \A f \in left.types : f \in Rebuild!Present(q)
  BY <1>1, <1>2 DEF Sound
<1>4. \A m \in left.methods : \E f \in Rebuild!Present(q) : \E a \in q[f].methods : m = <<"method", f, a>>
  <2> SUFFICES ASSUME NEW m \in g.methods, m[2] \notin C
               PROVE  \E f \in Rebuild!Present(q) : \E a \in q[f].methods : m = <<"method", f, a>>
    BY <1>1
  <2>1. PICK f \in Rebuild!Present(p) : \E a \in p[f].methods : m = <<"method", f, a>>
    BY DEF Sound
  <2>2. f \notin C
    BY <2>1
  <2> QED BY <2>1, <2>2, <1>2
<1>5. ASSUME NEW e \in left.edges
      PROVE  /\ e.file \in Rebuild!Present(q)
             /\ e.row[1] \in {"CALLS", "UNRESOLVED_AT"} => e.row[2] \in q[e.file].calls
             /\ e.to[1] = "type" => \E f \in left.types : e.to = <<"type", f>>
             /\ e.to[1] = "method" => e.to \in left.methods
  <2>1. e \in g.edges /\ e.file \notin C /\ e.to \notin Rebuild!NodesOf(C, g)
    BY <1>1
  <2>2. e.file \in Rebuild!Present(q) /\ q[e.file] = p[e.file]
    BY <2>1, <1>2 DEF Sound
  <2>3. e.row[1] \in {"CALLS", "UNRESOLVED_AT"} => e.row[2] \in q[e.file].calls
    BY <2>1, <2>2 DEF Sound
  <2>4. ASSUME e.to[1] = "type" PROVE \E f \in left.types : e.to = <<"type", f>>
    <3>1. PICK f \in g.types : e.to = <<"type", f>>
      BY <2>1, <2>4 DEF Sound
    <3>2. f \notin C
      BY <2>1, <3>1 DEF Rebuild!NodesOf
    <3> QED BY <3>1, <3>2, <1>1
  <2>5. ASSUME e.to[1] = "method" PROVE e.to \in left.methods
    <3>1. e.to \in g.methods
      BY <2>1, <2>5 DEF Sound
    <3>2. e.to[2] \notin C
      BY <2>1, <3>1 DEF Rebuild!NodesOf
    <3> QED BY <3>1, <3>2, <1>1
  <2> QED BY <2>2, <2>3, <2>4, <2>5
<1>6. Sound(left, q)
  BY <1>3, <1>4, <1>5 DEF Sound
<1> QED BY <1>6 DEF left, C

LEMMA ScopedIsSound ==
    ASSUME NEW g, NEW p, NEW q, Sound(g, p), g.types \subseteq JavaFiles, \A e \in g.edges : e.file \in JavaFiles
    PROVE  Sound(Rebuild!ScopedGraph(q, g, ChangedFrom(p, q)), q)
<1> DEFINE C == ChangedFrom(p, q)
           D == Rebuild!FindDependents(g, C)
           left == Rebuild!DeleteFileScope(g, C, D)
           t == Rebuild!ScopedTables(q, g, C \cup D)
<1>1. Rebuild!ScopedGraph(q, g, C) = Rebuild!Written(t, left, C \cup D, q)
  BY DEF Rebuild!ScopedGraph
<1>2. C \cup D \in SUBSET JavaFiles
  BY DEF ChangedFrom, Rebuild!FindDependents
<1>3. Sound(left, q)
  BY LeftIsSound
<1>4. /\ left.types = g.types \ C /\ left.methods = {m \in g.methods : m[2] \notin C}
      /\ left.ghosts = g.ghosts /\ left.ghostMethods = g.ghostMethods
  BY DEF Rebuild!DeleteFileScope
<1>5. TablesOK(t, g, C \cup D, q)
  BY ScopedTablesOK
<1> HIDE DEF left, t, C, D
<1>6. g.types \ (C \cup D) = left.types \ (C \cup D) /\ \A n \in g.methods : n[2] \notin C \cup D => n \in left.methods
  BY <1>4
<1>7. TablesOK(t, left, C \cup D, q)
  BY <1>4, <1>5, <1>6 DEF TablesOK
<1> QED BY <1>1, <1>2, <1>3, <1>7, WrittenIsSound DEF C

(* Same *)

\* The tables of a run whose syntax trees are those of scope, when the phantoms are none
\* of the declared: the types of the source p, its members, and the phantoms.
Tabled(t, p, scope, ghosts, ghostMethods) ==
    /\ t.source = p
    /\ Rebuild!Known(t) = {Rebuild!Declares(f) : f \in Rebuild!Present(p)} \cup ghosts
    /\ \A f \in Rebuild!Present(p) :
        /\ Rebuild!Declares(f) \notin ghosts
        /\ t.types[Rebuild!Declares(f)] \in t.named
        /\ t.types[Rebuild!Declares(f)].fqn = Rebuild!Declares(f)
        /\ t.types[Rebuild!Declares(f)].node = <<"type", f>>
        /\ (t.types[Rebuild!Declares(f)].parsed <=> f \in scope)
    /\ \A x \in ghosts : t.types[x].node[1] = "phantom"
    /\ \A e \in t.named : e.fqn \in ghosts \/ \E f \in Rebuild!Present(p) : e = t.types[Rebuild!Declares(f)]
    /\ \A m \in t.members :
        \/ \E f \in Rebuild!Present(p) : \E a \in p[f].methods : m = Rebuild!Member(Rebuild!Declares(f), <<"method", f, a>>, a)
        \/ \E x \in ghostMethods : m = Rebuild!Member(x, <<"phantomMethod", x>>, 0)
    /\ \A f \in Rebuild!Present(p) : \A a \in p[f].methods :
        Rebuild!Member(Rebuild!Declares(f), <<"method", f, a>>, a) \in t.members

\* Those of a run over everything.
AllTabled(u, p) == Tabled(u, p, JavaFiles, {}, {})

LEMMA DeclaresApart ==
    ASSUME NEW f \in JavaFiles, NEW h \in JavaFiles, Rebuild!Declares(f) = Rebuild!Declares(h) PROVE f = h
BY SourcesAssumption DEF Rebuild!Declares

LEMMA FullIsTabled == ASSUME NEW p PROVE AllTabled(Rebuild!FullTables(p), p)
<1> DEFINE t == Rebuild!FullTables(p)  P == Rebuild!Present(p)
           parsed == Rebuild!Parsed(p, JavaFiles)
           members == Rebuild!ParsedMembers(p, JavaFiles)
           none == {}
<1>0. \A f \in P : f \in JavaFiles
  BY DEF Rebuild!Present
<1>1. t = Rebuild!Tables(parsed, none, members, p)
  BY DEF Rebuild!FullTables
<1>2. parsed = {Rebuild!Entry(Rebuild!Declares(f), <<"type", f>>, TRUE) : f \in P}
  BY <1>0 DEF Rebuild!Parsed
<1>3. members = UNION {{Rebuild!Member(Rebuild!Declares(f), <<"method", f, a>>, a) : a \in p[f].methods} : f \in P}
  BY <1>0 DEF Rebuild!ParsedMembers
<1>4. parsed \cup none = parsed /\ \A e : e \notin none
  OBVIOUS
<1> HIDE DEF t, parsed, members, none
<1>5. /\ t.source = p /\ t.members = members /\ t.named = parsed
      /\ Rebuild!Known(t) = {e.fqn : e \in parsed}
      /\ \A fqn \in Rebuild!Known(t) : t.types[fqn] \in parsed /\ t.types[fqn].fqn = fqn
  <2> HIDE DEF P
  <2>1. /\ t.source = p /\ t.members = members /\ t.named = parsed \cup none
        /\ Rebuild!Known(t) = {e.fqn : e \in parsed \cup none}
        /\ \A fqn \in Rebuild!Known(t) : t.types[fqn] \in t.named /\ t.types[fqn].fqn = fqn
    BY <1>1, TypesAreNamed
  <2> QED BY <2>1, <1>4
<1>6. Rebuild!Known(t) = {Rebuild!Declares(f) : f \in P}
  <2> HIDE DEF P
  <2>1. \A e \in parsed : e.fqn \in {Rebuild!Declares(f) : f \in P}
    BY <1>2
  <2>2. ASSUME NEW f \in P PROVE \E e \in parsed : e.fqn = Rebuild!Declares(f)
    <3>1. Rebuild!Entry(Rebuild!Declares(f), <<"type", f>>, TRUE) \in parsed
      BY <1>2
    <3> QED BY <3>1
  <2> QED BY <2>1, <2>2, <1>5
<1>7. ASSUME NEW f \in P
      PROVE  t.types[Rebuild!Declares(f)] = Rebuild!Entry(Rebuild!Declares(f), <<"type", f>>, TRUE)
  <2>1. t.types[Rebuild!Declares(f)] \in parsed /\ t.types[Rebuild!Declares(f)].fqn = Rebuild!Declares(f)
    BY <1>5, <1>6
  <2>2. PICK h \in P : t.types[Rebuild!Declares(f)] = Rebuild!Entry(Rebuild!Declares(h), <<"type", h>>, TRUE)
    BY <2>1, <1>2
  <2>3. Rebuild!Declares(h) = Rebuild!Declares(f)
    BY <2>1, <2>2
  <2>4. h = f
    BY <2>3, <1>0, DeclaresApart
  <2> QED BY <2>2, <2>4
<1>8. \A e \in t.named : \E f \in P : e = t.types[Rebuild!Declares(f)]
  BY <1>2, <1>5, <1>7
<1>9. \A m \in t.members : \E f \in P : \E a \in p[f].methods : m = Rebuild!Member(Rebuild!Declares(f), <<"method", f, a>>, a)
  BY <1>3, <1>5
<1>10. \A f \in P : \A a \in p[f].methods : Rebuild!Member(Rebuild!Declares(f), <<"method", f, a>>, a) \in t.members
  BY <1>3, <1>5
<1>11. \A f \in P : /\ t.types[Rebuild!Declares(f)] \in t.named
                    /\ t.types[Rebuild!Declares(f)].fqn = Rebuild!Declares(f)
                    /\ t.types[Rebuild!Declares(f)].node = <<"type", f>>
                    /\ (t.types[Rebuild!Declares(f)].parsed <=> f \in JavaFiles)
  <2> SUFFICES ASSUME NEW f \in P
               PROVE  /\ t.types[Rebuild!Declares(f)] \in t.named
                      /\ t.types[Rebuild!Declares(f)].fqn = Rebuild!Declares(f)
                      /\ t.types[Rebuild!Declares(f)].node = <<"type", f>>
                      /\ (t.types[Rebuild!Declares(f)].parsed <=> f \in JavaFiles)
    OBVIOUS
  <2>1. t.types[Rebuild!Declares(f)] \in t.named
    BY <1>5, <1>6
  <2> DEFINE e == t.types[Rebuild!Declares(f)]
  <2>2. e = Rebuild!Entry(Rebuild!Declares(f), <<"type", f>>, TRUE) /\ f \in JavaFiles
    BY <1>7, <1>0
  <2> HIDE DEF P, e
  <2>3. e.fqn = Rebuild!Declares(f) /\ e.node = <<"type", f>>
    BY <2>2
  <2>4. e.parsed
    BY <2>2
  <2> QED BY <2>1, <2>2, <2>3, <2>4 DEF e
<1> HIDE DEF P
<1> QED BY <1>5, <1>6, <1>8, <1>9, <1>10, <1>11 DEF AllTabled, Tabled, t, P

LEMMA ScopedIsTabled ==
    ASSUME NEW p, NEW g, NEW scope \in SUBSET JavaFiles,
           g.types = Rebuild!Present(p),
           \A m \in g.methods : \E f \in Rebuild!Present(p) : \E a : m = <<"method", f, a>>,
           \A f \in Rebuild!Present(p) \ scope : \A a : <<"method", f, a>> \in g.methods <=> a \in p[f].methods,
           \A f \in Rebuild!Present(p) \ scope : p[f].methods \subseteq {0},
           \A f \in Rebuild!Present(p) : Rebuild!Declares(f) \notin g.ghosts
    PROVE  Tabled(Rebuild!ScopedTables(p, g, scope), p, scope, g.ghosts, g.ghostMethods)
<1> DEFINE t == Rebuild!ScopedTables(p, g, scope)  P == Rebuild!Present(p)
           loaded == Rebuild!LoadExistingTypes(g, scope)
           stubs == Rebuild!LoadExistingMembers(g, scope)
           parsed == Rebuild!Parsed(p, scope)
           members == Rebuild!ParsedMembers(p, scope)
<1>0. \A f \in P : f \in JavaFiles
  BY DEF Rebuild!Present
<1>1. t = Rebuild!Tables(parsed, loaded, members \cup stubs, p)
  BY DEF Rebuild!ScopedTables
<1>2. parsed = {Rebuild!Entry(Rebuild!Declares(f), <<"type", f>>, TRUE) : f \in scope \cap P}
  BY DEF Rebuild!Parsed
<1>3. loaded = {Rebuild!Entry(Rebuild!Declares(f), <<"type", f>>, FALSE) : f \in P \ scope}
                 \cup {Rebuild!Entry(x, <<"phantom", x>>, FALSE) : x \in g.ghosts}
  BY DEF Rebuild!LoadExistingTypes
<1>4. members = UNION {{Rebuild!Member(Rebuild!Declares(f), <<"method", f, a>>, a) : a \in p[f].methods} : f \in scope \cap P}
  BY DEF Rebuild!ParsedMembers
<1>5. stubs = {Rebuild!Member(Rebuild!Declares(m[2]), m, 0) : m \in {m \in g.methods : m[2] \notin scope}}
                \cup {Rebuild!Member(x, <<"phantomMethod", x>>, 0) : x \in g.ghostMethods}
  BY DEF Rebuild!LoadExistingMembers
<1> HIDE DEF t, parsed, loaded, members, stubs, P
<1>6. /\ t.source = p /\ t.members = members \cup stubs /\ t.named = parsed \cup loaded
      /\ Rebuild!Known(t) = {e.fqn : e \in parsed \cup loaded}
      /\ \A fqn \in Rebuild!Known(t) :
            /\ t.types[fqn] \in t.named /\ t.types[fqn].fqn = fqn
            /\ (\A e \in loaded : e.fqn # fqn) => t.types[fqn] \in parsed
            /\ (\E e \in loaded : e.fqn = fqn) => t.types[fqn] \in loaded
            /\ (\E e \in loaded : e.fqn = fqn /\ e.node[1] = "phantom") => t.types[fqn].node[1] = "phantom"
  BY <1>1, TypesAreNamed
<1>7. Rebuild!Known(t) = {Rebuild!Declares(f) : f \in P} \cup g.ghosts
  <2>1. ASSUME NEW e \in parsed \cup loaded PROVE e.fqn \in {Rebuild!Declares(f) : f \in P} \cup g.ghosts
    BY <1>2, <1>3
  <2>2. ASSUME NEW f \in P PROVE \E e \in parsed \cup loaded : e.fqn = Rebuild!Declares(f)
    <3>1. CASE f \in scope
      <4>1. Rebuild!Entry(Rebuild!Declares(f), <<"type", f>>, TRUE) \in parsed
        BY <3>1, <1>2
      <4> QED BY <4>1
    <3>2. CASE f \notin scope
      <4>1. Rebuild!Entry(Rebuild!Declares(f), <<"type", f>>, FALSE) \in loaded
        BY <3>2, <1>3
      <4> QED BY <4>1
    <3> QED BY <3>1, <3>2
  <2>3. ASSUME NEW x \in g.ghosts PROVE \E e \in parsed \cup loaded : e.fqn = x
    <3>1. Rebuild!Entry(x, <<"phantom", x>>, FALSE) \in loaded
      BY <1>3
    <3> QED BY <3>1
  <2> QED BY <2>1, <2>2, <2>3, <1>6
<1>8. ASSUME NEW f \in scope \cap P
      PROVE  t.types[Rebuild!Declares(f)] = Rebuild!Entry(Rebuild!Declares(f), <<"type", f>>, TRUE)
  <2>1. \A e \in loaded : e.fqn # Rebuild!Declares(f)
    <3> SUFFICES ASSUME NEW e \in loaded, e.fqn = Rebuild!Declares(f) PROVE FALSE
      OBVIOUS
    <3>1. CASE \E h \in P \ scope : e = Rebuild!Entry(Rebuild!Declares(h), <<"type", h>>, FALSE)
      <4>1. PICK h \in P \ scope : e = Rebuild!Entry(Rebuild!Declares(h), <<"type", h>>, FALSE)
        BY <3>1
      <4>2. Rebuild!Declares(h) = Rebuild!Declares(f)
        BY <4>1
      <4> QED BY <4>2, <1>0, DeclaresApart
    <3>2. CASE \E x \in g.ghosts : e = Rebuild!Entry(x, <<"phantom", x>>, FALSE)
      BY <3>2 DEF P
    <3> QED BY <1>3, <3>1, <3>2
  <2>2. t.types[Rebuild!Declares(f)] \in parsed /\ t.types[Rebuild!Declares(f)].fqn = Rebuild!Declares(f)
    BY <2>1, <1>6, <1>7
  <2>3. PICK h \in scope \cap P : t.types[Rebuild!Declares(f)] = Rebuild!Entry(Rebuild!Declares(h), <<"type", h>>, TRUE)
    BY <2>2, <1>2
  <2>4. Rebuild!Declares(h) = Rebuild!Declares(f)
    BY <2>2, <2>3
  <2>5. h = f
    BY <2>4, <1>0, DeclaresApart
  <2> QED BY <2>3, <2>5
<1>9. ASSUME NEW f \in P \ scope
      PROVE  t.types[Rebuild!Declares(f)] = Rebuild!Entry(Rebuild!Declares(f), <<"type", f>>, FALSE)
  <2>0. Rebuild!Entry(Rebuild!Declares(f), <<"type", f>>, FALSE) \in loaded
    BY <1>3
  <2>1. \E e \in loaded : e.fqn = Rebuild!Declares(f)
    BY <2>0
  <2>2. t.types[Rebuild!Declares(f)] \in loaded /\ t.types[Rebuild!Declares(f)].fqn = Rebuild!Declares(f)
    BY <2>1, <1>6, <1>7
  <2>3. Rebuild!Declares(f) \notin g.ghosts
    BY DEF P
  <2> DEFINE e == t.types[Rebuild!Declares(f)]
  <2>7. e \in loaded /\ e.fqn \notin g.ghosts
    BY <2>2, <2>3
  <2> HIDE DEF e
  <2>8. \A x \in g.ghosts : e # Rebuild!Entry(x, <<"phantom", x>>, FALSE)
    BY <2>7
  <2>9. \E h \in P \ scope : e = Rebuild!Entry(Rebuild!Declares(h), <<"type", h>>, FALSE)
    BY <2>7, <2>8, <1>3
  <2>4. PICK h \in P \ scope : t.types[Rebuild!Declares(f)] = Rebuild!Entry(Rebuild!Declares(h), <<"type", h>>, FALSE)
    BY <2>9 DEF e
  <2>5. Rebuild!Declares(h) = Rebuild!Declares(f)
    BY <2>2, <2>4
  <2>6. h = f
    BY <2>5, <1>0, DeclaresApart
  <2> QED BY <2>4, <2>6
<1>10. \A x \in g.ghosts : t.types[x].node[1] = "phantom"
  <2> SUFFICES ASSUME NEW x \in g.ghosts PROVE t.types[x].node[1] = "phantom"
    OBVIOUS
  <2>1. Rebuild!Entry(x, <<"phantom", x>>, FALSE) \in loaded
    BY <1>3
  <2>2. \E e \in loaded : e.fqn = x /\ e.node[1] = "phantom"
    BY <2>1
  <2> QED BY <2>2, <1>6, <1>7
<1>11. \A e \in t.named : e.fqn \in g.ghosts \/ \E f \in P : e = t.types[Rebuild!Declares(f)]
  <2> SUFFICES ASSUME NEW e \in parsed \cup loaded PROVE e.fqn \in g.ghosts \/ \E f \in P : e = t.types[Rebuild!Declares(f)]
    BY <1>6
  <2>1. CASE e \in parsed
    BY <2>1, <1>2, <1>8
  <2>2. CASE e \in loaded
    BY <2>2, <1>3, <1>9
  <2> QED BY <2>1, <2>2
<1>12. \A f \in P : /\ Rebuild!Declares(f) \notin g.ghosts
                    /\ t.types[Rebuild!Declares(f)] \in t.named
                    /\ t.types[Rebuild!Declares(f)].fqn = Rebuild!Declares(f)
                    /\ t.types[Rebuild!Declares(f)].node = <<"type", f>>
                    /\ (t.types[Rebuild!Declares(f)].parsed <=> f \in scope)
  <2> SUFFICES ASSUME NEW f \in P
               PROVE  /\ Rebuild!Declares(f) \notin g.ghosts
                      /\ t.types[Rebuild!Declares(f)] \in t.named
                      /\ t.types[Rebuild!Declares(f)].fqn = Rebuild!Declares(f)
                      /\ t.types[Rebuild!Declares(f)].node = <<"type", f>>
                      /\ (t.types[Rebuild!Declares(f)].parsed <=> f \in scope)
    OBVIOUS
  <2>0. Rebuild!Declares(f) \notin g.ghosts
    BY DEF P
  <2>1. t.types[Rebuild!Declares(f)] \in t.named
    BY <1>6, <1>7
  <2>2. CASE f \in scope
    <3> DEFINE e == t.types[Rebuild!Declares(f)]
    <3>1. e = Rebuild!Entry(Rebuild!Declares(f), <<"type", f>>, TRUE)
      BY <2>2, <1>8
    <3> HIDE DEF e
    <3>2. e.fqn = Rebuild!Declares(f) /\ e.node = <<"type", f>>
      BY <3>1
    <3>3. e.parsed
      BY <3>1
    <3> QED BY <3>2, <3>3, <2>0, <2>1, <2>2 DEF e
  <2>3. CASE f \notin scope
    <3> DEFINE e == t.types[Rebuild!Declares(f)]
    <3>1. e = Rebuild!Entry(Rebuild!Declares(f), <<"type", f>>, FALSE)
      BY <2>3, <1>9
    <3> HIDE DEF e
    <3>2. e.fqn = Rebuild!Declares(f) /\ e.node = <<"type", f>>
      BY <3>1
    <3>3. ~ e.parsed
      BY <3>1
    <3> QED BY <3>2, <3>3, <2>0, <2>1, <2>3 DEF e
  <2> QED BY <2>2, <2>3
<1>13. \A m \in t.members :
          \/ \E f \in P : \E a \in p[f].methods : m = Rebuild!Member(Rebuild!Declares(f), <<"method", f, a>>, a)
          \/ \E x \in g.ghostMethods : m = Rebuild!Member(x, <<"phantomMethod", x>>, 0)
  <2> SUFFICES ASSUME NEW m \in members \cup stubs
               PROVE  \/ \E f \in P : \E a \in p[f].methods : m = Rebuild!Member(Rebuild!Declares(f), <<"method", f, a>>, a)
                      \/ \E x \in g.ghostMethods : m = Rebuild!Member(x, <<"phantomMethod", x>>, 0)
    BY <1>6
  <2>1. CASE m \in members
    BY <2>1, <1>4
  <2>2. CASE \E n \in g.methods : n[2] \notin scope /\ m = Rebuild!Member(Rebuild!Declares(n[2]), n, 0)
    <3>1. PICK n \in g.methods : n[2] \notin scope /\ m = Rebuild!Member(Rebuild!Declares(n[2]), n, 0)
      BY <2>2
    <3>0. PICK f \in P : \E a : n = <<"method", f, a>>
      BY DEF P
    <3>2. PICK a : n = <<"method", f, a>>
      BY <3>0
    <3>3. n[2] = f
      BY <3>2
    <3>4. a \in p[f].methods
      BY <3>1, <3>2, <3>3 DEF P
    <3>5. a = 0
      BY <3>1, <3>3, <3>4 DEF P
    <3>6. m = Rebuild!Member(Rebuild!Declares(f), <<"method", f, a>>, a)
      BY <3>1, <3>2, <3>3, <3>5
    <3> QED BY <3>4, <3>6
  <2>3. CASE \E x \in g.ghostMethods : m = Rebuild!Member(x, <<"phantomMethod", x>>, 0)
    BY <2>3
  <2> QED BY <2>1, <2>2, <2>3, <1>5
<1>14. ASSUME NEW f \in P, NEW a \in p[f].methods
       PROVE  Rebuild!Member(Rebuild!Declares(f), <<"method", f, a>>, a) \in t.members
  <2>1. CASE f \in scope
    BY <2>1, <1>4, <1>6
  <2>2. CASE f \notin scope
    <3>1. <<"method", f, a>> \in g.methods /\ <<"method", f, a>>[2] = f /\ a = 0
      BY <2>2 DEF P
    <3> DEFINE n == <<"method", f, a>>
    <3>3. n \in g.methods /\ n[2] \notin scope /\ n[2] = f
      BY <3>1, <2>2
    <3> HIDE DEF n
    <3>4. Rebuild!Member(Rebuild!Declares(n[2]), n, 0) \in stubs
      BY <3>3, <1>5
    <3>2. Rebuild!Member(Rebuild!Declares(f), <<"method", f, a>>, 0) \in stubs
      BY <3>3, <3>4 DEF n
    <3> QED BY <3>1, <3>2, <1>6
  <2> QED BY <2>1, <2>2
<1> QED BY <1>6, <1>7, <1>10, <1>11, <1>12, <1>13, <1>14 DEF Tabled, t, P

Quiet(p, scope, ghosts, ghostMethods) ==
    /\ \A f \in Rebuild!Present(p) \ scope : p[f].super = None
    /\ \A x \in ghosts : \A f \in scope \cap Rebuild!Present(p) : x[2] \notin Rebuild!Mentions(p[f])
    /\ \A x \in ghostMethods : \A f \in scope \cap Rebuild!Present(p) :
            x[2] \notin Rebuild!Mentions(p[f]) /\ x[2] # NameOf[f]

\* The tables t of a run over scope, and those of one over everything.
Alike(t, u, p, scope, ghosts, ghostMethods) ==
    /\ scope \subseteq JavaFiles
    /\ Quiet(p, scope, ghosts, ghostMethods)
    /\ Tabled(t, p, scope, ghosts, ghostMethods)
    /\ AllTabled(u, p)

LEMMA OwnersAre ==
    ASSUME NEW t, NEW p, NEW scope, NEW ghosts, NEW ghostMethods, Tabled(t, p, scope, ghosts, ghostMethods)
    PROVE  Rebuild!Owners(t) = scope \cap Rebuild!Present(p)
<1>1. t.source = p /\ \A f \in Rebuild!Present(p) :
          /\ Rebuild!Declares(f) \in Rebuild!Known(t)
          /\ t.types[Rebuild!Declares(f)].node = <<"type", f>>
          /\ (t.types[Rebuild!Declares(f)].parsed <=> f \in scope)
  BY DEF AllTabled, Tabled
<1> QED BY <1>1 DEF Rebuild!Owners, Rebuild!Present

\* What a file mentions resolves alike where the types of that name are the same.
LEMMA ResolveAlike ==
    ASSUME NEW t, NEW u, NEW f, NEW name,
           t.source[f].imports = u.source[f].imports, t.source[f].wildcard = u.source[f].wildcard,
           \A x : x[2] = name => (x \in Rebuild!Known(t) <=> x \in Rebuild!Known(u))
    PROVE  /\ Rebuild!ResolveSimple(t, f, name) = Rebuild!ResolveSimple(u, f, name)
           /\ \A x \in Rebuild!ResolveSimple(t, f, name) : x[2] = name /\ x \in Rebuild!Known(t)
<1> DEFINE c == t.source[f]
           tries(v) == IF Rebuild!Imported(c, name) # {} THEN Rebuild!Imported(c, name)
                       ELSE IF <<PackageOf[f], name>> \in Rebuild!Known(v) THEN {<<PackageOf[f], name>>}
                       ELSE {<<c.wildcard, name>>}
<1>0. Rebuild!Imported(u.source[f], name) = Rebuild!Imported(c, name)
  BY DEF Rebuild!Imported
<1>1. Rebuild!ResolveSimple(t, f, name) = tries(t) \cap Rebuild!Known(t)
  BY DEF Rebuild!ResolveSimple
<1>2. Rebuild!ResolveSimple(u, f, name) = tries(u) \cap Rebuild!Known(u)
  BY <1>0 DEF Rebuild!ResolveSimple
<1>3. \A x \in Rebuild!Imported(c, name) : x[2] = name
  BY DEF Rebuild!Imported
<1>4. <<PackageOf[f], name>>[2] = name /\ <<c.wildcard, name>>[2] = name
  OBVIOUS
<1>5. <<PackageOf[f], name>> \in Rebuild!Known(t) <=> <<PackageOf[f], name>> \in Rebuild!Known(u)
  BY <1>4
<1>6. tries(t) = tries(u)
  BY <1>5
<1>7. \A x \in tries(t) : x[2] = name
  BY <1>3, <1>4
<1> HIDE DEF tries
<1> QED BY <1>1, <1>2, <1>6, <1>7

LEMMA KnownAlike ==
    ASSUME NEW t, NEW u, NEW p, NEW scope, NEW ghosts, NEW ghostMethods, Alike(t, u, p, scope, ghosts, ghostMethods),
           NEW f \in scope \cap Rebuild!Present(p), NEW x, x[2] \in Rebuild!Mentions(p[f])
    PROVE  (x \in Rebuild!Known(t) <=> x \in Rebuild!Known(u)) /\ x \notin ghosts
<1>1. Rebuild!Known(t) = Rebuild!Known(u) \cup ghosts
  BY DEF Alike, AllTabled, Tabled
<1>2. x \notin ghosts
  BY DEF Alike, Quiet
<1> QED BY <1>1, <1>2

\* Two tables that tell the same of what the file f extends.
AlikeAbove(t, u, f, name) ==
    /\ name = t.source[f].super /\ name = u.source[f].super
    /\ t.source[f].imports = u.source[f].imports /\ t.source[f].wildcard = u.source[f].wildcard
    /\ \A x : x[2] = name => (x \in Rebuild!Known(t) <=> x \in Rebuild!Known(u))
    /\ \A x \in Rebuild!Known(t) : x[2] = name => t.types[x].node = u.types[x].node

LEMMA ExtendsAlike ==
    ASSUME NEW t, NEW u, NEW f, NEW name, AlikeAbove(t, u, f, name)
    PROVE  /\ Rebuild!ExtendsEdge(t, f) = Rebuild!ExtendsEdge(u, f)
           /\ Rebuild!ExtendsEdge(t, f).file = f
           /\ Rebuild!ExtendsEdge(t, f).row[2][2] = name
<1> USE DEF AlikeAbove
<1> DEFINE R == Rebuild!ResolveSimple(t, f, name)
           x == CHOOSE x \in R : TRUE
           guess == Rebuild!Guess(t, f, name)
<1>1. /\ R = Rebuild!ResolveSimple(u, f, name)
      /\ \A y \in R : y[2] = name /\ y \in Rebuild!Known(t)
  BY ResolveAlike
<1>2. guess = Rebuild!Guess(u, f, name)
  <2>1. Rebuild!Imported(u.source[f], name) = Rebuild!Imported(t.source[f], name)
    BY DEF Rebuild!Imported
  <2> QED BY <2>1 DEF Rebuild!Guess
<1>3. guess[2] = name
  <2>1. CASE Rebuild!Imported(t.source[f], name) # {}
    <3>1. guess = CHOOSE y \in Rebuild!Imported(t.source[f], name) : TRUE
      BY <2>1 DEF Rebuild!Guess
    <3>2. guess \in Rebuild!Imported(t.source[f], name)
      BY <2>1, <3>1
    <3> QED BY <3>2 DEF Rebuild!Imported
  <2>2. CASE Rebuild!Imported(t.source[f], name) = {}
    <3> DEFINE w == IF t.source[f].wildcard # None THEN t.source[f].wildcard ELSE ""
    <3>1. guess = <<w, name>>
      BY <2>2 DEF Rebuild!Guess
    <3> HIDE DEF guess, w
    <3> QED BY <3>1
  <2> QED BY <2>1, <2>2
<1>4. CASE R # {}
  <2>1. x \in R
    BY <1>4
  <2>2. x[2] = name /\ t.types[x].node = u.types[x].node
    BY <2>1, <1>1
  <2>3. Rebuild!ExtendsEdge(t, f) = Rebuild!Edge("EXTENDS", f, x, t.types[x].node, TRUE)
    BY <1>4 DEF Rebuild!ExtendsEdge
  <2>4. Rebuild!ExtendsEdge(u, f) = Rebuild!Edge("EXTENDS", f, x, u.types[x].node, TRUE)
    BY <1>1, <1>4 DEF Rebuild!ExtendsEdge
  <2> HIDE DEF x
  <2> QED BY <2>2, <2>3, <2>4
<1>5. CASE R = {}
  <2>1. Rebuild!ExtendsEdge(t, f) = Rebuild!Edge("EXTENDS", f, guess, <<"phantom", guess>>, FALSE)
    BY <1>5 DEF Rebuild!ExtendsEdge
  <2>2. Rebuild!ExtendsEdge(u, f) = Rebuild!Edge("EXTENDS", f, guess, <<"phantom", guess>>, FALSE)
    BY <1>1, <1>2, <1>5 DEF Rebuild!ExtendsEdge
  <2> HIDE DEF guess
  <2> QED BY <2>1, <2>2, <1>3
<1> QED BY <1>4, <1>5

LEMMA RowsAlike ==
    ASSUME NEW t, NEW u, NEW p, NEW scope, NEW ghosts, NEW ghostMethods, Alike(t, u, p, scope, ghosts, ghostMethods)
    PROVE  /\ Rebuild!ExtendsRows(t) = Rebuild!ExtendsRows(u)
           /\ \A r \in Rebuild!ExtendsRows(t) :
                r.file \in scope \cap Rebuild!Present(p) /\ r.row[2][2] = p[r.file].super
<1> DEFINE P == Rebuild!Present(p)
<1>1. Rebuild!Owners(t) = scope \cap P /\ Rebuild!Owners(u) = P
  <2>1. \A f \in P : f \in JavaFiles
    BY DEF Rebuild!Present
  <2>2. Tabled(u, p, JavaFiles, {}, {}) /\ Tabled(t, p, scope, ghosts, ghostMethods)
    BY DEF Alike, AllTabled
  <2>3. Rebuild!Owners(u) = JavaFiles \cap P
    <3> DEFINE none == {}
    <3>1. Tabled(u, p, JavaFiles, none, none)
      BY <2>2
    <3> HIDE DEF none
    <3> QED BY <3>1, OwnersAre
  <2>4. Rebuild!Owners(t) = scope \cap P
    BY <2>2, OwnersAre
  <2> QED BY <2>1, <2>3, <2>4
<1>2. t.source = p /\ u.source = p
  BY DEF Alike, AllTabled, Tabled
<1> HIDE DEF P
<1>3. ASSUME NEW f \in scope \cap P
      PROVE  /\ Rebuild!ExtendsEdge(t, f) = Rebuild!ExtendsEdge(u, f)
             /\ Rebuild!ExtendsEdge(t, f).file = f
             /\ Rebuild!ExtendsEdge(t, f).row[2][2] = p[f].super
  <2> DEFINE name == p[f].super
  <2>1. name \in Rebuild!Mentions(p[f])
    BY DEF Rebuild!Mentions
  <2>2. \A x : x[2] = name => (x \in Rebuild!Known(t) <=> x \in Rebuild!Known(u)) /\ x \notin ghosts
    BY <2>1, KnownAlike DEF P
  <2>3. ASSUME NEW x \in Rebuild!Known(t), x[2] = name PROVE t.types[x].node = u.types[x].node
    <3>1. x \notin ghosts
      BY <2>2, <2>3
    <3>2. PICK h \in P : x = Rebuild!Declares(h)
      BY <3>1 DEF Alike, AllTabled, Tabled, P
    <3> QED BY <3>2 DEF Alike, AllTabled, Tabled, P
  <2> HIDE DEF name
  <2>4. /\ name = t.source[f].super /\ name = u.source[f].super
        /\ t.source[f].imports = u.source[f].imports /\ t.source[f].wildcard = u.source[f].wildcard
    BY <1>2 DEF name
  <2>5. (\A x : x[2] = name => (x \in Rebuild!Known(t) <=> x \in Rebuild!Known(u)))
        /\ \A x \in Rebuild!Known(t) : x[2] = name => t.types[x].node = u.types[x].node
    BY <2>2, <2>3
  <2>6. /\ Rebuild!ExtendsEdge(t, f) = Rebuild!ExtendsEdge(u, f)
        /\ Rebuild!ExtendsEdge(t, f).file = f
        /\ Rebuild!ExtendsEdge(t, f).row[2][2] = name
    <3>1. AlikeAbove(t, u, f, name)
      BY <2>4, <2>5 DEF AlikeAbove
    <3> QED BY <3>1, ExtendsAlike
  <2> QED BY <2>6 DEF name
<1>4. \A f \in P : f \notin scope => p[f].super = None
  BY DEF Alike, Quiet, P
<1>5. Rebuild!ExtendsRows(t) = {Rebuild!ExtendsEdge(t, f) : f \in {f \in scope \cap P : p[f].super # None}}
  BY <1>1, <1>2 DEF Rebuild!ExtendsRows
<1>6. Rebuild!ExtendsRows(u) = {Rebuild!ExtendsEdge(u, f) : f \in {f \in P : p[f].super # None}}
  BY <1>1, <1>2 DEF Rebuild!ExtendsRows
<1>7. {f \in scope \cap P : p[f].super # None} = {f \in P : p[f].super # None}
  BY <1>4
<1>8. Rebuild!ExtendsRows(t) = Rebuild!ExtendsRows(u)
  <2> DEFINE Q == {f \in scope \cap P : p[f].super # None}
  <2>1. \A f \in Q : Rebuild!ExtendsEdge(t, f) = Rebuild!ExtendsEdge(u, f)
    BY <1>3
  <2>2. Rebuild!ExtendsRows(t) = {Rebuild!ExtendsEdge(t, f) : f \in Q} /\ Rebuild!ExtendsRows(u) = {Rebuild!ExtendsEdge(u, f) : f \in Q}
    BY <1>5, <1>6, <1>7
  <2> HIDE DEF Q
  <2> QED BY <2>1, <2>2
<1> QED BY <1>3, <1>5, <1>8 DEF P

\* Above a type that is no phantom, and in no phantom's way.
LEMMA LineageAlike ==
    ASSUME NEW t, NEW u, NEW p, NEW scope, NEW ghosts, NEW ghostMethods, Alike(t, u, p, scope, ghosts, ghostMethods),
           NEW rws, \A r \in rws : r.file \in scope \cap Rebuild!Present(p) /\ r.row[2][2] = p[r.file].super,
           NEW x, x \notin ghosts, x \notin ghostMethods
    PROVE  /\ Rebuild!Lineage(t, rws, x) = Rebuild!Lineage(u, rws, x)
           /\ \A s \in Rebuild!Lineage(t, rws, x) : s \notin ghostMethods
<1> DEFINE K == Rebuild!Known(u)
           kt == Rebuild!Known(t)
<1>1. kt = K \cup ghosts /\ K \cap ghosts = {}
  <2>1. kt = K \cup ghosts
    BY DEF Alike, AllTabled, Tabled
  <2>2. \A s \in K : s \notin ghosts
    BY DEF Alike, AllTabled, Tabled
  <2> QED BY <2>1, <2>2
<1>2. ASSUME NEW r \in rws PROVE (r.row[2] \in kt <=> r.row[2] \in K) /\ r.row[2] \notin ghostMethods
  <2>1. p[r.file].super \in Rebuild!Mentions(p[r.file])
    BY DEF Rebuild!Mentions
  <2>2. r.row[2][2] \in Rebuild!Mentions(p[r.file]) /\ r.file \in scope \cap Rebuild!Present(p)
    BY <2>1
  <2>3. r.row[2] \notin ghostMethods
    BY <2>2 DEF Alike, Quiet
  <2> QED BY <2>2, <2>3, KnownAlike
<1>3. ASSUME NEW s \in K PROVE Rebuild!Supertypes(t, rws, s) = Rebuild!Supertypes(u, rws, s)
  <2>1. PICK h \in Rebuild!Present(p) : s = Rebuild!Declares(h)
    BY DEF Alike, AllTabled, Tabled
  <2>2. t.types[s].node = u.types[s].node
    BY <2>1 DEF Alike, AllTabled, Tabled
  <2> QED BY <1>2, <2>2 DEF Rebuild!Supertypes
<1>4. \A s \in K : \A y \in Rebuild!Supertypes(u, rws, s) : y \in K /\ y \notin ghostMethods
  BY <1>2 DEF Rebuild!Supertypes
<1> DEFINE ct == {S \in SUBSET kt : /\ {x} \cap kt \subseteq S
                                    /\ \A s \in S : Rebuild!Supertypes(t, rws, s) \subseteq S}
           cu == {S \in SUBSET K : /\ {x} \cap K \subseteq S
                                   /\ \A s \in S : Rebuild!Supertypes(u, rws, s) \subseteq S}
           W  == {s \in K : s \notin ghostMethods}
<1>5. Rebuild!Lineage(t, rws, x) = {s \in kt : \A S \in ct : s \in S}
  BY DEF Rebuild!Lineage
<1>6. Rebuild!Lineage(u, rws, x) = {s \in K : \A S \in cu : s \in S}
  BY DEF Rebuild!Lineage
<1>7. {x} \cap kt = {x} \cap K
  BY <1>1
<1> HIDE DEF K, kt
<1>8. W \in cu
  BY <1>4
<1>9. ASSUME NEW S \in cu PROVE S \in ct
  <2>1. S \in SUBSET K /\ S \in SUBSET kt
    BY <1>1
  <2>2. \A s \in S : Rebuild!Supertypes(t, rws, s) \subseteq S
    BY <2>1, <1>3
  <2> QED BY <2>1, <2>2, <1>7
<1>10. ASSUME NEW S \in ct PROVE S \cap K \in cu
  <2>1. \A s \in S \cap K : Rebuild!Supertypes(u, rws, s) \subseteq S \cap K
    <3> SUFFICES ASSUME NEW s \in S \cap K, NEW y \in Rebuild!Supertypes(u, rws, s) PROVE y \in S \cap K
      OBVIOUS
    <3>1. y \in Rebuild!Supertypes(t, rws, s)
      BY <1>3
    <3> QED BY <3>1, <1>4
  <2>2. {x} \cap K \subseteq S \cap K
    BY <1>7
  <2> QED BY <2>1, <2>2
<1>11. Rebuild!Lineage(t, rws, x) \subseteq Rebuild!Lineage(u, rws, x)
  <2> SUFFICES ASSUME NEW s \in kt, \A S \in ct : s \in S PROVE s \in K /\ \A S \in cu : s \in S
    BY <1>5, <1>6
  <2>1. W \in ct
    BY <1>8, <1>9
  <2> HIDE DEF ct, cu
  <2>2. s \in W
    BY <2>1
  <2> QED BY <2>2, <1>9
<1>12. Rebuild!Lineage(u, rws, x) \subseteq Rebuild!Lineage(t, rws, x)
  <2> SUFFICES ASSUME NEW s \in K, \A S \in cu : s \in S PROVE s \in kt /\ \A S \in ct : s \in S
    BY <1>5, <1>6
  <2> HIDE DEF ct, cu
  <2>1. \A S \in ct : s \in S \cap K
    BY <1>10
  <2> QED BY <2>1, <1>1
<1>13. \A s \in Rebuild!Lineage(u, rws, x) : s \notin ghostMethods
  <2> HIDE DEF cu
  <2> QED BY <1>6, <1>8
<1> QED BY <1>11, <1>12, <1>13

LEMMA SameCardinality == \A S : Rebuild!Cardinality(S) = Cardinality(S)
BY Zenon DEF Cardinality, Rebuild!Cardinality

FilesNamed(p, name) == {f \in Rebuild!Present(p) : Rebuild!Declares(f)[2] = name}
TypesNamed(t, name) == {e \in t.named : e.fqn[2] = name}

\* As many types of a name are known as files declare it, and the same ones, however they were read.
LEMMA NamedAre ==
    ASSUME NEW t, NEW p, NEW scope, NEW ghosts, NEW ghostMethods, Tabled(t, p, scope, ghosts, ghostMethods),
           NEW name, \A x \in ghosts : x[2] # name
    PROVE  /\ Rebuild!Cardinality(TypesNamed(t, name)) = Cardinality(FilesNamed(p, name))
           /\ {e.fqn : e \in TypesNamed(t, name)} = {Rebuild!Declares(f) : f \in FilesNamed(p, name)}
<1> USE DEF FilesNamed, TypesNamed
<1> DEFINE Q == FilesNamed(p, name)
           named == TypesNamed(t, name)
           h == [f \in Q |-> t.types[Rebuild!Declares(f)]]
<1>0. IsFiniteSet(Q)
  <2>1. Q \subseteq JavaFiles
    BY DEF Rebuild!Present
  <2> QED BY <2>1, SourcesAssumption, FS_Subset
<1>1. \A f \in Q : f \in Rebuild!Present(p) /\ f \in JavaFiles /\ Rebuild!Declares(f)[2] = name
  BY DEF Rebuild!Present
<1>2. \A f \in Q : t.types[Rebuild!Declares(f)] \in t.named /\ t.types[Rebuild!Declares(f)].fqn = Rebuild!Declares(f)
  BY <1>1 DEF AllTabled, Tabled
<1>3. \A e \in named : \E f \in Q : e = t.types[Rebuild!Declares(f)]
  <2> SUFFICES ASSUME NEW e \in t.named, e.fqn[2] = name PROVE \E f \in Q : e = t.types[Rebuild!Declares(f)]
    OBVIOUS
  <2>1. PICK f \in Rebuild!Present(p) : e = t.types[Rebuild!Declares(f)]
    BY DEF AllTabled, Tabled
  <2>2. e.fqn = Rebuild!Declares(f)
    BY <2>1 DEF AllTabled, Tabled
  <2> QED BY <2>1, <2>2
<1>4. h \in Bijection(Q, named)
  <2>1. \A f \in Q : h[f] \in named
    BY <1>1, <1>2
  <2>2. \A f \in Q : \A k \in Q : h[f] = h[k] => f = k
    <3> SUFFICES ASSUME NEW f \in Q, NEW k \in Q, h[f] = h[k] PROVE f = k
      OBVIOUS
    <3>1. Rebuild!Declares(f) = Rebuild!Declares(k)
      BY <1>2
    <3> QED BY <3>1, <1>1, DeclaresApart
  <2>3. \A e \in named : \E f \in Q : h[f] = e
    BY <1>3
  <2> HIDE DEF named, Q
  <2> QED BY <2>1, <2>2, <2>3, Zenon DEF Bijection, Injection, Surjection, IsInjective
<1>5. Cardinality(named) = Cardinality(Q)
  <2> HIDE DEF Q, named, h
  <2>1. ExistsBijection(Q, named)
    BY <1>4 DEF ExistsBijection
  <2> QED BY <2>1, <1>0, FS_Bijection
<1>6. \A e \in named : \E f \in Q : e.fqn = Rebuild!Declares(f)
  BY <1>2, <1>3
<1>7. \A f \in Q : \E e \in named : e.fqn = Rebuild!Declares(f)
  BY <1>1, <1>2
<1> HIDE DEF Q, named
<1>8. {e.fqn : e \in named} = {Rebuild!Declares(f) : f \in Q}
  <2>1. \A e \in named : e.fqn \in {Rebuild!Declares(f) : f \in Q}
    BY <1>6
  <2>2. \A f \in Q : Rebuild!Declares(f) \in {e.fqn : e \in named}
    BY <1>7
  <2> QED BY <2>1, <2>2
<1> QED BY <1>5, <1>8, SameCardinality DEF Q, named

LEMMA ReceiverAlike ==
    ASSUME NEW t, NEW u, NEW p, NEW scope, NEW ghosts, NEW ghostMethods, Alike(t, u, p, scope, ghosts, ghostMethods),
           NEW f \in scope \cap Rebuild!Present(p), NEW c \in p[f].calls
    PROVE  /\ Rebuild!Receiver(t, f, c) = Rebuild!Receiver(u, f, c)
           /\ \A x \in Rebuild!Receiver(t, f, c) : x \notin ghosts /\ x \notin ghostMethods
<1> DEFINE name == c.on
           found(v) == Rebuild!ResolveSimple(v, f, name)
           named(v) == TypesNamed(v, name)
           imported == Rebuild!Imported(p[f], name)
           Q == FilesNamed(p, name)
           only(v) == IF Rebuild!Cardinality(named(v)) = 1 THEN {e.fqn : e \in named(v)} ELSE {}
           recv(v) == IF name = Self THEN {Rebuild!Declares(f)} ELSE IF found(v) # {} THEN found(v)
                      ELSE IF imported # {} THEN imported ELSE only(v)
<1>1. name \in Rebuild!Mentions(p[f])
  BY DEF Rebuild!Mentions
<1>2. \A x : x[2] = name => (x \in Rebuild!Known(t) <=> x \in Rebuild!Known(u)) /\ x \notin ghosts /\ x \notin ghostMethods
  <2> SUFFICES ASSUME NEW x, x[2] = name
               PROVE (x \in Rebuild!Known(t) <=> x \in Rebuild!Known(u)) /\ x \notin ghosts /\ x \notin ghostMethods
    OBVIOUS
  <2>1. x \notin ghostMethods
    BY <1>1 DEF Alike, Quiet
  <2>2. x[2] \in Rebuild!Mentions(p[f])
    BY <1>1
  <2> QED BY <2>1, <2>2, KnownAlike
<1>3. t.source = p /\ u.source = p
  BY DEF Alike, AllTabled, Tabled
<1>4. Rebuild!Receiver(t, f, c) = recv(t)
  BY <1>3 DEF Rebuild!Receiver, TypesNamed
<1>5. Rebuild!Receiver(u, f, c) = recv(u)
  BY <1>3 DEF Rebuild!Receiver, TypesNamed
<1>6. found(t) = found(u) /\ \A x \in found(t) : x[2] = name
  <2>1. /\ t.source[f].imports = u.source[f].imports /\ t.source[f].wildcard = u.source[f].wildcard
        /\ \A x : x[2] = name => (x \in Rebuild!Known(t) <=> x \in Rebuild!Known(u))
    BY <1>2, <1>3
  <2> HIDE DEF name
  <2> QED BY <2>1, ResolveAlike
<1>7. \A x \in imported : x[2] = name
  BY DEF Rebuild!Imported
<1>8. Tabled(t, p, scope, ghosts, ghostMethods) /\ AllTabled(u, p)
  BY DEF Alike
<1> DEFINE counts(v) == /\ Rebuild!Cardinality(named(v)) = Cardinality(Q)
                        /\ {e.fqn : e \in named(v)} = {Rebuild!Declares(k) : k \in Q}
<1>9. counts(t) /\ counts(u)
  <2> DEFINE none == {}
  <2>1. Tabled(u, p, JavaFiles, none, none) /\ \A x \in none : x[2] # name
    BY <1>8 DEF AllTabled
  <2>2. \A x \in ghosts : x[2] # name
    BY <1>2
  <2> HIDE DEF none, name
  <2>3. counts(t)
    BY <1>8, <2>2, NamedAre
  <2>4. counts(u)
    BY <2>1, NamedAre
  <2> QED BY <2>3, <2>4
<1>10. only(t) = only(u) /\ \A x \in only(t) : x[2] = name
  <2>1. \A x \in {Rebuild!Declares(k) : k \in Q} : x[2] = name
    BY DEF FilesNamed
  <2> HIDE DEF Q, named
  <2> QED BY <2>1, <1>9
<1>11. Rebuild!Declares(f) \notin ghosts /\ Rebuild!Declares(f) \notin ghostMethods
  <2>1. Rebuild!Declares(f)[2] = NameOf[f]
    BY DEF Rebuild!Declares
  <2> QED BY <2>1 DEF Alike, AllTabled, Tabled, Quiet
<1> HIDE DEF found, imported, only, name
<1> QED BY <1>2, <1>4, <1>5, <1>6, <1>7, <1>10, <1>11

LEMMA CallsAlike ==
    ASSUME NEW t, NEW u, NEW p, NEW scope, NEW ghosts, NEW ghostMethods, Alike(t, u, p, scope, ghosts, ghostMethods),
           NEW rws, \A r \in rws : r.file \in scope \cap Rebuild!Present(p) /\ r.row[2][2] = p[r.file].super,
           NEW f \in scope \cap Rebuild!Present(p), NEW c \in p[f].calls
    PROVE  Rebuild!CallEdges(t, rws, f, c) = Rebuild!CallEdges(u, rws, f, c)
<1> DEFINE recv == Rebuild!Receiver(t, f, c)
           x == CHOOSE fqn \in recv : TRUE
<1>1. recv = Rebuild!Receiver(u, f, c) /\ \A y \in recv : y \notin ghosts /\ y \notin ghostMethods
  BY ReceiverAlike
<1>2. CASE recv = {}
  BY <1>1, <1>2 DEF Rebuild!CallEdges
<1>3. CASE recv # {}
  <2>1. x \notin ghosts /\ x \notin ghostMethods
    BY <1>1, <1>3
  <2> HIDE DEF x
  <2>2. /\ Rebuild!Lineage(t, rws, x) = Rebuild!Lineage(u, rws, x)
        /\ \A s \in Rebuild!Lineage(t, rws, x) : s \notin ghostMethods
    BY <2>1, LineageAlike
  <2> DEFINE above == Rebuild!Lineage(t, rws, x)
             found(v) == {m \in v.members : m.fqn \in above}
  <2> HIDE DEF above
  <2>3. found(t) = found(u)
    <3>1. \A m \in t.members : m.fqn \in above => m \in u.members
      BY <2>2 DEF Alike, AllTabled, Tabled, above
    <3>2. \A m \in u.members : m \in t.members
      BY DEF Alike, AllTabled, Tabled
    <3> QED BY <3>1, <3>2
  <2> DEFINE exact(v) == {m \in found(v) : m.params = c.args}
             own(v) == {m \in exact(v) : m.fqn = x}
  <2>4. Rebuild!Candidates(t, rws, x, c.args)
            = IF exact(t) = {} THEN found(t) ELSE IF Rebuild!Cardinality(own(t)) = 1 THEN own(t) ELSE exact(t)
    BY DEF Rebuild!Candidates, above
  <2>5. Rebuild!Candidates(u, rws, x, c.args)
            = IF exact(u) = {} THEN found(u) ELSE IF Rebuild!Cardinality(own(u)) = 1 THEN own(u) ELSE exact(u)
    BY <2>2 DEF Rebuild!Candidates, above
  <2>6. exact(t) = exact(u) /\ own(t) = own(u)
    BY <2>3
  <2> HIDE DEF found, exact, own
  <2>7. Rebuild!Candidates(t, rws, x, c.args) = Rebuild!Candidates(u, rws, x, c.args)
    BY <2>3, <2>4, <2>5, <2>6
  <2> DEFINE few(v) == Rebuild!Candidates(v, rws, x, c.args)
             emitted(v) == IF few(v) = {} THEN {Rebuild!Edge("CALLS", f, c, <<"phantomMethod", x>>, FALSE)}
                           ELSE {Rebuild!Edge("CALLS", f, c, m.node, TRUE) : m \in few(v)}
  <2>8. Rebuild!CallEdges(t, rws, f, c) = emitted(t) /\ Rebuild!CallEdges(u, rws, f, c) = emitted(u)
    BY <1>1, <1>3 DEF Rebuild!CallEdges, x
  <2> HIDE DEF few
  <2>9. few(t) = few(u)
    BY <2>7 DEF few
  <2> QED BY <2>8, <2>9
<1> QED BY <1>2, <1>3

LEMMA OverridesAlike ==
    ASSUME NEW t, NEW u, NEW p, NEW scope, NEW ghosts, NEW ghostMethods, Alike(t, u, p, scope, ghosts, ghostMethods), NEW rws
    PROVE  Rebuild!OverridesRows(t, rws) = Rebuild!OverridesRows(u, rws)
<1>1. t.source = u.source
  BY DEF Alike, AllTabled, Tabled
<1>2. \A m \in u.members : m \in t.members
  BY DEF Alike, AllTabled, Tabled
<1>3. \A m \in t.members : m.node[1] = "method" => m \in u.members
  <2> SUFFICES ASSUME NEW m \in t.members, m.node[1] = "method" PROVE m \in u.members
    OBVIOUS
  <2>1. CASE \E f \in Rebuild!Present(p) : \E a \in p[f].methods : m = Rebuild!Member(Rebuild!Declares(f), <<"method", f, a>>, a)
    BY <2>1 DEF Alike, AllTabled, Tabled
  <2>2. CASE \E x \in ghostMethods : m = Rebuild!Member(x, <<"phantomMethod", x>>, 0)
    BY <2>2
  <2> QED BY <2>1, <2>2 DEF Alike, AllTabled, Tabled
<1> DEFINE of(v, r) == {m \in v.members : m.node[1] = "method" /\ <<"type", m.node[2]>> = r.to
                                           /\ m.node[3] \in u.source[r.file].methods}
<1>4. \A r : of(t, r) = of(u, r)
  BY <1>2, <1>3
<1>5. Rebuild!OverridesRows(t, rws) = UNION {{Rebuild!Edge("OVERRIDES", r.file, m.node[3], m.node, TRUE) : m \in of(t, r)} : r \in rws}
  BY <1>1 DEF Rebuild!OverridesRows
<1>6. Rebuild!OverridesRows(u, rws) = UNION {{Rebuild!Edge("OVERRIDES", r.file, m.node[3], m.node, TRUE) : m \in of(u, r)} : r \in rws}
  BY DEF Rebuild!OverridesRows
<1> HIDE DEF of
<1> QED BY <1>4, <1>5, <1>6

Tamed(p, q) == \A f \in ChangedFrom(p, q) : ~ Rebuild!Wild(p[f], q[f])

LEMMA TamedKeeps ==
    ASSUME NEW p, NEW q, Tamed(p, q)
    PROVE  /\ Rebuild!Present(q) = Rebuild!Present(p)
           /\ \A f \in Rebuild!Present(p) :
                /\ q[f].super = p[f].super
                /\ p[f].super # None => p[f].imports = q[f].imports /\ p[f].wildcard = q[f].wildcard
                /\ q[f].methods \subseteq p[f].methods
                /\ f \notin ChangedFrom(p, q) => q[f] = p[f]
<1>1. ASSUME NEW f \in JavaFiles
      PROVE  /\ p[f] # None <=> q[f] # None
             /\ p[f] # None => /\ q[f].super = p[f].super
                               /\ p[f].super # None => p[f].imports = q[f].imports /\ p[f].wildcard = q[f].wildcard
                               /\ q[f].methods \subseteq p[f].methods
                               /\ f \notin ChangedFrom(p, q) => q[f] = p[f]
  <2>1. CASE q[f] = p[f]
    BY <2>1
  <2>2. CASE q[f] # p[f]
    <3>1. f \in ChangedFrom(p, q)
      BY <2>2 DEF ChangedFrom
    <3>2. ~ Rebuild!Wild(p[f], q[f])
      BY <3>1 DEF Tamed
    <3> QED BY <3>1, <3>2 DEF Rebuild!Wild
  <2> QED BY <2>1, <2>2
<1> QED BY <1>1 DEF Rebuild!Present

\* Before and after edits that are not wild: the same types, and the same rows.
LEMMA RowsStay ==
    ASSUME NEW w, NEW u, NEW p, NEW q, AllTabled(w, p), AllTabled(u, q), Tamed(p, q)
    PROVE  /\ Rebuild!Known(w) = Rebuild!Known(u)
           /\ \A x \in Rebuild!Known(w) : w.types[x].node = u.types[x].node
           /\ Rebuild!ExtendsRows(w) = Rebuild!ExtendsRows(u)
           /\ \A r \in Rebuild!ExtendsRows(w) : r.file \in Rebuild!Present(p) /\ p[r.file].super # None
<1> DEFINE P == Rebuild!Present(p)
<1>1. P = Rebuild!Present(q) /\ P \subseteq JavaFiles
  BY TamedKeeps DEF Rebuild!Present
<1>2. /\ \A f \in P : /\ q[f].super = p[f].super
                      /\ p[f].super # None => p[f].imports = q[f].imports /\ p[f].wildcard = q[f].wildcard
  BY TamedKeeps
<1>3. Tabled(w, p, JavaFiles, {}, {}) /\ Tabled(u, q, JavaFiles, {}, {})
  BY DEF AllTabled
<1>4. Rebuild!Owners(w) = P /\ Rebuild!Owners(u) = P
  <2> DEFINE none == {}
  <2>1. Tabled(w, p, JavaFiles, none, none) /\ Tabled(u, q, JavaFiles, none, none)
    BY <1>3
  <2> HIDE DEF none
  <2>2. Rebuild!Owners(w) = JavaFiles \cap Rebuild!Present(p) /\ Rebuild!Owners(u) = JavaFiles \cap Rebuild!Present(q)
    BY <2>1, OwnersAre
  <2> QED BY <2>2, <1>1
<1>5. Rebuild!Known(w) = {Rebuild!Declares(f) : f \in P} /\ Rebuild!Known(u) = {Rebuild!Declares(f) : f \in P}
  BY <1>1, <1>3 DEF Tabled
<1>6. \A f \in P : w.types[Rebuild!Declares(f)].node = <<"type", f>> /\ u.types[Rebuild!Declares(f)].node = <<"type", f>>
  BY <1>1, <1>3 DEF Tabled
<1>7. w.source = p /\ u.source = q
  BY <1>3 DEF Tabled
<1> HIDE DEF P
<1>8. \A x \in Rebuild!Known(w) : w.types[x].node = u.types[x].node
  BY <1>5, <1>6
<1>9. ASSUME NEW f \in P, p[f].super # None
      PROVE  /\ Rebuild!ExtendsEdge(w, f) = Rebuild!ExtendsEdge(u, f) /\ Rebuild!ExtendsEdge(w, f).file = f
  <2> DEFINE name == p[f].super
  <2>1. /\ name = w.source[f].super /\ name = u.source[f].super
        /\ w.source[f].imports = u.source[f].imports /\ w.source[f].wildcard = u.source[f].wildcard
    BY <1>2, <1>7, <1>9
  <2> HIDE DEF name
  <2>2. (\A x : x[2] = name => (x \in Rebuild!Known(w) <=> x \in Rebuild!Known(u)))
        /\ \A x \in Rebuild!Known(w) : x[2] = name => w.types[x].node = u.types[x].node
    BY <1>5, <1>8
  <2>3. AlikeAbove(w, u, f, name)
    BY <2>1, <2>2 DEF AlikeAbove
  <2> QED BY <2>3, ExtendsAlike
<1>10. Rebuild!ExtendsRows(w) = {Rebuild!ExtendsEdge(w, f) : f \in {f \in P : p[f].super # None}}
  BY <1>4, <1>7 DEF Rebuild!ExtendsRows
<1>11. Rebuild!ExtendsRows(u) = {Rebuild!ExtendsEdge(u, f) : f \in {f \in P : q[f].super # None}}
  BY <1>4, <1>7 DEF Rebuild!ExtendsRows
<1>12. {f \in P : q[f].super # None} = {f \in P : p[f].super # None}
  BY <1>2
<1> DEFINE Q == {f \in P : p[f].super # None}
<1>13. \A f \in Q : Rebuild!ExtendsEdge(w, f) = Rebuild!ExtendsEdge(u, f) /\ Rebuild!ExtendsEdge(w, f).file = f
  BY <1>9
<1>14. Rebuild!ExtendsRows(w) = {Rebuild!ExtendsEdge(w, f) : f \in Q} /\ Rebuild!ExtendsRows(u) = {Rebuild!ExtendsEdge(u, f) : f \in Q}
  BY <1>10, <1>11, <1>12
<1>15. \A f \in Q : f \in P /\ p[f].super # None
  OBVIOUS
<1> HIDE DEF Q
<1> QED BY <1>5, <1>8, <1>13, <1>14, <1>15 DEF P

LEMMA LineageStays ==
    ASSUME NEW w, NEW u, Rebuild!Known(w) = Rebuild!Known(u),
           \A x \in Rebuild!Known(w) : w.types[x].node = u.types[x].node, NEW rws, NEW x
    PROVE  Rebuild!Lineage(w, rws, x) = Rebuild!Lineage(u, rws, x)
<1> DEFINE K == Rebuild!Known(w)
<1>1. \A s \in K : Rebuild!Supertypes(w, rws, s) = Rebuild!Supertypes(u, rws, s)
  BY DEF Rebuild!Supertypes
<1> DEFINE closed(v) == {S \in SUBSET K : /\ {x} \cap K \subseteq S
                                          /\ \A s \in S : Rebuild!Supertypes(v, rws, s) \subseteq S}
<1>2. Rebuild!Lineage(w, rws, x) = {s \in K : \A S \in closed(w) : s \in S}
  BY DEF Rebuild!Lineage
<1>3. Rebuild!Lineage(u, rws, x) = {s \in K : \A S \in closed(u) : s \in S}
  BY DEF Rebuild!Lineage
<1> HIDE DEF K
<1>4. closed(w) = closed(u)
  BY <1>1
<1> HIDE DEF closed
<1> QED BY <1>2, <1>3, <1>4

LEMMA ReceiverStays ==
    ASSUME NEW w, NEW u, NEW p, NEW q, AllTabled(w, p), AllTabled(u, q), Tamed(p, q),
           NEW f \in Rebuild!Present(p), p[f] = q[f], NEW c
    PROVE  Rebuild!Receiver(w, f, c) = Rebuild!Receiver(u, f, c)
<1> DEFINE name == c.on
           found(v) == Rebuild!ResolveSimple(v, f, name)
           named(v) == TypesNamed(v, name)
           imported == Rebuild!Imported(p[f], name)
           only(v) == IF Rebuild!Cardinality(named(v)) = 1 THEN {e.fqn : e \in named(v)} ELSE {}
           recv(v) == IF name = Self THEN {Rebuild!Declares(f)} ELSE IF found(v) # {} THEN found(v)
                      ELSE IF imported # {} THEN imported ELSE only(v)
<1>1. w.source = p /\ u.source = q
  BY DEF AllTabled, Tabled
<1>2. Rebuild!Receiver(w, f, c) = recv(w)
  BY <1>1 DEF Rebuild!Receiver, TypesNamed
<1>3. Rebuild!Receiver(u, f, c) = recv(u)
  BY <1>1 DEF Rebuild!Receiver, TypesNamed
<1> HIDE DEF name
<1>4. found(w) = found(u)
  <2>1. /\ w.source[f].imports = u.source[f].imports /\ w.source[f].wildcard = u.source[f].wildcard
        /\ \A x : x[2] = name => (x \in Rebuild!Known(w) <=> x \in Rebuild!Known(u))
    BY <1>1, RowsStay
  <2> QED BY <2>1, ResolveAlike
<1>5. FilesNamed(p, name) = FilesNamed(q, name)
  BY TamedKeeps DEF FilesNamed
<1> DEFINE counts(v, r) == /\ Rebuild!Cardinality(TypesNamed(v, name)) = Cardinality(FilesNamed(r, name))
                           /\ {e.fqn : e \in TypesNamed(v, name)} = {Rebuild!Declares(k) : k \in FilesNamed(r, name)}
<1>6. counts(w, p) /\ counts(u, q)
  <2> DEFINE none == {}
  <2>1. Tabled(w, p, JavaFiles, none, none) /\ Tabled(u, q, JavaFiles, none, none) /\ \A x \in none : x[2] # name
    BY DEF AllTabled
  <2> HIDE DEF none
  <2>2. counts(w, p)
    BY <2>1, NamedAre
  <2>3. counts(u, q)
    BY <2>1, NamedAre
  <2> QED BY <2>2, <2>3
<1>7. only(w) = only(u)
  BY <1>5, <1>6
<1> HIDE DEF found, only, imported
<1> QED BY <1>2, <1>3, <1>4, <1>7

\* What is called stays when nothing of what changed was called.
LEMMA CandidatesStay ==
    ASSUME NEW w, NEW u, NEW rws, NEW x, NEW args, Rebuild!Lineage(w, rws, x) = Rebuild!Lineage(u, rws, x),
           u.members \subseteq w.members,
           Rebuild!Candidates(w, rws, x, args) \subseteq u.members
    PROVE  Rebuild!Candidates(u, rws, x, args) = Rebuild!Candidates(w, rws, x, args)
<1> DEFINE above == Rebuild!Lineage(w, rws, x)
           found(v) == {m \in v.members : m.fqn \in above}
           exact(v) == {m \in found(v) : m.params = args}
           own(v) == {m \in exact(v) : m.fqn = x}
           few(v) == IF exact(v) = {} THEN found(v) ELSE IF Rebuild!Cardinality(own(v)) = 1 THEN own(v) ELSE exact(v)
<1>1. Rebuild!Candidates(w, rws, x, args) = few(w)
  BY DEF Rebuild!Candidates
<1>2. Rebuild!Candidates(u, rws, x, args) = few(u)
  BY DEF Rebuild!Candidates
<1> HIDE DEF above
<1>3. found(u) \subseteq found(w)
  OBVIOUS
<1>4. CASE exact(w) = {}
  <2>1. few(w) = found(w)
    BY <1>4
  <2>2. found(w) \subseteq u.members
    BY <2>1, <1>1
  <2>3. found(u) = found(w)
    BY <2>2
  <2>4. exact(u) = exact(w) /\ own(u) = own(w)
    BY <2>3
  <2> HIDE DEF found, exact, own
  <2> QED BY <2>3, <2>4, <1>1, <1>2
<1>5. CASE exact(w) # {} /\ Rebuild!Cardinality(own(w)) = 1
  <2>1. few(w) = own(w)
    BY <1>5
  <2>2. own(w) \subseteq u.members
    BY <2>1, <1>1
  <2>3. own(u) = own(w)
    BY <2>2
  <2>4. own(w) # {}
    <3>1. Rebuild!Cardinality({}) = 0
      BY FS_EmptySet, SameCardinality
    <3> HIDE DEF own
    <3> QED BY <1>5, <3>1
  <2>5. exact(u) # {}
    BY <2>3, <2>4
  <2> HIDE DEF found, exact, own
  <2> QED BY <2>3, <2>5, <1>1, <1>2, <1>5
<1>6. CASE exact(w) # {} /\ Rebuild!Cardinality(own(w)) # 1
  <2>1. few(w) = exact(w)
    BY <1>6
  <2>2. exact(w) \subseteq u.members
    BY <2>1, <1>1
  <2>3. exact(u) = exact(w)
    BY <2>2
  <2>4. own(u) = own(w)
    BY <2>3
  <2> HIDE DEF found, exact, own
  <2> QED BY <2>3, <2>4, <1>1, <1>2, <1>6
<1> HIDE DEF exact, own
<1> QED BY <1>4, <1>5, <1>6

\* No edge of es leads to a method of a changed file.
Untouched(es, p, q) == \A e \in es : \A h \in ChangedFrom(p, q) : \A a : e.to # <<"method", h, a>>

LEMMA CallsStay ==
    ASSUME NEW w, NEW u, NEW p, NEW q, AllTabled(w, p), AllTabled(u, q), Tamed(p, q),
           NEW f \in Rebuild!Present(p), p[f] = q[f], NEW c, NEW rws,
           Untouched(Rebuild!CallEdges(w, rws, f, c), p, q)
    PROVE  Rebuild!CallEdges(u, rws, f, c) = Rebuild!CallEdges(w, rws, f, c)
<1> DEFINE recv == Rebuild!Receiver(w, f, c)
           x == CHOOSE fqn \in recv : TRUE
<1>1. recv = Rebuild!Receiver(u, f, c)
  BY ReceiverStays
<1>2. CASE recv = {}
  BY <1>1, <1>2 DEF Rebuild!CallEdges
<1>3. CASE recv # {}
  <2> DEFINE few(v) == Rebuild!Candidates(v, rws, x, c.args)
             emitted(v) == IF few(v) = {} THEN {Rebuild!Edge("CALLS", f, c, <<"phantomMethod", x>>, FALSE)}
                           ELSE {Rebuild!Edge("CALLS", f, c, m.node, TRUE) : m \in few(v)}
  <2>1. Rebuild!CallEdges(w, rws, f, c) = emitted(w) /\ Rebuild!CallEdges(u, rws, f, c) = emitted(u)
    BY <1>1, <1>3 DEF Rebuild!CallEdges
  <2>2. few(w) \subseteq w.members
    BY DEF Rebuild!Candidates
  <2> HIDE DEF few, x
  <2>3. Rebuild!Lineage(w, rws, x) = Rebuild!Lineage(u, rws, x)
    <3>1. /\ Rebuild!Known(w) = Rebuild!Known(u)
          /\ \A y \in Rebuild!Known(w) : w.types[y].node = u.types[y].node
      BY RowsStay
    <3> QED BY <3>1, LineageStays
  <2>4. u.members \subseteq w.members
    <3> SUFFICES ASSUME NEW m \in u.members PROVE m \in w.members
      OBVIOUS
    <3>0. PICK h \in Rebuild!Present(q) : \E a \in q[h].methods : m = Rebuild!Member(Rebuild!Declares(h), <<"method", h, a>>, a)
      BY DEF AllTabled, Tabled
    <3>1. PICK a \in q[h].methods : m = Rebuild!Member(Rebuild!Declares(h), <<"method", h, a>>, a)
      BY <3>0
    <3>2. h \in Rebuild!Present(p) /\ a \in p[h].methods
      BY <3>1, TamedKeeps
    <3> QED BY <3>1, <3>2 DEF AllTabled, Tabled
  <2>5. few(w) \subseteq u.members
    <3> SUFFICES ASSUME NEW m \in few(w) PROVE m \in u.members
      OBVIOUS
    <3>0. PICK h \in Rebuild!Present(p) : \E a \in p[h].methods : m = Rebuild!Member(Rebuild!Declares(h), <<"method", h, a>>, a)
      BY <2>2 DEF AllTabled, Tabled
    <3>1. PICK a \in p[h].methods : m = Rebuild!Member(Rebuild!Declares(h), <<"method", h, a>>, a)
      BY <3>0
    <3>2. Rebuild!Edge("CALLS", f, c, m.node, TRUE) \in Rebuild!CallEdges(w, rws, f, c)
      BY <2>1
    <3>3. h \notin ChangedFrom(p, q)
      BY <3>1, <3>2 DEF Untouched
    <3>4. h \in Rebuild!Present(q) /\ a \in q[h].methods
      BY <3>1, <3>3, TamedKeeps
    <3> QED BY <3>1, <3>4 DEF AllTabled, Tabled
  <2>6. few(u) = few(w)
    BY <2>3, <2>4, <2>5, CandidatesStay DEF few
  <2> QED BY <2>1, <2>6
<1> QED BY <1>2, <1>3

CallsOf(t, rws, scope, p) ==
    UNION {UNION {Rebuild!CallEdges(t, rws, f, c) : c \in p[f].calls} : f \in scope \cap Rebuild!Present(p)}
MethodsOf(scope, p) ==
    UNION {{<<"method", f, a>> : a \in p[f].methods} : f \in scope \cap Rebuild!Present(p)}
RowsOf(t, rws, scope, p) ==
    rws \cup CallsOf(t, rws, scope, p) \cup Rebuild!OverridesRows(t, rws) \cup Rebuild!DeclaresRows(p, scope)

LEMMA WrittenIs ==
    ASSUME NEW t, NEW left, NEW p, NEW scope, NEW ghosts, NEW ghostMethods, Tabled(t, p, scope, ghosts, ghostMethods),
           left.types \cup (scope \cap Rebuild!Present(p)) = Rebuild!Present(p)
    PROVE  LET g == Rebuild!Written(t, left, scope, p)
           IN  /\ g.types = Rebuild!Present(p)
               /\ g.methods = left.methods \cup MethodsOf(scope, p)
               /\ g.edges = left.edges \cup RowsOf(t, Rebuild!ExtendsRows(t), scope, p)
<1> DEFINE P     == Rebuild!Present(p)
           rws   == Rebuild!ExtendsRows(t)
           types == left.types \cup Rebuild!Owners(t)
           decl  == Rebuild!DeclaresRows(p, scope)
           over  == Rebuild!OverridesRows(t, rws)
           calls == UNION {UNION {Rebuild!CallEdges(t, rws, f, c) : c \in p[f].calls} : f \in scope \cap P}
           methods == UNION {{<<"method", f, a>> : a \in p[f].methods} : f \in scope \cap P}
           g     == Rebuild!Written(t, left, scope, p)
<1>1. types = P
  BY OwnersAre
<1>2. \A e \in decl : e.file \in P
  BY DEF Rebuild!DeclaresRows
<1>3. /\ g.types = types /\ g.methods = left.methods \cup methods
      /\ g.edges = left.edges \cup rws \cup calls \cup over \cup {e \in decl : <<"type", e.file>> \in {<<"type", f>> : f \in types}}
  BY DEF Rebuild!Written
<1>4. methods = MethodsOf(scope, p) /\ calls = CallsOf(t, rws, scope, p)
  BY DEF MethodsOf, CallsOf
<1> HIDE DEF rws, types, decl, over, calls, methods, g
<1>5. {e \in decl : <<"type", e.file>> \in {<<"type", f>> : f \in types}} = decl
  BY <1>1, <1>2
<1>6. RowsOf(t, rws, scope, p) = rws \cup calls \cup over \cup decl
  BY <1>4 DEF RowsOf, over, decl
<1>7. g.edges = left.edges \cup RowsOf(t, rws, scope, p)
  BY <1>3, <1>5, <1>6
<1> QED BY <1>1, <1>3, <1>4, <1>7 DEF g, rws

LEMMA FullIs ==
    ASSUME NEW p, NEW t, t = Rebuild!FullTables(p)
    PROVE  LET g == Rebuild!FullGraph(p)
           IN  /\ g.types = Rebuild!Present(p)
               /\ g.methods = MethodsOf(JavaFiles, p)
               /\ g.edges = RowsOf(t, Rebuild!ExtendsRows(t), JavaFiles, p)
<1> DEFINE none == {}  left == Rebuild!Empty  g == Rebuild!FullGraph(p)  rowsOf == RowsOf(t, Rebuild!ExtendsRows(t), JavaFiles, p)
<1>1. left.types = {} /\ left.methods = {} /\ left.edges = {}
  BY DEF Rebuild!Empty
<1>2. Tabled(t, p, JavaFiles, none, none)
  BY FullIsTabled DEF AllTabled
<1>3. left.types \cup (JavaFiles \cap Rebuild!Present(p)) = Rebuild!Present(p)
  BY <1>1 DEF Rebuild!Present
<1>4. g = Rebuild!Written(t, left, JavaFiles, p)
  BY DEF Rebuild!FullGraph
<1> HIDE DEF none, left, g, rowsOf
<1>5. /\ g.types = Rebuild!Present(p)
      /\ g.methods = left.methods \cup MethodsOf(JavaFiles, p)
      /\ g.edges = left.edges \cup rowsOf
  BY <1>2, <1>3, <1>4, WrittenIs DEF rowsOf
<1>6. g.methods = MethodsOf(JavaFiles, p) /\ g.edges = rowsOf
  BY <1>1, <1>5
<1> QED BY <1>5, <1>6 DEF g, rowsOf

\* Whose the rows are.
LEMMA DeclaresIs ==
    ASSUME NEW p, NEW scope, NEW f \in scope, f \in Rebuild!Present(p), NEW a \in p[f].methods
    PROVE  Rebuild!Edge("DECLARES", f, a, <<"method", f, a>>, TRUE) \in Rebuild!DeclaresRows(p, scope)
<1> DEFINE rowsOf(k) == {Rebuild!Edge("DECLARES", k, b, <<"method", k, b>>, TRUE) : b \in p[k].methods}
<1>1. Rebuild!DeclaresRows(p, scope) = UNION {rowsOf(k) : k \in scope \cap Rebuild!Present(p)}
  BY DEF Rebuild!DeclaresRows
<1>2. Rebuild!Edge("DECLARES", f, a, <<"method", f, a>>, TRUE) \in rowsOf(f)
  OBVIOUS
<1> HIDE DEF rowsOf
<1>3. rowsOf(f) \in {rowsOf(k) : k \in scope \cap Rebuild!Present(p)}
  OBVIOUS
<1> QED BY <1>1, <1>2, <1>3

LEMMA RowsAreOf ==
    ASSUME NEW t, NEW rws, NEW scope, NEW p
    PROVE  /\ \A f, c : \A e \in Rebuild!CallEdges(t, rws, f, c) : e.file = f
           /\ \A e \in Rebuild!OverridesRows(t, rws) : \E r \in rws : e.file = r.file
           /\ \A e \in Rebuild!DeclaresRows(p, scope) :
                \E f \in scope \cap Rebuild!Present(p) : \E a \in p[f].methods : e = Rebuild!Edge("DECLARES", f, a, <<"method", f, a>>, TRUE)
<1>1. ASSUME NEW f, NEW c, NEW e \in Rebuild!CallEdges(t, rws, f, c) PROVE e.file = f
  <2> DEFINE fqn == CHOOSE fqn \in Rebuild!Receiver(t, f, c) : TRUE
             found == Rebuild!Candidates(t, rws, fqn, c.args)
  <2>1. \/ e = Rebuild!Edge("UNRESOLVED_AT", f, c, <<"site">>, FALSE)
        \/ e = Rebuild!Edge("CALLS", f, c, <<"phantomMethod", fqn>>, FALSE)
        \/ \E m \in found : e = Rebuild!Edge("CALLS", f, c, m.node, TRUE)
    BY DEF Rebuild!CallEdges
  <2> HIDE DEF found, fqn
  <2> QED BY <2>1
<1>2. \A e \in Rebuild!OverridesRows(t, rws) : \E r \in rws : e.file = r.file
  BY DEF Rebuild!OverridesRows
<1>3. \A e \in Rebuild!DeclaresRows(p, scope) :
         \E f \in scope \cap Rebuild!Present(p) : \E a \in p[f].methods : e = Rebuild!Edge("DECLARES", f, a, <<"method", f, a>>, TRUE)
  BY DEF Rebuild!DeclaresRows
<1> QED BY <1>1, <1>2, <1>3

\* What an increment leaves of the graph, and what it writes, are what a full run would write.
LEMMA ScopedIsFull ==
    ASSUME NEW p, NEW q, NEW g, Sound(g, p), Rebuild!Same(g, Rebuild!FullGraph(p)), Tamed(p, q),
           Rebuild!StubsSuffice(q, g, ChangedFrom(p, q) \cup Rebuild!FindDependents(g, ChangedFrom(p, q)))
    PROVE  Rebuild!Same(Rebuild!ScopedGraph(q, g, ChangedFrom(p, q)), Rebuild!FullGraph(q))
<1> DEFINE C == ChangedFrom(p, q)
           D == Rebuild!FindDependents(g, C)
           scope == C \cup D
           P == Rebuild!Present(p)
           left == Rebuild!DeleteFileScope(g, C, D)
           w == Rebuild!FullTables(p)
           u == Rebuild!FullTables(q)
           t == Rebuild!ScopedTables(q, g, scope)
           rws == Rebuild!ExtendsRows(u)
           h == Rebuild!ScopedGraph(q, g, C)
           full == Rebuild!FullGraph(q)
<1>1. /\ P = Rebuild!Present(q) /\ P \subseteq JavaFiles
      /\ \A f \in P : /\ q[f].super = p[f].super
                      /\ q[f].methods \subseteq p[f].methods
                      /\ f \notin C => q[f] = p[f]
  BY TamedKeeps DEF Rebuild!Present
<1>2. AllTabled(w, p) /\ AllTabled(u, q)
  BY FullIsTabled
<1>3. /\ g.types = P /\ g.methods = MethodsOf(JavaFiles, p)
      /\ g.edges = RowsOf(w, Rebuild!ExtendsRows(w), JavaFiles, p)
  <2>1. LET v == Rebuild!FullGraph(p)
        IN  /\ v.types = Rebuild!Present(p)
            /\ v.methods = MethodsOf(JavaFiles, p)
            /\ v.edges = RowsOf(w, Rebuild!ExtendsRows(w), JavaFiles, p)
    BY FullIs
  <2> QED BY <2>1 DEF Rebuild!Same
<1>4. full.types = P /\ full.methods = MethodsOf(JavaFiles, q) /\ full.edges = RowsOf(u, rws, JavaFiles, q)
  <2>1. /\ full.types = Rebuild!Present(q) /\ full.methods = MethodsOf(JavaFiles, q) /\ full.edges = RowsOf(u, rws, JavaFiles, q)
    BY FullIs
  <2> QED BY <2>1, <1>1
<1>5. Rebuild!ExtendsRows(w) = rws /\ \A r \in rws : r.file \in P /\ p[r.file].super # None
  BY <1>2, RowsStay
<1>6. /\ \A f \in P \ scope : q[f].super = None /\ q[f].methods \subseteq {0}
      /\ \A x \in g.ghosts : /\ \A f \in P : Rebuild!Declares(f) # x
                             /\ \A f \in scope \cap P : x[2] \notin Rebuild!Mentions(q[f])
      /\ \A x \in g.ghostMethods : \A f \in scope \cap P : x[2] \notin Rebuild!Mentions(q[f]) \cup {NameOf[f]}
  BY <1>1 DEF Rebuild!StubsSuffice
<1>7. scope \subseteq JavaFiles
  <2>1. \A e \in g.edges : e.file \in P
    BY DEF Sound
  <2> QED BY <2>1, <1>1 DEF ChangedFrom, Rebuild!FindDependents
<1>8. \A f \in P : \A a : <<"method", f, a>> \in g.methods <=> a \in p[f].methods
  BY <1>1, <1>3 DEF MethodsOf
<1>9. Tabled(t, q, scope, g.ghosts, g.ghostMethods)
  <2> HIDE DEF scope, C, P
  <2>1. g.types = Rebuild!Present(q)
    BY <1>1, <1>3
  <2>2. \A m \in g.methods : \E f \in Rebuild!Present(q) : \E a : m = <<"method", f, a>>
    BY <1>1 DEF Sound, P
  <2>3. \A f \in Rebuild!Present(q) \ scope : \A a : <<"method", f, a>> \in g.methods <=> a \in q[f].methods
    BY <1>1, <1>8 DEF scope
  <2>4. \A f \in Rebuild!Present(q) \ scope : q[f].methods \subseteq {0}
    BY <1>1, <1>6
  <2>5. \A f \in Rebuild!Present(q) : Rebuild!Declares(f) \notin g.ghosts
    BY <1>1, <1>6
  <2> HIDE DEF t
  <2>6. t = Rebuild!ScopedTables(q, g, scope) /\ scope \in SUBSET JavaFiles
    BY <1>7 DEF t
  <2> QED BY <2>1, <2>2, <2>3, <2>4, <2>5, <2>6, ScopedIsTabled
<1>10. Alike(t, u, q, scope, g.ghosts, g.ghostMethods)
  <2>1. Quiet(q, scope, g.ghosts, g.ghostMethods)
    BY <1>1, <1>6 DEF Quiet
  <2> QED BY <2>1, <1>2, <1>7, <1>9 DEF Alike
<1> HIDE DEF t, u, w
<1>11. Rebuild!ExtendsRows(t) = rws /\ \A r \in rws : r.file \in scope \cap Rebuild!Present(q) /\ r.row[2][2] = q[r.file].super
  <2> HIDE DEF scope
  <2> QED BY <1>10, RowsAlike
<1> HIDE DEF rws
<1>12. /\ left.types = g.types \ C /\ left.methods = {m \in g.methods : m[2] \notin C}
       /\ left.edges = {e \in g.edges : e.file \notin scope /\ e.to \notin Rebuild!NodesOf(C, g)}
  BY DEF Rebuild!DeleteFileScope
<1>13. \A e \in g.edges : e.to \in Rebuild!NodesOf(C, g) => e.file \in scope
  BY DEF Rebuild!FindDependents
<1>14. left.edges = {e \in g.edges : e.file \notin scope}
  BY <1>12, <1>13
<1>15. h.types = P /\ h.methods = left.methods \cup MethodsOf(scope, q) /\ h.edges = left.edges \cup RowsOf(t, rws, scope, q)
  <2>1. h = Rebuild!Written(t, left, scope, q)
    BY DEF Rebuild!ScopedGraph, t
  <2>2. left.types \cup (scope \cap Rebuild!Present(q)) = Rebuild!Present(q)
    BY <1>1, <1>3, <1>12
  <2> HIDE DEF left, scope, h
  <2>3. /\ h.types = Rebuild!Present(q) /\ h.methods = left.methods \cup MethodsOf(scope, q)
        /\ h.edges = left.edges \cup RowsOf(t, Rebuild!ExtendsRows(t), scope, q)
    BY <1>9, <2>1, <2>2, WrittenIs
  <2> QED BY <2>3, <1>1, <1>11
<1> HIDE DEF left, h, full
<1>16. h.methods = full.methods
  <2>1. ASSUME NEW m \in left.methods PROVE m \in MethodsOf(JavaFiles, q)
    <3>1. PICK f \in P : \E a \in p[f].methods : m = <<"method", f, a>>
      BY <2>1, <1>12 DEF Sound
    <3>2. f \notin C
      BY <2>1, <3>1, <1>12
    <3> QED BY <3>1, <3>2, <1>1 DEF MethodsOf
  <2>2. MethodsOf(scope, q) \subseteq MethodsOf(JavaFiles, q)
    BY <1>7 DEF MethodsOf
  <2>3. ASSUME NEW m \in MethodsOf(JavaFiles, q) PROVE m \in left.methods \/ m \in MethodsOf(scope, q)
    <3>1. PICK f \in P : \E a \in q[f].methods : m = <<"method", f, a>>
      BY <1>1 DEF MethodsOf
    <3>2. CASE f \in scope
      BY <3>1, <3>2, <1>1 DEF MethodsOf
    <3>3. CASE f \notin scope
      <4>1. m[2] = f /\ m \in g.methods /\ f \notin C
        BY <3>1, <3>3, <1>1, <1>8
      <4> QED BY <4>1, <1>12
    <3> QED BY <3>2, <3>3
  <2> QED BY <2>1, <2>2, <2>3, <1>4, <1>15
<1>17. ASSUME NEW f \in scope \cap P, NEW c \in q[f].calls
       PROVE  Rebuild!CallEdges(t, rws, f, c) = Rebuild!CallEdges(u, rws, f, c)
  <2> HIDE DEF scope
  <2>1. f \in scope \cap Rebuild!Present(q)
    BY <1>1
  <2> QED BY <2>1, <1>10, <1>11, CallsAlike
<1>18. ASSUME NEW f \in P, f \notin scope, NEW c \in p[f].calls
       PROVE  /\ Rebuild!CallEdges(u, rws, f, c) = Rebuild!CallEdges(w, rws, f, c)
              /\ \A e \in Rebuild!CallEdges(w, rws, f, c) : e \in left.edges
  <2>1. \A e \in Rebuild!CallEdges(w, rws, f, c) : e \in g.edges /\ e.file = f
    BY <1>1, <1>3, <1>5, RowsAreOf DEF RowsOf, CallsOf
  <2>2. p[f] = q[f]
    BY <1>1, <1>18
  <2>3. ASSUME NEW e \in Rebuild!CallEdges(w, rws, f, c), NEW k \in C, NEW a PROVE e.to # <<"method", k, a>>
    <3> SUFFICES ASSUME e.to = <<"method", k, a>> PROVE FALSE
      OBVIOUS
    <3>1. e \in g.edges /\ e.file \notin scope
      BY <2>1, <1>18
    <3>2. e.to \in g.methods
      BY <3>1 DEF Sound
    <3>3. e.to \in Rebuild!NodesOf(C, g)
      BY <3>2 DEF Rebuild!NodesOf
    <3> QED BY <3>1, <3>3, <1>13
  <2>4. Untouched(Rebuild!CallEdges(w, rws, f, c), p, q)
    BY <2>3 DEF Untouched
  <2>5. \A e \in Rebuild!CallEdges(w, rws, f, c) : e \in left.edges
    BY <2>1, <1>14, <1>18
  <2>6. Rebuild!CallEdges(u, rws, f, c) = Rebuild!CallEdges(w, rws, f, c)
    <3> HIDE DEF P
    <3>1. f \in Rebuild!Present(p)
      BY DEF P
    <3> QED BY <3>1, <2>2, <2>4, <1>2, CallsStay
  <2> QED BY <2>5, <2>6
<1>19. Rebuild!OverridesRows(t, rws) = Rebuild!OverridesRows(u, rws)
  <2> HIDE DEF scope
  <2> QED BY <1>10, OverridesAlike
<1>20. h.edges \subseteq full.edges
  <2> SUFFICES ASSUME NEW e \in h.edges PROVE e \in RowsOf(u, rws, JavaFiles, q)
    BY <1>4
  <2>1. CASE e \in left.edges
    <3>1. e \in g.edges /\ e.file \notin scope
      BY <2>1, <1>14
    <3>2. e \in RowsOf(w, rws, JavaFiles, p)
      BY <3>1, <1>3, <1>5
    <3>3. CASE \/ e \in rws
               \/ e \in Rebuild!OverridesRows(w, rws)
      <4>1. \E r \in rws : e.file = r.file
        BY <3>3, RowsAreOf
      <4> QED BY <4>1, <3>1, <1>11
    <3>4. CASE e \in CallsOf(w, rws, JavaFiles, p)
      <4>1. PICK f \in P : \E c \in p[f].calls : e \in Rebuild!CallEdges(w, rws, f, c)
        BY <3>4 DEF CallsOf
      <4>2. PICK c \in p[f].calls : e \in Rebuild!CallEdges(w, rws, f, c)
        BY <4>1
      <4>3. e.file = f
        BY <4>2, RowsAreOf
      <4>4. e \in Rebuild!CallEdges(u, rws, f, c) /\ c \in q[f].calls /\ f \in JavaFiles \cap Rebuild!Present(q)
        BY <4>2, <4>3, <3>1, <1>18, <1>1
      <4>5. e \in CallsOf(u, rws, JavaFiles, q)
        BY <4>4 DEF CallsOf
      <4> QED BY <4>5 DEF RowsOf
    <3>5. CASE e \in Rebuild!DeclaresRows(p, JavaFiles)
      <4>1. PICK f \in P : \E a \in p[f].methods : e = Rebuild!Edge("DECLARES", f, a, <<"method", f, a>>, TRUE)
        BY <3>5, RowsAreOf
      <4>2. e.file = f
        BY <4>1
      <4>3. q[f] = p[f] /\ f \in JavaFiles \cap Rebuild!Present(q)
        BY <4>2, <3>1, <1>1
      <4>4. e \in Rebuild!DeclaresRows(q, JavaFiles)
        BY <4>1, <4>3, DeclaresIs
      <4> QED BY <4>4 DEF RowsOf
    <3> QED BY <3>2, <3>3, <3>4, <3>5 DEF RowsOf
  <2>2. CASE e \in CallsOf(t, rws, scope, q)
    <3>1. PICK f \in scope \cap P : \E c \in q[f].calls : e \in Rebuild!CallEdges(t, rws, f, c)
      BY <2>2, <1>1 DEF CallsOf
    <3>2. \E c \in q[f].calls : e \in Rebuild!CallEdges(u, rws, f, c)
      BY <3>1, <1>17
    <3>3. f \in JavaFiles \cap Rebuild!Present(q)
      BY <1>1
    <3>4. e \in CallsOf(u, rws, JavaFiles, q)
      BY <3>2, <3>3 DEF CallsOf
    <3> QED BY <3>4 DEF RowsOf
  <2>3. CASE e \in Rebuild!DeclaresRows(q, scope)
    <3>1. e \in Rebuild!DeclaresRows(q, JavaFiles)
      BY <2>3, <1>7 DEF Rebuild!DeclaresRows
    <3> QED BY <3>1 DEF RowsOf
  <2>4. CASE e \in rws \/ e \in Rebuild!OverridesRows(t, rws)
    BY <2>4, <1>19 DEF RowsOf
  <2> QED BY <1>15, <2>1, <2>2, <2>3, <2>4 DEF RowsOf
<1>21. full.edges \subseteq h.edges
  <2> SUFFICES ASSUME NEW e \in RowsOf(u, rws, JavaFiles, q) PROVE e \in left.edges \/ e \in RowsOf(t, rws, scope, q)
    BY <1>4, <1>15
  <2>1. CASE e \in CallsOf(u, rws, JavaFiles, q)
    <3>1. PICK f \in P : \E c \in q[f].calls : e \in Rebuild!CallEdges(u, rws, f, c)
      BY <2>1, <1>1 DEF CallsOf
    <3>2. PICK c \in q[f].calls : e \in Rebuild!CallEdges(u, rws, f, c)
      BY <3>1
    <3>3. CASE f \in scope
      <4>1. e \in Rebuild!CallEdges(t, rws, f, c) /\ f \in scope \cap Rebuild!Present(q)
        BY <3>2, <3>3, <1>1, <1>17
      <4>2. e \in CallsOf(t, rws, scope, q)
        BY <4>1 DEF CallsOf
      <4> QED BY <4>2 DEF RowsOf
    <3>4. CASE f \notin scope
      <4>1. c \in p[f].calls
        BY <3>4, <1>1
      <4> QED BY <4>1, <3>2, <3>4, <1>18
    <3> QED BY <3>3, <3>4
  <2>2. CASE e \in Rebuild!DeclaresRows(q, JavaFiles)
    <3>1. PICK f \in P : \E a \in q[f].methods : e = Rebuild!Edge("DECLARES", f, a, <<"method", f, a>>, TRUE)
      BY <2>2, <1>1, RowsAreOf
    <3>2. CASE f \in scope
      <4>1. e \in Rebuild!DeclaresRows(q, scope)
        BY <3>1, <3>2, <1>1, DeclaresIs
      <4> QED BY <4>1 DEF RowsOf
    <3>3. CASE f \notin scope
      <4>1. q[f] = p[f]
        BY <3>3, <1>1
      <4>2. e \in Rebuild!DeclaresRows(p, JavaFiles)
        BY <3>1, <4>1, <1>1, DeclaresIs
      <4>3. e \in g.edges
        BY <4>2, <1>3 DEF RowsOf
      <4>4. e.file = f
        BY <3>1
      <4> QED BY <4>3, <4>4, <3>3, <1>14
    <3> QED BY <3>2, <3>3
  <2>3. CASE e \in rws \/ e \in Rebuild!OverridesRows(u, rws)
    BY <2>3, <1>19 DEF RowsOf
  <2> QED BY <2>1, <2>2, <2>3 DEF RowsOf
<1>22. h.edges = full.edges
  BY <1>20, <1>21
<1> QED BY <1>4, <1>15, <1>16, <1>22 DEF Rebuild!Same, h, full

RebuildInv ==
    /\ Sound(rebuilt, indexed)
    /\ tame => Rebuild!Same(rebuilt, Rebuild!FullGraph(indexed))

LEMMA RebuildInvInit == Rebuild!Init => RebuildInv
<1> SUFFICES ASSUME Rebuild!Init PROVE RebuildInv
  OBVIOUS
<1>1. rebuilt = Rebuild!FullGraph(indexed)
  BY DEF Rebuild!Init
<1>2. Sound(rebuilt, indexed)
  BY <1>1, FullIsSound
<1> QED BY <1>1, <1>2 DEF RebuildInv, Rebuild!Same

LEMMA RebuildInvNext == RebuildInv /\ [Rebuild!Next]_Rebuild!vars => RebuildInv'
<1> SUFFICES ASSUME RebuildInv, [Rebuild!Next]_Rebuild!vars PROVE RebuildInv'
  OBVIOUS
<1>1. CASE UNCHANGED <<indexed, rebuilt, tame>>
  BY <1>1 DEF RebuildInv, Sound, Rebuild!Present, Rebuild!Same, Rebuild!FullGraph
<1>2. CASE UNCHANGED Rebuild!vars
  BY <1>1, <1>2 DEF Rebuild!vars
<1>3. ASSUME NEW f \in JavaFiles, Rebuild!EditFile(f) PROVE RebuildInv'
  BY <1>1, <1>3 DEF Rebuild!EditFile
<1>4. CASE Rebuild!Reprocess
  <2>1. rebuilt' = Rebuild!FullGraph(program) /\ indexed' = program
    BY <1>4 DEF Rebuild!Reprocess
  <2>2. Sound(rebuilt', indexed')
    BY <2>1, FullIsSound
  <2>3. Rebuild!Same(rebuilt', Rebuild!FullGraph(indexed'))
    BY <2>1 DEF Rebuild!Same
  <2> QED BY <2>2, <2>3 DEF RebuildInv
<1>5. CASE Rebuild!Increment
  <2> DEFINE C == ChangedFrom(indexed, program)
             next == Rebuild!ScopedGraph(program, rebuilt, C)
  <2>1. Rebuild!Changed = C
    BY DEF Rebuild!Changed, ChangedFrom
  <2>2. /\ rebuilt' = next /\ indexed' = program
        /\ tame' = (/\ tame
                    /\ \A f \in C : ~ Rebuild!Wild(indexed[f], program[f])
                    /\ Rebuild!StubsSuffice(program, rebuilt, C \cup Rebuild!FindDependents(rebuilt, C)))
    BY <2>1, <1>5 DEF Rebuild!Increment
  <2>3. Sound(rebuilt, indexed) /\ (tame => Rebuild!Same(rebuilt, Rebuild!FullGraph(indexed)))
    BY DEF RebuildInv
  <2>4. rebuilt.types \subseteq JavaFiles /\ \A e \in rebuilt.edges : e.file \in JavaFiles
    BY <2>3 DEF Sound, Rebuild!Present
  <2>5. Sound(next, program)
    BY <2>3, <2>4, ScopedIsSound
  <2>6. ASSUME tame' PROVE Rebuild!Same(next, Rebuild!FullGraph(program))
    <3>1. Tamed(indexed, program) /\ Rebuild!Same(rebuilt, Rebuild!FullGraph(indexed))
      BY <2>2, <2>3, <2>6 DEF Tamed
    <3>2. Rebuild!StubsSuffice(program, rebuilt, C \cup Rebuild!FindDependents(rebuilt, C))
      BY <2>2, <2>6
    <3> QED BY <3>1, <3>2, <2>3, ScopedIsFull
  <2> HIDE DEF next
  <2>7. Sound(rebuilt', indexed')
    BY <2>2, <2>5
  <2>8. tame' => Rebuild!Same(rebuilt', Rebuild!FullGraph(indexed'))
    BY <2>2, <2>6
  <2> QED BY <2>7, <2>8 DEF RebuildInv
<1> QED BY <1>2, <1>3, <1>4, <1>5 DEF Rebuild!Next

LEMMA RebuildInvSays == RebuildInv => RebuildIsFaithful
<1> SUFFICES ASSUME RebuildInv PROVE RebuildIsFaithful
  OBVIOUS
<1>1. Rebuild!EquivalentWhenTame
  BY DEF RebuildInv, Rebuild!EquivalentWhenTame
<1>2. Sound(rebuilt, indexed)
  BY DEF RebuildInv
<1>3. \A f \in rebuilt.types : indexed[f] # None
  BY <1>2 DEF Sound, Rebuild!Present
<1>4. \A m \in rebuilt.methods : indexed[m[2]] # None /\ m[3] \in indexed[m[2]].methods
  BY <1>2 DEF Sound, Rebuild!Present
<1>5. \A e \in rebuilt.edges :
         /\ indexed[e.file] # None
         /\ e.row[1] \in {"CALLS", "UNRESOLVED_AT"} => e.row[2] \in indexed[e.file].calls
         /\ e.to[1] = "type" => e.to[2] \in rebuilt.types
         /\ e.to[1] = "method" => e.to \in rebuilt.methods
  BY <1>2 DEF Sound, Rebuild!Present
<1>6. Rebuild!NothingStale
  BY <1>3, <1>4, <1>5 DEF Rebuild!NothingStale
<1> QED BY <1>1, <1>6 DEF RebuildIsFaithful, Rebuild!RebuildIsFaithful

\* An incremental rebuild of a file and what depends on it leaves nothing stale, and when no
\* edit was wild and the stubs sufficed, the graph of a full rebuild (incremental_rebuild).
THEOREM RebuildsStayFaithful == Rebuild!Spec => []RebuildIsFaithful
<1>1. Rebuild!Init => RebuildInv
  BY RebuildInvInit
<1>2. RebuildInv /\ [Rebuild!Next]_Rebuild!vars => RebuildInv'
  BY RebuildInvNext
<1>3. RebuildInv => RebuildIsFaithful
  BY RebuildInvSays
<1> QED BY <1>1, <1>2, <1>3, PTL DEF Rebuild!Spec

----------------------------------------------------------------------------
(* The links between services follow the sources *)

LEMMA LeastNumber == ASSUME NEW T, T \subseteq Nat, T # {} PROVE \E x \in T : \A y \in T : x <= y
<1> DEFINE R == {ss \in Nat \X Nat : ss[1] < ss[2]}
<1>1. R = OpToRel(<, Nat)
  BY DEF OpToRel
<1>2. IsWellFoundedOn(R, Nat)
  BY <1>1, NatLessThanWellFounded
<1>3. PICK x \in T : \A y \in T : <<y, x>> \notin R
  BY <1>2, WFMin
<1>4. ASSUME NEW y \in T PROVE x <= y
  <2>1. x \in Nat /\ y \in Nat /\ <<y, x>> \notin R
    BY <1>3
  <2>2. ~(y < x)
    BY <2>1
  <2> QED BY <2>1, <2>2
<1> QED BY <1>4

LinkFiles == ToSet(LinkOrder)

LEMMA FilesAreInOrder == Wiring!Files = LinkFiles /\ None \notin LinkFiles
<1>1. DOMAIN LinkOrder = 1..Len(LinkOrder)
  BY LinksAssumption, LenProperties
<1> QED BY <1>1, LinksAssumption DEF Wiring!Files, LinkFiles, ToSet

\* The first of some files is one of them.
LEMMA FirstIsOneOf == ASSUME NEW fs, fs \subseteq LinkFiles, fs # {} PROVE Wiring!FirstOf(fs) \in fs
<1> DEFINE T == {i \in DOMAIN LinkOrder : LinkOrder[i] \in fs}
<1>1. DOMAIN LinkOrder = 1..Len(LinkOrder) /\ Len(LinkOrder) \in Nat
  BY LinksAssumption, LenProperties
<1>2. T \subseteq Nat /\ T # {}
  BY <1>1 DEF LinkFiles, ToSet
<1>3. PICK i \in T : \A j \in T : i <= j
  BY <1>2, LeastNumber
<1>4. i \in DOMAIN LinkOrder /\ LinkOrder[i] \in fs /\ \A j \in 1..(i - 1) : LinkOrder[j] \notin fs
  <2>1. ASSUME NEW j \in 1..(i - 1), LinkOrder[j] \in fs PROVE FALSE
    <3>1. j \in T
      BY <1>1, <2>1
    <3> QED BY <3>1, <1>3, <1>1
  <2> QED BY <2>1
<1> QED BY <1>4 DEF Wiring!FirstOf

\* The ids of the routes that a file exposes or consumes.
Declared(f, p) ==
    IF p[f] = None THEN {}
    ELSE {Wiring!RouteId(r.kind, r.method, r.path, r.topic, LinkService[f], None) : r \in Wiring!ResolveRoutes(f, p[f])}

Exposes(p, scope) == {x \in UNION {{<<f, id>> : id \in Declared(f, p)} : f \in scope} : x[2].kind # "http_consumer"}

\* Pass 4 makes a row of each route that a file of its scope declares, of one such file or of
\* the configuration, and an edge of each that a file exposes.
LEMMA Pass4Is ==
    ASSUME NEW p, NEW scope, scope \subseteq LinkFiles, NEW t, t = Wiring!Pass4Routes(p, scope)
    PROVE  /\ \A r \in t.routes : \E f \in scope : r.id \in Declared(f, p) /\ r.file \in {None, f}
           /\ \A f \in scope : \A id \in Declared(f, p) : \E r \in t.routes : r.id = id
           /\ t.exposes = Exposes(p, scope)
           /\ t = [routes |-> t.routes, exposes |-> t.exposes]
<1> DEFINE present == {f \in scope : p[f] # None}
           idOf(f, r) == Wiring!RouteId(r.kind, r.method, r.path, r.topic, LinkService[f], None)
           found == UNION {{[file |-> f, id |-> idOf(f, r), layer |-> r.from] : r \in Wiring!ResolveRoutes(f, p[f])} : f \in present}
           of(id) == {x \in found : x.id = id}
           first(id) == Wiring!FirstOf({x.file : x \in of(id)})
           best(id) == CHOOSE x \in of(id) : \A y \in of(id) : Wiring!LayerRank[y.layer] <= Wiring!LayerRank[x.layer]
           row(id) == Wiring!Route(id, Wiring!RouteFile(first(id), p[first(id)]), best(id).layer)
<1>1. t = [routes |-> {row(x.id) : x \in found}, exposes |-> {<<x.file, x.id>> : x \in {x \in found : x.id.kind # "http_consumer"}}]
  BY Zenon DEF Wiring!Pass4Routes
<1>2. t.routes = {row(x.id) : x \in found} /\ t.exposes = {<<x.file, x.id>> : x \in {x \in found : x.id.kind # "http_consumer"}}
  BY <1>1
<1>3. \A x \in found : x.file \in scope /\ x.id \in Declared(x.file, p)
  BY DEF Declared
<1>4. ASSUME NEW f \in scope, NEW id \in Declared(f, p) PROVE \E x \in found : x.file = f /\ x.id = id
  <2>1. f \in present
    BY DEF Declared
  <2>2. PICK r \in Wiring!ResolveRoutes(f, p[f]) : id = idOf(f, r)
    BY <2>1 DEF Declared
  <2> DEFINE x == [file |-> f, id |-> idOf(f, r), layer |-> r.from]
  <2>3. x \in found
    BY <2>1
  <2>4. x.file = f /\ x.id = id
    BY <2>2
  <2> HIDE DEF x, found
  <2> QED BY <2>3, <2>4
<1> HIDE DEF found
<1>5. ASSUME NEW x \in found
      PROVE  /\ row(x.id).id = x.id
             /\ \E f \in scope : x.id \in Declared(f, p) /\ row(x.id).file \in {None, f}
  <2>1. {y.file : y \in of(x.id)} \subseteq LinkFiles /\ {y.file : y \in of(x.id)} # {}
    BY <1>3
  <2>2. first(x.id) \in {y.file : y \in of(x.id)}
    BY <2>1, FirstIsOneOf
  <2>3. first(x.id) \in scope /\ x.id \in Declared(first(x.id), p)
    BY <2>2, <1>3
  <2> HIDE DEF first
  <2> QED BY <2>3 DEF Wiring!Route, Wiring!RouteFile
<1> HIDE DEF row
<1>6. ASSUME NEW r \in t.routes PROVE \E f \in scope : r.id \in Declared(f, p) /\ r.file \in {None, f}
  <2>1. PICK x \in found : r = row(x.id)
    BY <1>2
  <2> QED BY <2>1, <1>5
<1>7. ASSUME NEW f \in scope, NEW id \in Declared(f, p) PROVE \E r \in t.routes : r.id = id
  <2>1. PICK x \in found : x.file = f /\ x.id = id
    BY <1>4
  <2> QED BY <2>1, <1>5, <1>2
<1>8. t.exposes = Exposes(p, scope)
  <2>1. ASSUME NEW e \in t.exposes PROVE e \in Exposes(p, scope)
    <3>1. PICK x \in found : e = <<x.file, x.id>> /\ x.id.kind # "http_consumer"
      BY <1>2
    <3>2. x.file \in scope /\ x.id \in Declared(x.file, p)
      BY <1>3
    <3> QED BY <3>1, <3>2 DEF Exposes
  <2>2. ASSUME NEW e \in Exposes(p, scope) PROVE e \in t.exposes
    <3>1. PICK f \in scope : \E id \in Declared(f, p) : e = <<f, id>> /\ id.kind # "http_consumer"
      BY DEF Exposes
    <3>3. PICK id \in Declared(f, p) : e = <<f, id>> /\ id.kind # "http_consumer"
      BY <3>1
    <3>2. PICK x \in found : x.file = f /\ x.id = id
      BY <1>4
    <3> QED BY <3>3, <3>2, <1>2
  <2> QED BY <2>1, <2>2
<1> QED BY <1>1, <1>2, <1>6, <1>7, <1>8

LEMMA ServiceIs ==
    ASSUME NEW k, NEW m, NEW a, NEW b, NEW v, NEW s PROVE Wiring!RouteId(k, m, a, b, v, s).service = v
BY DEF Wiring!RouteId

\* Pass 5 adds a row for each phantom that a call names, and every call is of some row.
LEMMA Pass5Is ==
    ASSUME NEW p, NEW t, t = Wiring!Pass4Routes(p, LinkFiles), NEW u, u = Wiring!Pass5Edges(p, t)
    PROVE  /\ u = [routes |-> u.routes, exposes |-> t.exposes, clients |-> u.clients, calls |-> u.calls]
           /\ t.routes \subseteq u.routes
           /\ \A r \in u.routes \ t.routes :
                r.id.service = "" /\ (\A q \in t.routes : q.id # r.id) /\ r.file \in {None} \cup LinkFiles
           /\ \A call \in u.calls : \E r \in u.routes : r.id = call.route
<1> DEFINE present == {f \in Wiring!Files : p[f] # None}
           calls == UNION {{[file |-> f, call |-> c, to |-> Wiring!SourceRoute(t, f, c)] : c \in Wiring!ResolveCalls(f, p[f])} : f \in present}
           ids == {x.to : x \in calls} \ {r.id : r \in t.routes}
           first(id) == Wiring!FirstOf({x.file : x \in {x \in calls : x.to = id}})
           one(id) == CHOOSE x \in calls : x.to = id /\ x.file = first(id)
           row(id) == Wiring!Route(id, Wiring!CallFile(first(id), p[first(id)], one(id).call), "builtin")
           edge(x) == [client |-> Wiring!ClientOf(x.file, x.call), route |-> x.to, from |-> x.call.from]
<1>1. u = [routes |-> t.routes \cup {row(id) : id \in ids}, exposes |-> t.exposes,
           clients |-> {Wiring!ClientOf(x.file, x.call) : x \in calls}, calls |-> {edge(x) : x \in calls}]
  BY Zenon DEF Wiring!Pass5Edges
<1>2. /\ u.routes = t.routes \cup {row(id) : id \in ids}
      /\ u = [routes |-> u.routes, exposes |-> t.exposes, clients |-> u.clients, calls |-> u.calls]
      /\ u.calls = {edge(x) : x \in calls}
  BY <1>1
<1>3. \A f \in LinkFiles : \A id \in Declared(f, p) : \E r \in t.routes : r.id = id
  BY Pass4Is
<1>4. t.exposes = Exposes(p, LinkFiles)
  BY Pass4Is
<1>5. \A x \in calls : x.file \in LinkFiles /\ x.to = Wiring!SourceRoute(t, x.file, x.call)
  BY FilesAreInOrder
<1> HIDE DEF calls
<1>6. ASSUME NEW x \in calls, \A r \in t.routes : r.id # x.to PROVE x.to.service = ""
  <2>1. CASE x.to = Wiring!PhantomId(x.file, x.call)
    <3> DEFINE kind == IF x.call.channel = "http" THEN "http_endpoint" ELSE "kafka_topic"
               site == IF x.call.topic # "" \/ (x.call.path # "" /\ x.call.method # "") THEN None ELSE x.file
               nothing == ""
    <3>1. x.to = Wiring!RouteId(kind, x.call.method, x.call.path, x.call.topic, "", site)
      BY <2>1, Zenon DEF Wiring!PhantomId
    <3>2. x.to = Wiring!RouteId(kind, x.call.method, x.call.path, x.call.topic, nothing, site)
      BY <3>1
    <3> HIDE DEF kind, site, nothing
    <3>3. x.to.service = nothing
      BY <3>2, ServiceIs
    <3> QED BY <3>3 DEF nothing
  <2>2. CASE x.to # Wiring!PhantomId(x.file, x.call)
    <3> DEFINE exposed == {y \in t.exposes : y[1] = x.file}
               some == CHOOSE y \in exposed : TRUE
    <3>1. exposed # {} /\ x.to = some[2]
      BY <2>2, <1>5 DEF Wiring!SourceRoute
    <3>2. some \in Exposes(p, LinkFiles)
      BY <3>1, <1>4
    <3> HIDE DEF some, exposed
    <3>3. PICK f \in LinkFiles : \E id \in Declared(f, p) : some = <<f, id>>
      BY <3>2 DEF Exposes
    <3>4. PICK id \in Declared(f, p) : some = <<f, id>>
      BY <3>3
    <3>5. x.to = id
      BY <3>1, <3>4
    <3> QED BY <3>5, <1>3, <1>6
  <2> QED BY <2>1, <2>2
<1>7. ASSUME NEW id \in ids PROVE row(id).id = id /\ row(id).file \in {None} \cup LinkFiles
  <2>1. {x.file : x \in {x \in calls : x.to = id}} \subseteq LinkFiles /\ {x.file : x \in {x \in calls : x.to = id}} # {}
    BY <1>5
  <2>2. first(id) \in LinkFiles
    BY <2>1, FirstIsOneOf
  <2> HIDE DEF first, one
  <2> QED BY <2>2 DEF Wiring!Route, Wiring!CallFile
<1> HIDE DEF row
<1>8. ASSUME NEW r \in u.routes \ t.routes
      PROVE r.id.service = "" /\ (\A q \in t.routes : q.id # r.id) /\ r.file \in {None} \cup LinkFiles
  <2>1. PICK id \in ids : r = row(id)
    BY <1>2
  <2>2. PICK x \in calls : id = x.to
    OBVIOUS
  <2>3. \A q \in t.routes : q.id # id
    OBVIOUS
  <2> QED BY <2>1, <2>2, <2>3, <1>6, <1>7
<1>9. ASSUME NEW call \in u.calls PROVE \E r \in u.routes : r.id = call.route
  <2>1. PICK x \in calls : call = edge(x)
    BY <1>2
  <2>2. call.route = x.to
    BY <2>1
  <2>3. CASE x.to \in ids
    BY <2>2, <2>3, <1>2, <1>7
  <2>4. CASE x.to \notin ids
    BY <2>2, <2>4, <1>2
  <2> QED BY <2>3, <2>4
<1> QED BY <1>2, <1>8, <1>9

\* Pass 6 leads each call to a row that stays, and drops only phantoms.
LEMMA Pass6Is ==
    ASSUME NEW u, NEW X, NEW K, u = [routes |-> u.routes, exposes |-> X, clients |-> K, calls |-> u.calls],
           \A call \in u.calls : \E r \in u.routes : r.id = call.route
    PROVE  LET v == Wiring!Pass6Match(u)
           IN  /\ v = [routes |-> v.routes, exposes |-> X, clients |-> K, calls |-> v.calls]
               /\ v.routes \subseteq u.routes
               /\ \A r \in u.routes : r.id.service # "" => r \in v.routes
               /\ \A call \in v.calls : \E r \in v.routes : r.id = call.route
<1> DEFINE v == Wiring!Pass6Match(u)
           leads(call) == Wiring!Outcome(u, call) \in {"cross_service", "intra_service"}
           it(call) == CHOOSE r \in Wiring!MatchCallEdge(u, call) : TRUE
           matched(call) == [client |-> call.client, match |-> Wiring!Outcome(u, call),
                             route |-> IF leads(call) THEN it(call).id ELSE call.route]
           calls == {matched(call) : call \in u.calls}
           kept == {r \in u.routes : r.id.service # "" \/ \E call \in calls : call.route = r.id}
<1>1. v = [u EXCEPT !.calls = calls, !.routes = kept]
  BY Zenon DEF Wiring!Pass6Match
<1>3. v = [routes |-> kept, exposes |-> X, clients |-> K, calls |-> calls]
  <2> HIDE DEF kept, calls
  <2> DEFINE w == [u EXCEPT !.calls = calls]
  <2>1. w = [routes |-> u.routes, exposes |-> X, clients |-> K, calls |-> calls]
    OBVIOUS
  <2>2. v = [w EXCEPT !.routes = kept]
    BY Zenon, <1>1
  <2> HIDE DEF w, v
  <2> QED BY <2>1, <2>2
<1>2. v.routes = kept /\ v.calls = calls
  <2> HIDE DEF kept, calls, v
  <2> QED BY <1>3
<1> HIDE DEF v
<1>4. ASSUME NEW call \in u.calls PROVE \E r \in u.routes : r.id = matched(call).route
  <2>1. CASE ~leads(call)
    BY <2>1
  <2>2. CASE leads(call)
    <3>1. Wiring!MatchCallEdge(u, call) # {}
      BY <2>2 DEF Wiring!Outcome
    <3>2. it(call) \in Wiring!MatchCallEdge(u, call)
      BY <3>1
    <3>3. \A r \in Wiring!MatchCallEdge(u, call) : r \in u.routes
      BY DEF Wiring!MatchCallEdge
    <3>4. matched(call).route = it(call).id
      BY <2>2
    <3> QED BY <3>2, <3>3, <3>4
  <2> QED BY <2>1, <2>2
<1> HIDE DEF matched
<1>5. ASSUME NEW call \in v.calls PROVE \E r \in v.routes : r.id = call.route
  <2>1. PICK c \in u.calls : call = matched(c)
    BY <1>2
  <2>2. PICK r \in u.routes : r.id = call.route
    BY <2>1, <1>4
  <2> QED BY <2>2, <1>2
<1>6. v.routes \subseteq u.routes /\ \A r \in u.routes : r.id.service # "" => r \in v.routes
  BY <1>2
<1>7. v = [routes |-> v.routes, exposes |-> X, clients |-> K, calls |-> v.calls]
  BY <1>2, <1>3
<1> QED BY <1>5, <1>6, <1>7 DEF v

\* The id of a route that a file of a service declares is no phantom's.
Served(id) == id.service # ""

\* What a row of a route says of its file: the file declares the route; or it is a
\* phantom, and no file does.
RowIsOf(r, p) ==
    r.file # None =>
        /\ r.file \in LinkFiles
        /\ \/ r.id \in Declared(r.file, p)
           \/ r.id.service = "" /\ \A f \in LinkFiles : r.id \notin Declared(f, p)

\* The graph of a full build.
LEMMA FullLinksAre ==
    ASSUME NEW p, NEW g, g = Wiring!FullLinks(p)
    PROVE  /\ g = [routes |-> g.routes, exposes |-> Exposes(p, LinkFiles), clients |-> g.clients, calls |-> g.calls]
           /\ \A r \in g.routes : RowIsOf(r, p)
           /\ \A f \in LinkFiles : \A id \in Declared(f, p) : Served(id) => \E r \in g.routes : r.id = id
           /\ \A call \in g.calls : \E r \in g.routes : r.id = call.route
<1> DEFINE t == Wiring!Pass4Routes(p, LinkFiles)
           u == Wiring!Pass5Edges(p, t)
           v == Wiring!Pass6Match(u)
<1>1. g = Wiring!InGraph(v)
  BY FilesAreInOrder DEF Wiring!FullLinks
<1>2. /\ \A r \in t.routes : \E f \in LinkFiles : r.id \in Declared(f, p) /\ r.file \in {None, f}
      /\ \A f \in LinkFiles : \A id \in Declared(f, p) : \E r \in t.routes : r.id = id
      /\ t.exposes = Exposes(p, LinkFiles)
  BY Pass4Is
<1>3. /\ u = [routes |-> u.routes, exposes |-> t.exposes, clients |-> u.clients, calls |-> u.calls]
      /\ t.routes \subseteq u.routes
      /\ \A r \in u.routes \ t.routes :
           r.id.service = "" /\ (\A q \in t.routes : q.id # r.id) /\ r.file \in {None} \cup LinkFiles
      /\ \A call \in u.calls : \E r \in u.routes : r.id = call.route
  BY Pass5Is
<1>4. /\ v = [routes |-> v.routes, exposes |-> t.exposes, clients |-> u.clients, calls |-> v.calls]
      /\ v.routes \subseteq u.routes
      /\ \A r \in u.routes : r.id.service # "" => r \in v.routes
      /\ \A call \in v.calls : \E r \in v.routes : r.id = call.route
  <2> HIDE DEF u, t
  <2> QED BY <1>3, Pass6Is
<1>9. g = [v EXCEPT !.routes = {[id |-> r.id, file |-> r.file] : r \in v.routes}]
  BY <1>1, Zenon DEF Wiring!InGraph
<1> HIDE DEF v, u, t
<1>5. /\ g = [routes |-> g.routes, exposes |-> t.exposes, clients |-> g.clients, calls |-> g.calls]
      /\ g.routes = {[id |-> r.id, file |-> r.file] : r \in v.routes} /\ g.calls = v.calls
  <2> DEFINE written == {[id |-> r.id, file |-> r.file] : r \in v.routes}
  <2>1. g = [v EXCEPT !.routes = written]
    BY <1>9
  <2> HIDE DEF written
  <2>2. g = [routes |-> written, exposes |-> t.exposes, clients |-> u.clients, calls |-> v.calls]
    <3>1. v = [routes |-> v.routes, exposes |-> t.exposes, clients |-> u.clients, calls |-> v.calls]
      BY <1>4
    <3> QED BY <2>1, <3>1
  <2>3. g.routes = written /\ g.calls = v.calls /\ g = [routes |-> g.routes, exposes |-> t.exposes, clients |-> g.clients, calls |-> g.calls]
    BY <2>2
  <2> QED BY <2>3 DEF written
<1>6. ASSUME NEW r \in g.routes PROVE RowIsOf(r, p)
  <2>1. PICK q \in v.routes : r = [id |-> q.id, file |-> q.file]
    BY <1>5
  <2>2. r.id = q.id /\ r.file = q.file
    BY <2>1
  <2>3. CASE q \in t.routes
    BY <2>2, <2>3, <1>2 DEF RowIsOf
  <2>4. CASE q \notin t.routes
    <3>1. q.id.service = "" /\ (\A x \in t.routes : x.id # q.id) /\ q.file \in {None} \cup LinkFiles
      BY <2>4, <1>3, <1>4
    <3> QED BY <2>2, <3>1, <1>2 DEF RowIsOf
  <2> QED BY <2>3, <2>4
<1>7. ASSUME NEW f \in LinkFiles, NEW id \in Declared(f, p), Served(id) PROVE \E r \in g.routes : r.id = id
  <2>1. PICK q \in t.routes : q.id = id
    BY <1>2
  <2>2. q \in v.routes
    BY <2>1, <1>3, <1>4, <1>7 DEF Served
  <2>3. [id |-> q.id, file |-> q.file] \in g.routes
    BY <2>2, <1>5
  <2> QED BY <2>1, <2>3
<1>8. ASSUME NEW call \in g.calls PROVE \E r \in g.routes : r.id = call.route
  <2>1. PICK q \in v.routes : q.id = call.route
    BY <1>4, <1>5
  <2>2. [id |-> q.id, file |-> q.file] \in g.routes
    BY <2>1, <1>5
  <2> QED BY <2>1, <2>2
<1> QED BY <1>2, <1>5, <1>6, <1>7, <1>8

----------------------------------------------------------------------------

\* The graph is, but for what stays behind, that of a full build of the indexed contents:
\* LinksFollowSources of every state, whatever has been edited since.
Followed ==
    LET full == Wiring!FullLinks(linked)
    IN  /\ links.calls = full.calls /\ links.clients = full.clients
        /\ full.routes \subseteq links.routes
        /\ \A r \in links.routes \ full.routes :
             /\ \A q \in full.routes : q.id # r.id
             /\ r.id.service = "" \/ r.file = None
        /\ links.exposes \subseteq full.exposes
        /\ \A x \in full.exposes \ links.exposes : x[2] \in shared

LinksInv ==
    /\ Followed
    /\ \A r \in links.routes : RowIsOf(r, linked)
    /\ Wiring!SharedBy(Wiring!FullLinks(linked)) \subseteq shared

\* A full build leaves what it should.
LEMMA FullFollows ==
    ASSUME NEW p, p = linked', links' = Wiring!FullLinks(p), shared' = Wiring!SharedBy(links')
    PROVE  LinksInv'
<1> DEFINE g == Wiring!FullLinks(p)
<1>1. \A r \in g.routes : RowIsOf(r, p)
  BY FullLinksAre
<1>2. g = links' /\ p = linked'
  OBVIOUS
<1> HIDE DEF g
<1>3. Followed'
  BY <1>2 DEF Followed, g
<1>4. (\A r \in links.routes : RowIsOf(r, linked))'
  BY <1>1, <1>2 DEF RowIsOf
<1>5. (Wiring!SharedBy(Wiring!FullLinks(linked)) \subseteq shared)'
  BY <1>2 DEF g
<1> QED BY <1>3, <1>4, <1>5 DEF LinksInv

\* Two files expose what two edges of a graph lead to.
LEMMA TwoShare ==
    ASSUME NEW p, NEW f \in LinkFiles, NEW h \in LinkFiles, f # h, NEW id \in Declared(f, p), id \in Declared(h, p),
           id.kind # "http_consumer"
    PROVE  id \in Wiring!SharedBy(Wiring!FullLinks(p))
<1> DEFINE g == Wiring!FullLinks(p)
<1>1. g = [routes |-> g.routes, exposes |-> Exposes(p, LinkFiles), clients |-> g.clients, calls |-> g.calls]
  BY FullLinksAre
<1> HIDE DEF g
<1>2. g.exposes = Exposes(p, LinkFiles)
  BY <1>1
<1> DEFINE x == <<f, id>>  y == <<h, id>>
<1>3. x \in Exposes(p, LinkFiles) /\ y \in Exposes(p, LinkFiles)
  BY DEF Exposes
<1>4. x[1] = f /\ x[2] = id /\ y[1] = h /\ y[2] = id
  OBVIOUS
<1> HIDE DEF x, y
<1>5. id \in Wiring!SharedBy(g)
  BY <1>2, <1>3, <1>4 DEF Wiring!SharedBy
<1> QED BY <1>5 DEF g

\* So does an increment that does not fall back.
LEMMA IncrementFollows ==
    ASSUME LinksInv, NEW p, p = linked', NEW scope, scope \subseteq LinkFiles,
           \A f \in LinkFiles \ scope : p[f] = linked[f],
           ~Wiring!CopyClashes(Wiring!DeleteRoutes(links, scope), Wiring!InGraph(Wiring!Pass4Routes(p, scope))),
           links' = Wiring!IncrementLinks(links, p, scope),
           shared' = shared \cup Wiring!SharedBy(Wiring!FullLinks(p))
    PROVE  LinksInv'
<1> DEFINE left   == Wiring!DeleteRoutes(links, scope)
           pass4  == Wiring!Pass4Routes(p, scope)
           scoped == Wiring!InGraph(pass4)
           full   == Wiring!FullLinks(p)
           old    == Wiring!FullLinks(linked)
           gone   == {r \in links.routes : r.file \in scope}
<1>1. /\ \A r \in pass4.routes : \E f \in scope : r.id \in Declared(f, p) /\ r.file \in {None, f}
      /\ \A f \in scope : \A id \in Declared(f, p) : \E r \in pass4.routes : r.id = id
      /\ pass4.exposes = Exposes(p, scope)
      /\ pass4 = [routes |-> pass4.routes, exposes |-> pass4.exposes]
  BY Pass4Is
<1>2. scoped = [pass4 EXCEPT !.routes = {[id |-> r.id, file |-> r.file] : r \in pass4.routes}]
  BY Zenon DEF Wiring!InGraph
<1>3. scoped.routes = {[id |-> r.id, file |-> r.file] : r \in pass4.routes} /\ scoped.exposes = Exposes(p, scope)
  <2> DEFINE written == {[id |-> r.id, file |-> r.file] : r \in pass4.routes}
  <2> HIDE DEF written, pass4, scoped
  <2>1. scoped.routes = written /\ scoped.exposes = Exposes(p, scope)
    BY <1>1, <1>2 DEF written
  <2> QED BY <2>1 DEF written
<1>4. /\ \A r \in scoped.routes : \E f \in scope : r.id \in Declared(f, p) /\ r.file \in {None, f}
      /\ \A f \in scope : \A id \in Declared(f, p) : \E r \in scoped.routes : r.id = id
  <2> HIDE DEF pass4, scoped
  <2>1. ASSUME NEW r \in scoped.routes PROVE \E f \in scope : r.id \in Declared(f, p) /\ r.file \in {None, f}
    <3>1. PICK q \in pass4.routes : r = [id |-> q.id, file |-> q.file]
      BY <1>3
    <3> QED BY <3>1, <1>1
  <2>2. ASSUME NEW f \in scope, NEW id \in Declared(f, p) PROVE \E r \in scoped.routes : r.id = id
    <3>1. PICK q \in pass4.routes : q.id = id
      BY <1>1
    <3>2. [id |-> q.id, file |-> q.file] \in scoped.routes
      BY <1>3
    <3> QED BY <3>1, <3>2
  <2> QED BY <2>1, <2>2
<1>5. /\ left.routes = links.routes \ gone
      /\ left.exposes = {x \in links.exposes : x[1] \notin scope /\ x[2] \notin {r.id : r \in gone}}
  BY DEF Wiring!DeleteRoutes
<1>6. \A r \in left.routes : \A q \in scoped.routes : r.id # q.id
  BY DEF Wiring!CopyClashes
<1>7. /\ full = [routes |-> full.routes, exposes |-> Exposes(p, LinkFiles), clients |-> full.clients, calls |-> full.calls]
      /\ \A r \in full.routes : RowIsOf(r, p)
      /\ \A f \in LinkFiles : \A id \in Declared(f, p) : Served(id) => \E r \in full.routes : r.id = id
  <2>1. full = Wiring!FullLinks(p)
    OBVIOUS
  <2> HIDE DEF full
  <2>2. full = [routes |-> full.routes, exposes |-> Exposes(p, LinkFiles), clients |-> full.clients, calls |-> full.calls]
    BY <2>1, FullLinksAre
  <2>3. \A r \in full.routes : RowIsOf(r, p)
    BY <2>1, FullLinksAre
  <2>4. \A f \in LinkFiles : \A id \in Declared(f, p) : Served(id) => \E r \in full.routes : r.id = id
    BY <2>1, FullLinksAre
  <2> QED BY <2>2, <2>3, <2>4
<1>8. old.exposes = Exposes(linked, LinkFiles)
  <2>1. old = [routes |-> old.routes, exposes |-> Exposes(linked, LinkFiles), clients |-> old.clients, calls |-> old.calls]
    BY FullLinksAre
  <2> HIDE DEF old
  <2> QED BY <2>1
<1>9. /\ links'.calls = full.calls /\ links'.clients = full.clients
      /\ links'.routes = full.routes \cup {r \in left.routes \cup scoped.routes : r.id \notin {q.id : q \in full.routes}}
      /\ links'.exposes = left.exposes \cup scoped.exposes
  <2> DEFINE both == [routes |-> left.routes \cup scoped.routes, exposes |-> left.exposes \cup scoped.exposes]
             all  == full.routes \cup {r \in left.routes \cup scoped.routes : r.id \notin {q.id : q \in full.routes}}
             out  == left.exposes \cup scoped.exposes
             w    == [full EXCEPT !.routes = all]
  <2>1. links' = Wiring!WriteGlobal(both, full)
    BY Zenon DEF Wiring!IncrementLinks, Wiring!GlobalLinks
  <2>2. both.routes = left.routes \cup scoped.routes /\ both.exposes = out
    OBVIOUS
  <2> HIDE DEF left, scoped, full, both
  <2>3. links' = [full EXCEPT !.routes = all, !.exposes = out]
    BY <2>1, <2>2 DEF Wiring!WriteGlobal
  <2>4. links' = [w EXCEPT !.exposes = out]
    BY <2>3, Zenon
  <2>5. full.routes \cup {r \in left.routes \cup scoped.routes : r.id \notin {q.id : q \in full.routes}} = all /\ left.exposes \cup scoped.exposes = out
    OBVIOUS
  <2> HIDE DEF all, out
  <2>6. w = [routes |-> all, exposes |-> Exposes(p, LinkFiles), clients |-> full.clients, calls |-> full.calls]
    <3>1. full = [routes |-> full.routes, exposes |-> Exposes(p, LinkFiles), clients |-> full.clients, calls |-> full.calls]
      BY <1>7
    <3> HIDE DEF full
    <3> QED BY <3>1
  <2> HIDE DEF w
  <2> QED BY <2>4, <2>5, <2>6
<1>10. full.exposes = Exposes(p, LinkFiles)
  <2>1. full = [routes |-> full.routes, exposes |-> Exposes(p, LinkFiles), clients |-> full.clients, calls |-> full.calls]
    BY <1>7
  <2> HIDE DEF full
  <2> QED BY <2>1
<1> HIDE DEF left, scoped, full, pass4, old
<1>11. \A f \in LinkFiles \ scope : Declared(f, p) = Declared(f, linked)
  BY DEF Declared
<1>12. \A r \in left.routes \cup scoped.routes : RowIsOf(r, p)
  <2>1. ASSUME NEW r \in scoped.routes PROVE RowIsOf(r, p)
    BY <1>4 DEF RowIsOf
  <2>2. ASSUME NEW r \in left.routes, r.file # None PROVE RowIsOf(r, p)
    <3>1. r \in links.routes /\ r.file \notin scope /\ RowIsOf(r, linked)
      BY <1>5 DEF LinksInv
    <3>2. r.file \in LinkFiles \ scope
      BY <3>1, <2>2 DEF RowIsOf
    <3>3. CASE r.id \in Declared(r.file, linked)
      BY <3>2, <3>3, <1>11 DEF RowIsOf
    <3>4. CASE r.id \notin Declared(r.file, linked)
      <4>1. r.id.service = "" /\ \A f \in LinkFiles : r.id \notin Declared(f, linked)
        BY <3>1, <3>4, <2>2 DEF RowIsOf
      <4>2. \A f \in scope : r.id \notin Declared(f, p)
        BY <1>4, <1>6
      <4>3. \A f \in LinkFiles : r.id \notin Declared(f, p)
        BY <4>1, <4>2, <1>11
      <4> QED BY <4>1, <4>3, <3>2 DEF RowIsOf
    <3> QED BY <3>3, <3>4
  <2> QED BY <2>1, <2>2 DEF RowIsOf
<1>13. \A r \in links'.routes : RowIsOf(r, p)
  BY <1>9, <1>12, <1>7
<1>14. ASSUME NEW r \in links'.routes \ full.routes
       PROVE  (\A q \in full.routes : q.id # r.id) /\ (r.id.service = "" \/ r.file = None)
  <2>1. r \in left.routes \cup scoped.routes /\ \A q \in full.routes : q.id # r.id
    BY <1>9
  <2>2. ASSUME r.id.service # "", r.file # None PROVE FALSE
    <3>1. r.file \in LinkFiles /\ r.id \in Declared(r.file, p)
      BY <2>1, <2>2, <1>12 DEF RowIsOf
    <3> QED BY <3>1, <2>1, <2>2, <1>7 DEF Served
  <2> QED BY <2>1, <2>2
<1>15. links'.exposes \subseteq full.exposes
  <2>1. ASSUME NEW x \in left.exposes PROVE x \in Exposes(p, LinkFiles)
    <3>1. x \in links.exposes /\ x[1] \notin scope
      BY <1>5
    <3>2. x \in Exposes(linked, LinkFiles)
      BY <3>1, <1>8 DEF LinksInv, Followed, old
    <3>3. PICK f \in LinkFiles : \E id \in Declared(f, linked) : x = <<f, id>> /\ id.kind # "http_consumer"
      BY <3>2 DEF Exposes
    <3>4. PICK id \in Declared(f, linked) : x = <<f, id>> /\ id.kind # "http_consumer"
      BY <3>3
    <3>5. id \in Declared(f, p)
      BY <3>1, <3>4, <1>11
    <3> QED BY <3>4, <3>5 DEF Exposes
  <2>2. scoped.exposes \subseteq Exposes(p, LinkFiles)
    BY <1>3 DEF Exposes
  <2> QED BY <2>1, <2>2, <1>9, <1>10
<1>16. ASSUME NEW x \in full.exposes \ links'.exposes PROVE x[2] \in shared'
  <2>1. PICK f \in LinkFiles : \E id \in Declared(f, p) : x = <<f, id>> /\ id.kind # "http_consumer"
    BY <1>10 DEF Exposes
  <2>2. PICK id \in Declared(f, p) : x = <<f, id>> /\ id.kind # "http_consumer"
    BY <2>1
  <2>3. x[1] = f /\ x[2] = id
    BY <2>2
  <2>4. f \notin scope
    <3>1. SUFFICES ASSUME f \in scope PROVE FALSE
      OBVIOUS
    <3>2. x \in Exposes(p, scope)
      BY <3>1, <2>2 DEF Exposes
    <3> QED BY <3>2, <1>3, <1>9
  <2>5. id \in Declared(f, linked)
    BY <2>4, <1>11
  <2>6. CASE x \notin links.exposes
    <3>1. x \in Exposes(linked, LinkFiles)
      BY <2>2, <2>5 DEF Exposes
    <3>2. x[2] \in shared
      BY <3>1, <2>6, <1>8 DEF LinksInv, Followed, old
    <3> QED BY <3>2
  <2>7. CASE x \in links.exposes
    <3>1. PICK r \in links.routes : r.file \in scope /\ r.id = id
      BY <2>3, <2>4, <2>7, <1>5, <1>9
    <3>2. r.file # None /\ r.file \in LinkFiles /\ r.file # f
      BY <3>1, <2>4, FilesAreInOrder
    <3>3. id \in Declared(r.file, linked)
      BY <3>1, <3>2, <2>5 DEF LinksInv, RowIsOf
    <3>4. id \in Wiring!SharedBy(Wiring!FullLinks(linked))
      BY <3>2, <3>3, <2>5, <2>2, TwoShare
    <3> QED BY <3>4, <2>3 DEF LinksInv
  <2> QED BY <2>6, <2>7
<1>17. Followed'
  BY <1>9, <1>14, <1>15, <1>16 DEF Followed, full
<1> QED BY <1>13, <1>17 DEF LinksInv, RowIsOf

LEMMA LinksInvHolds == Wiring!Spec => []LinksInv
<1>1. Wiring!Init => LinksInv
  <2> SUFFICES ASSUME Wiring!Init PROVE LinksInv
    OBVIOUS
  <2> DEFINE g == Wiring!FullLinks(linked)
  <2>1. \A r \in g.routes : RowIsOf(r, linked)
    BY FullLinksAre
  <2>2. links = g /\ shared = Wiring!SharedBy(g)
    BY DEF Wiring!Init
  <2> HIDE DEF g
  <2>3. Followed
    BY <2>2 DEF Followed, g
  <2> QED BY <2>1, <2>2, <2>3 DEF LinksInv, g
<1>2. LinksInv /\ [Wiring!Next]_Wiring!vars => LinksInv'
  <2> SUFFICES ASSUME LinksInv, [Wiring!Next]_Wiring!vars PROVE LinksInv'
    OBVIOUS
  <2>1. ASSUME links' = links, linked' = linked, shared' = shared PROVE LinksInv'
    BY <2>1 DEF LinksInv, Followed, RowIsOf
  <2>2. CASE \E f \in Wiring!Files : Wiring!EditFile(f)
    BY <2>1, <2>2 DEF Wiring!EditFile
  <2>3. ASSUME Wiring!Rebuild PROVE LinksInv'
    <3>1. links' = Wiring!FullLinks(wired) /\ linked' = wired /\ shared' = Wiring!SharedBy(links')
      BY <2>3 DEF Wiring!Rebuild
    <3> QED BY <3>1, FullFollows
  <2>4. ASSUME NEW dependents \in SUBSET Wiring!Files, Wiring!Increment(dependents) PROVE LinksInv'
    <3> DEFINE scope == Wiring!Changed \cup dependents
               clash == Wiring!CopyClashes(Wiring!DeleteRoutes(links, scope), Wiring!InGraph(Wiring!Pass4Routes(wired, scope)))
    <3>1. CASE clash
      BY <2>3, <2>4, <3>1 DEF Wiring!Increment
    <3>2. CASE ~clash
      <4>1. /\ links' = Wiring!IncrementLinks(links, wired, scope) /\ linked' = wired
            /\ shared' = shared \cup Wiring!SharedBy(Wiring!FullLinks(wired))
        BY <2>4, <3>2 DEF Wiring!Increment
      <4>2. scope \subseteq LinkFiles /\ \A f \in LinkFiles \ scope : wired[f] = linked[f]
        BY FilesAreInOrder DEF Wiring!Changed
      <4> HIDE DEF scope
      <4> QED BY <4>1, <4>2, <3>2, IncrementFollows
    <3> QED BY <3>1, <3>2
  <2>5. CASE UNCHANGED Wiring!vars
    BY <2>1, <2>5 DEF Wiring!vars
  <2> QED BY <2>2, <2>3, <2>4, <2>5 DEF Wiring!Next
<1> QED BY <1>1, <1>2, PTL DEF Wiring!Spec

\* After any edits, full builds and increments: the calls between services, and where they lead,
\* are those of a full build of the same sources; and so are the routes and what exposes them, but
\* for phantoms that nothing leads to, for routes of the configuration alone, and for edges to a
\* route that two files have exposed.
THEOREM LinksStayFaithful == Wiring!Spec => []LinksFollowSources
<1>1. LinksInv => LinksFollowSources
  <2> SUFFICES ASSUME LinksInv, linked = wired PROVE Wiring!LinksFollowSources
    BY DEF LinksFollowSources, Wiring!LinksFollowSources
  <2> DEFINE full == Wiring!FullLinks(wired)
  <2>1. \A call \in full.calls : \E r \in full.routes : r.id = call.route
    BY FullLinksAre
  <2>2. /\ links.calls = full.calls /\ links.clients = full.clients
        /\ full.routes \subseteq links.routes
        /\ \A r \in links.routes \ full.routes : (\A q \in full.routes : q.id # r.id) /\ (r.id.service = "" \/ r.file = None)
        /\ links.exposes \subseteq full.exposes
        /\ \A x \in full.exposes \ links.exposes : x[2] \in shared
    BY DEF LinksInv, Followed
  <2> HIDE DEF full
  <2>3. \A r \in links.routes \ full.routes : \A call \in links.calls : call.route # r.id
    BY <2>1, <2>2
  <2> QED BY <2>2, <2>3 DEF Wiring!LinksFollowSources, full
<1> QED BY <1>1, LinksInvHolds, PTL
=============================================================================
