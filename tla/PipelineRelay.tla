---------------------------- MODULE PipelineRelay ----------------------------
(***************************************************************************)
(* _popen_capturing_stderr of pipeline.py: a child writes to two pipes of      *)
(* bounded size, two drain threads empty them, the main thread waits for the   *)
(* child, joins the drains and flushes the line filter (_LineFilter, or the    *)
(* ProgressRelay of progress.py, or none in --verbose).  Ctrl-C can arrive at  *)
(* any moment, the child may hang, and a grandchild may keep the pipes open.   *)
(*                                                                         *)
(* A line of stderr is "plain", "noise", "indented" (the frames under a noise  *)
(* header) or "progress".  It travels as two halves, so that a chunk can end   *)
(* inside it; the last line may lack its second half, the newline.            *)
(***************************************************************************)
EXTENDS Naturals, SequencesExt

CONSTANTS
    MaxLines,   \* lines the child writes to stderr
    MaxOut,     \* units it writes to stdout
    PipeSize    \* units a pipe holds

VARIABLES
    filter,     \* "none", "lines" (_LineFilter) or "progress" (ProgressRelay)
    script,     \* the kinds of the child's stderr lines
    ended,      \* its last line ends in a newline
    child,      \* "runs", "hangs", "exited" (a grandchild holds the pipes), "gone"
    unwritten,  \* halves of stderr lines not written yet
    outLeft,    \* units of stdout not written yet
    outPipe, errPipe,   \* what is in the pipes
    outBuf, errBuf,     \* what the drains have captured
    outDrain, errDrain, \* the threads: "reads", "eof"
    held,       \* the filter's buffer: halves of a line without its end
    suppress,   \* _suppress_next
    shown,      \* numbers of the lines passed on
    events,     \* numbers of the lines taken for progress events
    main        \* "wait", "join_out", "join_err", "flush", "returned", "raised"

childVars  == <<child, unwritten, outLeft>>
pipeVars   == <<outPipe, errPipe>>
drainVars  == <<outBuf, errBuf, outDrain, errDrain>>
filterVars == <<held, suppress, shown, events>>
vars == <<filter, script, ended, childVars, pipeVars, drainVars, filterVars, main>>

LineKinds == {"plain", "noise", "indented", "progress"}

Half(line, h) == [line |-> line, half |-> h]
Halves == [i \in 1..(2 * Len(script)) |-> Half((i + 1) \div 2, IF i % 2 = 1 THEN 1 ELSE 2)]
Written == IF ended \/ script = <<>> THEN Halves ELSE Front(Halves)

TypeOK ==
    /\ filter \in {"none", "lines", "progress"} /\ script \in Seq(LineKinds) /\ ended \in BOOLEAN
    /\ child \in {"runs", "hangs", "exited", "gone"}
    /\ Len(outPipe) <= PipeSize /\ Len(errPipe) <= PipeSize
    /\ outDrain \in {"reads", "eof"} /\ errDrain \in {"reads", "eof"}
    /\ Len(held) <= 1 /\ suppress \in BOOLEAN
    /\ main \in {"wait", "join_out", "join_err", "flush", "returned", "raised"}

Init ==
    /\ filter \in {"none", "lines", "progress"}
    /\ script \in UNION {[1..n -> LineKinds] : n \in 0..MaxLines} /\ ended \in BOOLEAN
    /\ child \in {"runs", "hangs"}
    /\ unwritten = Written /\ outLeft = MaxOut
    /\ outPipe = <<>> /\ errPipe = <<>>
    /\ outBuf = <<>> /\ errBuf = <<>> /\ outDrain = "reads" /\ errDrain = "reads"
    /\ held = <<>> /\ suppress = FALSE /\ shown = <<>> /\ events = <<>>
    /\ main = "wait"

----------------------------------------------------------------------------
(* The child: a write to a full pipe blocks *)

WriteOut ==
    /\ child \in {"runs", "hangs"} /\ outLeft > 0 /\ Len(outPipe) < PipeSize
    /\ outLeft' = outLeft - 1
    /\ outPipe' = Append(outPipe, outLeft)
    /\ UNCHANGED <<filter, script, ended, child, unwritten, errPipe, drainVars, filterVars, main>>

WriteErr ==
    /\ child \in {"runs", "hangs"} /\ unwritten # <<>> /\ Len(errPipe) < PipeSize
    /\ unwritten' = Tail(unwritten)
    /\ errPipe' = Append(errPipe, Head(unwritten))
    /\ UNCHANGED <<filter, script, ended, child, outLeft, outPipe, drainVars, filterVars, main>>

\* It exits; a grandchild may hold the write ends for a while.
ChildExits ==
    /\ child = "runs" /\ unwritten = <<>> /\ outLeft = 0
    /\ child' \in {"exited", "gone"}
    /\ UNCHANGED <<filter, script, ended, unwritten, outLeft, pipeVars, drainVars, filterVars, main>>

PipesClose ==
    /\ child = "exited"
    /\ child' = "gone"
    /\ UNCHANGED <<filter, script, ended, unwritten, outLeft, pipeVars, drainVars, filterVars, main>>

----------------------------------------------------------------------------
(* The line filters *)

Filtered == [suppress |-> suppress, shown |-> shown, events |-> events, held |-> held]

\* One complete line.  _LineFilter knows nothing of progress lines.
RouteLine(f, line) ==
    LET kind  == script[line]
        event == kind = "progress" /\ filter = "progress"
        frame == f.suppress /\ kind = "indented"
    IN  [ suppress |-> kind = "noise" \/ frame,
          shown    |-> IF event \/ kind = "noise" \/ frame THEN f.shown ELSE Append(f.shown, line),
          events   |-> IF event THEN Append(f.events, line) ELSE f.events,
          held     |-> <<>> ]

\* Mutant: what a chunk ends in is routed as a line.
FeedEagerly(f, half) ==
    IF filter = "none" THEN (IF half.half = 1 THEN [f EXCEPT !.shown = Append(@, half.line)] ELSE f)
    ELSE RouteLine(f, half.line)

\* feed, half by half: the line is routed when its newline is there.
Feed(f, half) ==
    IF filter = "none" THEN (IF half.half = 1 THEN [f EXCEPT !.shown = Append(@, half.line)] ELSE f)
    ELSE IF half.half = 1 THEN [f EXCEPT !.held = <<half>>]
    ELSE RouteLine(f, half.line)

\* A chunk, half by half.
Fed(f, chunk) ==
    LET fed[n \in 0..Len(chunk)] == IF n = 0 THEN f ELSE Feed(fed[n - 1], chunk[n])
    IN  fed[Len(chunk)]

Becomes(f) == suppress' = f.suppress /\ shown' = f.shown /\ events' = f.events /\ held' = f.held

\* flush: an unterminated last line.  _LineFilter only asks whether it is noise.
Flushed(f) ==
    IF f.held = <<>> THEN f
    ELSE IF filter = "progress" THEN RouteLine(f, f.held[1].line)
    ELSE IF script[f.held[1].line] = "noise" THEN [f EXCEPT !.held = <<>>]
    ELSE [ suppress |-> f.suppress, shown |-> Append(f.shown, f.held[1].line), events |-> f.events, held |-> <<>> ]

----------------------------------------------------------------------------
(* The drain threads: read returns any non-empty prefix of what is there *)

DrainOut(n) ==
    /\ outDrain = "reads" /\ n \in 1..Len(outPipe)
    /\ outPipe' = SubSeq(outPipe, n + 1, Len(outPipe))
    /\ outBuf' = outBuf \o SubSeq(outPipe, 1, n)
    /\ UNCHANGED <<filter, script, ended, childVars, errPipe, errBuf, outDrain, errDrain, filterVars, main>>

DrainErr(n) ==
    /\ errDrain = "reads" /\ n \in 1..Len(errPipe)
    /\ errPipe' = SubSeq(errPipe, n + 1, Len(errPipe))
    /\ errBuf' = errBuf \o SubSeq(errPipe, 1, n)
    /\ Becomes(Fed(Filtered, SubSeq(errPipe, 1, n)))
    /\ UNCHANGED <<filter, script, ended, childVars, outPipe, outBuf, outDrain, errDrain, main>>

DrainEof ==
    /\ child = "gone"
    /\ \/ outDrain = "reads" /\ outPipe = <<>> /\ outDrain' = "eof" /\ UNCHANGED errDrain
       \/ errDrain = "reads" /\ errPipe = <<>> /\ errDrain' = "eof" /\ UNCHANGED outDrain
    /\ UNCHANGED <<filter, script, ended, childVars, pipeVars, outBuf, errBuf, filterVars, main>>

----------------------------------------------------------------------------
(* The main thread *)

Goto(from, to) ==
    /\ main = from /\ main' = to
    /\ UNCHANGED <<filter, script, ended, childVars, pipeVars, drainVars>>

\* Mutant: the drains are joined before the child is waited for.
JoinFirst == Goto("wait", "join_out") /\ UNCHANGED filterVars

WaitChild == child \in {"exited", "gone"} /\ Goto("wait", "join_out") /\ UNCHANGED filterVars
JoinOut   == outDrain = "eof" /\ Goto("join_out", "join_err") /\ UNCHANGED filterVars
JoinErr   == errDrain = "eof" /\ Goto("join_err", "flush") /\ UNCHANGED filterVars
Flush     == Goto("flush", "returned") /\ Becomes(Flushed(Filtered))

\* wait raises KeyboardInterrupt; _abort_child sends SIGTERM, which a hanging
\* child may ignore, and nothing is waited for.
Interrupt ==
    /\ main = "wait"
    /\ main' = "raised"
    /\ child' \in {child, "gone"}
    /\ UNCHANGED <<filter, script, ended, unwritten, outLeft, pipeVars, drainVars, filterVars>>

Child  == WriteOut \/ WriteErr \/ ChildExits \/ PipesClose
Drains == DrainEof \/ \E n \in 1..PipeSize : DrainOut(n) \/ DrainErr(n)
Main   == WaitChild \/ JoinOut \/ JoinErr \/ Flush

Next == Child \/ Drains \/ Main \/ Interrupt

\* The threads run, and a child that can write writes.  A child that hangs never
\* exits; its operator interrupts.
Fairness == WF_vars(Child) /\ WF_vars(Drains) /\ WF_vars(Main) /\ WF_vars(child = "hangs" /\ Interrupt)

Spec == Init /\ [][Next]_vars /\ Fairness

----------------------------------------------------------------------------
(* properties *)

\* The lines the operator is meant to see, by the kinds alone: no noise, no
\* progress event, no frames under a noise header, however deep.  A last line
\* without its newline is a frame to the relay and not to the line filter.
UnderNoise(i) ==
    \E j \in 1..(i - 1) : script[j] = "noise" /\ \A k \in (j + 1)..(i - 1) : script[k] \in {"noise", "indented"}
Meant(i) ==
    \/ filter = "none"
    \/ /\ script[i] # "noise"
       /\ ~(script[i] = "progress" /\ filter = "progress")
       /\ \/ ~(script[i] = "indented" /\ UnderNoise(i))
          \/ filter = "lines" /\ i = Len(script) /\ ~ended

LinesToShow    == {i \in DOMAIN script : Meant(i)}
ProgressEvents == {i \in DOMAIN script : script[i] = "progress"}

\* The numbers are the first of these lines, in order, each once.
Begins(numbers, lines) ==
    /\ \A i \in DOMAIN numbers : numbers[i] \in lines /\ \A j \in 1..(i - 1) : numbers[j] < numbers[i]
    /\ \A i \in DOMAIN numbers : \A line \in lines : line < numbers[i] => line \in ToSet(numbers)

\* However the bytes were cut into chunks, and whenever the operator interrupts: nothing was
\* shown or taken for a progress event that should not have been, twice or out of order; and
\* what is returned is all the child wrote, all that was meant to be shown was shown, and
\* each progress event reached the renderer.
NothingLostInRelay ==
    /\ Begins(shown, LinesToShow) /\ Begins(events, ProgressEvents)
    /\ main = "returned" =>
        /\ outBuf = [i \in 1..MaxOut |-> MaxOut + 1 - i] /\ errBuf = Written
        /\ LinesToShow \subseteq ToSet(shown)
        /\ filter = "progress" => ProgressEvents \subseteq ToSet(events)

\* Neither the child nor the parent is left waiting for the other for ever: a
\* child that runs is waited out, and one that hangs can be interrupted.
RelayEnds == <>(main \in {"returned", "raised"})
=============================================================================
