----------------------------- MODULE ReadCommand -----------------------------
(***************************************************************************)
(* What a read command of `jrag` (search, find, inspect, callers, callees,    *)
(* flow) promises, whoever computes it: each invocation is answered once,      *)
(* with what the command's own payload core answers on the project's index.    *)
(* get_payload (watch/client.py) states it as "a pure accelerator: it never    *)
(* changes observable output, only latency".  WatchProtocol implements it.     *)
(***************************************************************************)
CONSTANTS
    Clients,    \* invocations of a read command
    Sound       \* the invocations whose request the core answers with a payload

VARIABLE answer \* what each invocation has printed

Core(c) == IF c \in Sound THEN "payload" ELSE "error"

Init == answer = [c \in Clients |-> "none"]

Answer(c) == answer[c] = "none" /\ answer' = [answer EXCEPT ![c] = Core(c)]

Next == \E c \in Clients : Answer(c)

Fairness == \A c \in Clients : WF_answer(Answer(c))

Spec == Init /\ [][Next]_answer /\ Fairness
=============================================================================
