--------------------------- MODULE MCScopedRebuild ---------------------------
(* ScopedRebuild for TLC: q.A, p.B which may import and extend it, and p.C which *)
(* may extend B.                                                             *)
EXTENDS ScopedRebuild, TLC

CONSTANTS fA, fB, fC

MCPackageOf == fA :> "q" @@ fB :> "p" @@ fC :> "p"
MCNameOf    == fA :> "A" @@ fB :> "B" @@ fC :> "C"

Call(on, args) == [on |-> on, args |-> args]

MCContents ==
    fA :> {None} \cup {Content({}, None, None, ms, {}) : ms \in {{}, {0}, {0, 1}}}
 @@ fB :> {None} \cup {Content(im, None, None, ms, cs) :
                im \in {{}, {<<"q", "A">>}}, ms \in {{}, {0}}, cs \in {{}, {Call("A", 0)}}}
             \cup {Content(im, None, "A", ms, {}) : im \in {{}, {<<"q", "A">>}}, ms \in {{}, {0}}}
 @@ fC :> {None} \cup {Content({}, None, s, {}, cs) :
                s \in {None, "B"}, cs \in {{}, {Call(Self, 0)}, {Call("B", 0)}}}
=============================================================================
