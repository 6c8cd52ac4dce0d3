--------------------------- MODULE MCProjectLock ---------------------------
(* ProjectLock for TLC: three processes contend, and one inode more than     *)
(* processes, so that a create always finds a free inode.                    *)
EXTENDS ProjectLock, TLC

CONSTANTS p1, p2, p3, i1, i2, i3, i4

MCSymmetry == Permutations({p1, p2, p3}) \cup Permutations({i1, i2, i3, i4})
============================================================================
