--------------------------- MODULE MCNodeCpuCache ---------------------------
(* Small instances of NodeCpuCache for TLC. *)
EXTENDS NodeCpuCache, TLC

CONSTANTS t1, t2, m1, m2, m3, m4

TwoThreads == {t1, t2}
OneThread == {t1}
TwoMasks == {m1, m2}
FourMasks == {m1, m2, m3, m4}

\* Threads and addresses are interchangeable.
Symmetry == Permutations(TwoThreads) \cup Permutations(FourMasks)
=============================================================================
