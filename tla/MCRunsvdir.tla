----------------------------- MODULE MCRunsvdir -----------------------------
(* Runsvdir with small sets for TLC.                                        *)
EXTENDS Runsvdir, TLC

CONSTANTS a, b, c, d1, d2, p1, p2, p3, p4

Two == {a, b}
Three == {a, b, c}
TwoDirs == {d1, d2}
TwoPids == {p1, p2}
ThreePids == {p1, p2, p3}
FourPids == {p1, p2, p3, p4}

\* Neither is told from another of its kind; not for the liveness run.
Symmetry == Permutations(Pid) \cup Permutations(Service) \cup Permutations(Dir)
=============================================================================
