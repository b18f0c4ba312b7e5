------------------------------ MODULE MCRunsv ------------------------------
(* Runsv with small sets of pids for TLC.                                   *)
EXTENDS Runsv, TLC

CONSTANTS p1, p2, p3

TwoPids   == {p1, p2}
ThreePids == {p1, p2, p3}

\* Pids are only compared, so they may be exchanged; not in a liveness run.
Symmetry == Permutations(Pid)
=============================================================================
