-------------------------------- MODULE MCSv --------------------------------
(* Commands of sv and small sets of pids for TLC.                            *)
EXTENDS Sv, TLC

CONSTANTS p1, p2, a

TwoPids  == {p1, p2}
Symmetry == Permutations(Pid)

\* Commands that wait, restart, force and end runsv, and one that makes d
\* ambiguous.
Mixed == {Forcibly(<<"d">>), Waiting(<<"t", "c", "u">>), Plainly(<<"o">>),
          Waiting(<<"x">>)}

UpDown == {Plainly(<<"u">>), Plainly(<<"d">>)}
=============================================================================
