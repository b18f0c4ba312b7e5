------------------------------ MODULE MCSvlogd ------------------------------
(* Inputs and configurations for Svlogd.                                     *)
EXTENDS Svlogd

CONSTANTS d1, d2

\* Short lines, an empty one, one longer than linemax and than what the
\* buffer of a directory takes besides it, one without its end.
MCTexts == { <<"a", NL, "b", "b", "b", "b", NL>>, <<"b", "b", NL, NL, "a", NL>>,
             <<"a", "b", "b", NL, "b", "a">> }

\* d1 takes everything; d2 what begins with b only, and has the rest put on
\* standard error.
MCInst == [d \in {d1, d2} |->
             IF d = d1 THEN <<>>
             ELSE << [op |-> "-", pat |-> <<"*">>], [op |-> "e", pat |-> <<"*">>],
                     [op |-> "+", pat |-> <<"b", "*">>],
                     [op |-> "E", pat |-> <<"b", "*">>] >>]

\* All patterns of up to three characters that have a meaning.
MCPatterns ==
  {pat \in UNION {[1..n -> {"a", "b", "*", "+"}] : n \in 0..3} : Regular(pat)}

\* What these instructions mean is what the matcher does.
ASSUME MCAssumption == MatchedAsDescribed
=============================================================================
