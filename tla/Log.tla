-------------------------------- MODULE Log --------------------------------
(***************************************************************************)
(* What a log of svlogd is good for. man/svlogd.8: data are appended; the  *)
(* oldest are deleted when there are too many files or the disk is full.   *)
(* src/svlogd.c: what is synced is what a crash cannot take; but once the  *)
(* output of a processor has taken the place of its input, nothing of that *)
(* log is synced any more.                                                 *)
(***************************************************************************)
EXTENDS Naturals

VARIABLES written,   \* units 1..written have been written
          kept,      \* those of them that are in the log
          safe,      \* those that are there whatever happens
          output,    \* those that are in the output of a processor only
          crashes    \* how often svlogd was killed or the power failed

vars == <<written, kept, safe, output, crashes>>

Init == written = 0 /\ kept = {} /\ safe = {} /\ output = {} /\ crashes = 0

Append ==
  /\ written' \in Nat /\ written' > written
  /\ kept' = kept \cup (written + 1)..written'
  /\ UNCHANGED <<safe, output, crashes>>

Secure ==
  /\ safe \subseteq safe' /\ safe' \subseteq kept
  /\ UNCHANGED <<written, kept, output, crashes>>

Process ==
  /\ safe' \subseteq safe /\ output' = output \cup (safe \ safe')
  /\ UNCHANGED <<written, kept, crashes>>

Forget ==
  /\ kept' \subseteq kept
  /\ \A k \in kept \ kept', j \in kept' : k < j
  /\ safe' = safe \cap kept' /\ output' = output \cap kept'
  /\ UNCHANGED <<written, crashes>>

Crash ==
  /\ kept' \subseteq kept /\ safe \subseteq kept'
  /\ output' = output \cap kept'
  /\ crashes' = crashes + 1
  /\ UNCHANGED <<written, safe>>

Next == Append \/ Secure \/ Process \/ Forget \/ Crash

Safety == Init /\ [][Next]_vars
=============================================================================
