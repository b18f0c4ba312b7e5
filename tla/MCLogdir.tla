------------------------------ MODULE MCLogdir ------------------------------
(* What config may say in the runs of Logdir.                                *)
EXTENDS Logdir

\* Two units a file; with a processor no log is deleted for a full disk.
Plain     == [size |-> 2, nmax |-> 2, nmin |-> 1, processor |-> FALSE]
Processed == [size |-> 2, nmax |-> 1, nmin |-> 1, processor |-> TRUE]

PlainOrProcessed == {Plain, Processed}
=============================================================================
