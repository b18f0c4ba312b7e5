----------------------------- MODULE Processes -----------------------------
(***************************************************************************)
(* The kernel's process table as runsv uses it: fork, kill, exit, waitpid. *)
(* A table maps every pid to what the kernel knows of it. Pid 0 stands for *)
(* the caller's own process group, which is what kill(0, sig) reaches.     *)
(* None of this is repository code: it is modelled from the calls that     *)
(* src/runit/src/runsv.c makes.                                            *)
(***************************************************************************)
CONSTANT Pid    \* the pids the kernel hands out; one is free again once reaped

ASSUME PidAssumption == 0 \notin Pid

Service == {"main", "log"}
Role    == {"run", "finish"}
Signal  == {"TERM", "CONT", "STOP", "KILL", "ALRM", "HUP", "INT", "QUIT",
            "USR1", "USR2"}

(* sv and role: what the child was forked for; execs: whether its setup     *)
(* before execve succeeded; sigs: the signals it received and that still    *)
(* mark it (STOP until continued).                                          *)
Proc == [st : {"free", "live", "zombie"}, sv : Service, role : Role,
         execs : BOOLEAN, sigs : SUBSET Signal]

Blank == [st |-> "free", sv |-> "main", role |-> "run", execs |-> FALSE,
          sigs |-> {}]

Table == [Pid \cup {0} -> Proc]

NoProcesses == [p \in Pid \cup {0} |-> Blank]

Free(table)    == {p \in Pid : table[p].st = "free"}
Live(table)    == {p \in Pid : table[p].st = "live"}
Zombies(table) == {p \in Pid : table[p].st = "zombie"}
Children(table) == Live(table) \cup Zombies(table)

(* A signal to a zombie is discarded; STOP and CONT cancel each other.      *)
Receive(old, new) ==
  (old \ ((IF "CONT" \in new THEN {"STOP"} ELSE {})
           \cup (IF "STOP" \in new THEN {"CONT"} ELSE {}))) \cup new

Kill(table, p, signals) ==
  IF table[p].st = "zombie" THEN table
  ELSE [table EXCEPT ![p].sigs = Receive(@, signals)]

Fork(table, p, s, role, execs) ==
  [table EXCEPT ![p] = [st |-> "live", sv |-> s, role |-> role,
                        execs |-> execs, sigs |-> table[p].sigs]]

Die(table, p) == [table EXCEPT ![p].st = "zombie", ![p].sigs = {}]

Wait(table, p) == [table EXCEPT ![p] = Blank]

(* A stopped process runs no code, so only KILL ends it.                    *)
CanDie(table, p) ==
  /\ table[p].st = "live"
  /\ "STOP" \in table[p].sigs => "KILL" \in table[p].sigs
=============================================================================
