------------------------------- MODULE Runit -------------------------------
(***************************************************************************)
(* runit, process no 1: src/runit/src/runit.c. It runs the stages 0, 1 and *)
(* 2 of the code (the scripts 1, 2 and 3) one after the other, restarts    *)
(* stage 1, takes shutdown requests while it runs, and in the end halts or *)
(* reboots. With it the callers of src/runit/src/runit-init.c, what the    *)
(* scripts of src/etc/runit do to the files runit looks at, and a process  *)
(* that runit inherits because its parent died.                            *)
(***************************************************************************)
EXTENDS Integers, FiniteSets

CONSTANTS Halters,    \* calls of runit-init 0
          Rebooters,  \* calls of runit-init 6
          Exits,      \* the wait status words stage scripts may end with
          Keys        \* the signals somebody else sends, of INT and USR2

WaitStatus == 0..65535    \* what the kernel reports of a child that ended

ASSUME RunitAssumption ==
  /\ Exits \subseteq WaitStatus
  /\ Keys \subseteq {"INT", "USR2"}
  /\ Halters \cap Rebooters = {}

VARIABLES pc,        \* where runit is
          st,        \* the stage: the variable st of main
          stage,     \* the kernel's view of the process of each stage
          other,     \* ... of the inherited process, and of its group
          pending,   \* signals blocked and not yet handled
          got,       \* which of sigc, sigi and sigusr2 are not 0
          selfpipe,  \* the self pipe is readable
          file,      \* what is known of the files of the runit directory
          client,    \* how far each runit-init is
          asked,     \* history: which requests have been signalled
          power      \* what the reboot system call was asked for

vars == <<pc, st, stage, other, pending, got, selfpipe, file, client, asked,
          power>>

processes == <<stage, other>>
signals   == <<pending, got, selfpipe>>
requests  == <<client, asked>>

Client   == Halters \cup Rebooters
Stage    == 0..2
Life     == {"none", "live", "zombie"}
File     == {"none", "plain", "exec"}    \* "exec": executable by its owner
Process  == [life : Life, wstat : WaitStatus]
KilledBy == 9                            \* the status word of a SIGKILL

TypeOK ==
  /\ pc \in {"fork", "poll", "reap", "request", "ctrlaltdel", "stop", "term",
             "kill", "killall", "power", "off"}
  /\ st \in 0..3
  /\ stage \in [Stage -> Process]
  /\ other \in [life : Life, group : BOOLEAN]
  /\ pending \subseteq {"CHLD", "CONT", "INT", "USR2"}
  /\ got \subseteq {"CONT", "INT", "USR2"}
  /\ selfpipe \in BOOLEAN
  /\ file \in [stopit : File, reboot : File, ctrlaltdel : File, var : BOOLEAN]
  /\ client \in [Client -> {"idle", "opened", "armed", "marking", "marked",
                            "done"}]
  /\ asked \subseteq {"halt", "reboot", "INT", "USR2"}
  /\ power \in {"on", "halt", "reboot"}

-----------------------------------------------------------------------------
(* Operators marked BUG stand for plausible mistakes; each replaces the      *)
(* definition after it to show that a property notices.                      *)

Running(s) == stage[s].life = "live"

wait_crashed(w)  == w % 128 # 0
wait_exitcode(w) == w \div 256

(* What the loop does with the status of the stage it waited for: a crash is *)
(* looked for only in a status with an exit code.                            *)
Skips(w) ==
  /\ st = 0 /\ wait_exitcode(w) # 0
  /\ wait_crashed(w) \/ wait_exitcode(w) = 100

Restarts(w) ==
  /\ st = 1 /\ wait_exitcode(w) # 0
  /\ wait_crashed(w) \/ wait_exitcode(w) = 111

NextStage(w) == IF Skips(w) THEN st + 2 ELSE IF Restarts(w) THEN st ELSE st + 1

Gone == [life |-> "none", wstat |-> 0]

Ended(w) == [life |-> "zombie", wstat |-> w]

Fork ==
  /\ pc = "fork"
  /\ stage' = [stage EXCEPT ![st] = [life |-> "live", wstat |-> 0]]
  /\ pc' = "poll"
  /\ UNCHANGED <<st, other, signals, file, requests, power>>

\* BUG: the handler of SIGCHLD counts as a request.
AllPending == pending

Requested == pending \ {"CHLD"}

(* Between sig_unblock and sig_block the handlers of pending signals run.    *)
Handle ==
  /\ pc = "poll" /\ pending # {}
  /\ got' = got \cup Requested
  /\ selfpipe' = TRUE
  /\ pending' = {}
  /\ UNCHANGED <<pc, st, processes, file, requests, power>>

Wake ==
  /\ pc = "poll" /\ pending = {} /\ selfpipe
  /\ selfpipe' = FALSE
  /\ pc' = "reap"
  /\ UNCHANGED <<st, processes, pending, got, file, requests, power>>

\* BUG: having collected a child, runit polls again.
PollAgain == IF pc = "reap" THEN "poll" ELSE pc

AfterOther == pc

ReapOther ==
  /\ pc \in {"reap", "term"} /\ other.life = "zombie"
  /\ other' = [life |-> "none", group |-> FALSE]
  /\ pc' = AfterOther
  /\ UNCHANGED <<st, stage, signals, file, requests, power>>

(* kill(-pid, 9) before stage 1 is restarted.                                *)
KillGroup(w) ==
  IF Restarts(w) /\ other.life = "live" /\ other.group
  THEN [other EXCEPT !.life = "zombie"] ELSE other

LeaveStage ==
  /\ pc = "reap" /\ stage[st].life = "zombie"
  /\ LET w == stage[st].wstat
     IN /\ st' = NextStage(w)
        /\ pc' = IF st' = 3 THEN "killall" ELSE "fork"
        /\ other' = KillGroup(w)
        /\ pending' = pending \cup (IF other' # other THEN {"CHLD"} ELSE {})
  /\ stage' = [stage EXCEPT ![st] = Gone]
  /\ UNCHANGED <<got, selfpipe, file, requests, power>>

AllReaped ==
  /\ pc = "reap" /\ stage[st].life = "live" /\ other.life # "zombie"
  /\ pc' = IF got = {} THEN "poll" ELSE "request"
  /\ UNCHANGED <<st, processes, signals, file, requests, power>>

-----------------------------------------------------------------------------
(* Requests. *)
TooEarly ==
  /\ pc = "request" /\ st # 1
  /\ got' = {}
  /\ pc' = "poll"
  /\ UNCHANGED <<st, processes, pending, selfpipe, file, requests, power>>

RunCtrlAltDel ==
  /\ pc = "request" /\ st = 1
  /\ pc' = IF "INT" \in got /\ file.ctrlaltdel = "exec" THEN "ctrlaltdel"
           ELSE "stop"
  /\ UNCHANGED <<st, processes, signals, file, requests, power>>

(* The script has touched REBOOT and ended.                                  *)
CtrlAltDelEnds ==
  /\ pc = "ctrlaltdel"
  /\ file' = [file EXCEPT !.reboot =
                IF @ = "none" /\ file.var THEN "plain" ELSE @]
  /\ got' = (got \ {"INT"}) \cup {"CONT"}
  /\ pc' = "stop"
  /\ UNCHANGED <<st, processes, pending, selfpipe, requests, power>>

\* BUG: STOPIT alone is enough.
AnySignal == "USR2" \in got \/ file.stopit = "exec"

StopWanted == "USR2" \in got \/ ("CONT" \in got /\ file.stopit = "exec")

(* chmod(STOPIT, 0) and kill(pid, sig_term).                                 *)
Stop ==
  /\ pc = "stop" /\ StopWanted
  /\ file' = [file EXCEPT !.stopit = IF @ = "none" THEN @ ELSE "plain"]
  /\ pc' = "term"
  /\ UNCHANGED <<st, processes, signals, requests, power>>

NoRequest ==
  /\ pc = "stop" /\ ~StopWanted
  /\ got' = {}
  /\ pc' = "poll"
  /\ UNCHANGED <<st, processes, pending, selfpipe, file, requests, power>>

\* BUG: after the KILL nothing waits for the process.
TermOnly == pc = "term" => stage[1].life = "zombie"

Waited == stage[1].life = "zombie"

EnterLast ==
  /\ Waited
  /\ stage' = [stage EXCEPT ![1] = IF @.life = "zombie" THEN Gone ELSE @]
  /\ got' = got \ {"CONT"}
  /\ st' = 2
  /\ pc' = "fork"
  /\ UNCHANGED <<other, pending, selfpipe, file, requests, power>>

TermEnded == pc = "term" /\ EnterLast

(* Five seconds are over. A zombie not yet seen is waited for as well.       *)
TermLate ==
  /\ pc = "term"
  /\ pc' = "kill"
  /\ UNCHANGED <<st, processes, signals, file, requests, power>>

(* The process had a KILL, if it was not a zombie already.                   *)
DiesKilled ==
  /\ pc = "kill" /\ Running(1)
  /\ stage' = [stage EXCEPT ![1] = Ended(KilledBy)]
  /\ pending' = pending \cup {"CHLD"}
  /\ UNCHANGED <<pc, st, other, got, selfpipe, file, requests, power>>

Killed == pc = "kill" /\ EnterLast

-----------------------------------------------------------------------------
(* The end: every other process is killed, and REBOOT decides.               *)
KillAll ==
  /\ pc = "killall"
  /\ other' = [life |-> "none", group |-> FALSE]
  /\ client' = [c \in Client |-> IF client[c] = "idle" THEN "idle" ELSE "done"]
  /\ pc' = "power"
  /\ UNCHANGED <<st, stage, signals, file, asked, power>>

PowerDown ==
  /\ pc = "power"
  /\ power' = IF file.reboot = "exec" THEN "reboot" ELSE "halt"
  /\ pc' = "off"
  /\ UNCHANGED <<st, processes, signals, file, requests>>

-----------------------------------------------------------------------------
(* runit-init 0 and runit-init 6. *)
Going(c, from, to) ==
  /\ client[c] = from /\ pc \notin {"power", "off"}
  /\ client' = [client EXCEPT ![c] = to]

Only(f, mode) ==
  /\ file' = [file EXCEPT ![f] = mode]
  /\ UNCHANGED <<pc, st, processes, signals, asked, power>>

Opened(f) == IF file[f] = "none" THEN "plain" ELSE file[f]

(* Both files are in /var/run/runit, which the script of stage 0 creates;    *)
(* before it did runit-init exits 111.                                       *)
OpenStopit(c) ==
  /\ file.var
  /\ Going(c, "idle", "opened") /\ Only("stopit", Opened("stopit"))

ArmStopit(c)  == Going(c, "opened", "armed") /\ Only("stopit", "exec")

MarkHalt(c) ==
  /\ c \in Halters
  /\ Going(c, "armed", "marked")
  /\ Only("reboot", IF file.reboot = "none" THEN "none" ELSE "plain")

OpenReboot(c) ==
  /\ c \in Rebooters
  /\ Going(c, "armed", "marking") /\ Only("reboot", Opened("reboot"))

\* BUG: REBOOT is created, not made executable.
MarkPlain(c) == Going(c, "marking", "marked") /\ Only("reboot", file.reboot)

MarkReboot(c) == Going(c, "marking", "marked") /\ Only("reboot", "exec")

SignalInit(c) ==
  /\ Going(c, "marked", "done")
  /\ pending' = pending \cup {"CONT"}
  /\ asked' = asked \cup {IF c \in Halters THEN "halt" ELSE "reboot"}
  /\ UNCHANGED <<pc, st, processes, got, selfpipe, file, power>>

Abort(c) ==
  /\ client[c] \notin {"idle", "done"}
  /\ client' = [client EXCEPT ![c] = "done"]
  /\ UNCHANGED <<pc, st, processes, signals, file, asked, power>>

RunitInit(c) ==
  \/ OpenStopit(c) \/ ArmStopit(c) \/ MarkHalt(c) \/ OpenReboot(c)
  \/ MarkReboot(c) \/ SignalInit(c) \/ Abort(c)

-----------------------------------------------------------------------------
(* The scripts of the stages, the kernel and the keyboard. *)
(* Stage 0 mounts an empty /var/run, makes /var/run/runit and, executable,   *)
(* STOPIT in it.                                                             *)
InitVar ==
  /\ Running(0) /\ ~file.var
  /\ file' = [file EXCEPT !.var = TRUE, !.stopit = "exec"]
  /\ UNCHANGED <<pc, st, processes, signals, requests, power>>

(* Stage 2 makes REBOOT executable if it is there.                           *)
MarkLast ==
  /\ Running(2) /\ file.reboot = "plain"
  /\ file' = [file EXCEPT !.reboot = "exec"]
  /\ UNCHANGED <<pc, st, processes, signals, requests, power>>

StageEnds(s) ==
  /\ Running(s)
  /\ \E w \in Exits : stage' = [stage EXCEPT ![s] = Ended(w)]
  /\ pending' = pending \cup {"CHLD"}
  /\ UNCHANGED <<pc, st, other, got, selfpipe, file, requests, power>>

(* A process loses its parent; it may be in the process group of stage 1.    *)
Inherit(group) ==
  /\ other.life = "none" /\ pc \notin {"power", "off"}
  /\ group => stage[1].life # "none"
  /\ other' = [life |-> "live", group |-> group]
  /\ UNCHANGED <<pc, st, stage, signals, file, requests, power>>

OtherEnds ==
  /\ other.life = "live"
  /\ other' = [other EXCEPT !.life = "zombie"]
  /\ pending' = pending \cup {"CHLD"}
  /\ UNCHANGED <<pc, st, stage, got, selfpipe, file, requests, power>>

Press(key) ==
  /\ pc # "off"
  /\ pending' = pending \cup {key}
  /\ asked' = asked \cup {key}
  /\ UNCHANGED <<pc, st, processes, got, selfpipe, file, client, power>>

Init ==
  /\ pc = "fork" /\ st = 0
  /\ stage = [s \in Stage |-> Gone]
  /\ other = [life |-> "none", group |-> FALSE]
  /\ pending = {} /\ got = {} /\ selfpipe = FALSE
  /\ \E mode \in {"none", "exec"} :
       file = [stopit |-> "none", reboot |-> "none", ctrlaltdel |-> mode,
               var |-> FALSE]
  /\ client = [c \in Client |-> "idle"]
  /\ asked = {}
  /\ power = "on"

Step ==
  \/ Fork \/ Handle \/ Wake \/ ReapOther \/ LeaveStage \/ AllReaped
  \/ TooEarly \/ RunCtrlAltDel \/ CtrlAltDelEnds \/ Stop \/ NoRequest
  \/ TermEnded \/ TermLate \/ DiesKilled \/ Killed \/ KillAll \/ PowerDown

Environment ==
  \/ \E c \in Client : RunitInit(c)
  \/ InitVar \/ MarkLast
  \/ \E s \in Stage : StageEnds(s)
  \/ \E group \in BOOLEAN : Inherit(group)
  \/ OtherEnds
  \/ \E key \in Keys : Press(key)

Next == Step \/ Environment

Spec == Init /\ [][Next]_vars

-----------------------------------------------------------------------------
(* Fairness. runit is one process that the kernel keeps running; its poll    *)
(* ends once the self pipe is readable, however many signals still come in,  *)
(* and inherited processes do not die faster than it collects them. The      *)
(* script of the last stage ends by itself, a killed process dies.           *)
Fairness ==
  /\ WF_vars(Step) /\ SF_vars(Wake)
  /\ WF_vars(LeaveStage) /\ SF_vars(AllReaped) /\ WF_vars(TermLate)
  /\ WF_vars(StageEnds(2))

FairSpec == Spec /\ Fairness

-----------------------------------------------------------------------------
(* Properties. *)

(* No stage is entered while a process of another stage is unreaped: stage 3 *)
(* of man/runit.8 starts after what stage 2 ran is known to be dead, even if *)
(* that ignored its TERM.                                                    *)
OneStage ==
  \A s, t \in Stage :
    stage[s].life # "none" /\ stage[t].life # "none" => s = t

(* Stage 2 is stopped only if somebody asked: runit-init, USR2, or INT when  *)
(* there is a ctrlaltdel script; by itself STOPIT, executable since boot,    *)
(* stops nothing.                                                            *)
ShutdownAsked ==
  pc = "term" =>
    \/ asked \cap {"halt", "reboot", "USR2"} # {}
    \/ "INT" \in asked /\ file.ctrlaltdel = "exec"

(* A runit-init 6 that signalled gets its reboot, unless a runit-init 0      *)
(* interfered, whatever becomes of the scripts.                              *)
RebootKept ==
  power = "halt" /\ "reboot" \in asked => \E c \in Halters : client[c] # "idle"

(* A CONT that comes in while stage 2 of man/runit.8 runs and STOPIT is      *)
(* executable.                                                               *)
ContArrived == st = 1 /\ "CONT" \in pending /\ file.stopit = "exec"

(* It brings the system down, unless that stage is restarted: a CONT handled *)
(* in the wakeup that finds it ended stays in sigc, its byte drained (line   *)
(* 165), and is not looked at until something else wakes runit (line 201).   *)
(* So does the last stage, whoever asked for it and whatever else dies.      *)
RequestHonoured ==
  st = 2 \/ (ContArrived /\ [](st = 1 => pc # "fork")) ~> power # "on"

(* man/runit.8: stage 2 "if it crashes, or exits 111, it will be restarted", *)
(* and a stage 1 that crashes is followed by stage 3.                        *)
CrashHandled ==
  [][\A s \in {0, 1} :
       LET w == stage[s].wstat
       IN stage[s].life = "zombie" /\ pc = "reap" /\ pc' = "fork"
            /\ wait_crashed(w) => st' = IF s = 0 THEN 2 ELSE 1]_vars
=============================================================================
