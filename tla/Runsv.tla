------------------------------- MODULE Runsv -------------------------------
(***************************************************************************)
(* runsv, the supervisor of one service directory and of its optional log  *)
(* service: src/runit/src/runsv.c. One action per step of its main loop    *)
(* and per control character, and the environment: processes that die,     *)
(* clients that write to the control pipes, a SIGTERM to runsv, time.      *)
(***************************************************************************)
EXTENDS Processes, Naturals, Sequences

CONSTANTS HasLog,      \* ./log is a directory
          HasFinish,   \* ./finish can be opened
          MainDown,    \* ./down exists
          LogDown,     \* ./log/down exists
          Custom,      \* the characters c whose ./control/c is executable
          Commands,    \* the characters clients write to supervise/control
          LogCommands, \* ... and to log/supervise/control
          QueueCap,    \* bound: unread characters in a control pipe
          Shutdown     \* whether somebody sends runsv a SIGTERM

AllCommands == {"d", "u", "x", "t", "k", "p", "c", "o",
                "a", "h", "i", "q", "1", "2"}

ASSUME RunsvAssumption ==
  /\ {HasLog, HasFinish, MainDown, LogDown, Shutdown} \subseteq BOOLEAN
  /\ Commands \cup LogCommands \cup Custom \subseteq AllCommands
  /\ QueueCap \in Nat

VARIABLES pc,         \* where the main loop is
          svd,        \* struct svdir svd[2]
          proc,       \* the process table
          control,    \* unread characters of supervise/control
          pending,    \* signals blocked and not yet delivered to runsv
          selfpipe,   \* the self pipe is readable
          sigterm,    \* the SIGTERM handler has run
          logpipe,    \* runsv holds both ends of the pipe to the log service
          disk,       \* supervise/status and supervise/pid
          young       \* less than a second has passed since ./run was started

vars == <<pc, svd, proc, control, pending, selfpipe, sigterm, logpipe, disk,
          young>>

\* Everything a control character may change.
service == <<svd, proc, disk, young>>
\* How runsv learns that there is something to do.
wakeup  == <<pending, selfpipe, sigterm>>

Labels == {"startlog", "startmain", "poll", "reap", "control", "logcontrol",
           "sigterm", "last", "exited"}
State  == {"down", "run", "finish"}
Want   == {"up", "down", "exit"}

(* struct svdir; ctrl's bits C_TERM and C_PAUSE are term and paused, and of  *)
(* wstat only whose exit status it is.                                       *)
Svdir == [pid : Pid \cup {0}, state : State, term : BOOLEAN, paused : BOOLEAN,
          want : Want, wstat : Role \cup {"none"}]

Fresh(down) ==
  [pid |-> 0, state |-> "down", term |-> FALSE, paused |-> FALSE,
   want |-> IF down THEN "down" ELSE "up", wstat |-> "none"]

\* BUG: what is wanted is written where the state should be.
StatusWant(v) == [pid |-> v.pid, state |-> v.want, term |-> v.term,
                  paused |-> v.paused, up |-> v.want = "up"]

(* The 20 bytes of supervise/status, less the time stamp: "want exit" shows  *)
(* as "down".                                                                *)
Status(v) == [pid |-> v.pid, state |-> v.state, term |-> v.term,
              paused |-> v.paused, up |-> v.want = "up"]

StatusFile == [pid : Pid \cup {0}, state : State, term : BOOLEAN,
               paused : BOOLEAN, up : BOOLEAN]

TypeOK ==
  /\ pc \in Labels
  /\ svd \in [Service -> Svdir]
  /\ proc \in Table
  /\ control \in [Service -> Seq(AllCommands)]
  /\ pending \subseteq {"CHLD", "TERM"}
  /\ selfpipe \in BOOLEAN /\ sigterm \in BOOLEAN /\ logpipe \in BOOLEAN
  /\ disk \in [status : [Service -> StatusFile],
               pid : [Service -> Pid \cup {0}]]
  /\ young \in [Service -> BOOLEAN]

-----------------------------------------------------------------------------
(* Operators marked BUG stand for plausible mistakes in this code; each      *)
(* replaces the definition after it to show that a property notices.         *)
Running(s) == svd[s].state = "run"

(* update_status: the status file always, the pid file when pidchanged.      *)
UpdateStatus(d, s, v) == [d EXCEPT !.status[s] = Status(v)]
UpdatePid(d, s, v)    == [d EXCEPT !.status[s] = Status(v), !.pid[s] = v.pid]

(* custom: the set of ./control/c that exit 0 when run, any subset of those  *)
(* that exist; the log service cannot be customized.                         *)
Customized(s) == IF s = "log" THEN {{}} ELSE SUBSET Custom

\* BUG: no CONT, so that a paused service never sees its TERM.
TermOnly(v, ok) == IF v.pid # 0 /\ "t" \notin ok THEN {"TERM"} ELSE {}

\* BUG: CONT is sent on exit and forgotten on down.
ContOnExit(v, ok) ==
  TermOnly(v, ok) \cup (IF v.want = "exit" THEN {"CONT"} ELSE {})

(* What stopservice sends.                                                   *)
StopSignals(v, ok) ==
  (IF v.pid # 0 /\ "t" \notin ok THEN {"TERM"} ELSE {})
    \cup (IF v.want = "up" THEN {} ELSE {"CONT"})

(* startservice on the record v of service s. fork is retried until there is *)
(* a pid; the child of a service with a log cannot exec once the log pipe is *)
(* closed.                                                                   *)
StartService(s, v) ==
  \E p \in Free(proc), ok \in Customized(s) :
    LET w == [v EXCEPT !.pid = p, !.term = FALSE, !.paused = FALSE,
                       !.state = IF @ = "finish" THEN @ ELSE "run"]
        stopped == IF v.pid = 0 THEN proc
                   ELSE Kill(proc, v.pid, StopSignals(v, ok))
    IN /\ proc' = Fork(stopped, p, s, w.state, HasLog => logpipe)
       /\ svd' = [svd EXCEPT ![s] = w]
       /\ disk' = UpdatePid(disk, s, w)
       /\ young' = [young EXCEPT ![s] = IF w.state = "run" THEN TRUE ELSE @]

(* stopservice on the record v, the files being d before the call.           *)
StopService(s, v, d) ==
  \E ok \in Customized(s) :
    LET signals == StopSignals(v, ok)
        w == [v EXCEPT !.term = @ \/ "TERM" \in signals]
    IN /\ proc' = Kill(proc, v.pid, signals)
       /\ svd' = [svd EXCEPT ![s] = w]
       /\ disk' = IF "TERM" \in signals THEN UpdateStatus(d, s, w) ELSE d
       /\ UNCHANGED young

(* The record v takes effect and is written out; no process is touched.      *)
Record(s, v) ==
  /\ svd' = [svd EXCEPT ![s] = v]
  /\ disk' = UpdateStatus(disk, s, v)

-----------------------------------------------------------------------------
(* ctrl, by character.                                                       *)

\* BUG: a service that is already running is started again.
UpAnyway(s, want) == StartService(s, [svd[s] EXCEPT !.want = want])

Up(s, want) ==                                                   \* u and o
  LET v == [svd[s] EXCEPT !.want = want]
  IN IF v.state = "down" THEN StartService(s, v)
     ELSE Record(s, v) /\ UNCHANGED <<proc, young>>

Down(s, want) ==                                                 \* d and x
  LET v == [svd[s] EXCEPT !.want = want]
  IN IF v.state = "run" THEN StopService(s, v, UpdateStatus(disk, s, v))
     ELSE Record(s, v) /\ UNCHANGED <<proc, young>>

Term(s) ==                                                       \* t
  IF Running(s) THEN StopService(s, svd[s], disk) ELSE UNCHANGED service

\* BUG: the state is not looked at.
SignalAnyway(s, c, signal) ==
  \E ok \in Customized(s) :
    proc' = IF c \notin ok THEN Kill(proc, svd[s].pid, {signal}) ELSE proc

SendSignal(s, c, signal) ==
  \E ok \in Customized(s) :
    proc' = IF Running(s) /\ c \notin ok THEN Kill(proc, svd[s].pid, {signal})
            ELSE proc

Ignore(s, c) == c = "x" /\ s = "log" /\ UNCHANGED service

KillService(s) ==                                                \* k
  /\ SendSignal(s, "k", "KILL")
  /\ svd' = [svd EXCEPT ![s].state = "down"]
  /\ UNCHANGED <<disk, young>>

Pause(s) ==                                                      \* p
  /\ SendSignal(s, "p", "STOP")
  /\ Record(s, [svd[s] EXCEPT !.paused = TRUE])
  /\ UNCHANGED young

Cont(s) ==                                                       \* c
  /\ SendSignal(s, "c", "CONT")
  /\ Record(s, [svd[s] EXCEPT !.paused = FALSE])
  /\ UNCHANGED young

Plain == {<<"a", "ALRM">>, <<"h", "HUP">>, <<"i", "INT">>, <<"q", "QUIT">>,
          <<"1", "USR1">>, <<"2", "USR2">>}

Forward(s, c) ==                                     \* a, h, i, q, 1 and 2
  \E e \in Plain :
    /\ c = e[1]
    /\ SendSignal(s, c, e[2])
    /\ UNCHANGED <<svd, disk, young>>

Ctrl(s, c) ==
  \/ c = "u" /\ Up(s, "up")
  \/ c = "o" /\ Up(s, "down")
  \/ c = "d" /\ Down(s, "down")
  \/ c = "x" /\ s = "main" /\ Down(s, "exit")
  \/ Ignore(s, c)
  \/ c = "t" /\ Term(s)
  \/ c = "k" /\ KillService(s)
  \/ c = "p" /\ Pause(s)
  \/ c = "c" /\ Cont(s)
  \/ Forward(s, c)

-----------------------------------------------------------------------------
(* The main loop. It starts what has to run, waits in iopause with the       *)
(* signals unblocked, reaps, reads one character of each pipe, and leaves.   *)
StartOrSkip(s, due, next) ==
  /\ IF due THEN StartService(s, svd[s]) ELSE UNCHANGED service
  /\ pc' = next
  /\ UNCHANGED <<control, wakeup, logpipe>>

WantStart(s) == svd[s].pid = 0 /\ svd[s].want = "up"

StartLog ==
  /\ pc = "startlog"
  /\ StartOrSkip("log", HasLog /\ WantStart("log"), "startmain")

\* BUG: ./finish of a service that is not wanted up is forgotten.
MainWanted == WantStart("main")

MainDue ==
  WantStart("main") \/ (svd["main"].pid = 0 /\ svd["main"].state = "finish")

StartMain ==
  /\ pc = "startmain"
  /\ StartOrSkip("main", MainDue, "poll")

(* Unblocking the signals runs the handlers of the pending ones.             *)
Handle ==
  /\ pc = "poll" /\ pending # {}
  /\ pending' = {}
  /\ selfpipe' = TRUE
  /\ sigterm' = (sigterm \/ "TERM" \in pending)
  /\ UNCHANGED <<pc, service, control, logpipe>>

EndPoll ==
  /\ pc = "poll" /\ pending = {}
  /\ pc' = "reap"
  /\ selfpipe' = FALSE
  /\ UNCHANGED <<service, control, pending, sigterm, logpipe>>

PolledControl == {s \in Service : s = "log" => HasLog}

Readable == selfpipe \/ \E s \in PolledControl : control[s] # <<>>

Wake == Readable /\ EndPoll

Timeout == EndPoll                       \* after 3600 s, whatever is readable

(* A child without a service in svd is reaped and forgotten.                 *)
ReapUnknown(p) ==
  /\ \A s \in Service : svd[s].pid # p
  /\ UNCHANGED <<svd, disk, young>>

\* BUG: the end of ./finish calls for ./finish again.
AnyEnd(s) == s = "main" /\ HasFinish

\* BUG: ./finish runs only before a restart.
RestartOnly(s) == AnyEnd(s) /\ svd[s].state # "finish" /\ svd[s].want = "up"

FinishDue(s) == s = "main" /\ HasFinish /\ svd[s].state # "finish"

(* sleep(1) when ./run was started less than a second ago.                   *)
Sleep(s) == IF young[s] THEN [t \in Service |-> FALSE] ELSE young

ReapService(s, p) ==
  LET v == [svd[s] EXCEPT !.pid = 0, !.term = FALSE,
                !.state = IF FinishDue(s) THEN "finish" ELSE "down",
                !.wstat = IF s = "main" THEN proc[p].role ELSE @]
  IN /\ svd[s].pid = p
     /\ svd' = [svd EXCEPT ![s] = v]
     /\ disk' = UpdatePid(disk, s, v)
     /\ young' = IF FinishDue(s) THEN young ELSE Sleep(s)

Reap(p) ==
  /\ pc = "reap" /\ p \in Zombies(proc)
  /\ ReapUnknown(p) \/ \E s \in Service : ReapService(s, p)
  /\ proc' = Wait(proc, p)
  /\ UNCHANGED <<pc, control, wakeup, logpipe>>

\* BUG: one child is reaped for each wakeup.
FirstReaped ==
  /\ pc = "reap"
  /\ pc' = "control"
  /\ UNCHANGED <<service, control, wakeup, logpipe>>

AllReaped ==
  /\ pc = "reap" /\ Zombies(proc) = {}
  /\ pc' = "control"
  /\ UNCHANGED <<service, control, wakeup, logpipe>>

ReadControl(s, here, next) ==
  /\ pc = here /\ pc' = next
  /\ IF control[s] = <<>> THEN UNCHANGED <<service, control>>
     ELSE /\ Ctrl(s, Head(control[s]))
          /\ control' = [control EXCEPT ![s] = Tail(@)]
  /\ UNCHANGED <<wakeup, logpipe>>

ReadMain == ReadControl("main", "control", "logcontrol")

ReadLog == ReadControl("log", "logcontrol", "sigterm")

CheckTerm ==
  /\ pc = "sigterm" /\ pc' = "last"
  /\ IF sigterm THEN Ctrl("main", "x") ELSE UNCHANGED service
  /\ sigterm' = FALSE
  /\ UNCHANGED <<control, pending, selfpipe, logpipe>>

\* BUG: runsv does not wait for the service.
Told == svd["main"].want = "exit"

Leaving == svd["main"].want = "exit" /\ svd["main"].state = "down"

Leave ==
  /\ pc = "last" /\ Leaving /\ svd["log"].pid = 0
  /\ pc' = "exited"
  /\ UNCHANGED <<service, control, wakeup, logpipe>>

CloseLog ==
  LET v == [svd["log"] EXCEPT !.want = "exit"]
  IN /\ pc = "last" /\ Leaving /\ svd["log"].pid # 0
     /\ svd["log"].want # "exit"
     /\ Record("log", v)
     /\ logpipe' = FALSE
     /\ pc' = "startlog"
     /\ UNCHANGED <<proc, young, control, wakeup>>

Loop ==
  /\ pc = "last"
  /\ Leaving => svd["log"].pid # 0 /\ svd["log"].want = "exit"
  /\ pc' = "startlog"
  /\ UNCHANGED <<service, control, wakeup, logpipe>>

-----------------------------------------------------------------------------
(* The environment. *)
Exit(p) ==
  /\ pc # "exited" /\ CanDie(proc, p)
  /\ proc' = Die(proc, p)
  /\ pending' = pending \cup {"CHLD"}
  /\ UNCHANGED <<pc, svd, control, selfpipe, sigterm, logpipe, disk, young>>

Write(s, c) ==
  /\ pc # "exited" /\ Len(control[s]) < QueueCap
  /\ control' = [control EXCEPT ![s] = Append(@, c)]
  /\ UNCHANGED <<pc, service, wakeup, logpipe>>

Terminate ==
  /\ pc # "exited" /\ Shutdown
  /\ pending' = pending \cup {"TERM"}
  /\ UNCHANGED <<pc, service, control, selfpipe, sigterm, logpipe>>

Age(s) ==
  /\ young[s]
  /\ young' = [young EXCEPT ![s] = FALSE]
  /\ UNCHANGED <<pc, svd, proc, control, wakeup, logpipe, disk>>

(* main() up to the loop: a log/supervise/pid left by an earlier runsv       *)
(* survives, since only the first update_status finds pidchanged set.        *)
Init ==
  /\ pc = "startlog"
  /\ svd = [s \in Service |-> Fresh(IF s = "main" THEN MainDown ELSE LogDown)]
  /\ proc = NoProcesses
  /\ control = [s \in Service |-> <<>>]
  /\ pending = {} /\ selfpipe = FALSE /\ sigterm = FALSE
  /\ logpipe = HasLog
  /\ \E old \in IF HasLog THEN Pid \cup {0} ELSE {0} :
       disk = [status |-> [s \in Service |-> Status(svd[s])],
               pid |-> [s \in Service |-> IF s = "main" THEN 0 ELSE old]]
  /\ young = [s \in Service |-> FALSE]

Step ==
  \/ StartLog \/ StartMain
  \/ Handle \/ Wake
  \/ \E p \in Pid : Reap(p)
  \/ AllReaped \/ ReadMain \/ ReadLog \/ CheckTerm
  \/ Leave \/ CloseLog \/ Loop

Environment ==
  \/ \E p \in Pid : Exit(p)
  \/ \E c \in Commands : Write("main", c)
  \/ HasLog /\ \E c \in LogCommands : Write("log", c)
  \/ Terminate
  \/ \E s \in Service : Age(s)

Next == Step \/ Timeout \/ Environment

Spec == Init /\ [][Next]_vars

-----------------------------------------------------------------------------
(* Fairness. runsv is one sequential process that the kernel keeps running;  *)
(* iopause returns once something is readable, however many signals still    *)
(* come in and run their handlers, hence strong fairness of Wake. Of its     *)
(* children it is assumed that one with a TERM or a KILL ends, that          *)
(* ./finish and a child that could not exec end, and that the log service    *)
(* ends when its standard input does. None of this holds of a stopped one.   *)
MustExit(p) ==
  \/ {"TERM", "KILL"} \cap proc[p].sigs # {}
  \/ proc[p].role = "finish" \/ ~proc[p].execs
  \/ /\ proc[p].sv = "log" /\ ~logpipe
     /\ \A q \in Live(proc) : proc[q].sv = "log"

Fairness ==
  /\ WF_vars(Step) /\ SF_vars(Wake)
  /\ \A p \in Pid : WF_vars(MustExit(p) /\ Exit(p))

FairSpec == Spec /\ Fairness

-----------------------------------------------------------------------------
(* Properties. *)

(* runsv signals its own unreaped children and nothing else: not a pid it    *)
(* has already reaped, which may be another process's by now, and not pid 0, *)
(* its own process group (every kill(s->pid, ...) of the file).              *)
OnlyChildrenSignalled ==
  \A p \in Pid \cup {0} : proc[p].st # "live" => proc[p].sigs = {}

(* A child that died is reaped: outside the reaping loop there is always a   *)
(* SIGCHLD or a byte in the self pipe that will bring runsv back to it, even *)
(* when several deaths shared one SIGCHLD.                                   *)
NoLostChild ==
  pc # "reap" /\ Zombies(proc) # {} => "CHLD" \in pending \/ selfpipe

(* When runsv waits, supervise/status and supervise/pid tell what it knows.  *)
FilesCurrent ==
  pc = "poll" => \A s \in PolledControl :
                   /\ disk.status[s] = Status(svd[s])
                   /\ disk.pid[s] = svd[s].pid

(* Every child is the one its service records, so that no service ever has   *)
(* two, and the recorded state tells what that child is: "down" that nothing *)
(* runs.                                                                     *)
ChildKnown(p) == svd[proc[p].sv].pid = p /\ svd[proc[p].sv].state = proc[p].role

RecordsTrue ==
  /\ \A p \in Children(proc) : ChildKnown(p)
  /\ \A s \in Service : IF svd[s].pid = 0 THEN ~Running(s)
                         ELSE svd[s].pid \in Children(proc)

(* runsv leaves nothing behind when it exits.                                *)
CleanExit == pc = "exited" => Children(proc) = {}

Starts(s, role) ==
  \E p \in Free(proc) : /\ proc'[p].st = "live"
                        /\ proc'[p].sv = s /\ proc'[p].role = role

(* The exit status handed to ./finish is one of ./run.                       *)
FinishAfterRun ==
  [][Starts("main", "finish") => svd["main"].wstat = "run"]_vars

(* The pipe to the log service is closed only when nothing of the main       *)
(* service could still write to it.                                          *)
LogClosedLast ==
  [][logpipe /\ ~logpipe' => \A p \in Live(proc) : proc[p].sv = "log"]_vars

(* startservice is never called for a service that has a process: "should    *)
(* never happen", says the comment in runsv.c:281.                           *)
NeverReplaced ==
  [][\A s \in Service : svd[s].pid # 0 => svd'[s].pid \in {0, svd[s].pid}]_vars

(* runsv is a ServiceLife, the phase read off the process table.             *)
MainPhase ==
  LET roles == {proc[p].role : p \in {q \in Children(proc) : proc[q].sv = "main"}}
  IN IF "run" \in roles THEN "run"
     ELSE IF "finish" \in roles THEN "finish"
     ELSE IF svd["main"].state = "finish" THEN "due" ELSE "idle"

Life == INSTANCE ServiceLife WITH phase <- MainPhase, gone <- pc = "exited"

LifeSafety == Life!Safety

(* A ./finish that is due is eventually started.                             *)
FinishStarts == MainPhase = "due" ~> MainPhase = "finish"

Unread(c) == \E i \in DOMAIN control["main"] : control["main"][i] = c

(* Told to exit and then neither paused nor given another wish, runsv does:  *)
(* the service is stopped even if it was paused, and the log service ends    *)
(* after it.                                                                 *)
ExitHappens ==
  /\ Unread("x") \/ sigterm \/ "TERM" \in pending
  /\ [](\A c \in {"p", "u", "d"} : ~Unread(c))
~> pc = "exited"

(* Told to go down and then nothing else, the service ends, even if it was   *)
(* paused, and stays down.                                                   *)
DownHappens ==
  Unread("d") /\ [](\A c \in {"p", "u"} : ~Unread(c)) ~>
    [](svd["main"].state = "down" /\ svd["main"].pid = 0)
=============================================================================
