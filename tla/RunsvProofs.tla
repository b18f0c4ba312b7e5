---------------------------- MODULE RunsvProofs ----------------------------
(***************************************************************************)
(* Proofs about Runsv, for every set of pids, every bound and every choice *)
(* of log, ./finish, down files, custom scripts and commands.              *)
(***************************************************************************)
EXTENDS Runsv, TLAPS

-----------------------------------------------------------------------------
(* The process table. *)

\* kill(2) changes nothing but the signals of the process it names.
LEMMA KillTable ==
  ASSUME NEW t \in Table, NEW p \in Pid \cup {0}, NEW S \in SUBSET Signal
  PROVE  /\ Kill(t, p, S) \in Table
         /\ \A q \in Pid \cup {0} :
              /\ Kill(t, p, S)[q].st = t[q].st
              /\ Kill(t, p, S)[q].sv = t[q].sv
              /\ Kill(t, p, S)[q].role = t[q].role
              /\ Kill(t, p, S)[q].execs = t[q].execs
              /\ q # p => Kill(t, p, S)[q].sigs = t[q].sigs
              /\ t[q].st = "zombie" => Kill(t, p, S)[q].sigs = t[q].sigs
<1> DEFINE k == [t EXCEPT ![p].sigs = Receive(@, S)]
<1>1. \A old \in SUBSET Signal : Receive(old, S) \in SUBSET Signal
  BY DEF Receive
<1>2. t[p] \in Proc /\ t[p].sigs \in SUBSET Signal
  BY DEF Table, Proc
<1>3. k \in Table
  BY <1>1, <1>2 DEF Table, Proc
<1>4. \A q \in Pid \cup {0} :
        /\ k[q].st = t[q].st /\ k[q].sv = t[q].sv
        /\ k[q].role = t[q].role /\ k[q].execs = t[q].execs
        /\ q # p => k[q].sigs = t[q].sigs
  BY DEF Table, Proc
<1> QED
  BY <1>3, <1>4 DEF Kill

\* fork(2) takes a free pid and leaves the other processes alone.
LEMMA ForkTable ==
  ASSUME NEW t \in Table, NEW p \in Pid, NEW s \in Service,
         NEW role \in Role, NEW execs \in BOOLEAN
  PROVE  /\ Fork(t, p, s, role, execs) \in Table
         /\ Fork(t, p, s, role, execs)[p] =
              [st |-> "live", sv |-> s, role |-> role, execs |-> execs,
               sigs |-> t[p].sigs]
         /\ \A q \in Pid \cup {0} :
              q # p => Fork(t, p, s, role, execs)[q] = t[q]
  BY DEF Fork, Table, Proc

\* exit(2): the process stays in the table as a zombie without signals.
LEMMA DieTable ==
  ASSUME NEW t \in Table, NEW p \in Pid
  PROVE  /\ Die(t, p) \in Table
         /\ Die(t, p)[p].st = "zombie" /\ Die(t, p)[p].sigs = {}
         /\ Die(t, p)[p].sv = t[p].sv /\ Die(t, p)[p].role = t[p].role
         /\ \A q \in Pid \cup {0} : q # p => Die(t, p)[q] = t[q]
  BY DEF Die, Table, Proc

\* wait(2) frees the pid.
LEMMA WaitTable ==
  ASSUME NEW t \in Table, NEW p \in Pid
  PROVE  /\ Wait(t, p) \in Table
         /\ Wait(t, p)[p] = Blank
         /\ \A q \in Pid \cup {0} : q # p => Wait(t, p)[q] = t[q]
  BY DEF Wait, Table, Proc, Blank, Service, Role

-----------------------------------------------------------------------------
(* The type invariant. *)

ServiceType ==
  /\ svd \in [Service -> Svdir]
  /\ proc \in Table
  /\ disk \in [status : [Service -> StatusFile],
               pid : [Service -> Pid \cup {0}]]
  /\ young \in [Service -> BOOLEAN]

\* What runsv writes out has the type of its files.
LEMMA DiskType ==
  ASSUME ServiceType, NEW s \in Service, NEW v \in Svdir,
         NEW d \in [status : [Service -> StatusFile],
                    pid : [Service -> Pid \cup {0}]]
  PROVE  /\ UpdateStatus(d, s, v) \in [status : [Service -> StatusFile],
                                       pid : [Service -> Pid \cup {0}]]
         /\ UpdatePid(d, s, v) \in [status : [Service -> StatusFile],
                                    pid : [Service -> Pid \cup {0}]]
<1>1. Status(v) \in StatusFile
  BY DEF Status, StatusFile, Svdir
<1>2. v.pid \in Pid \cup {0}
  BY DEF Svdir
<1> QED
  BY <1>1, <1>2 DEF UpdateStatus, UpdatePid

\* What stopservice sends are signals.
LEMMA StopSignalsType ==
  ASSUME NEW v, NEW ok PROVE StopSignals(v, ok) \in SUBSET Signal
  BY DEF StopSignals, Signal

LEMMA StartServiceType ==
  ASSUME ServiceType, NEW s \in Service, NEW v \in Svdir,
         StartService(s, v)
  PROVE  ServiceType'
<1>1. PICK p \in Free(proc), ok \in Customized(s) :
        LET w == [v EXCEPT !.pid = p, !.term = FALSE, !.paused = FALSE,
                           !.state = IF @ = "finish" THEN @ ELSE "run"]
            stopped == IF v.pid = 0 THEN proc
                       ELSE Kill(proc, v.pid, StopSignals(v, ok))
        IN /\ proc' = Fork(stopped, p, s, w.state, HasLog => logpipe)
           /\ svd' = [svd EXCEPT ![s] = w]
           /\ disk' = UpdatePid(disk, s, w)
           /\ young' = [young EXCEPT ![s] = IF w.state = "run" THEN TRUE ELSE @]
  BY DEF StartService
<1> DEFINE w == [v EXCEPT !.pid = p, !.term = FALSE, !.paused = FALSE,
                          !.state = IF @ = "finish" THEN @ ELSE "run"]
           stopped == IF v.pid = 0 THEN proc
                      ELSE Kill(proc, v.pid, StopSignals(v, ok))
<1>2. p \in Pid
  BY DEF Free
<1>3. w \in Svdir /\ w.state \in Role
  BY <1>2 DEF Svdir, State, Role
<1>4. stopped \in Table
  BY KillTable, StopSignalsType DEF ServiceType, Svdir
<1>5. (HasLog => logpipe) \in BOOLEAN
  OBVIOUS
<1>6. proc' \in Table
  <2> HIDE DEF stopped, w
  <2>1. proc' = Fork(stopped, p, s, w.state, HasLog => logpipe)
    BY <1>1 DEF stopped, w
  <2> QED
    BY <2>1, <1>2, <1>3, <1>4, <1>5, ForkTable
<1>7. disk' \in [status : [Service -> StatusFile],
                 pid : [Service -> Pid \cup {0}]]
  BY <1>1, <1>3, DiskType DEF ServiceType
<1>8. svd' \in [Service -> Svdir]
  BY <1>1, <1>3 DEF ServiceType
<1>9. young' \in [Service -> BOOLEAN]
  BY <1>1 DEF ServiceType
<1> QED
  BY <1>6, <1>7, <1>8, <1>9 DEF ServiceType

LEMMA StopServiceType ==
  ASSUME ServiceType, NEW s \in Service, NEW v \in Svdir,
         NEW d \in [status : [Service -> StatusFile],
                    pid : [Service -> Pid \cup {0}]],
         StopService(s, v, d)
  PROVE  ServiceType'
<1>1. PICK ok \in Customized(s) :
        LET signals == StopSignals(v, ok)
            w == [v EXCEPT !.term = @ \/ "TERM" \in signals]
        IN /\ proc' = Kill(proc, v.pid, signals)
           /\ svd' = [svd EXCEPT ![s] = w]
           /\ disk' = IF "TERM" \in signals THEN UpdateStatus(d, s, w) ELSE d
           /\ UNCHANGED young
  BY DEF StopService
<1> DEFINE w == [v EXCEPT !.term = @ \/ "TERM" \in StopSignals(v, ok)]
<1>2. w \in Svdir
  BY DEF Svdir
<1>3. proc' \in Table
  BY <1>1, KillTable, StopSignalsType DEF ServiceType, Svdir
<1>4. disk' \in [status : [Service -> StatusFile],
                 pid : [Service -> Pid \cup {0}]]
  BY <1>1, <1>2, DiskType
<1> QED
  BY <1>1, <1>2, <1>3, <1>4 DEF ServiceType

LEMMA RecordType ==
  ASSUME ServiceType, NEW s \in Service, NEW v \in Svdir, Record(s, v)
  PROVE  /\ svd' \in [Service -> Svdir]
         /\ disk' \in [status : [Service -> StatusFile],
                       pid : [Service -> Pid \cup {0}]]
  BY DiskType DEF Record, ServiceType

LEMMA SendSignalType ==
  ASSUME ServiceType, NEW s \in Service, NEW c, NEW g \in Signal,
         SendSignal(s, c, g)
  PROVE  proc' \in Table
<1>1. {g} \in SUBSET Signal /\ svd[s].pid \in Pid \cup {0}
  BY DEF ServiceType, Svdir
<1> QED
  BY <1>1, KillTable DEF SendSignal, ServiceType

\* A control character keeps the types of everything it may change.
LEMMA CtrlType ==
  ASSUME ServiceType, NEW s \in Service, NEW c, Ctrl(s, c)
  PROVE  ServiceType'
<1>0. svd[s] \in Svdir
  BY DEF ServiceType
<1>1. ASSUME NEW want \in Want, Up(s, want) PROVE ServiceType'
  <2> DEFINE v == [svd[s] EXCEPT !.want = want]
  <2>1. v \in Svdir
    BY <1>0 DEF Svdir
  <2> QED
    BY <1>1, <2>1, StartServiceType, RecordType DEF Up, ServiceType
<1>2. ASSUME NEW want \in Want, Down(s, want) PROVE ServiceType'
  <2> DEFINE v == [svd[s] EXCEPT !.want = want]
  <2>1. v \in Svdir
    BY <1>0 DEF Svdir
  <2>2. UpdateStatus(disk, s, v) \in [status : [Service -> StatusFile],
                                      pid : [Service -> Pid \cup {0}]]
    BY <2>1, DiskType DEF ServiceType
  <2> QED
    BY <1>2, <2>1, <2>2, StopServiceType, RecordType DEF Down, ServiceType
<1>3. CASE UNCHANGED service
  BY <1>3 DEF service, ServiceType
<1>4. CASE Term(s)
  BY <1>0, <1>3, <1>4, StopServiceType DEF Term, ServiceType
<1>5. CASE KillService(s)
  <2>1. [svd[s] EXCEPT !.state = "down"] \in Svdir
    BY <1>0 DEF Svdir, State
  <2> QED
    BY <1>5, <2>1, SendSignalType DEF KillService, ServiceType, Signal
<1>6. CASE Pause(s) \/ Cont(s)
  <2>1. \A b \in BOOLEAN : [svd[s] EXCEPT !.paused = b] \in Svdir
    BY <1>0 DEF Svdir
  <2> QED
    BY <1>6, <2>1, SendSignalType, RecordType
    DEF Pause, Cont, ServiceType, Signal
<1>7. CASE Forward(s, c)
  <2>1. \A e \in Plain : e[2] \in Signal
    BY DEF Plain, Signal
  <2> QED
    BY <1>7, <2>1, SendSignalType DEF Forward, ServiceType
<1> QED
  BY <1>1, <1>2, <1>3, <1>4, <1>5, <1>6, <1>7 DEF Ctrl, Ignore, Want

\* What the start of a service or its skipping does to the types.
LEMMA StartOrSkipType ==
  ASSUME TypeOK, NEW s \in Service, NEW due, NEW next \in Labels,
         StartOrSkip(s, due, next)
  PROVE  TypeOK'
<1>1. ServiceType /\ svd[s] \in Svdir
  BY DEF TypeOK, ServiceType
<1>2. ServiceType'
  BY <1>1, StartServiceType DEF StartOrSkip, service, ServiceType
<1> QED
  BY <1>2 DEF StartOrSkip, TypeOK, ServiceType, wakeup

LEMMA ReadControlType ==
  ASSUME TypeOK, NEW s \in Service, NEW here, NEW next \in Labels,
         ReadControl(s, here, next)
  PROVE  TypeOK'
<1>1. ServiceType
  BY DEF TypeOK, ServiceType
<1>2. ServiceType'
  BY <1>1, CtrlType DEF ReadControl, service, ServiceType
<1>3. \A q \in Seq(AllCommands) : q # <<>> => Tail(q) \in Seq(AllCommands)
  OBVIOUS
<1>4. control \in [Service -> Seq(AllCommands)] /\ control[s] \in Seq(AllCommands)
  BY DEF TypeOK
<1>5. control' \in [Service -> Seq(AllCommands)]
  BY <1>3, <1>4 DEF ReadControl
<1> QED
  BY <1>2, <1>5 DEF ReadControl, TypeOK, ServiceType, wakeup

LEMMA ReapType ==
  ASSUME TypeOK, NEW p \in Pid, Reap(p)
  PROVE  TypeOK'
<1>1. ServiceType
  BY DEF TypeOK, ServiceType
<1>2. proc' \in Table
  BY WaitTable DEF Reap, TypeOK
<1>3. CASE ReapUnknown(p)
  BY <1>2, <1>3 DEF Reap, ReapUnknown, TypeOK, wakeup
<1>4. ASSUME NEW s \in Service, ReapService(s, p)
      PROVE  TypeOK'
  <2> DEFINE v == [svd[s] EXCEPT !.pid = 0, !.term = FALSE,
                     !.state = IF FinishDue(s) THEN "finish" ELSE "down",
                     !.wstat = IF s = "main" THEN proc[p].role ELSE @]
  <2>1. proc[p].role \in Role
    BY DEF TypeOK, Table, Proc
  <2>a. svd[s] \in Svdir
    BY DEF TypeOK
  <2>2. v \in Svdir
    BY <2>1, <2>a DEF Svdir, State
  <2>3. disk' \in [status : [Service -> StatusFile],
                   pid : [Service -> Pid \cup {0}]]
    BY <1>1, <1>4, <2>2, DiskType DEF ReapService, ServiceType
  <2>4. svd' \in [Service -> Svdir]
    BY <1>4, <2>2 DEF ReapService, TypeOK
  <2>5. young' \in [Service -> BOOLEAN]
    BY <1>4 DEF ReapService, Sleep, TypeOK
  <2> QED
    BY <1>2, <2>3, <2>4, <2>5 DEF Reap, TypeOK, wakeup
<1> QED
  BY <1>3, <1>4 DEF Reap

LEMMA InitType == Init => TypeOK
<1> SUFFICES ASSUME Init PROVE TypeOK
  OBVIOUS
<1>1. \A b \in BOOLEAN : Fresh(b) \in Svdir
  BY DEF Fresh, Svdir, State, Want, Role
<1>2. MainDown \in BOOLEAN /\ LogDown \in BOOLEAN /\ HasLog \in BOOLEAN
  BY RunsvAssumption
<1>3. svd \in [Service -> Svdir]
  BY <1>1, <1>2 DEF Init
<1>4. \A v \in Svdir : Status(v) \in StatusFile
  BY DEF Svdir, Status, StatusFile
<1>5. PICK old \in Pid \cup {0} :
        disk = [status |-> [s \in Service |-> Status(svd[s])],
                pid |-> [s \in Service |-> IF s = "main" THEN 0 ELSE old]]
  BY DEF Init
<1>6. disk \in [status : [Service -> StatusFile],
                pid : [Service -> Pid \cup {0}]]
  BY <1>3, <1>4, <1>5
<1>7. proc \in Table
  BY DEF Init, NoProcesses, Table, Proc, Blank, Service, Role
<1>8. <<>> \in Seq(AllCommands)
  OBVIOUS
<1> QED
  BY <1>2, <1>3, <1>6, <1>7, <1>8 DEF Init, TypeOK, Labels

LEMMA NextType == TypeOK /\ [Next]_vars => TypeOK'
<1> SUFFICES ASSUME TypeOK, [Next]_vars PROVE TypeOK'
  OBVIOUS
<1> USE DEF Labels
<1>a. {"main", "log"} \subseteq Service
  BY DEF Service
<1>1. CASE StartLog
  BY <1>1, <1>a, StartOrSkipType DEF StartLog
<1>2. CASE StartMain
  BY <1>2, <1>a, StartOrSkipType DEF StartMain
<1>3. CASE Handle
  BY <1>3 DEF Handle, TypeOK, service
<1>4. CASE EndPoll
  BY <1>4 DEF EndPoll, TypeOK, service
<1>5. ASSUME NEW p \in Pid, Reap(p) PROVE TypeOK'
  BY <1>5, ReapType
<1>6. CASE AllReaped
  BY <1>6 DEF AllReaped, TypeOK, service, wakeup
<1>7. CASE ReadMain
  BY <1>7, <1>a, ReadControlType DEF ReadMain
<1>8. CASE ReadLog
  BY <1>8, <1>a, ReadControlType DEF ReadLog
<1>9. CASE CheckTerm
  <2>1. ServiceType
    BY DEF TypeOK, ServiceType
  <2>2. ServiceType'
    BY <1>9, <1>a, <2>1, CtrlType DEF CheckTerm, service, ServiceType
  <2> QED
    BY <1>9, <2>2 DEF CheckTerm, TypeOK, ServiceType
<1>10. CASE Leave \/ Loop
  BY <1>10 DEF Leave, Loop, TypeOK, service, wakeup
<1>11. CASE CloseLog
  <2> DEFINE v == [svd["log"] EXCEPT !.want = "exit"]
  <2>1. ServiceType
    BY DEF TypeOK, ServiceType
  <2>a. svd["log"] \in Svdir
    BY <1>a DEF TypeOK
  <2>2. v \in Svdir
    BY <2>a DEF Svdir, Want
  <2>3. /\ svd' \in [Service -> Svdir]
        /\ disk' \in [status : [Service -> StatusFile],
                      pid : [Service -> Pid \cup {0}]]
    BY <1>11, <1>a, <2>1, <2>2, RecordType DEF CloseLog
  <2> QED
    BY <1>11, <2>3 DEF CloseLog, TypeOK, wakeup
<1>12. ASSUME NEW p \in Pid, Exit(p) PROVE TypeOK'
  BY <1>12, DieTable DEF Exit, TypeOK
<1>13. ASSUME NEW s \in Service, NEW c \in AllCommands, Write(s, c) PROVE TypeOK'
  BY <1>13 DEF Write, TypeOK, service, wakeup
<1>14. CASE Terminate
  BY <1>14 DEF Terminate, TypeOK, service
<1>15. ASSUME NEW s \in Service, Age(s) PROVE TypeOK'
  BY <1>15 DEF Age, TypeOK, wakeup
<1>16. CASE UNCHANGED vars
  BY <1>16 DEF vars, TypeOK
<1>17. Commands \subseteq AllCommands /\ LogCommands \subseteq AllCommands
  BY RunsvAssumption
<1> QED
  BY <1>1, <1>2, <1>3, <1>4, <1>5, <1>6, <1>7, <1>8, <1>9, <1>10, <1>11,
     <1>12, <1>13, <1>14, <1>15, <1>16, <1>17, <1>a
  DEF Next, Step, Wake, Timeout, Environment

(* Every variable of runsv keeps its type: in particular a status file       *)
(* always holds a state, a pid and flags that sv can read.                   *)
THEOREM TypeCorrect == Spec => []TypeOK
  BY InitType, NextType, PTL DEF Spec

-----------------------------------------------------------------------------
(* Whom runsv signals. OnlyChildrenSignalled is not inductive: a step that   *)
(* signals svd[s].pid must know that this pid is still the child of s, and   *)
(* that a service in state "run" has one.                                    *)

PidsAreChildren ==
  \A s \in Service :
    svd[s].pid # 0 => /\ svd[s].pid \in Pid
                      /\ proc[svd[s].pid].st # "free"
                      /\ proc[svd[s].pid].sv = s

RunningHasPid == \A s \in Service : Running(s) => svd[s].pid # 0

ChildInv ==
  /\ OnlyChildrenSignalled
  /\ PidsAreChildren
  /\ RunningHasPid

\* Signalling the recorded child of a service marks no process but a live one.
LEMMA KillChild ==
  ASSUME ServiceType, ChildInv, NEW s \in Service, svd[s].pid # 0,
         NEW S \in SUBSET Signal
  PROVE  LET t == Kill(proc, svd[s].pid, S)
         IN  /\ t \in Table
             /\ \A q \in Pid \cup {0} : /\ t[q].st = proc[q].st
                                        /\ t[q].sv = proc[q].sv
                                        /\ t[q].role = proc[q].role
                                        /\ t[q].st # "live" => t[q].sigs = {}
<1>1. svd[s].pid \in Pid /\ proc \in Table
  BY DEF ServiceType, ChildInv, PidsAreChildren
<1>2. proc[svd[s].pid].st \in {"live", "zombie"}
  BY <1>1 DEF ChildInv, PidsAreChildren, Table, Proc
<1>3. \A q \in Pid \cup {0} : proc[q].st # "live" => proc[q].sigs = {}
  BY DEF ChildInv, OnlyChildrenSignalled
<1> QED
  BY <1>1, <1>2, <1>3, KillTable

LEMMA StartServiceChild ==
  ASSUME ServiceType, ChildInv, NEW s \in Service, NEW v \in Svdir,
         v.pid = svd[s].pid, StartService(s, v)
  PROVE  ChildInv'
<1>1. PICK p \in Free(proc), ok \in Customized(s) :
        LET w == [v EXCEPT !.pid = p, !.term = FALSE, !.paused = FALSE,
                           !.state = IF @ = "finish" THEN @ ELSE "run"]
            stopped == IF v.pid = 0 THEN proc
                       ELSE Kill(proc, v.pid, StopSignals(v, ok))
        IN /\ proc' = Fork(stopped, p, s, w.state, HasLog => logpipe)
           /\ svd' = [svd EXCEPT ![s] = w]
           /\ disk' = UpdatePid(disk, s, w)
           /\ young' = [young EXCEPT ![s] = IF w.state = "run" THEN TRUE ELSE @]
  BY DEF StartService
<1> DEFINE w == [v EXCEPT !.pid = p, !.term = FALSE, !.paused = FALSE,
                          !.state = IF @ = "finish" THEN @ ELSE "run"]
           stopped == IF v.pid = 0 THEN proc
                      ELSE Kill(proc, v.pid, StopSignals(v, ok))
<1>2. p \in Pid /\ p # 0 /\ proc[p].st = "free"
  BY PidAssumption DEF Free
<1>3. w \in Svdir /\ w.state \in Role /\ w.pid = p
  BY <1>2 DEF Svdir, State, Role
<1>4. /\ stopped \in Table
      /\ \A q \in Pid \cup {0} : /\ stopped[q].st = proc[q].st
                                 /\ stopped[q].sv = proc[q].sv
                                 /\ stopped[q].st # "live" => stopped[q].sigs = {}
  <2>1. CASE v.pid = 0
    <3>1. stopped = proc
      BY <2>1
    <3> HIDE DEF stopped
    <3> QED
      BY <3>1 DEF ServiceType, ChildInv, OnlyChildrenSignalled
  <2>2. CASE v.pid # 0
    <3>1. stopped = Kill(proc, svd[s].pid, StopSignals(v, ok))
      BY <2>2
    <3>2. svd[s].pid # 0
      BY <2>2
    <3> HIDE DEF stopped
    <3> QED
      BY <3>1, <3>2, KillChild, StopSignalsType
  <2> QED
    BY <2>1, <2>2
<1> DEFINE execs == HasLog => logpipe
           role == w.state
<1>5. /\ proc' = Fork(stopped, p, s, role, execs)
      /\ svd' = [svd EXCEPT ![s] = w]
      /\ role \in Role /\ execs \in BOOLEAN
  BY <1>1, <1>3
<1> HIDE DEF stopped, w, execs, role
<1>6. /\ proc'[p].st = "live" /\ proc'[p].sv = s
      /\ \A q \in Pid \cup {0} : q # p => proc'[q] = stopped[q]
  <2>1. /\ Fork(stopped, p, s, role, execs)[p] =
             [st |-> "live", sv |-> s, role |-> role, execs |-> execs,
              sigs |-> stopped[p].sigs]
        /\ \A q \in Pid \cup {0} :
             q # p => Fork(stopped, p, s, role, execs)[q] = stopped[q]
    BY <1>2, <1>4, <1>5, ForkTable
  <2> QED
    BY <2>1, <1>5
<1>7. svd'[s] = w /\ \A r \in Service : r # s => svd'[r] = svd[r]
  BY <1>5 DEF ServiceType
<1>8. OnlyChildrenSignalled'
  BY <1>4, <1>6 DEF OnlyChildrenSignalled
<1>9. PidsAreChildren'
  <2> SUFFICES ASSUME NEW r \in Service, svd'[r].pid # 0
               PROVE  /\ svd'[r].pid \in Pid
                      /\ proc'[svd'[r].pid].st # "free"
                      /\ proc'[svd'[r].pid].sv = r
    BY DEF PidsAreChildren
  <2>1. CASE r = s
    BY <2>1, <1>2, <1>3, <1>6, <1>7
  <2>2. CASE r # s
    <3>1. svd[r].pid \in Pid /\ proc[svd[r].pid].st # "free" /\ proc[svd[r].pid].sv = r
      BY <2>2, <1>7 DEF ChildInv, PidsAreChildren
    <3>2. svd[r].pid # p
      BY <3>1, <1>2
    <3> QED
      BY <2>2, <3>1, <3>2, <1>4, <1>6, <1>7
  <2> QED
    BY <2>1, <2>2
<1>10. RunningHasPid'
  BY <1>2, <1>3, <1>7 DEF RunningHasPid, Running, ChildInv
<1> QED
  BY <1>8, <1>9, <1>10 DEF ChildInv

\* A step that changes no pid, brings no service to "run" and only signals.
LEMMA SameChildren ==
  ASSUME ChildInv, proc' \in Table, svd' \in [Service -> Svdir],
         \A r \in Service : /\ svd'[r].pid = svd[r].pid
                            /\ svd'[r].state \in {svd[r].state, "down"},
         \A q \in Pid \cup {0} : /\ proc'[q].st = proc[q].st
                                 /\ proc'[q].sv = proc[q].sv
                                 /\ proc'[q].st # "live" => proc'[q].sigs = {}
  PROVE  ChildInv'
<1>1. OnlyChildrenSignalled'
  BY DEF OnlyChildrenSignalled
<1>2. PidsAreChildren'
  BY DEF PidsAreChildren, ChildInv
<1>3. RunningHasPid'
  BY DEF RunningHasPid, Running, ChildInv
<1> QED
  BY <1>1, <1>2, <1>3 DEF ChildInv

LEMMA StopServiceChild ==
  ASSUME ServiceType, ChildInv, NEW s \in Service, NEW v \in Svdir,
         v.pid = svd[s].pid, v.state = svd[s].state, Running(s), NEW d,
         StopService(s, v, d), svd' \in [Service -> Svdir]
  PROVE  ChildInv'
<1>1. PICK ok \in Customized(s) :
        /\ proc' = Kill(proc, v.pid, StopSignals(v, ok))
        /\ svd' = [svd EXCEPT ![s] =
                     [v EXCEPT !.term = @ \/ "TERM" \in StopSignals(v, ok)]]
  BY DEF StopService
<1>2. svd[s].pid # 0
  BY DEF ChildInv, RunningHasPid
<1>3. \A r \in Service : /\ svd'[r].pid = svd[r].pid
                         /\ svd'[r].state = svd[r].state
  <2> DEFINE w == [v EXCEPT !.term = @ \/ "TERM" \in StopSignals(v, ok)]
  <2>1. w.pid = v.pid /\ w.state = v.state
    BY DEF Svdir
  <2>2. svd' = [svd EXCEPT ![s] = w]
    BY <1>1
  <2> HIDE DEF w
  <2> QED
    BY <2>1, <2>2 DEF ServiceType
<1>4. proc' = Kill(proc, svd[s].pid, StopSignals(v, ok))
  BY <1>1
<1>5. /\ proc' \in Table
      /\ \A q \in Pid \cup {0} : /\ proc'[q].st = proc[q].st
                                 /\ proc'[q].sv = proc[q].sv
                                 /\ proc'[q].st # "live" => proc'[q].sigs = {}
  <2> DEFINE S == StopSignals(v, ok)
  <2>1. S \in SUBSET Signal
    BY StopSignalsType
  <2>2. proc' = Kill(proc, svd[s].pid, S)
    BY <1>4
  <2> HIDE DEF S
  <2> QED
    BY <1>2, <2>1, <2>2, KillChild
<1> QED
  BY <1>3, <1>5, SameChildren

LEMMA RecordChild ==
  ASSUME ServiceType, ChildInv, NEW s \in Service, NEW v \in Svdir,
         v.pid = svd[s].pid, v.state = svd[s].state, Record(s, v), proc' = proc
  PROVE  ChildInv'
<1>1. /\ svd' \in [Service -> Svdir]
      /\ \A r \in Service : /\ svd'[r].pid = svd[r].pid
                            /\ svd'[r].state = svd[r].state
  BY DEF Record, ServiceType
<1> QED
  BY <1>1 DEF ChildInv, OnlyChildrenSignalled, PidsAreChildren, RunningHasPid,
              Running

LEMMA SendSignalChild ==
  ASSUME ServiceType, ChildInv, NEW s \in Service, NEW c, NEW g \in Signal,
         SendSignal(s, c, g), svd' \in [Service -> Svdir],
         \A r \in Service : /\ svd'[r].pid = svd[r].pid
                            /\ svd'[r].state \in {svd[r].state, "down"}
  PROVE  ChildInv'
<1>1. \/ proc' = proc
      \/ Running(s) /\ proc' = Kill(proc, svd[s].pid, {g})
  BY DEF SendSignal
<1>2. CASE proc' = proc
  BY <1>2, SameChildren DEF ChildInv, OnlyChildrenSignalled, ServiceType
<1>3. CASE Running(s) /\ proc' = Kill(proc, svd[s].pid, {g})
  <2>1. svd[s].pid # 0 /\ {g} \in SUBSET Signal
    BY <1>3 DEF ChildInv, RunningHasPid
  <2> QED
    BY <1>3, <2>1, KillChild, SameChildren
<1> QED
  BY <1>1, <1>2, <1>3

\* Every control character preserves ChildInv, "k" included.
LEMMA CtrlChild ==
  ASSUME ServiceType, ChildInv, NEW s \in Service, NEW c, Ctrl(s, c)
  PROVE  ChildInv'
<1>0. svd[s] \in Svdir
  BY DEF ServiceType
<1>t. svd' \in [Service -> Svdir]
  BY CtrlType DEF ServiceType
<1>1. ASSUME NEW want \in Want, Up(s, want) PROVE ChildInv'
  <2> DEFINE v == [svd[s] EXCEPT !.want = want]
  <2>1. v \in Svdir /\ v.pid = svd[s].pid /\ v.state = svd[s].state
    BY <1>0 DEF Svdir
  <2> QED
    BY <1>1, <2>1, StartServiceChild, RecordChild DEF Up
<1>2. ASSUME NEW want \in Want, Down(s, want) PROVE ChildInv'
  <2> DEFINE v == [svd[s] EXCEPT !.want = want]
  <2>1. v \in Svdir /\ v.pid = svd[s].pid /\ v.state = svd[s].state
    BY <1>0 DEF Svdir
  <2> QED
    BY <1>2, <1>t, <2>1, StopServiceChild, RecordChild DEF Down, Running
<1>3. CASE UNCHANGED service
  BY <1>3 DEF service, ChildInv, OnlyChildrenSignalled, PidsAreChildren,
              RunningHasPid, Running
<1>4. CASE Term(s)
  BY <1>0, <1>t, <1>3, <1>4, StopServiceChild DEF Term
<1>5. CASE KillService(s)
  <2>1. \A r \in Service : /\ svd'[r].pid = svd[r].pid
                           /\ svd'[r].state \in {svd[r].state, "down"}
    BY <1>5 DEF KillService, ServiceType, Svdir
  <2> QED
    BY <1>5, <1>t, <2>1, SendSignalChild DEF KillService, Signal
<1>6. CASE Pause(s) \/ Cont(s)
  <2>1. ASSUME NEW f \in BOOLEAN, Record(s, [svd[s] EXCEPT !.paused = f])
        PROVE  \A r \in Service : /\ svd'[r].pid = svd[r].pid
                                  /\ svd'[r].state = svd[r].state
    <3>1. svd' = [svd EXCEPT ![s] = [svd[s] EXCEPT !.paused = f]]
      BY <2>1 DEF Record
    <3>2. [svd[s] EXCEPT !.paused = f].pid = svd[s].pid
          /\ [svd[s] EXCEPT !.paused = f].state = svd[s].state
      BY <1>0 DEF Svdir
    <3> QED
      BY <3>1, <3>2 DEF ServiceType
  <2>2. \A r \in Service : /\ svd'[r].pid = svd[r].pid
                           /\ svd'[r].state = svd[r].state
    BY <1>6, <2>1 DEF Pause, Cont
  <2> QED
    BY <1>6, <1>t, <2>2, SendSignalChild DEF Pause, Cont, Signal
<1>7. CASE Forward(s, c)
  <2>1. \A e \in Plain : e[2] \in Signal
    BY DEF Plain, Signal
  <2> QED
    BY <1>7, <1>t, <2>1, SendSignalChild DEF Forward
<1> QED
  BY <1>1, <1>2, <1>3, <1>4, <1>5, <1>6, <1>7 DEF Ctrl, Ignore, Want

LEMMA ReapChild ==
  ASSUME TypeOK, ChildInv, NEW p \in Pid, Reap(p)
  PROVE  ChildInv'
<1>1. /\ proc'[p] = Blank
      /\ \A q \in Pid \cup {0} : q # p => proc'[q] = proc[q]
  BY WaitTable DEF Reap, TypeOK
<1>2. OnlyChildrenSignalled'
  BY <1>1 DEF ChildInv, OnlyChildrenSignalled, Blank
<1>3. \A s \in Service : svd'[s].pid # 0 =>
        svd'[s].pid = svd[s].pid /\ svd[s].pid # p /\ svd'[s].state = svd[s].state
  <2>1. CASE ReapUnknown(p)
    BY <2>1 DEF ReapUnknown
  <2>2. ASSUME NEW s \in Service, ReapService(s, p)
        PROVE  \A r \in Service : svd'[r].pid # 0 =>
                 svd'[r].pid = svd[r].pid /\ svd[r].pid # p /\ svd'[r].state = svd[r].state
    <3>1. svd[s].pid = p /\ svd'[s].pid = 0
          /\ \A r \in Service : r # s => svd'[r] = svd[r]
      BY <2>2 DEF ReapService, TypeOK, Svdir
    <3>2. \A r \in Service : r # s => svd[r].pid # p
      BY <3>1, PidAssumption DEF ChildInv, PidsAreChildren
    <3> QED
      BY <3>1, <3>2
  <2> QED
    BY <2>1, <2>2 DEF Reap
<1>4. PidsAreChildren'
  BY <1>1, <1>3 DEF ChildInv, PidsAreChildren
<1>5. RunningHasPid'
  <2>1. CASE ReapUnknown(p)
    BY <2>1 DEF ReapUnknown, ChildInv, RunningHasPid, Running
  <2>2. ASSUME NEW s \in Service, ReapService(s, p) PROVE RunningHasPid'
    <3>1. svd'[s].state # "run" /\ \A r \in Service : r # s => svd'[r] = svd[r]
      <4>1. svd[s] \in Svdir
        BY DEF TypeOK
      <4> QED
        BY <2>2, <4>1 DEF ReapService, TypeOK, Svdir
    <3> QED
      BY <3>1 DEF ChildInv, RunningHasPid, Running
  <2> QED
    BY <2>1, <2>2 DEF Reap
<1> QED
  BY <1>2, <1>4, <1>5 DEF ChildInv

LEMMA InitChild == Init => ChildInv
<1> SUFFICES ASSUME Init PROVE ChildInv
  OBVIOUS
<1>1. \A s \in Service : svd[s].pid = 0 /\ svd[s].state = "down"
  BY DEF Init, Fresh
<1> QED
  BY <1>1 DEF Init, ChildInv, OnlyChildrenSignalled, PidsAreChildren,
              RunningHasPid, Running, NoProcesses, Blank

LEMMA NextChild == TypeOK /\ ChildInv /\ [Next]_vars => ChildInv'
<1> SUFFICES ASSUME TypeOK, ChildInv, [Next]_vars PROVE ChildInv'
  OBVIOUS
<1>a. {"main", "log"} \subseteq Service /\ ServiceType
  BY DEF Service, TypeOK, ServiceType
<1>s. ASSUME svd' = svd, proc' = proc PROVE ChildInv'
  BY <1>s DEF ChildInv, OnlyChildrenSignalled, PidsAreChildren, RunningHasPid,
              Running
<1>1. ASSUME NEW s \in Service, NEW due, NEW next, StartOrSkip(s, due, next)
      PROVE  ChildInv'
  <2>1. svd[s] \in Svdir
    BY DEF TypeOK
  <2> QED
    BY <1>1, <1>a, <1>s, <2>1, StartServiceChild DEF StartOrSkip, service
<1>2. ASSUME NEW p \in Pid, Reap(p) PROVE ChildInv'
  BY <1>2, ReapChild
<1>3. ASSUME NEW s \in Service, NEW here, NEW next, ReadControl(s, here, next)
      PROVE  ChildInv'
  BY <1>3, <1>a, <1>s, CtrlChild DEF ReadControl, service
<1>4. CASE CheckTerm
  BY <1>4, <1>a, <1>s, CtrlChild DEF CheckTerm, service
<1>5. CASE CloseLog
  <2> DEFINE v == [svd["log"] EXCEPT !.want = "exit"]
  <2>1. svd["log"] \in Svdir
    BY <1>a DEF TypeOK
  <2>2. v \in Svdir /\ v.pid = svd["log"].pid /\ v.state = svd["log"].state
    BY <2>1 DEF Svdir, Want
  <2> QED
    BY <1>5, <1>a, <2>2, RecordChild DEF CloseLog
<1>6. ASSUME NEW p \in Pid, Exit(p) PROVE ChildInv'
  <2>1. /\ proc'[p].st = "zombie" /\ proc'[p].sigs = {}
        /\ proc'[p].sv = proc[p].sv /\ svd' = svd
        /\ \A q \in Pid \cup {0} : q # p => proc'[q] = proc[q]
    BY <1>6, DieTable DEF Exit, TypeOK
  <2> QED
    BY <2>1 DEF ChildInv, OnlyChildrenSignalled, PidsAreChildren, RunningHasPid,
                Running
<1>7. CASE Handle \/ EndPoll \/ AllReaped \/ Leave \/ Loop \/ Terminate
  BY <1>7, <1>s DEF Handle, EndPoll, AllReaped, Leave, Loop, Terminate, service
<1>8. ASSUME NEW s \in Service, NEW c, Write(s, c) PROVE ChildInv'
  BY <1>8, <1>s DEF Write, service
<1>9. ASSUME NEW s \in Service, Age(s) PROVE ChildInv'
  BY <1>9, <1>s DEF Age
<1>10. CASE UNCHANGED vars
  BY <1>10, <1>s DEF vars
<1> QED
  BY <1>a, <1>1, <1>2, <1>3, <1>4, <1>5, <1>6, <1>7, <1>8, <1>9, <1>10
  DEF Next, Step, Wake, Timeout, Environment, StartLog, StartMain, ReadMain,
      ReadLog

(* runsv never signals a process that is not its live child, not even its    *)
(* own process group through pid 0: for every interleaving of deaths,        *)
(* commands and signals, and with pids reused at once.                       *)
THEOREM SignalSafety == Spec => []OnlyChildrenSignalled
<1>1. Spec => []TypeOK
  BY TypeCorrect
<1>2. Init => ChildInv
  BY InitChild
<1>3. TypeOK /\ ChildInv /\ [Next]_vars => ChildInv'
  BY NextChild
<1>4. ChildInv => OnlyChildrenSignalled
  BY DEF ChildInv
<1> QED
  BY <1>1, <1>2, <1>3, <1>4, PTL DEF Spec

-----------------------------------------------------------------------------
(* No child is forgotten. Only Exit makes a zombie, and it leaves a SIGCHLD; *)
(* the self pipe is drained only on the way to the reaping loop.             *)

NoNewZombie == \A q \in Pid : proc'[q].st = "zombie" => proc[q].st = "zombie"

LEMMA StartServiceZombie ==
  ASSUME ServiceType, NEW s \in Service, NEW v \in Svdir, StartService(s, v)
  PROVE  NoNewZombie
<1>1. PICK p \in Free(proc), ok \in Customized(s) :
        LET w == [v EXCEPT !.pid = p, !.term = FALSE, !.paused = FALSE,
                           !.state = IF @ = "finish" THEN @ ELSE "run"]
            stopped == IF v.pid = 0 THEN proc
                       ELSE Kill(proc, v.pid, StopSignals(v, ok))
        IN proc' = Fork(stopped, p, s, w.state, HasLog => logpipe)
  BY DEF StartService
<1> DEFINE w == [v EXCEPT !.pid = p, !.term = FALSE, !.paused = FALSE,
                          !.state = IF @ = "finish" THEN @ ELSE "run"]
           S == StopSignals(v, ok)
           stopped == IF v.pid = 0 THEN proc ELSE Kill(proc, v.pid, S)
           execs == HasLog => logpipe
           role == w.state
<1>2. /\ proc' = Fork(stopped, p, s, role, execs)
      /\ role \in Role /\ execs \in BOOLEAN
      /\ S \in SUBSET Signal
  BY <1>1, StopSignalsType DEF Svdir, State, Role
<1>3. p \in Pid /\ v.pid \in Pid \cup {0} /\ proc \in Table
  BY DEF Free, ServiceType, Svdir
<1> HIDE DEF S, role, execs
<1>4. stopped \in Table /\ \A q \in Pid \cup {0} : stopped[q].st = proc[q].st
  BY <1>2, <1>3, KillTable
<1> HIDE DEF stopped
<1>5. /\ proc'[p].st = "live"
      /\ \A q \in Pid \cup {0} : q # p => proc'[q] = stopped[q]
  <2>1. /\ Fork(stopped, p, s, role, execs)[p] =
             [st |-> "live", sv |-> s, role |-> role, execs |-> execs,
              sigs |-> stopped[p].sigs]
        /\ \A q \in Pid \cup {0} :
             q # p => Fork(stopped, p, s, role, execs)[q] = stopped[q]
    BY <1>2, <1>3, <1>4, ForkTable
  <2> QED
    BY <2>1, <1>2
<1> QED
  BY <1>4, <1>5 DEF NoNewZombie

LEMMA CtrlZombie ==
  ASSUME ServiceType, NEW s \in Service, NEW c, Ctrl(s, c)
  PROVE  NoNewZombie
<1>0. svd[s] \in Svdir /\ svd[s].pid \in Pid \cup {0} /\ proc \in Table
  BY DEF ServiceType, Svdir
<1>s. ASSUME proc' = proc PROVE NoNewZombie
  BY <1>s DEF NoNewZombie
<1>k. ASSUME NEW S \in SUBSET Signal, NEW p \in Pid \cup {0},
             proc' = Kill(proc, p, S)
      PROVE  NoNewZombie
  BY <1>0, <1>k, KillTable DEF NoNewZombie
<1>v. \A want \in Want : /\ [svd[s] EXCEPT !.want = want] \in Svdir
                         /\ [svd[s] EXCEPT !.want = want].pid = svd[s].pid
  BY <1>0 DEF Svdir
<1>1. ASSUME NEW want \in Want, Up(s, want) PROVE NoNewZombie
  BY <1>1, <1>s, <1>v, StartServiceZombie DEF Up
<1>2. ASSUME NEW v \in Svdir, NEW d, v.pid = svd[s].pid, StopService(s, v, d)
      PROVE  NoNewZombie
  <2>1. PICK ok \in Customized(s) : proc' = Kill(proc, v.pid, StopSignals(v, ok))
    BY <1>2 DEF StopService
  <2> QED
    BY <1>0, <1>2, <1>k, <2>1, StopSignalsType
<1>3. ASSUME NEW want \in Want, Down(s, want) PROVE NoNewZombie
  BY <1>2, <1>3, <1>s, <1>v DEF Down
<1>4. CASE Term(s)
  BY <1>0, <1>2, <1>4, <1>s DEF Term, service
<1>5. ASSUME NEW g \in Signal, NEW d, SendSignal(s, d, g) PROVE NoNewZombie
  <2>1. {g} \in SUBSET Signal
    OBVIOUS
  <2> QED
    BY <1>0, <1>5, <1>k, <1>s, <2>1 DEF SendSignal
<1>6. CASE KillService(s) \/ Pause(s) \/ Cont(s)
  BY <1>5, <1>6 DEF KillService, Pause, Cont, Signal
<1>7. CASE Forward(s, c)
  <2>1. \A e \in Plain : e[2] \in Signal
    BY DEF Plain, Signal
  <2> QED
    BY <1>5, <1>7, <2>1 DEF Forward
<1> QED
  BY <1>1, <1>3, <1>4, <1>6, <1>7, <1>s DEF Ctrl, Ignore, service, Want

LEMMA NextNoLostChild == TypeOK /\ NoLostChild /\ [Next]_vars => NoLostChild'
<1> SUFFICES ASSUME TypeOK, NoLostChild, [Next]_vars PROVE NoLostChild'
  OBVIOUS
<1> USE DEF NoLostChild, Zombies
<1>a. {"main", "log"} \subseteq Service /\ ServiceType
  BY DEF Service, TypeOK, ServiceType
\* Steps outside the reaping loop that leave the wakeup variables alone.
<1>s. ASSUME NoNewZombie, UNCHANGED wakeup, pc # "reap" PROVE NoLostChild'
  BY <1>s DEF NoNewZombie, wakeup
<1>1. ASSUME NEW s \in Service, NEW due, NEW next, pc # "reap",
             StartOrSkip(s, due, next)
      PROVE  NoLostChild'
  <2>1. svd[s] \in Svdir
    BY DEF TypeOK
  <2>2. NoNewZombie
    BY <1>1, <1>a, <2>1, StartServiceZombie
    DEF StartOrSkip, service, NoNewZombie
  <2> QED
    BY <1>1, <1>s, <2>2 DEF StartOrSkip
<1>2. ASSUME NEW s \in Service, NEW here, NEW next, here # "reap",
             ReadControl(s, here, next)
      PROVE  NoLostChild'
  <2>1. NoNewZombie
    BY <1>2, <1>a, CtrlZombie DEF ReadControl, service, NoNewZombie
  <2> QED
    BY <1>2, <1>s, <2>1 DEF ReadControl
<1>3. CASE CheckTerm
  <2>1. NoNewZombie
    BY <1>3, <1>a, CtrlZombie DEF CheckTerm, service, NoNewZombie
  <2> QED
    BY <1>3, <2>1 DEF CheckTerm, NoNewZombie
<1>4. CASE EndPoll
  BY <1>4 DEF EndPoll
<1>5. ASSUME NEW p \in Pid, Reap(p) PROVE NoLostChild'
  BY <1>5 DEF Reap
<1>6. CASE AllReaped
  BY <1>6 DEF AllReaped, service
<1>7. CASE Handle
  BY <1>7 DEF Handle
<1>8. CASE Leave \/ Loop \/ CloseLog
  BY <1>8, <1>s DEF Leave, Loop, CloseLog, service, NoNewZombie
<1>9. ASSUME NEW p \in Pid, Exit(p) PROVE NoLostChild'
  BY <1>9 DEF Exit
<1>10. CASE Terminate
  BY <1>10 DEF Terminate, service
<1>11. ASSUME NEW s \in Service, NEW c, Write(s, c) PROVE NoLostChild'
  BY <1>11 DEF Write, service, wakeup
<1>12. ASSUME NEW s \in Service, Age(s) PROVE NoLostChild'
  BY <1>12 DEF Age, wakeup
<1>13. CASE UNCHANGED vars
  BY <1>13 DEF vars
<1> QED
  BY <1>a, <1>1, <1>2, <1>3, <1>4, <1>5, <1>6, <1>7, <1>8, <1>9, <1>10, <1>11,
     <1>12, <1>13
  DEF Next, Step, Wake, Timeout, Environment, StartLog, StartMain, ReadMain,
      ReadLog

(* Whatever the interleaving of deaths, commands and signals, a dead child   *)
(* that runsv has not reaped will wake it: deaths that share one SIGCHLD are *)
(* reaped together, one that falls between the reaping loop and the next     *)
(* iopause leaves its SIGCHLD pending.                                       *)
THEOREM NoChildForgotten == Spec => []NoLostChild
<1>1. Spec => []TypeOK
  BY TypeCorrect
<1>2. Init => NoLostChild
  BY DEF Init, NoLostChild, Zombies, NoProcesses, Blank
<1>3. TypeOK /\ NoLostChild /\ [Next]_vars => NoLostChild'
  BY NextNoLostChild
<1> QED
  BY <1>1, <1>2, <1>3, PTL DEF Spec

-----------------------------------------------------------------------------
(* As long as nobody sends runsv "k", which makes it say "down" of a service *)
(* that still has a process: the records then tell the truth about the       *)
(* process table, and runsv is a ServiceLife; then when it closes the log    *)
(* pipe, what ./finish is told, and what supervise/ says.                    *)
NoKillSent == "k" \notin Commands \cup LogCommands

NoKillUnread == control \in [Service -> Seq(AllCommands \ {"k"})]

LifeInv ==
  /\ TypeOK
  /\ ChildInv
  /\ RecordsTrue
  /\ NoKillUnread

-----------------------------------------------------------------------------
(* RecordsTrue is inductive together with ChildInv. *)

\* "down" is said only of a service without a process.
LEMMA DownIsDead ==
  ASSUME ServiceType, ChildInv, RecordsTrue, NEW s \in Service,
         svd[s].state = "down"
  PROVE  svd[s].pid = 0
<1> SUFFICES ASSUME svd[s].pid # 0 PROVE FALSE
  OBVIOUS
<1> DEFINE p == svd[s].pid
<1>1. p \in Children(proc) /\ proc[p].sv = s
  BY DEF RecordsTrue, ChildInv, PidsAreChildren
<1>2. svd[s].state = proc[p].role
  BY <1>1 DEF RecordsTrue, ChildKnown
<1>3. proc[p].role \in Role
  BY <1>1 DEF ServiceType, Table, Proc, Children, Live, Zombies
<1> QED
  BY <1>2, <1>3 DEF Role

LEMMA StartServiceRecords ==
  ASSUME ServiceType, ChildInv, RecordsTrue, NEW s \in Service,
         NEW v \in Svdir, v.pid = 0, svd[s].pid = 0, StartService(s, v)
  PROVE  RecordsTrue'
<1>1. PICK p \in Free(proc) :
        LET w == [v EXCEPT !.pid = p, !.term = FALSE, !.paused = FALSE,
                           !.state = IF @ = "finish" THEN @ ELSE "run"]
        IN /\ proc' = Fork(proc, p, s, w.state, HasLog => logpipe)
           /\ svd' = [svd EXCEPT ![s] = w]
  BY DEF StartService
<1> DEFINE w == [v EXCEPT !.pid = p, !.term = FALSE, !.paused = FALSE,
                          !.state = IF @ = "finish" THEN @ ELSE "run"]
           execs == HasLog => logpipe
           role == w.state
<1>2. p \in Pid /\ p # 0 /\ proc[p].st = "free"
  BY PidAssumption DEF Free
<1>3. /\ proc' = Fork(proc, p, s, role, execs)
      /\ svd' = [svd EXCEPT ![s] = w]
      /\ role \in Role /\ execs \in BOOLEAN
      /\ w.pid = p /\ w.state = role
  BY <1>1, <1>2 DEF Svdir, State, Role
<1> HIDE DEF w, role, execs
<1>4. /\ proc'[p].st = "live" /\ proc'[p].sv = s /\ proc'[p].role = role
      /\ \A q \in Pid \cup {0} : q # p => proc'[q] = proc[q]
  <2>1. /\ Fork(proc, p, s, role, execs)[p] =
             [st |-> "live", sv |-> s, role |-> role, execs |-> execs,
              sigs |-> proc[p].sigs]
        /\ \A q \in Pid \cup {0} :
             q # p => Fork(proc, p, s, role, execs)[q] = proc[q]
    BY <1>2, <1>3, ForkTable DEF ServiceType
  <2> QED
    BY <2>1, <1>3
<1>5. svd'[s] = w /\ \A r \in Service : r # s => svd'[r] = svd[r]
  BY <1>3 DEF ServiceType
<1>6. ASSUME NEW q \in Children(proc)' PROVE ChildKnown(q)'
  <2>1. CASE q = p
    BY <2>1, <1>3, <1>4, <1>5 DEF ChildKnown
  <2>2. CASE q # p
    <3>1. q \in Pid /\ proc'[q] = proc[q] /\ q \in Children(proc)
      BY <2>2, <1>4 DEF Children, Live, Zombies
    <3>2. ChildKnown(q) /\ proc[q].sv \in Service
      BY <3>1 DEF RecordsTrue, ServiceType, Table, Proc
    <3>3. proc[q].sv # s
      BY <3>1, <3>2, PidAssumption DEF ChildKnown
    <3> QED
      BY <3>1, <3>2, <3>3, <1>5 DEF ChildKnown
  <2> QED
    BY <2>1, <2>2
<1>7. ASSUME NEW r \in Service
      PROVE  IF svd'[r].pid = 0 THEN ~Running(r)'
             ELSE svd'[r].pid \in Children(proc)'
  <2>1. CASE r = s
    BY <2>1, <1>2, <1>3, <1>4, <1>5 DEF Children, Live, Zombies
  <2>2. CASE r # s
    <3>1. svd'[r] = svd[r]
      BY <2>2, <1>5
    <3>2. IF svd[r].pid = 0 THEN ~Running(r) ELSE svd[r].pid \in Children(proc)
      BY DEF RecordsTrue
    <3>3. \A q \in Children(proc) : q # p /\ q \in Pid /\ q \in Children(proc)'
      BY <1>2, <1>4 DEF Children, Live, Zombies
    <3> QED
      BY <3>1, <3>2, <3>3 DEF Running
  <2> QED
    BY <2>1, <2>2
<1> QED
  BY <1>6, <1>7 DEF RecordsTrue

\* A step that keeps every pid, every state and the life of every process.
LEMMA SameRecords ==
  ASSUME RecordsTrue, proc \in Table,
         \A r \in Service : /\ svd'[r].pid = svd[r].pid
                            /\ svd'[r].state = svd[r].state,
         \A q \in Pid : /\ proc'[q].st = proc[q].st
                        /\ proc'[q].sv = proc[q].sv
                        /\ proc'[q].role = proc[q].role
  PROVE  RecordsTrue'
<1>1. Children(proc)' = Children(proc)
  BY DEF Children, Live, Zombies
<1>2. \A q \in Children(proc) : q \in Pid /\ proc[q].sv \in Service
  BY DEF Children, Live, Zombies, Table, Proc
<1>3. \A q \in Children(proc) : ChildKnown(q)'
  BY <1>2 DEF RecordsTrue, ChildKnown
<1> QED
  BY <1>1, <1>3 DEF RecordsTrue, Running

\* The same for the handlers that only signal and record.
LEMMA KeptRecords ==
  ASSUME ServiceType, RecordsTrue, NEW s \in Service, NEW v \in Svdir,
         v.pid = svd[s].pid, v.state = svd[s].state,
         svd' = [svd EXCEPT ![s] = v],
         NEW S \in SUBSET Signal,
         proc' = proc \/ proc' = Kill(proc, svd[s].pid, S)
  PROVE  RecordsTrue'
<1>1. proc \in Table /\ svd[s].pid \in Pid \cup {0}
  BY DEF ServiceType, Svdir
<1>2. \A r \in Service : /\ svd'[r].pid = svd[r].pid
                         /\ svd'[r].state = svd[r].state
  BY DEF ServiceType
<1>3. \A q \in Pid : /\ proc'[q].st = proc[q].st
                     /\ proc'[q].sv = proc[q].sv
                     /\ proc'[q].role = proc[q].role
  BY <1>1, KillTable
<1> QED
  BY <1>1, <1>2, <1>3, SameRecords

LEMMA StopServiceRecords ==
  ASSUME ServiceType, RecordsTrue, NEW s \in Service, NEW v \in Svdir,
         v.pid = svd[s].pid, v.state = svd[s].state, NEW d,
         StopService(s, v, d)
  PROVE  RecordsTrue'
<1>1. PICK ok \in Customized(s) :
        /\ proc' = Kill(proc, v.pid, StopSignals(v, ok))
        /\ svd' = [svd EXCEPT ![s] =
                     [v EXCEPT !.term = @ \/ "TERM" \in StopSignals(v, ok)]]
  BY DEF StopService
<1> DEFINE S == StopSignals(v, ok)
           w == [v EXCEPT !.term = @ \/ "TERM" \in S]
<1>2. S \in SUBSET Signal
  BY StopSignalsType
<1>3. w \in Svdir /\ w.pid = svd[s].pid /\ w.state = svd[s].state
  BY DEF Svdir
<1>4. svd' = [svd EXCEPT ![s] = w] /\ proc' = Kill(proc, svd[s].pid, S)
  BY <1>1
<1> HIDE DEF w, S
<1> QED
  BY <1>2, <1>3, <1>4, KeptRecords

LEMMA CtrlRecords ==
  ASSUME ServiceType, ChildInv, RecordsTrue, NEW s \in Service,
         NEW c, c # "k", Ctrl(s, c)
  PROVE  RecordsTrue'
<1>0. svd[s] \in Svdir /\ {} \in SUBSET Signal
  BY DEF ServiceType
<1>v. \A want \in Want :
        LET v == [svd[s] EXCEPT !.want = want]
        IN v \in Svdir /\ v.pid = svd[s].pid /\ v.state = svd[s].state
  BY <1>0 DEF Svdir
<1>1. ASSUME NEW want \in Want, Up(s, want) PROVE RecordsTrue'
  <2> DEFINE v == [svd[s] EXCEPT !.want = want]
  <2>1. v \in Svdir /\ v.pid = svd[s].pid /\ v.state = svd[s].state
    BY <1>v
  <2>2. CASE v.state = "down"
    <3>1. svd[s].pid = 0
      BY <2>1, <2>2, DownIsDead
    <3> QED
      BY <1>1, <2>1, <2>2, <3>1, StartServiceRecords DEF Up
  <2>3. CASE v.state # "down"
    BY <1>0, <1>1, <2>1, <2>3, KeptRecords DEF Up, Record
  <2> QED
    BY <2>2, <2>3
<1>2. ASSUME NEW want \in Want, Down(s, want) PROVE RecordsTrue'
  <2> DEFINE v == [svd[s] EXCEPT !.want = want]
  <2>1. v \in Svdir /\ v.pid = svd[s].pid /\ v.state = svd[s].state
    BY <1>v
  <2>2. CASE v.state = "run"
    BY <1>2, <2>1, <2>2, StopServiceRecords DEF Down
  <2>3. CASE v.state # "run"
    BY <1>0, <1>2, <2>1, <2>3, KeptRecords DEF Down, Record
  <2> QED
    BY <2>2, <2>3
<1>3. CASE UNCHANGED service
  BY <1>3, SameRecords DEF service, ServiceType
<1>4. CASE Term(s)
  BY <1>0, <1>3, <1>4, StopServiceRecords DEF Term
<1>5. CASE Pause(s) \/ Cont(s)
  <2>1. \A b \in BOOLEAN :
          LET v == [svd[s] EXCEPT !.paused = b]
          IN v \in Svdir /\ v.pid = svd[s].pid /\ v.state = svd[s].state
    BY <1>0 DEF Svdir
  <2>2. PICK b \in BOOLEAN, g \in {"STOP", "CONT"} :
          /\ proc' = proc \/ proc' = Kill(proc, svd[s].pid, {g})
          /\ svd' = [svd EXCEPT ![s] = [svd[s] EXCEPT !.paused = b]]
    BY <1>5 DEF Pause, Cont, SendSignal, Record
  <2>3. {g} \in SUBSET Signal
    BY DEF Signal
  <2> DEFINE v == [svd[s] EXCEPT !.paused = b]
  <2>4. v \in Svdir /\ v.pid = svd[s].pid /\ v.state = svd[s].state
        /\ svd' = [svd EXCEPT ![s] = v]
    BY <2>1, <2>2
  <2> HIDE DEF v
  <2> QED
    BY <2>2, <2>3, <2>4, KeptRecords
<1>6. CASE Forward(s, c)
  <2>1. PICK e \in Plain : proc' = proc \/ proc' = Kill(proc, svd[s].pid, {e[2]})
    BY <1>6 DEF Forward, SendSignal
  <2>2. {e[2]} \in SUBSET Signal
    BY DEF Plain, Signal
  <2>3. svd' = [svd EXCEPT ![s] = svd[s]]
    BY <1>6 DEF Forward, ServiceType
  <2> QED
    BY <1>0, <2>1, <2>2, <2>3, KeptRecords
<1> QED
  BY <1>1, <1>2, <1>3, <1>4, <1>5, <1>6 DEF Ctrl, Ignore, Want

\* Which service a reaped child belongs to, and what becomes of its record.
LEMMA ReapsOwn ==
  ASSUME LifeInv, NEW p \in Pid, Reap(p)
  PROVE  \E s \in Service :
           /\ svd[s].pid = p /\ proc[p].sv = s
           /\ svd[s].state = proc[p].role
           /\ svd'[s].pid = 0
           /\ svd'[s].state = IF FinishDue(s) THEN "finish" ELSE "down"
           /\ \A r \in Service : r # s => svd'[r] = svd[r]
           /\ proc'[p] = Blank
           /\ \A q \in Pid : q # p => proc'[q] = proc[q]
<1>1. p \in Children(proc)
  BY DEF Reap, Children, Zombies
<1>2. proc[p].sv \in Service /\ ChildKnown(p)
  BY <1>1 DEF LifeInv, TypeOK, RecordsTrue, Table, Proc
<1>3. PICK s \in Service : ReapService(s, p)
  BY <1>2 DEF Reap, ReapUnknown, ChildKnown
<1>4. svd[s].pid = p /\ proc[p].sv = s
  BY <1>3, PidAssumption DEF ReapService, LifeInv, ChildInv, PidsAreChildren
<1>5. svd[s] \in Svdir
  BY DEF LifeInv, TypeOK
<1>6. /\ svd'[s].pid = 0
      /\ svd'[s].state = IF FinishDue(s) THEN "finish" ELSE "down"
      /\ \A r \in Service : r # s => svd'[r] = svd[r]
  BY <1>3, <1>5 DEF ReapService, LifeInv, TypeOK, Svdir
<1>7. proc'[p] = Blank /\ \A q \in Pid : q # p => proc'[q] = proc[q]
  BY WaitTable DEF Reap, LifeInv, TypeOK
<1> QED
  BY <1>2, <1>4, <1>6, <1>7 DEF ChildKnown

LEMMA ReapRecords ==
  ASSUME LifeInv, NEW p \in Pid, Reap(p)
  PROVE  RecordsTrue'
<1>1. PICK s \in Service :
         /\ svd[s].pid = p /\ proc[p].sv = s
         /\ svd'[s].pid = 0
         /\ svd'[s].state = IF FinishDue(s) THEN "finish" ELSE "down"
         /\ \A r \in Service : r # s => svd'[r] = svd[r]
         /\ proc'[p] = Blank
         /\ \A q \in Pid : q # p => proc'[q] = proc[q]
  BY ReapsOwn
<1>2. \A q \in Children(proc)' : q # p /\ q \in Pid /\ q \in Children(proc)
  BY <1>1 DEF Children, Live, Zombies, Blank
<1>3. \A q \in Children(proc) : q # p => q \in Children(proc)'
  BY <1>1 DEF Children, Live, Zombies
<1>4. ASSUME NEW q \in Children(proc)' PROVE ChildKnown(q)'
  <2>1. q # p /\ ChildKnown(q) /\ proc[q].sv \in Service /\ proc'[q] = proc[q]
    BY <1>1, <1>2 DEF LifeInv, TypeOK, RecordsTrue, Table, Proc
  <2>2. proc[q].sv # s
    BY <1>1, <2>1 DEF ChildKnown
  <2> QED
    BY <1>1, <2>1, <2>2 DEF ChildKnown
<1>5. ASSUME NEW r \in Service
      PROVE  IF svd'[r].pid = 0 THEN ~Running(r)'
             ELSE svd'[r].pid \in Children(proc)'
  <2>1. CASE r = s
    BY <1>1, <2>1 DEF Running
  <2>2. CASE r # s
    <3>1. svd[r].pid # 0 => svd[r].pid \in Children(proc) /\ svd[r].pid # p
      BY <1>1, <2>2 DEF LifeInv, RecordsTrue, ChildInv, PidsAreChildren
    <3> QED
      BY <1>1, <1>3, <2>2, <3>1 DEF LifeInv, RecordsTrue, Running
  <2> QED
    BY <2>1, <2>2
<1> QED
  BY <1>4, <1>5 DEF RecordsTrue

LEMMA InitLife == Init => LifeInv
<1> SUFFICES ASSUME Init PROVE LifeInv
  OBVIOUS
<1>1. Children(proc) = {}
  BY DEF Init, NoProcesses, Blank, Children, Live, Zombies
<1>2. \A s \in Service : svd[s].pid = 0 /\ ~Running(s)
  BY DEF Init, Fresh, Running
<1>3. <<>> \in Seq(AllCommands \ {"k"})
  OBVIOUS
<1> QED
  BY <1>1, <1>2, <1>3, InitType, InitChild
  DEF LifeInv, RecordsTrue, NoKillUnread, Init

LEMMA NextNoKill ==
  ASSUME NoKillSent, LifeInv, [Next]_vars PROVE NoKillUnread'
<1>1. NoKillUnread
  BY DEF LifeInv
<1>2. CASE UNCHANGED control
  BY <1>1, <1>2 DEF NoKillUnread
<1>3. ASSUME NEW s \in Service, NEW here, NEW next, ReadControl(s, here, next)
      PROVE  NoKillUnread'
  <2>1. \A q \in Seq(AllCommands \ {"k"}) :
          q # <<>> => Tail(q) \in Seq(AllCommands \ {"k"})
    OBVIOUS
  <2>2. control[s] \in Seq(AllCommands \ {"k"})
    BY <1>1 DEF NoKillUnread
  <2> QED
    BY <1>1, <1>3, <2>1, <2>2 DEF ReadControl, NoKillUnread
<1>4. ASSUME NEW s \in Service, NEW c \in AllCommands \ {"k"}, Write(s, c)
      PROVE  NoKillUnread'
  <2>1. control[s] \in Seq(AllCommands \ {"k"})
    BY <1>1 DEF NoKillUnread
  <2>2. Append(control[s], c) \in Seq(AllCommands \ {"k"})
    BY <2>1
  <2> QED
    BY <1>1, <1>4, <2>2 DEF Write, NoKillUnread
<1>5. ASSUME NEW c \in Commands \cup LogCommands PROVE c \in AllCommands \ {"k"}
  BY RunsvAssumption DEF NoKillSent
<1>6. {"main", "log"} \subseteq Service
  BY DEF Service
<1> QED
  BY <1>2, <1>3, <1>4, <1>5, <1>6
  DEF Next, vars, Step, Environment, Wake, Timeout, StartLog, StartMain,
      StartOrSkip, Handle, EndPoll, Reap, AllReaped, ReadMain, ReadLog,
      CheckTerm, Leave, CloseLog, Loop, Exit, Terminate, Age

LEMMA NextRecords ==
  ASSUME LifeInv, [Next]_vars PROVE RecordsTrue'
<1>a. /\ {"main", "log"} \subseteq Service /\ ServiceType
      /\ ChildInv /\ RecordsTrue /\ TypeOK
  BY DEF Service, LifeInv, TypeOK, ServiceType
<1>s. ASSUME svd' = svd, proc' = proc PROVE RecordsTrue'
  BY <1>a, <1>s, SameRecords DEF ServiceType
<1>1. ASSUME NEW s \in Service, NEW due, NEW next, StartOrSkip(s, due, next),
             due => svd[s].pid = 0
      PROVE  RecordsTrue'
  <2>1. svd[s] \in Svdir
    BY <1>a DEF TypeOK
  <2> QED
    BY <1>1, <1>a, <1>s, <2>1, StartServiceRecords DEF StartOrSkip, service
<1>2. ASSUME NEW p \in Pid, Reap(p) PROVE RecordsTrue'
  BY <1>2, ReapRecords
<1>3. ASSUME NEW s \in Service, NEW here, NEW next, ReadControl(s, here, next)
      PROVE  RecordsTrue'
  <2>1. control[s] # <<>> => Head(control[s]) # "k"
    <3>1. control[s] \in Seq(AllCommands \ {"k"})
      BY DEF LifeInv, NoKillUnread
    <3> QED
      BY <3>1
  <2> QED
    BY <1>3, <1>a, <1>s, <2>1, CtrlRecords DEF ReadControl, service
<1>4. CASE CheckTerm
  BY <1>4, <1>a, <1>s, CtrlRecords DEF CheckTerm, service
<1>5. CASE CloseLog
  <2> DEFINE v == [svd["log"] EXCEPT !.want = "exit"]
  <2>1. svd["log"] \in Svdir
    BY <1>a DEF TypeOK
  <2>2. v \in Svdir /\ v.pid = svd["log"].pid /\ v.state = svd["log"].state
    BY <2>1 DEF Svdir, Want
  <2>3. svd' = [svd EXCEPT !["log"] = v] /\ proc' = proc /\ {} \in SUBSET Signal
    BY <1>5 DEF CloseLog, Record
  <2> QED
    BY <1>a, <2>2, <2>3, KeptRecords
<1>6. ASSUME NEW p \in Pid, Exit(p) PROVE RecordsTrue'
  <2>1. /\ svd' = svd
        /\ proc'[p].st = "zombie" /\ proc[p].st = "live"
        /\ proc'[p].sv = proc[p].sv /\ proc'[p].role = proc[p].role
        /\ \A q \in Pid \cup {0} : q # p => proc'[q] = proc[q]
    BY <1>6, <1>a, DieTable DEF Exit, CanDie, TypeOK
  <2>2. Children(proc)' = Children(proc)
    BY <2>1 DEF Children, Live, Zombies
  <2>3. \A q \in Children(proc) : ChildKnown(q)'
    <3>1. \A q \in Children(proc) : /\ q \in Pid /\ proc'[q].sv = proc[q].sv
                                    /\ proc'[q].role = proc[q].role
      BY <2>1 DEF Children, Live, Zombies
    <3> QED
      BY <3>1, <2>1, <1>a DEF RecordsTrue, ChildKnown
  <2> QED
    BY <1>a, <2>1, <2>2, <2>3 DEF RecordsTrue, Running
<1>7. CASE Handle \/ EndPoll \/ AllReaped \/ Leave \/ Loop \/ Terminate
  BY <1>7, <1>s DEF Handle, EndPoll, AllReaped, Leave, Loop, Terminate, service
<1>8. ASSUME NEW s \in Service, NEW c, Write(s, c) PROVE RecordsTrue'
  BY <1>8, <1>s DEF Write, service
<1>9. ASSUME NEW s \in Service, Age(s) PROVE RecordsTrue'
  BY <1>9, <1>s DEF Age
<1>10. CASE UNCHANGED vars
  BY <1>10, <1>s DEF vars
<1> QED
  BY <1>a, <1>1, <1>2, <1>3, <1>4, <1>5, <1>6, <1>7, <1>8, <1>9, <1>10
  DEF Next, Step, Wake, Timeout, Environment, StartLog, StartMain, ReadMain,
      ReadLog, WantStart, MainDue

LEMMA LifeInvariant == ASSUME NoKillSent PROVE Spec => []LifeInv
<1>1. Init => LifeInv
  BY InitLife
<1>2. LifeInv /\ [Next]_vars => LifeInv'
  BY NextType, NextChild, NextRecords, NextNoKill DEF LifeInv
<1> QED
  BY <1>1, <1>2, PTL DEF Spec

(* Without "k", every process runsv ever forks is at any time either reaped  *)
(* or the one its service records, in the state it records: no service has   *)
(* two processes, and "down" means that nothing runs.                        *)
THEOREM RecordsAreTrue == ASSUME NoKillSent PROVE Spec => []RecordsTrue
<1>1. LifeInv => RecordsTrue
  BY DEF LifeInv
<1> QED
  BY <1>1, LifeInvariant, PTL

-----------------------------------------------------------------------------
(* What a step does to the records: nothing, start a service that has no     *)
(* process, or take the process of a service away.                           *)

Kept == \A r \in Service : /\ svd'[r].pid = svd[r].pid
                           /\ svd'[r].state = svd[r].state

Started ==
  \E s \in Service :
    /\ svd[s].pid = 0 /\ svd'[s].pid # 0
    /\ svd'[s].state = IF svd[s].state = "finish" THEN "finish" ELSE "run"
    /\ \A r \in Service : r # s => svd'[r] = svd[r]

LEMMA StartServiceStarts ==
  ASSUME ServiceType, NEW s \in Service, NEW v \in Svdir, svd[s].pid = 0,
         v.state = svd[s].state, StartService(s, v)
  PROVE  Started
<1>1. PICK p \in Free(proc) :
        svd' = [svd EXCEPT ![s] =
                  [v EXCEPT !.pid = p, !.term = FALSE, !.paused = FALSE,
                            !.state = IF @ = "finish" THEN @ ELSE "run"]]
  BY DEF StartService
<1> DEFINE w == [v EXCEPT !.pid = p, !.term = FALSE, !.paused = FALSE,
                          !.state = IF @ = "finish" THEN @ ELSE "run"]
<1>2. p # 0
  BY PidAssumption DEF Free
<1>3. /\ svd' = [svd EXCEPT ![s] = w] /\ w.pid = p
      /\ w.state = IF svd[s].state = "finish" THEN "finish" ELSE "run"
  BY <1>1 DEF Svdir
<1> HIDE DEF w
<1> QED
  BY <1>2, <1>3 DEF Started, ServiceType

LEMMA RecordKeeps ==
  ASSUME ServiceType, NEW s \in Service, NEW v \in Svdir,
         v.pid = svd[s].pid, v.state = svd[s].state,
         svd' = [svd EXCEPT ![s] = v]
  PROVE  Kept
  BY DEF Kept, ServiceType

LEMMA CtrlSteps ==
  ASSUME ServiceType, ChildInv, RecordsTrue, NEW s \in Service,
         NEW c, c # "k", Ctrl(s, c)
  PROVE  Kept \/ Started
<1>0. svd[s] \in Svdir
  BY DEF ServiceType
<1>v. \A want \in Want :
        LET v == [svd[s] EXCEPT !.want = want]
        IN v \in Svdir /\ v.pid = svd[s].pid /\ v.state = svd[s].state
  BY <1>0 DEF Svdir
<1>s. ASSUME NEW v \in Svdir, v.pid = svd[s].pid, v.state = svd[s].state,
             NEW d, StopService(s, v, d)
      PROVE  Kept
  <2>1. PICK ok \in Customized(s) :
          svd' = [svd EXCEPT ![s] =
                    [v EXCEPT !.term = @ \/ "TERM" \in StopSignals(v, ok)]]
    BY <1>s DEF StopService
  <2> DEFINE w == [v EXCEPT !.term = @ \/ "TERM" \in StopSignals(v, ok)]
  <2>2. w \in Svdir /\ w.pid = svd[s].pid /\ w.state = svd[s].state
    BY <1>s DEF Svdir
  <2>3. svd' = [svd EXCEPT ![s] = w]
    BY <2>1
  <2> HIDE DEF w
  <2> QED
    BY <2>2, <2>3, RecordKeeps
<1>1. ASSUME NEW want \in Want, Up(s, want) PROVE Kept \/ Started
  <2> DEFINE v == [svd[s] EXCEPT !.want = want]
  <2>1. v \in Svdir /\ v.pid = svd[s].pid /\ v.state = svd[s].state
    BY <1>v
  <2>2. CASE v.state = "down"
    BY <1>1, <2>1, <2>2, DownIsDead, StartServiceStarts DEF Up
  <2>3. CASE v.state # "down"
    BY <1>1, <2>1, <2>3, RecordKeeps DEF Up, Record
  <2> QED
    BY <2>2, <2>3
<1>2. ASSUME NEW want \in Want, Down(s, want) PROVE Kept
  <2> DEFINE v == [svd[s] EXCEPT !.want = want]
  <2>1. v \in Svdir /\ v.pid = svd[s].pid /\ v.state = svd[s].state
    BY <1>v
  <2>2. CASE v.state = "run"
    BY <1>2, <1>s, <2>1, <2>2 DEF Down
  <2>3. CASE v.state # "run"
    BY <1>2, <2>1, <2>3, RecordKeeps DEF Down, Record
  <2> QED
    BY <2>2, <2>3
<1>3. CASE UNCHANGED svd
  BY <1>3 DEF Kept
<1>4. CASE Term(s)
  BY <1>0, <1>3, <1>4, <1>s DEF Term, service
<1>5. CASE Pause(s) \/ Cont(s)
  <2>1. PICK b \in BOOLEAN : svd' = [svd EXCEPT ![s] = [svd[s] EXCEPT !.paused = b]]
    BY <1>5 DEF Pause, Cont, Record
  <2> DEFINE v == [svd[s] EXCEPT !.paused = b]
  <2>2. v \in Svdir /\ v.pid = svd[s].pid /\ v.state = svd[s].state
    BY <1>0 DEF Svdir
  <2>3. svd' = [svd EXCEPT ![s] = v]
    BY <2>1
  <2> HIDE DEF v
  <2> QED
    BY <2>2, <2>3, RecordKeeps
<1>6. CASE Forward(s, c)
  BY <1>3, <1>6 DEF Forward
<1> QED
  BY <1>1, <1>2, <1>3, <1>4, <1>5, <1>6 DEF Ctrl, Ignore, service, Want

LEMMA NextSteps ==
  ASSUME LifeInv, [Next]_vars
  PROVE  \/ Kept /\ (pc' = "exited" <=> pc = "exited")
         \/ Started /\ pc # "exited" /\ pc' # "exited"
         \/ (\E p \in Pid : Reap(p))
         \/ Kept /\ Leave
<1>a. /\ {"main", "log"} \subseteq Service /\ ServiceType
      /\ ChildInv /\ RecordsTrue /\ TypeOK
  BY DEF Service, LifeInv, TypeOK, ServiceType
<1>s. ASSUME svd' = svd PROVE Kept
  BY <1>s DEF Kept
<1>1. ASSUME NEW s \in Service, NEW due, NEW next, StartOrSkip(s, due, next),
             due => svd[s].pid = 0
      PROVE  Kept \/ Started
  <2>1. svd[s] \in Svdir
    BY <1>a DEF TypeOK
  <2> QED
    BY <1>1, <1>a, <1>s, <2>1, StartServiceStarts DEF StartOrSkip, service
<1>2. CASE StartLog \/ StartMain
  BY <1>1, <1>2, <1>a DEF StartLog, StartMain, StartOrSkip, WantStart, MainDue
<1>3. ASSUME NEW s \in Service, NEW here, NEW next, ReadControl(s, here, next)
      PROVE  Kept \/ Started
  <2>1. control[s] # <<>> => Head(control[s]) # "k"
    <3>1. control[s] \in Seq(AllCommands \ {"k"})
      BY DEF LifeInv, NoKillUnread
    <3> QED
      BY <3>1
  <2> QED
    BY <1>3, <1>a, <1>s, <2>1, CtrlSteps DEF ReadControl, service
<1>4. CASE ReadMain \/ ReadLog
  BY <1>3, <1>4, <1>a DEF ReadMain, ReadLog, ReadControl
<1>5. CASE CheckTerm
  BY <1>5, <1>a, <1>s, CtrlSteps DEF CheckTerm, service
<1>6. CASE CloseLog
  <2> DEFINE v == [svd["log"] EXCEPT !.want = "exit"]
  <2>1. svd["log"] \in Svdir
    BY <1>a DEF TypeOK
  <2>2. v \in Svdir /\ v.pid = svd["log"].pid /\ v.state = svd["log"].state
    BY <2>1 DEF Svdir, Want
  <2>3. svd' = [svd EXCEPT !["log"] = v]
    BY <1>6 DEF CloseLog, Record
  <2> HIDE DEF v
  <2> QED
    BY <1>6, <1>a, <2>2, <2>3, RecordKeeps DEF CloseLog
<1>7. CASE Handle \/ EndPoll \/ AllReaped \/ Loop \/ Terminate
  BY <1>7, <1>s DEF Handle, EndPoll, AllReaped, Loop, Terminate, service
<1>8. CASE Leave
  BY <1>8, <1>s DEF Leave, service
<1>9. ASSUME NEW p \in Pid, Exit(p) PROVE Kept /\ pc' = pc
  BY <1>9, <1>s DEF Exit
<1>10. ASSUME NEW s \in Service, NEW c, Write(s, c) PROVE Kept /\ pc' = pc
  BY <1>10, <1>s DEF Write, service
<1>11. ASSUME NEW s \in Service, Age(s) PROVE Kept /\ pc' = pc
  BY <1>11, <1>s DEF Age
<1>12. CASE UNCHANGED vars
  BY <1>12, <1>s DEF vars
<1> QED
  BY <1>a, <1>2, <1>4, <1>5, <1>6, <1>7, <1>8, <1>9, <1>10, <1>11, <1>12
  DEF Next, Step, Wake, Timeout, Environment

-----------------------------------------------------------------------------
(* startservice is never called for a service that still has a process: what *)
(* the comment at runsv.c:281 claims holds of every runsv that is not sent   *)
(* "k".                                                                      *)
THEOREM NoneReplaced == ASSUME NoKillSent PROVE Spec => NeverReplaced
<1>1. ASSUME LifeInv, [Next]_vars
      PROVE  [\A s \in Service :
                svd[s].pid # 0 => svd'[s].pid \in {0, svd[s].pid}]_vars
  <2>1. ASSUME NEW p \in Pid, Reap(p), NEW s \in Service
        PROVE  svd'[s].pid \in {0, svd[s].pid}
    BY <1>1, <2>1, ReapsOwn
  <2> QED
    BY <1>1, <2>1, NextSteps DEF Kept, Started
<1> QED
  BY <1>1, LifeInvariant, PTL DEF Spec, NeverReplaced

\* The exit of runsv is taken only when both services are down.
LEMMA NextClean ==
  ASSUME LifeInv, CleanExit, [Next]_vars PROVE CleanExit'
<1>1. CASE Leave
  <2>1. svd["main"].pid = 0 /\ svd["log"].pid = 0
    BY <1>1, DownIsDead DEF Leave, Leaving, LifeInv, TypeOK, ServiceType, Service
  <2>2. \A p \in Children(proc) : p \in Pid /\ proc[p].sv \in Service
    BY DEF LifeInv, TypeOK, Table, Proc, Children, Live, Zombies
  <2>3. Children(proc) = {}
    BY <2>1, <2>2, PidAssumption DEF LifeInv, RecordsTrue, ChildKnown, Service
  <2> QED
    BY <1>1, <2>3 DEF Leave, service, CleanExit
<1>2. CASE pc' # "exited"
  BY <1>2 DEF CleanExit
<1>3. CASE pc = "exited"
  <2>1. proc' = proc
    BY <1>3 DEF Next, vars, Step, Wake, Timeout, Environment, StartLog,
      StartMain, StartOrSkip, Handle, EndPoll, Reap, AllReaped, ReadMain,
      ReadLog, ReadControl, CheckTerm, Leave, CloseLog, Loop, Exit, Terminate,
      Write, Age
  <2> QED
    BY <1>3, <2>1 DEF CleanExit, Children, Live, Zombies
<1> QED
  BY <1>1, <1>2, <1>3, NextSteps DEF Reap

(* When runsv exits it has reaped all it ever started, without "k".          *)
THEOREM ExitIsClean == ASSUME NoKillSent PROVE Spec => []CleanExit
<1>1. Init => CleanExit
  BY DEF Init, CleanExit
<1> QED
  BY <1>1, NextClean, LifeInvariant, PTL DEF Spec

-----------------------------------------------------------------------------
(* The refinement. With true records, the phase read off the process table   *)
(* is the one that the record of the main service tells.                     *)

RecordedPhase ==
  IF svd["main"].pid # 0 THEN svd["main"].state
  ELSE IF svd["main"].state = "finish" THEN "due" ELSE "idle"

PhaseRecorded == MainPhase = RecordedPhase

LEMMA PhaseIsRecorded == LifeInv => PhaseRecorded
<1> SUFFICES ASSUME LifeInv PROVE MainPhase = RecordedPhase
  BY DEF PhaseRecorded
<1> DEFINE m == svd["main"]
           mine == {q \in Children(proc) : proc[q].sv = "main"}
<1>1. "main" \in Service /\ m \in Svdir
  BY DEF Service, LifeInv, TypeOK
<1>2. \A q \in mine : q = m.pid /\ q \in Pid /\ m.state = proc[q].role
  BY DEF LifeInv, RecordsTrue, ChildKnown, Children, Live, Zombies
<1>3. CASE m.pid = 0
  <2>1. mine = {}
    BY <1>2, <1>3, PidAssumption
  <2> QED
    BY <1>3, <2>1 DEF MainPhase, RecordedPhase
<1>4. CASE m.pid # 0
  <2>1. m.pid \in mine
    BY <1>1, <1>4 DEF LifeInv, RecordsTrue, ChildInv, PidsAreChildren
  <2>2. m.state = proc[m.pid].role /\ m.state \in Role
    BY <2>1 DEF LifeInv, TypeOK, RecordsTrue, ChildKnown, Children, Live,
                Zombies, Table, Proc
  <2>3. {proc[q].role : q \in mine} = {m.state}
    BY <1>2, <2>1, <2>2
  <2> QED
    BY <1>4, <2>2, <2>3 DEF MainPhase, RecordedPhase, Role
<1> QED
  BY <1>3, <1>4

\* Every step of runsv is a step of ServiceLife or leaves it alone.
LEMMA NextIsLife ==
  ASSUME LifeInv, PhaseRecorded, PhaseRecorded', [Next]_vars
  PROVE  [Life!Next]_(Life!vars)
<1>1. MainPhase = RecordedPhase /\ MainPhase' = RecordedPhase'
  BY DEF PhaseRecorded
<1>2. "main" \in Service /\ svd["main"] \in Svdir /\ HasFinish \in BOOLEAN
  BY RunsvAssumption DEF Service, LifeInv, TypeOK
<1>3. svd["main"].pid = 0 => svd["main"].state \in {"down", "finish"}
  BY <1>2 DEF LifeInv, RecordsTrue, Running, Svdir, State
<1>r. svd["main"].pid # 0 => svd["main"].state \in {"run", "finish"}
  BY <1>2, DownIsDead DEF LifeInv, TypeOK, ServiceType, Svdir, State
<1>4. CASE Kept /\ (pc' = "exited" <=> pc = "exited")
  BY <1>1, <1>2, <1>4 DEF Kept, RecordedPhase, Life!vars
<1>5. CASE Started /\ pc # "exited" /\ pc' # "exited"
  <2>1. PICK s \in Service :
          /\ svd[s].pid = 0 /\ svd'[s].pid # 0
          /\ svd'[s].state = IF svd[s].state = "finish" THEN "finish" ELSE "run"
          /\ \A r \in Service : r # s => svd'[r] = svd[r]
    BY <1>5 DEF Started
  <2>2. CASE s = "main"
    BY <1>1, <1>3, <1>5, <2>1, <2>2
    DEF RecordedPhase, Life!Next, Life!StartRun, Life!StartFinish
  <2>3. CASE s # "main"
    BY <1>1, <1>2, <1>5, <2>1, <2>3 DEF RecordedPhase, Life!vars
  <2> QED
    BY <2>2, <2>3
<1>6. ASSUME NEW p \in Pid, Reap(p) PROVE [Life!Next]_(Life!vars)
  <2>1. PICK s \in Service :
          /\ svd[s].pid = p
          /\ svd'[s].pid = 0
          /\ svd'[s].state = IF FinishDue(s) THEN "finish" ELSE "down"
          /\ \A r \in Service : r # s => svd'[r] = svd[r]
    BY <1>6, ReapsOwn
  <2>2. p # 0 /\ pc # "exited" /\ pc' # "exited"
    BY <1>6, PidAssumption DEF Reap
  <2>3. CASE s = "main"
    <3>1. svd["main"].pid # 0 /\ svd'["main"].pid = 0
          /\ svd'["main"].state = IF HasFinish /\ svd["main"].state # "finish"
                                  THEN "finish" ELSE "down"
      BY <2>1, <2>2, <2>3 DEF FinishDue
    <3>2. CASE svd["main"].state = "run"
      BY <1>1, <2>2, <3>1, <3>2 DEF RecordedPhase, Life!Next, Life!EndRun
    <3>3. CASE svd["main"].state = "finish"
      BY <1>1, <2>2, <3>1, <3>3 DEF RecordedPhase, Life!Next, Life!EndFinish
    <3> QED
      BY <1>r, <3>1, <3>2, <3>3
  <2>4. CASE s # "main"
    BY <1>1, <1>2, <2>1, <2>2, <2>4 DEF RecordedPhase, Life!vars
  <2> QED
    BY <2>3, <2>4
<1>7. CASE Kept /\ Leave
  <2>1. svd["main"].pid = 0
    BY <1>2, <1>7, DownIsDead DEF Leave, Leaving, LifeInv, TypeOK, ServiceType
  <2>2. pc # "exited" /\ pc' = "exited" /\ svd["main"].state = "down"
        /\ svd' = svd
    BY <1>7 DEF Leave, Leaving, service
  <2> QED
    BY <1>1, <2>1, <2>2 DEF RecordedPhase, Life!Next, Life!Leave
<1> QED
  BY <1>4, <1>5, <1>6, <1>7, NextSteps

(* runsv, not sent "k", is a ServiceLife: ./run starts only when nothing of  *)
(* the service runs and no ./finish is due, ./finish runs once after each    *)
(* ./run, and runsv leaves an idle service.                                  *)
THEOREM RunsvIsServiceLife == ASSUME NoKillSent PROVE Spec => LifeSafety
<1>1. Init => Life!Init
  <2>1. Init => Children(proc) = {}
    BY DEF Init, NoProcesses, Blank, Children, Live, Zombies
  <2>2. Init => svd["main"].state = "down" /\ pc # "exited"
    BY DEF Init, Fresh, Service
  <2> QED
    BY <2>1, <2>2 DEF Life!Init, MainPhase
<1>2. LifeInv /\ PhaseRecorded /\ PhaseRecorded' /\ [Next]_vars
      => [Life!Next]_(Life!vars)
  BY NextIsLife
<1> QED
  BY <1>1, <1>2, LifeInvariant, PhaseIsRecorded, PTL DEF Spec, LifeSafety, Life!Safety

-----------------------------------------------------------------------------
(* The log pipe. Only CloseLog closes it, and then the main service is down. *)

LEMMA NextCloses ==
  ASSUME LifeInv, [Next]_vars, logpipe, ~logpipe', NEW p \in Live(proc)
  PROVE  proc[p].sv = "log"
<1>1. CloseLog
  BY DEF Next, vars, Step, Wake, Timeout, Environment, StartLog, StartMain,
     StartOrSkip, Handle, EndPoll, Reap, AllReaped, ReadMain, ReadLog,
     ReadControl, CheckTerm, Leave, Loop, Exit, Terminate, Write, Age
<1>2. svd["main"].pid = 0
  BY <1>1, DownIsDead DEF CloseLog, Leaving, LifeInv, TypeOK, ServiceType, Service
<1>3. p \in Children(proc) /\ p \in Pid /\ proc[p].sv \in Service
  BY DEF LifeInv, TypeOK, Table, Proc, Children, Live
<1>4. svd[proc[p].sv].pid = p
  BY <1>3 DEF LifeInv, RecordsTrue, ChildKnown
<1> QED
  BY <1>2, <1>3, <1>4, PidAssumption DEF Service

(* runsv closes the pipe to the log service only when no process of the main *)
(* service is left that could still write to it.                             *)
THEOREM LogIsClosedLast == ASSUME NoKillSent PROVE Spec => LogClosedLast
<1>1. ASSUME LifeInv, [Next]_vars
      PROVE  [logpipe /\ ~logpipe' => \A p \in Live(proc) : proc[p].sv = "log"]_vars
  BY <1>1, NextCloses
<1> QED
  BY <1>1, LifeInvariant, PTL DEF Spec, LogClosedLast

-----------------------------------------------------------------------------
(* What ./finish is told. The record of a service whose ./finish is due or   *)
(* running holds the exit status of its ./run.                               *)

RunReaped == svd["main"].state = "finish" => svd["main"].wstat = "run"

\* Only reaping touches the exit status.
LEMMA CtrlStatus ==
  ASSUME ServiceType, NEW s \in Service, NEW c, Ctrl(s, c)
  PROVE  svd'["main"].wstat = svd["main"].wstat
<1>0. svd \in [Service -> Svdir] /\ svd[s] \in Svdir
  BY DEF ServiceType
<1>1. ASSUME NEW v \in Svdir, v.wstat = svd[s].wstat, svd' = [svd EXCEPT ![s] = v]
      PROVE  svd'["main"].wstat = svd["main"].wstat
  BY <1>0, <1>1
<1>2. \A want \in Want :
        LET v == [svd[s] EXCEPT !.want = want]
        IN v \in Svdir /\ v.wstat = svd[s].wstat
  BY <1>0 DEF Svdir
<1>3. ASSUME NEW v \in Svdir, v.wstat = svd[s].wstat,
             StartService(s, v) \/ \E d : StopService(s, v, d)
      PROVE  svd'["main"].wstat = svd["main"].wstat
  <2>1. CASE StartService(s, v)
    <3>1. PICK p \in Pid :
            svd' = [svd EXCEPT ![s] =
                      [v EXCEPT !.pid = p, !.term = FALSE, !.paused = FALSE,
                                !.state = IF @ = "finish" THEN @ ELSE "run"]]
      BY <2>1 DEF StartService, Free
    <3> DEFINE w == [v EXCEPT !.pid = p, !.term = FALSE, !.paused = FALSE,
                              !.state = IF @ = "finish" THEN @ ELSE "run"]
    <3>2. w \in Svdir /\ w.wstat = svd[s].wstat /\ svd' = [svd EXCEPT ![s] = w]
      BY <1>3, <3>1 DEF Svdir, State
    <3> HIDE DEF w
    <3> QED
      BY <1>1, <3>2
  <2>2. CASE \E d : StopService(s, v, d)
    <3>1. PICK ok :
            svd' = [svd EXCEPT ![s] =
                      [v EXCEPT !.term = @ \/ "TERM" \in StopSignals(v, ok)]]
      BY <2>2 DEF StopService
    <3> DEFINE w == [v EXCEPT !.term = @ \/ "TERM" \in StopSignals(v, ok)]
    <3>2. w \in Svdir /\ w.wstat = svd[s].wstat /\ svd' = [svd EXCEPT ![s] = w]
      BY <1>3, <3>1 DEF Svdir
    <3> HIDE DEF w
    <3> QED
      BY <1>1, <3>2
  <2> QED
    BY <1>3, <2>1, <2>2
<1>4. ASSUME NEW want \in Want, Up(s, want) \/ Down(s, want)
      PROVE  svd'["main"].wstat = svd["main"].wstat
  <2> DEFINE v == [svd[s] EXCEPT !.want = want]
  <2>1. v \in Svdir /\ v.wstat = svd[s].wstat
    BY <1>2
  <2>2. \/ StartService(s, v) \/ \E d : StopService(s, v, d)
        \/ svd' = [svd EXCEPT ![s] = v]
    BY <1>4 DEF Up, Down, Record
  <2> HIDE DEF v
  <2> QED
    BY <1>1, <1>3, <2>1, <2>2
<1>5. CASE UNCHANGED svd
  BY <1>5
<1>6. CASE Term(s)
  BY <1>0, <1>3, <1>5, <1>6 DEF Term, service
<1>7. CASE KillService(s)
  <2>1. [svd[s] EXCEPT !.state = "down"] \in Svdir
        /\ [svd[s] EXCEPT !.state = "down"].wstat = svd[s].wstat
        /\ svd' = [svd EXCEPT ![s] = [svd[s] EXCEPT !.state = "down"]]
    BY <1>0, <1>7 DEF KillService, Svdir, State
  <2> QED
    BY <1>1, <2>1
<1>8. CASE Pause(s) \/ Cont(s)
  <2>1. PICK b \in BOOLEAN : svd' = [svd EXCEPT ![s] = [svd[s] EXCEPT !.paused = b]]
    BY <1>8 DEF Pause, Cont, Record
  <2>2. [svd[s] EXCEPT !.paused = b] \in Svdir
        /\ [svd[s] EXCEPT !.paused = b].wstat = svd[s].wstat
    BY <1>0 DEF Svdir
  <2> QED
    BY <1>1, <2>1, <2>2
<1>9. CASE Forward(s, c)
  BY <1>5, <1>9 DEF Forward
<1> QED
  BY <1>4, <1>5, <1>6, <1>7, <1>8, <1>9 DEF Ctrl, Ignore, service, Want

LEMMA StartStatus ==
  ASSUME ServiceType, NEW s \in Service, StartService(s, svd[s])
  PROVE  svd'["main"].wstat = svd["main"].wstat
<1>0. svd \in [Service -> Svdir] /\ svd[s] \in Svdir
  BY DEF ServiceType
<1>1. PICK p \in Pid :
        svd' = [svd EXCEPT ![s] =
                  [svd[s] EXCEPT !.pid = p, !.term = FALSE, !.paused = FALSE,
                                 !.state = IF @ = "finish" THEN @ ELSE "run"]]
  BY DEF StartService, Free
<1> DEFINE w == [svd[s] EXCEPT !.pid = p, !.term = FALSE, !.paused = FALSE,
                               !.state = IF @ = "finish" THEN @ ELSE "run"]
<1>2. w.wstat = svd[s].wstat /\ svd' = [svd EXCEPT ![s] = w]
  BY <1>0, <1>1 DEF Svdir
<1> HIDE DEF w
<1> QED
  BY <1>0, <1>2 DEF Service

LEMMA NextStatus ==
  ASSUME LifeInv, [Next]_vars, \A p \in Pid : ~Reap(p)
  PROVE  svd'["main"].wstat = svd["main"].wstat
<1>a. {"main", "log"} \subseteq Service /\ ServiceType
  BY DEF Service, LifeInv, TypeOK, ServiceType
<1>1. CASE UNCHANGED svd
  BY <1>1
<1>2. ASSUME NEW s \in Service, NEW due, NEW next, StartOrSkip(s, due, next)
      PROVE  svd'["main"].wstat = svd["main"].wstat
  BY <1>a, <1>1, <1>2, StartStatus DEF StartOrSkip, service
<1>3. ASSUME NEW s \in Service, NEW here, NEW next, ReadControl(s, here, next)
      PROVE  svd'["main"].wstat = svd["main"].wstat
  BY <1>a, <1>1, <1>3, CtrlStatus DEF ReadControl, service
<1>4. CASE CheckTerm
  BY <1>a, <1>1, <1>4, CtrlStatus DEF CheckTerm, service
<1>5. CASE CloseLog
  <2>1. svd' = [svd EXCEPT !["log"] = [svd["log"] EXCEPT !.want = "exit"]]
    BY <1>5 DEF CloseLog, Record
  <2> QED
    BY <1>a, <2>1 DEF ServiceType
<1> QED
  BY <1>a, <1>1, <1>2, <1>3, <1>4, <1>5
  DEF Next, Step, Wake, Timeout, Environment, StartLog, StartMain, ReadMain,
      ReadLog, Handle, EndPoll, AllReaped, Leave, Loop, Exit, Write, Terminate,
      Age, vars, service

LEMMA NextRunReaped ==
  ASSUME LifeInv, RunReaped, [Next]_vars PROVE RunReaped'
<1>a. /\ "main" \in Service /\ svd \in [Service -> Svdir] /\ svd["main"] \in Svdir
      /\ proc \in Table
  BY DEF Service, LifeInv, TypeOK
<1>1. ASSUME NEW p \in Pid, Reap(p) PROVE RunReaped'
  <2>1. PICK s \in Service :
          /\ svd[s].pid = p /\ svd[s].state = proc[p].role
          /\ svd'[s].pid = 0
          /\ svd'[s].state = IF FinishDue(s) THEN "finish" ELSE "down"
          /\ \A r \in Service : r # s => svd'[r] = svd[r]
    BY <1>1, ReapsOwn
  <2>2. CASE s # "main"
    BY <1>a, <2>1, <2>2 DEF RunReaped
  <2>3. CASE s = "main" /\ FinishDue(s)
    <3>1. proc[p].role = "run"
      BY <1>a, <2>1, <2>3 DEF FinishDue, Table, Proc, Role
    <3>2. PICK r \in Service : ReapService(r, p)
      BY <1>1, <2>1 DEF Reap, ReapUnknown
    <3>3. r = s
      BY <2>1, <3>2, PidAssumption DEF ReapService, LifeInv, ChildInv, PidsAreChildren
    <3>4. svd'["main"].wstat = proc[p].role
      BY <1>a, <2>3, <3>2, <3>3 DEF ReapService, Svdir
    <3> QED
      BY <3>1, <3>4 DEF RunReaped
  <2>4. CASE s = "main" /\ ~FinishDue(s)
    BY <2>1, <2>4 DEF RunReaped
  <2> QED
    BY <2>2, <2>3, <2>4
<1>2. ASSUME \A p \in Pid : ~Reap(p) PROVE RunReaped'
  <2>1. svd'["main"].state = "finish" => svd["main"].state = "finish"
    BY <1>a, <1>2, NextSteps DEF Kept, Started
  <2> QED
    BY <1>2, <2>1, NextStatus DEF RunReaped
<1> QED
  BY <1>1, <1>2

LEMMA NextFinish ==
  ASSUME LifeInv, RunReaped, [Next]_vars, LifeInv', Starts("main", "finish")
  PROVE  svd["main"].wstat = "run"
<1>1. PICK p \in Free(proc) : /\ proc'[p].st = "live" /\ proc'[p].sv = "main"
                              /\ proc'[p].role = "finish"
  BY DEF Starts
<1>2. p \in Pid /\ p # 0 /\ "main" \in Service
  BY PidAssumption DEF Free, Service
<1>3. p \in Children(proc)'
  BY <1>1, <1>2 DEF Children, Live
<1>4. svd'["main"].pid = p /\ svd'["main"].state = "finish"
  BY <1>1, <1>3 DEF LifeInv, RecordsTrue, ChildKnown
<1>5. svd["main"].pid # p
  BY <1>1, <1>2 DEF Free, LifeInv, ChildInv, PidsAreChildren
<1>6. ASSUME NEW q \in Pid, Reap(q) PROVE FALSE
  BY <1>2, <1>4, <1>5, <1>6, ReapsOwn
<1>7. Started
  BY <1>2, <1>4, <1>5, <1>6, NextSteps DEF Kept
<1>8. svd["main"].state = "finish"
  BY <1>2, <1>4, <1>5, <1>7 DEF Started
<1> QED
  BY <1>8 DEF RunReaped

(* ./finish is started only after ./run has been reaped, and the exit status *)
(* it is told is that of ./run, never that of an earlier ./finish.           *)
THEOREM FinishIsAfterRun == ASSUME NoKillSent PROVE Spec => FinishAfterRun
<1>1. Init => RunReaped
  BY DEF Init, RunReaped, Fresh, Service
<1>2. LifeInv /\ RunReaped /\ [Next]_vars => RunReaped'
  BY NextRunReaped
<1>3. LifeInv /\ RunReaped /\ [Next]_vars /\ LifeInv' =>
        [Starts("main", "finish") => svd["main"].wstat = "run"]_vars
  BY NextFinish
<1>4. Spec => []RunReaped
  BY <1>1, <1>2, LifeInvariant, PTL DEF Spec
<1> QED
  BY <1>3, <1>4, LifeInvariant, PTL DEF Spec, FinishAfterRun
-----------------------------------------------------------------------------
(* What supervise/ says. supervise/status always is what runsv knows, and    *)
(* supervise/pid too, but for the pid file of the log service: one that an   *)
(* earlier runsv left stays until the log service is started, since only the *)
(* first update_status of the two finds pidchanged set.                      *)

StatusCurrent == \A s \in Service : disk.status[s] = Status(svd[s])

PidCurrent ==
  \A s \in PolledControl :
    \/ disk.pid[s] = svd[s].pid
    \/ s = "log" /\ pc = "startlog" /\ WantStart("log")

FilesInv == StatusCurrent /\ PidCurrent

\* The record and the files of the one service s change, together.
Writes(s) ==
  /\ disk'.status[s] = Status(svd'[s])
  /\ \/ disk'.pid[s] = svd'[s].pid
     \/ disk'.pid[s] = disk.pid[s] /\ svd'[s].pid = svd[s].pid
  /\ \A r \in Service : r # s => /\ svd'[r] = svd[r]
                                 /\ disk'.status[r] = disk.status[r]
                                 /\ disk'.pid[r] = disk.pid[r]

Disk == [status : [Service -> StatusFile], pid : [Service -> Pid \cup {0}]]

\* update_status after one assignment to a record.
LEMMA UpdateWrites ==
  ASSUME ServiceType, NEW s \in Service, NEW v \in Svdir, NEW d \in Disk,
         d.pid = disk.pid, \A r \in Service : r # s => d.status[r] = disk.status[r],
         svd' = [svd EXCEPT ![s] = v],
         \/ disk' = UpdatePid(d, s, v)
         \/ disk' = UpdateStatus(d, s, v) /\ v.pid = svd[s].pid
         \/ disk' = d /\ d.status[s] = Status(v) /\ v.pid = svd[s].pid
  PROVE  /\ Writes(s)
         /\ disk' = UpdatePid(d, s, v) => disk'.pid[s] = svd'[s].pid
<1>1. svd'[s] = v /\ \A r \in Service : r # s => svd'[r] = svd[r]
  BY DEF ServiceType
<1>2. ASSUME disk' = UpdatePid(d, s, v) \/ disk' = UpdateStatus(d, s, v)
      PROVE  /\ disk'.status[s] = Status(v)
             /\ \A r \in Service : r # s => disk'.status[r] = d.status[r]
             /\ \A r \in Service : r # s => disk'.pid[r] = d.pid[r]
  BY <1>2 DEF UpdatePid, UpdateStatus, Disk
<1>3. disk' = UpdatePid(d, s, v) => disk'.pid[s] = v.pid
  BY DEF UpdatePid, Disk
<1>4. disk' = UpdateStatus(d, s, v) => disk'.pid[s] = d.pid[s]
  BY DEF UpdateStatus, Disk
<1> QED
  BY <1>1, <1>2, <1>3, <1>4 DEF Writes

LEMMA StartServiceWrites ==
  ASSUME ServiceType, NEW s \in Service, NEW v \in Svdir, StartService(s, v)
  PROVE  Writes(s) /\ disk'.pid[s] = svd'[s].pid
<1>1. PICK p \in Free(proc) :
        LET w == [v EXCEPT !.pid = p, !.term = FALSE, !.paused = FALSE,
                           !.state = IF @ = "finish" THEN @ ELSE "run"]
        IN svd' = [svd EXCEPT ![s] = w] /\ disk' = UpdatePid(disk, s, w)
  BY DEF StartService
<1> DEFINE w == [v EXCEPT !.pid = p, !.term = FALSE, !.paused = FALSE,
                          !.state = IF @ = "finish" THEN @ ELSE "run"]
<1>2. w \in Svdir
  BY DEF Free, Svdir, State
<1>3. svd' = [svd EXCEPT ![s] = w] /\ disk' = UpdatePid(disk, s, w)
  BY <1>1
<1>4. disk \in Disk
  BY DEF ServiceType, Disk
<1> HIDE DEF w
<1> QED
  BY <1>2, <1>3, <1>4, UpdateWrites

LEMMA StopServiceWrites ==
  ASSUME ServiceType, NEW s \in Service, NEW v \in Svdir, NEW d \in Disk,
         d.pid = disk.pid, \A r \in Service : r # s => d.status[r] = disk.status[r],
         v.pid = svd[s].pid, d.status[s] = Status(v), StopService(s, v, d)
  PROVE  Writes(s)
<1>1. PICK ok \in Customized(s) :
        LET signals == StopSignals(v, ok)
            w == [v EXCEPT !.term = @ \/ "TERM" \in signals]
        IN /\ svd' = [svd EXCEPT ![s] = w]
           /\ disk' = IF "TERM" \in signals THEN UpdateStatus(d, s, w) ELSE d
  BY DEF StopService
<1> DEFINE signals == StopSignals(v, ok)
           w == [v EXCEPT !.term = @ \/ "TERM" \in signals]
<1>2. w \in Svdir /\ w.pid = svd[s].pid
  BY DEF Svdir
<1>3. "TERM" \notin signals => w = v
  BY DEF Svdir
<1>4. svd' = [svd EXCEPT ![s] = w]
      /\ disk' = IF "TERM" \in signals THEN UpdateStatus(d, s, w) ELSE d
  BY <1>1
<1> HIDE DEF w, signals
<1> QED
  BY <1>2, <1>3, <1>4, UpdateWrites

LEMMA RecordWrites ==
  ASSUME ServiceType, NEW s \in Service, NEW v \in Svdir, v.pid = svd[s].pid,
         Record(s, v)
  PROVE  Writes(s)
<1>1. disk \in Disk
  BY DEF ServiceType, Disk
<1> QED
  BY <1>1, UpdateWrites DEF Record

\* But for "k", a control character leaves no file behind.
LEMMA CtrlWrites ==
  ASSUME ServiceType, NEW s \in Service, NEW c, c # "k", Ctrl(s, c),
         disk.status[s] = Status(svd[s])
  PROVE  Writes(s) \/ UNCHANGED <<svd, disk>>
<1>0. svd[s] \in Svdir /\ disk \in Disk
  BY DEF ServiceType, Disk
<1>1. ASSUME NEW want \in Want, Up(s, want) \/ Down(s, want) PROVE Writes(s)
  <2> DEFINE v == [svd[s] EXCEPT !.want = want]
             d == UpdateStatus(disk, s, v)
  <2>1. v \in Svdir /\ v.pid = svd[s].pid
    BY <1>0 DEF Svdir
  <2>2. \/ StartService(s, v) \/ StopService(s, v, d) \/ Record(s, v)
    BY <1>1 DEF Up, Down
  <2> HIDE DEF v
  <2>3. /\ d \in Disk /\ d.pid = disk.pid /\ d.status[s] = Status(v)
        /\ \A r \in Service : r # s => d.status[r] = disk.status[r]
    <3>1. d \in Disk
      BY <2>1, DiskType DEF ServiceType, Disk
    <3> QED
      BY <1>0, <3>1 DEF UpdateStatus, Disk
  <2> HIDE DEF d
  <2> QED
    BY <2>1, <2>2, <2>3, StartServiceWrites, StopServiceWrites, RecordWrites
<1>2. CASE Term(s)
  BY <1>0, <1>2, StopServiceWrites DEF Term, service
<1>3. CASE Pause(s) \/ Cont(s)
  <2>1. PICK b \in BOOLEAN : Record(s, [svd[s] EXCEPT !.paused = b])
    BY <1>3 DEF Pause, Cont
  <2>2. [svd[s] EXCEPT !.paused = b] \in Svdir
        /\ [svd[s] EXCEPT !.paused = b].pid = svd[s].pid
    BY <1>0 DEF Svdir
  <2> QED
    BY <2>1, <2>2, RecordWrites
<1>4. CASE Forward(s, c)
  BY <1>4 DEF Forward
<1> QED
  BY <1>1, <1>2, <1>3, <1>4 DEF Ctrl, Ignore, service, Want

LEMMA WritesFiles ==
  ASSUME FilesInv, pc # "startlog", NEW s \in Service, Writes(s)
  PROVE  FilesInv'
<1>1. \A r \in PolledControl : r \in Service /\ disk.pid[r] = svd[r].pid
  BY DEF FilesInv, PidCurrent, PolledControl
<1> QED
  BY <1>1 DEF FilesInv, StatusCurrent, PidCurrent, PolledControl, Writes

LEMMA NextFiles ==
  ASSUME LifeInv, FilesInv, [Next]_vars PROVE FilesInv'
<1>a. /\ {"main", "log"} \subseteq Service /\ ServiceType /\ TypeOK
      /\ \A s \in Service : disk.status[s] = Status(svd[s])
  BY DEF Service, LifeInv, TypeOK, ServiceType, FilesInv, StatusCurrent
<1>s. ASSUME UNCHANGED <<svd, disk>>, pc # "startlog" \/ pc' = pc PROVE FilesInv'
  BY <1>s DEF FilesInv, StatusCurrent, PidCurrent, PolledControl, WantStart
<1>1. CASE StartLog
  <2>1. CASE HasLog /\ WantStart("log")
    <3>1. svd["log"] \in Svdir /\ StartService("log", svd["log"])
      BY <1>1, <1>a, <2>1 DEF StartLog, StartOrSkip, TypeOK
    <3>2. Writes("log") /\ disk'.pid["log"] = svd'["log"].pid
      BY <1>a, <3>1, StartServiceWrites
    <3> QED
      BY <1>a, <3>2 DEF FilesInv, StatusCurrent, PidCurrent, PolledControl, Writes
  <2>2. CASE ~(HasLog /\ WantStart("log"))
    <3>1. UNCHANGED <<svd, disk>>
      BY <1>1, <2>2 DEF StartLog, StartOrSkip, service
    <3> QED
      BY <2>2, <3>1 DEF FilesInv, StatusCurrent, PidCurrent, PolledControl
  <2> QED
    BY <2>1, <2>2
<1>2. CASE StartMain
  <2>1. pc # "startlog" /\ svd["main"] \in Svdir
    BY <1>2, <1>a DEF StartMain, TypeOK
  <2>2. StartService("main", svd["main"]) \/ UNCHANGED <<svd, disk>>
    BY <1>2 DEF StartMain, StartOrSkip, service
  <2> QED
    BY <1>a, <1>s, <2>1, <2>2, StartServiceWrites, WritesFiles
<1>3. ASSUME NEW p \in Pid, Reap(p) PROVE FilesInv'
  <2>1. pc # "startlog"
    BY <1>3 DEF Reap
  <2>2. CASE ReapUnknown(p)
    BY <1>s, <2>1, <2>2 DEF ReapUnknown
  <2>3. ASSUME NEW s \in Service, ReapService(s, p) PROVE FilesInv'
    <3> DEFINE v == [svd[s] EXCEPT !.pid = 0, !.term = FALSE,
                       !.state = IF FinishDue(s) THEN "finish" ELSE "down",
                       !.wstat = IF s = "main" THEN proc[p].role ELSE @]
    <3>1. proc[p].role \in Role /\ svd[s] \in Svdir
      BY <1>a DEF TypeOK, Table, Proc
    <3>2. v \in Svdir
      BY <3>1 DEF Svdir, State
    <3>3. svd' = [svd EXCEPT ![s] = v] /\ disk' = UpdatePid(disk, s, v)
      BY <2>3 DEF ReapService
    <3>4. disk \in Disk
      BY <1>a DEF ServiceType, Disk
    <3> HIDE DEF v
    <3>5. Writes(s)
      BY <1>a, <3>2, <3>3, <3>4, UpdateWrites
    <3> QED
      BY <2>1, <3>5, WritesFiles
  <2> QED
    BY <1>3, <2>2, <2>3 DEF Reap
<1>4. ASSUME NEW s \in Service, NEW here, here # "startlog", NEW next,
             ReadControl(s, here, next)
      PROVE  FilesInv'
  <2>1. control[s] # <<>> => Head(control[s]) # "k"
    <3>1. control[s] \in Seq(AllCommands \ {"k"})
      BY DEF LifeInv, NoKillUnread
    <3> QED
      BY <3>1
  <2>2. pc # "startlog"
    BY <1>4 DEF ReadControl
  <2>3. CASE control[s] = <<>>
    BY <1>4, <1>s, <2>2, <2>3 DEF ReadControl, service
  <2>4. CASE control[s] # <<>>
    <3>1. Ctrl(s, Head(control[s]))
      BY <1>4, <2>4 DEF ReadControl
    <3>2. Writes(s) \/ UNCHANGED <<svd, disk>>
      BY <1>a, <2>1, <2>4, <3>1, CtrlWrites
    <3> QED
      BY <1>s, <2>2, <3>2, WritesFiles
  <2> QED
    BY <2>3, <2>4
<1>5. CASE CheckTerm
  <2>1. pc # "startlog" /\ (Ctrl("main", "x") \/ UNCHANGED <<svd, disk>>)
    BY <1>5 DEF CheckTerm, service
  <2>2. Writes("main") \/ UNCHANGED <<svd, disk>>
    BY <1>a, <2>1, CtrlWrites
  <2> QED
    BY <1>a, <1>s, <2>1, <2>2, WritesFiles
<1>6. CASE CloseLog
  <2> DEFINE v == [svd["log"] EXCEPT !.want = "exit"]
  <2>1. svd["log"] \in Svdir
    BY <1>a DEF TypeOK
  <2>2. v \in Svdir /\ v.pid = svd["log"].pid /\ Record("log", v) /\ pc # "startlog"
    BY <1>6, <2>1 DEF CloseLog, Svdir, Want
  <2> HIDE DEF v
  <2> QED
    BY <1>a, <2>2, RecordWrites, WritesFiles
<1>7. CASE Handle \/ EndPoll \/ AllReaped \/ Leave \/ Loop \/ Terminate
  BY <1>7, <1>s DEF Handle, EndPoll, AllReaped, Leave, Loop, Terminate, service
<1>8. ASSUME NEW p \in Pid, Exit(p) PROVE FilesInv'
  BY <1>8, <1>s DEF Exit
<1>9. ASSUME NEW s \in Service, NEW c, Write(s, c) PROVE FilesInv'
  BY <1>9, <1>s DEF Write, service
<1>10. ASSUME NEW s \in Service, Age(s) PROVE FilesInv'
  BY <1>10, <1>s DEF Age
<1>11. CASE UNCHANGED vars
  BY <1>11, <1>s DEF vars
<1> QED
  BY <1>a, <1>1, <1>2, <1>3, <1>4, <1>5, <1>6, <1>7, <1>8, <1>9, <1>10, <1>11
  DEF Next, Step, Wake, Timeout, Environment, ReadMain, ReadLog

(* supervise/status and supervise/pid tell what runsv knows whenever it      *)
(* waits, and so what sv reports is never older than the last wakeup. With a *)
(* ./log/down file this fails of the pid of a log service never started.     *)
THEOREM FilesAreCurrent ==
  ASSUME NoKillSent, HasLog => ~LogDown
  PROVE  Spec => []FilesCurrent
<1>1. Init => FilesInv
  <2> SUFFICES ASSUME Init PROVE FilesInv
    OBVIOUS
  <2>1. PICK old :
          disk = [status |-> [s \in Service |-> Status(svd[s])],
                  pid |-> [s \in Service |-> IF s = "main" THEN 0 ELSE old]]
    BY DEF Init
  <2>2. svd["main"].pid = 0 /\ (HasLog => WantStart("log"))
    BY DEF Init, Fresh, WantStart, Service
  <2> QED
    BY <2>1, <2>2
    DEF Init, FilesInv, StatusCurrent, PidCurrent, PolledControl, Service
<1>2. LifeInv /\ FilesInv /\ [Next]_vars => FilesInv'
  BY NextFiles
<1>3. FilesInv => FilesCurrent
  BY DEF FilesInv, StatusCurrent, PidCurrent, FilesCurrent, PolledControl
<1> QED
  BY <1>1, <1>2, <1>3, LifeInvariant, PTL DEF Spec
=============================================================================
