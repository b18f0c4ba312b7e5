------------------------------ MODULE SvProofs ------------------------------
(***************************************************************************)
(* Proofs about sv together with runsv, for any number of clients that are *)
(* told to do anything, any ./control scripts, and with others that write  *)
(* to the pipe as well; only what is said of sv stop restricts them.       *)
(***************************************************************************)
EXTENDS Sv, RunsvProofs

-----------------------------------------------------------------------------
(* What clients write. *)

\* All that main makes of a command is characters that runsv knows, but for C,
\* which main never has written.
LEMMA ActsType ==
  ASSUME NEW action \in AllActions, action # Check
  PROVE  action.acts \in Seq(AllCommands)
<1>1. {"t", "c", "u", "d", "x"} \subseteq AllCommands
  BY DEF AllCommands
<1>2. /\ \A c \in AllCommands : <<c>> \in Seq(AllCommands)
      /\ <<"t", "c">> \in Seq(AllCommands)
      /\ <<"t", "c", "u">> \in Seq(AllCommands)
  BY <1>1
<1>3. action.acts \in {<<c>> : c \in AllCommands} \cup {<<"t", "c">>, <<"t", "c", "u">>}
  <2>1. ASSUME NEW s, action = Plainly(s) \/ action = Waiting(s) \/ action = Forcibly(s)
        PROVE  action.acts = s
    BY <2>1 DEF Plainly, Waiting, Forcibly
  <2>2. \E s \in {<<c>> : c \in AllCommands} \cup {<<"t", "c">>, <<"t", "c", "u">>} :
          action = Plainly(s) \/ action = Waiting(s) \/ action = Forcibly(s)
    BY <1>1 DEF AllActions
  <2> QED
    BY <2>1, <2>2
<1> QED
  BY <1>2, <1>3

\* A client that has something to write still knows what.
HasActs ==
  \A c \in Client :
    client[c].at \in {"control", "write"} =>
      client[c].action \in Actions /\ client[c].action # Check

SvInv == TypeOK /\ ChildInv /\ SvTypeOK /\ HasActs

-----------------------------------------------------------------------------
(* A step of one client. *)

LEMMA BecomesType ==
  ASSUME SvTypeOK, HasActs, NEW c \in Client, NEW v \in SvClient, Becomes(c, v),
         v.at \in {"control", "write"} => v.action \in Actions /\ v.action # Check
  PROVE  SvTypeOK' /\ HasActs'
<1>1. client \in [Client -> SvClient] /\ client' = [client EXCEPT ![c] = v]
      /\ UNCHANGED fresh
  BY DEF SvTypeOK, Becomes
<1>2. client' \in [Client -> SvClient]
  BY <1>1
<1>3. \A d \in Client : client'[d] = IF d = c THEN v ELSE client[d]
  BY <1>1
<1> QED
  BY <1>1, <1>2, <1>3 DEF SvTypeOK, HasActs

LEMMA AtRestType ==
  ASSUME NEW place \in Places, NEW action \in Actions \cup {Nothing}
  PROVE  /\ AtRest(place, action) \in SvClient
         /\ AtRest(place, action).at = place
         /\ AtRest(place, action).action = action
  BY DEF AtRest, SvClient

LEMMA GoType ==
  ASSUME SvTypeOK, HasActs, NEW c \in Client, NEW place \in Places, Go(c, place),
         place \notin {"control", "write"}
  PROVE  SvTypeOK' /\ HasActs'
<1> DEFINE v == [client[c] EXCEPT !.at = place]
<1>1. client[c] \in SvClient
  BY DEF SvTypeOK
<1>2. v \in SvClient /\ v.at = place /\ Becomes(c, v)
  BY <1>1 DEF SvClient, Go
<1> HIDE DEF v
<1> QED
  BY <1>2, BecomesType

LEMMA AnswerType ==
  ASSUME SvTypeOK, HasActs, NEW c \in Client, NEW result \in {"ok", "failed"},
         Answer(c, result)
  PROVE  SvTypeOK' /\ HasActs'
<1> DEFINE action == IF result = "ok" THEN client[c].action ELSE Nothing
<1>1. action \in Actions \cup {Nothing} /\ result \in Places
  BY DEF SvTypeOK, SvClient, Places, Idle
<1>2. Becomes(c, AtRest(result, action))
  BY DEF Answer
<1> HIDE DEF action
<1> QED
  BY <1>1, <1>2, AtRestType, BecomesType

LEMMA ControlledType ==
  ASSUME SvTypeOK, HasActs, NEW c \in Client, NEW v \in SvClient, Controlled(c, v)
  PROVE  SvTypeOK' /\ HasActs'
<1>1. CASE Answer(c, "ok")
  BY <1>1, AnswerType
<1>2. CASE Becomes(c, [v EXCEPT !.at = "poll"])
  <2> DEFINE w == [v EXCEPT !.at = "poll"]
  <2>1. w \in SvClient /\ w.at = "poll" /\ Becomes(c, w)
    BY <1>2 DEF SvClient, Places
  <2> HIDE DEF w
  <2> QED
    BY <2>1, BecomesType
<1> QED
  BY <1>1, <1>2 DEF Controlled

LEMMA NotRunningType ==
  ASSUME NEW c PROVE NotRunning(c) \in {"ok", "failed"}
  BY DEF NotRunning

LEMMA WorkType ==
  ASSUME SvTypeOK, HasActs, NEW c \in Client, Work(c)
  PROVE  SvTypeOK' /\ HasActs'
<1>0. client[c] \in SvClient
  BY DEF SvTypeOK
<1>1. CASE Control(c)
  <2> DEFINE v == [client[c] EXCEPT
                     !.sure = (Acts(c) = <<"d">> /\ control["main"] = <<>>)]
             w == [v EXCEPT !.at = "write"]
  <2>1. v \in SvClient /\ v.action = client[c].action
    BY <1>0 DEF SvClient
  <2>2. w \in SvClient /\ w.action = client[c].action
    <3> HIDE DEF v
    <3> QED
      BY <2>1 DEF SvClient, Places
  <2>3. \/ Answer(c, NotRunning(c)) \/ Controlled(c, v) \/ Becomes(c, w)
    BY <1>1 DEF Control
  <2>4. client[c].action \in Actions /\ client[c].action # Check
    BY <1>1 DEF Control, HasActs
  <2> HIDE DEF v, w
  <2> QED
    BY <2>1, <2>2, <2>3, <2>4, AnswerType, NotRunningType, ControlledType, BecomesType
<1>2. CASE Put(c)
  <2>1. (\E result \in {"ok", "failed"} : Answer(c, result)) \/ Controlled(c, client[c])
    BY <1>2, NotRunningType DEF Put
  <2> QED
    BY <1>0, <2>1, AnswerType, ControlledType
<1>3. CASE Poll(c)
  <2>1. CASE \E result \in {"ok", "failed"} : Answer(c, result)
    BY <2>1, AnswerType
  <2>2. CASE Go(c, "expired")
    BY <2>2, GoType DEF Places
  <2>3. ASSUME NEW late \in BOOLEAN, Becomes(c, [client[c] EXCEPT !.late = late])
        PROVE  SvTypeOK' /\ HasActs'
    <3> DEFINE v == [client[c] EXCEPT !.late = late]
    <3>1. v \in SvClient /\ v.at = "poll" /\ Becomes(c, v)
      BY <1>0, <1>3, <2>3 DEF SvClient, Poll
    <3> HIDE DEF v
    <3> QED
      BY <3>1, BecomesType
  <2> QED
    BY <1>3, <2>1, <2>2, <2>3, NotRunningType DEF Poll
<1>4. CASE Expired(c)
  <2>1. (\E result \in {"ok", "failed"} : Answer(c, result)) \/ Go(c, "kill")
    BY <1>4, NotRunningType DEF Expired
  <2> QED
    BY <2>1, AnswerType, GoType DEF Places
<1>5. CASE SendKill(c)
  BY <1>5, AnswerType DEF SendKill
<1> QED
  BY <1>1, <1>2, <1>3, <1>4, <1>5 DEF Work

LEMMA BeginType ==
  ASSUME SvTypeOK, HasActs, NEW c \in Client, NEW action \in Actions, Begin(c, action)
  PROVE  SvTypeOK' /\ HasActs'
<1> DEFINE place == IF action = Check THEN "poll" ELSE "control"
           u == AtRest(place, action)
           v == [u EXCEPT !.stamp = IF fresh THEN "same" ELSE "older"]
<1>1. u \in SvClient /\ u.at = place /\ u.action = action
  BY AtRestType DEF Places
<1>2. v \in SvClient /\ v.at = place /\ v.action = action
  <2> HIDE DEF u
  <2> QED
    BY <1>1 DEF SvClient
<1>3. Becomes(c, v)
  BY DEF Begin
<1> HIDE DEF u, v
<1> QED
  BY <1>2, <1>3, BecomesType

\* While runsv works a client may see a new time stamp.
LEMMA ObserveType ==
  ASSUME SvTypeOK, HasActs, Observe
  PROVE  SvTypeOK' /\ HasActs'
<1>1. ASSUME NEW c \in Client
      PROVE  /\ client'[c] \in SvClient
             /\ client'[c].at = client[c].at /\ client'[c].action = client[c].action
  <2>1. client[c] \in SvClient
    BY DEF SvTypeOK
  <2>2. CASE client[c].at \in Idle
    BY <2>1, <2>2 DEF Observe
  <2>3. CASE client[c].at \notin Idle
    <3>1. client'[c] =
            [client[c] EXCEPT !.stamp = IF Restamped THEN "since" ELSE @,
                              !.ran = @ \/ Starts("main", "run")]
      BY <2>3 DEF Observe
    <3> QED
      BY <2>1, <3>1 DEF SvClient
  <2> QED
    BY <2>2, <2>3
<1>2. fresh' \in BOOLEAN /\ DOMAIN client' = Client
  BY DEF Observe
<1>3. client' = [c \in Client |-> client'[c]]
  BY DEF Observe
<1> QED
  BY <1>1, <1>2, <1>3 DEF SvTypeOK, HasActs

-----------------------------------------------------------------------------
(* All clients, and runsv. *)

LEMMA RunsvsSame ==
  ASSUME TypeOK, ChildInv, UNCHANGED Runsvs
  PROVE  TypeOK' /\ ChildInv'
<1>1. [Next]_vars
  BY DEF Runsvs, vars
<1> QED
  BY <1>1, NextType, NextChild

\* What a client writes does not touch the services.
LEMMA WritesSame ==
  ASSUME TypeOK, ChildInv, NEW text \in Seq(AllCommands),
         control' = [control EXCEPT !["main"] = @ \o text],
         UNCHANGED <<pc, service, wakeup, logpipe>>
  PROVE  TypeOK' /\ ChildInv'
<1>1. "main" \in Service /\ control \in [Service -> Seq(AllCommands)]
  BY DEF Service, TypeOK
<1>2. control["main"] \o text \in Seq(AllCommands)
  BY <1>1
<1>3. control' \in [Service -> Seq(AllCommands)]
  BY <1>1, <1>2
<1>4. TypeOK'
  BY <1>3 DEF TypeOK, service, wakeup
<1> QED
  BY <1>4 DEF service, ChildInv, OnlyChildrenSignalled, PidsAreChildren,
              RunningHasPid, Running

LEMMA SvNextInv == SvInv /\ [SvNext]_svvars => SvInv'
<1> SUFFICES ASSUME SvInv, [SvNext]_svvars PROVE SvInv'
  OBVIOUS
<1> USE DEF SvInv
<1>1. CASE Next /\ Observe
  BY <1>1, NextType, NextChild, ObserveType
<1>2. CASE Second
  <2>1. SvTypeOK' /\ HasActs'
    BY <1>2 DEF Second, SvTypeOK, HasActs
  <2> QED
    BY <1>2, <2>1, RunsvsSame DEF Second
<1>3. ASSUME NEW c \in Client, Work(c) PROVE SvInv'
  <2>1. SvTypeOK' /\ HasActs'
    BY <1>3, WorkType
  <2>2. CASE UNCHANGED Runsvs
    BY <2>1, <2>2, RunsvsSame
  <2>3. CASE Put(c)
    <3>1. Acts(c) \in Seq(AllCommands)
      BY <2>3, ActsType, SvAssumption DEF Put, HasActs, Acts
    <3>2. UNCHANGED control \/ control' = [control EXCEPT !["main"] = @ \o Acts(c)]
      BY <2>3 DEF Put
    <3>3. UNCHANGED <<pc, service, wakeup, logpipe>>
      BY <2>3 DEF Put
    <3> QED
      BY <2>1, <2>2, <3>1, <3>2, <3>3, WritesSame DEF Runsvs, service, wakeup
  <2>4. CASE SendKill(c)
    <3>1. "main" \in Service /\ control \in [Service -> Seq(AllCommands)]
          /\ "k" \in AllCommands
      BY DEF Service, TypeOK, AllCommands
    <3>2. control["main"] \in Seq(AllCommands) /\ <<"k">> \in Seq(AllCommands)
          /\ Append(control["main"], "k") = control["main"] \o <<"k">>
      BY <3>1
    <3>3. UNCHANGED control \/ control' = [control EXCEPT !["main"] = @ \o <<"k">>]
      BY <2>4, <3>2 DEF SendKill
    <3>4. UNCHANGED <<pc, service, wakeup, logpipe>>
      BY <2>4 DEF SendKill
    <3> QED
      BY <2>1, <2>2, <3>2, <3>3, <3>4, WritesSame DEF Runsvs, service, wakeup
  <2> QED
    BY <1>3, <2>2, <2>3, <2>4 DEF Work, Control, Poll, Expired
<1>4. ASSUME NEW c \in Client, NEW action \in Actions, Begin(c, action) PROVE SvInv'
  BY <1>4, BeginType, RunsvsSame DEF Begin
<1>5. CASE UNCHANGED svvars
  <2>1. SvTypeOK' /\ HasActs'
    BY <1>5 DEF svvars, SvTypeOK, HasActs
  <2> QED
    BY <1>5, <2>1, RunsvsSame DEF svvars, vars, Runsvs
<1> QED
  BY <1>1, <1>2, <1>3, <1>4, <1>5 DEF SvNext

LEMMA SvInitInv == SvInit => SvInv
<1> SUFFICES ASSUME SvInit PROVE SvInv
  OBVIOUS
<1>1. TypeOK /\ ChildInv
  BY InitType, InitChild DEF SvInit
<1>2. AtRest("new", Nothing) \in SvClient /\ AtRest("new", Nothing).at = "new"
  BY AtRestType DEF Places, Idle
<1> QED
  BY <1>1, <1>2 DEF SvInit, SvInv, SvTypeOK, HasActs

(* A client is always at a place of sv's and has a command that main knows   *)
(* while it works on one.                                                    *)
THEOREM SvTypeCorrect == SvSpec => []SvTypeOK
<1>1. SvInv => SvTypeOK
  BY DEF SvInv
<1> QED
  BY <1>1, SvInitInv, SvNextInv, PTL DEF SvSpec

(* Whatever any number of clients write, and whenever, the k that a timeout  *)
(* sends after the service may have ended included, runsv signals live       *)
(* children of its own only.                                                 *)
THEOREM SvSignalSafety == SvSpec => []OnlyChildrenSignalled
<1>1. SvInv => OnlyChildrenSignalled
  BY DEF SvInv, ChildInv
<1> QED
  BY <1>1, SvInitInv, SvNextInv, PTL DEF SvSpec

-----------------------------------------------------------------------------
(* What stop waits for. *)

\* The ./run processes of the service, and those that are told to end.
Runs == {p \in Live(proc) : proc[p].sv = "main" /\ proc[p].role = "run"}

Ending == {"TERM", "KILL"}

\* supervise/status tells of main what the record does, but for the state
\* after k; and each ./run is the recorded one, which has got its TERM if the
\* record says so, or has got a KILL.
StatusTold ==
  /\ disk.status["main"].up = (svd["main"].want = "up")
  /\ disk.status["main"].term = svd["main"].term

RunsTold ==
  \A p \in Runs :
    \/ "KILL" \in proc[p].sigs
    \/ /\ p = svd["main"].pid /\ svd["main"].state = "run"
       /\ svd["main"].term => "TERM" \in proc[p].sigs

TermInv == StatusTold /\ RunsTold

\* The service is not wanted up, and each ./run will end.
Stopping ==
  /\ svd["main"].want # "up"
  /\ \A p \in Runs : Ending \cap proc[p].sigs # {}

\* No ./run begins, and none forgets that it has to end.
RunsGoOn ==
  \A p \in Runs' : p \in Runs /\ Ending \cap proc[p].sigs \subseteq proc'[p].sigs

\* ./control/t and ./control/k can take the place of the signals.
NoCustomEnd == Custom \cap {"t", "k"} = {}

LEMMA RunsType ==
  ASSUME ServiceType
  PROVE  /\ \A p \in Runs : p \in Pid /\ p # 0
         /\ svd["main"] \in Svdir /\ svd["log"] \in Svdir
         /\ svd["main"].pid \in Pid \cup {0} /\ svd["log"].pid \in Pid \cup {0}
         /\ svd["main"].term \in BOOLEAN
<1>1. "main" \in Service /\ "log" \in Service /\ svd \in [Service -> Svdir]
  BY DEF ServiceType, Service
<1>2. svd["main"] \in Svdir /\ svd["log"] \in Svdir
  BY <1>1
<1> QED
  BY <1>2, PidAssumption DEF Runs, Live, Svdir

\* supervise/status and supervise/pid.
DiskFiles == [status : [Service -> StatusFile], pid : [Service -> Pid \cup {0}]]

\* Who is there.
LEMMA RunsKilled ==
  ASSUME ServiceType, NEW p \in Pid \cup {0}, NEW S \in SUBSET Signal,
         proc' = Kill(proc, p, S)
  PROVE  RunsGoOn /\ (p \in Runs => S \subseteq proc'[p].sigs)
<1>1. proc \in Table /\ \A q \in Pid : proc[q] \in Proc
  BY DEF ServiceType, Table
<1>2. \A q \in Pid : proc'[q].st = proc[q].st /\ proc'[q].sv = proc[q].sv
                     /\ proc'[q].role = proc[q].role
  BY <1>1, KillTable
<1>3. Runs' = Runs
  BY <1>2 DEF Runs, Live
<1>4. \A q \in Pid : q # p => proc'[q] = proc[q]
  BY <1>1 DEF Kill, Table
<1>5. ASSUME p \in Runs
      PROVE  proc'[p].sigs = Receive(proc[p].sigs, S)
  <2>1. proc[p].st = "live" /\ p \in Pid
    BY <1>5 DEF Runs, Live
  <2>2. proc' = [proc EXCEPT ![p].sigs = Receive(@, S)]
    BY <2>1 DEF Kill
  <2> QED
    BY <1>1, <2>1, <2>2 DEF Table, Proc
<1>6. p \in Runs => S \subseteq proc'[p].sigs
                    /\ Ending \cap proc[p].sigs \subseteq proc'[p].sigs
  BY <1>5 DEF Receive, Ending
<1>7. \A q \in Runs : q \in Pid
  BY DEF Runs, Live
<1> QED
  BY <1>3, <1>4, <1>6, <1>7 DEF RunsGoOn

LEMMA RunsSame ==
  ASSUME proc' = proc
  PROVE  RunsGoOn
  BY DEF RunsGoOn, Runs, Live

\* The record of main stays as it is.
LEMMA OthersTold ==
  ASSUME TermInv, RunsGoOn, svd'["main"] = svd["main"],
         disk'.status["main"] = disk.status["main"]
  PROVE  TermInv' /\ (Stopping => Stopping')
<1>1. StatusTold'
  BY DEF TermInv, StatusTold
<1>2. ASSUME NEW p \in Runs'
      PROVE  \/ "KILL" \in proc'[p].sigs
             \/ /\ p = svd'["main"].pid /\ svd'["main"].state = "run"
                /\ svd'["main"].term => "TERM" \in proc'[p].sigs
  BY <1>2 DEF TermInv, RunsTold, RunsGoOn, Ending
<1>3. Stopping => Stopping'
  BY DEF Stopping, RunsGoOn, Ending
<1> QED
  BY <1>1, <1>2, <1>3 DEF TermInv, RunsTold

\* What startservice does to the processes and the record.
LEMMA StartTold ==
  ASSUME ServiceType, NEW s \in Service, NEW v \in Svdir, StartService(s, v)
  PROVE  /\ svd'[s].term = FALSE /\ svd'[s].want = v.want
         /\ svd'[s].state = IF v.state = "finish" THEN "finish" ELSE "run"
         /\ disk'.status[s] = Status(svd'[s])
         /\ \A r \in Service : r # s => svd'[r] = svd[r] /\ disk'.status[r] = disk.status[r]
         /\ \A p \in Runs' :
              \/ p \in Runs /\ Ending \cap proc[p].sigs \subseteq proc'[p].sigs
              \/ s = "main" /\ p = svd'[s].pid /\ svd'[s].state = "run"
<1>1. PICK p \in Free(proc), ok \in Customized(s) :
        LET w == [v EXCEPT !.pid = p, !.term = FALSE, !.paused = FALSE,
                           !.state = IF @ = "finish" THEN @ ELSE "run"]
            stopped == IF v.pid = 0 THEN proc
                       ELSE Kill(proc, v.pid, StopSignals(v, ok))
        IN /\ proc' = Fork(stopped, p, s, w.state, HasLog => logpipe)
           /\ svd' = [svd EXCEPT ![s] = w]
           /\ disk' = UpdatePid(disk, s, w)
  BY DEF StartService
<1> DEFINE w == [v EXCEPT !.pid = p, !.term = FALSE, !.paused = FALSE,
                          !.state = IF @ = "finish" THEN @ ELSE "run"]
           t == IF v.pid = 0 THEN proc ELSE Kill(proc, v.pid, StopSignals(v, ok))
           execs == HasLog => logpipe
<1>2. /\ w \in Svdir /\ w.pid = p /\ w.term = FALSE /\ w.want = v.want
      /\ w.state = IF v.state = "finish" THEN "finish" ELSE "run"
  BY DEF Free, Svdir, State
<1>3. /\ proc' = Fork(t, p, s, w.state, execs)
      /\ svd' = [svd EXCEPT ![s] = w] /\ disk' = UpdatePid(disk, s, w)
  BY <1>1
<1> HIDE DEF w
<1>4. svd'[s] = w /\ \A r \in Service : r # s => svd'[r] = svd[r]
  BY <1>2, <1>3 DEF ServiceType
<1>5. disk'.status[s] = Status(w)
      /\ \A r \in Service : r # s => disk'.status[r] = disk.status[r]
  BY <1>3 DEF ServiceType, UpdatePid
<1>6. t \in Table
      /\ \A q \in Pid : /\ t[q].st = proc[q].st /\ t[q].sv = proc[q].sv
                        /\ t[q].role = proc[q].role
                        /\ proc[q].st = "live" => Ending \cap proc[q].sigs \subseteq t[q].sigs
  <2>1. proc \in Table /\ v.pid \in Pid \cup {0} /\ StopSignals(v, ok) \in SUBSET Signal
    BY StopSignalsType DEF ServiceType, Svdir
  <2>2. Kill(proc, v.pid, StopSignals(v, ok)) \in Table
        /\ \A q \in Pid : /\ Kill(proc, v.pid, StopSignals(v, ok))[q].st = proc[q].st
                          /\ Kill(proc, v.pid, StopSignals(v, ok))[q].sv = proc[q].sv
                          /\ Kill(proc, v.pid, StopSignals(v, ok))[q].role = proc[q].role
    BY <2>1, KillTable
  <2>3. \A q \in Pid : Ending \cap proc[q].sigs \subseteq Kill(proc, v.pid, StopSignals(v, ok))[q].sigs
    BY <2>1 DEF Kill, Receive, Table, Proc, Ending
  <2> QED
    BY <2>1, <2>2, <2>3
<1> HIDE DEF t
<1>7. w.state \in Role /\ execs \in BOOLEAN /\ p \in Pid /\ proc[p].st = "free"
  BY <1>2 DEF Role, Free
<1> HIDE DEF execs
<1>8. /\ proc'[p].sv = s /\ proc'[p].role = w.state
      /\ \A q \in Pid \cup {0} : q # p => proc'[q] = t[q]
  <2>1. /\ Fork(t, p, s, w.state, execs)[p] =
             [st |-> "live", sv |-> s, role |-> w.state, execs |-> execs,
              sigs |-> t[p].sigs]
        /\ \A q \in Pid \cup {0} : q # p => Fork(t, p, s, w.state, execs)[q] = t[q]
    BY <1>6, <1>7, ForkTable
  <2> QED
    BY <1>3, <2>1
<1>9. ASSUME NEW q \in Runs'
      PROVE  \/ q \in Runs /\ Ending \cap proc[q].sigs \subseteq proc'[q].sigs
             \/ s = "main" /\ q = svd'[s].pid /\ svd'[s].state = "run"
  <2>1. q \in Pid /\ proc'[q].st = "live" /\ proc'[q].sv = "main" /\ proc'[q].role = "run"
    BY <1>9 DEF Runs, Live
  <2>2. CASE q = p
    BY <1>2, <1>4, <1>8, <2>1, <2>2
  <2>3. CASE q # p
    <3>1. proc'[q] = t[q]
      BY <1>8, <2>1, <2>3
    <3>2. proc[q].st = "live" /\ proc[q].sv = "main" /\ proc[q].role = "run"
      BY <1>6, <2>1, <3>1
    <3> QED
      BY <1>6, <2>1, <3>1, <3>2 DEF Runs, Live
  <2> QED
    BY <2>2, <2>3
<1> QED
  BY <1>2, <1>4, <1>5, <1>9

\* stopservice sends a TERM to the process that is recorded.
LEMMA StopTold ==
  ASSUME ServiceType, NoCustomEnd, NEW v \in Svdir, v.pid = svd["main"].pid, NEW d \in DiskFiles,
         d.status["main"].up = (v.want = "up"), d.status["main"].term = v.term,
         StopService("main", v, d)
  PROVE  /\ svd'["main"].want = v.want /\ svd'["main"].state = v.state
         /\ svd'["main"].pid = v.pid
         /\ disk'.status["main"].up = (v.want = "up")
         /\ disk'.status["main"].term = svd'["main"].term
         /\ RunsGoOn
         /\ v.pid \in Runs => "TERM" \in proc'[v.pid].sigs
<1>1. PICK ok \in Customized("main") :
        /\ proc' = Kill(proc, v.pid, StopSignals(v, ok))
        /\ svd' = [svd EXCEPT !["main"] =
                     [v EXCEPT !.term = @ \/ "TERM" \in StopSignals(v, ok)]]
        /\ disk' = IF "TERM" \in StopSignals(v, ok)
                     THEN UpdateStatus(d, "main",
                            [v EXCEPT !.term = @ \/ "TERM" \in StopSignals(v, ok)])
                     ELSE d
  BY DEF StopService
<1> DEFINE S == StopSignals(v, ok)
           w == [v EXCEPT !.term = @ \/ "TERM" \in S]
<1>2. /\ w \in Svdir /\ w.want = v.want /\ w.state = v.state /\ w.pid = v.pid
      /\ "TERM" \notin S => w = v
  BY DEF Svdir
<1>3. /\ proc' = Kill(proc, v.pid, S) /\ svd' = [svd EXCEPT !["main"] = w]
      /\ disk' = IF "TERM" \in S THEN UpdateStatus(d, "main", w) ELSE d
  BY <1>1
<1>4. S \in SUBSET Signal
  BY StopSignalsType
<1>5. v.pid # 0 => "TERM" \in S
  BY DEF StopSignals, Customized, NoCustomEnd
<1> HIDE DEF w, S
<1>6. svd'["main"] = w /\ "main" \in Service /\ v.pid \in Pid \cup {0}
  BY <1>3 DEF ServiceType, Service, Svdir
<1>7. /\ disk'.status["main"].up = (w.want = "up")
      /\ disk'.status["main"].term = w.term
  <2>1. CASE "TERM" \in S
    <3>1. disk'.status["main"] = Status(w)
      BY <1>3, <1>6, <2>1 DEF UpdateStatus, DiskFiles
    <3> QED
      BY <3>1 DEF Status
  <2>2. CASE "TERM" \notin S
    BY <1>2, <1>3, <2>2
  <2> QED
    BY <2>1, <2>2
<1>8. RunsGoOn /\ (v.pid \in Runs => S \subseteq proc'[v.pid].sigs)
  BY <1>3, <1>4, <1>6, RunsKilled
<1>9. v.pid \in Runs => v.pid # 0
  BY RunsType
<1> QED
  BY <1>2, <1>5, <1>6, <1>7, <1>8, <1>9

\* The record of main is written, and no process begins.
LEMMA RecordTold ==
  ASSUME TermInv, RunsGoOn, disk'.status["main"].up = (svd'["main"].want = "up"),
         disk'.status["main"].term = svd'["main"].term,
         \A p \in Runs' : svd["main"].state = "run" /\ p = svd["main"].pid =>
           \/ "KILL" \in proc'[p].sigs
           \/ /\ p = svd'["main"].pid /\ svd'["main"].state = "run"
              /\ svd'["main"].term => svd["main"].term \/ "TERM" \in proc'[p].sigs
  PROVE  TermInv' /\ (Stopping /\ svd'["main"].want # "up" => Stopping')
<1>1. ASSUME NEW p \in Runs'
      PROVE  \/ "KILL" \in proc'[p].sigs
             \/ /\ p = svd'["main"].pid /\ svd'["main"].state = "run"
                /\ svd'["main"].term => "TERM" \in proc'[p].sigs
  BY <1>1 DEF TermInv, RunsTold, RunsGoOn, Ending
<1>2. Stopping /\ svd'["main"].want # "up" => Stopping'
  BY DEF Stopping, RunsGoOn, Ending
<1> QED
  BY <1>1, <1>2 DEF TermInv, RunsTold, StatusTold

\* u and o, and the start of the loop.
LEMMA StartMainTold ==
  ASSUME ServiceType, TermInv, NEW v \in Svdir, svd["main"].state # "run" \/ svd["main"].pid = 0,
         StartService("main", v)
  PROVE  TermInv' /\ (Stopping /\ v.want # "up" /\ v.state = "finish" => Stopping')
<1>1. "main" \in Service
  BY DEF Service
<1>2. /\ svd'["main"].term = FALSE /\ svd'["main"].want = v.want
      /\ svd'["main"].state = IF v.state = "finish" THEN "finish" ELSE "run"
      /\ disk'.status["main"] = Status(svd'["main"])
  BY <1>1, StartTold
<1>3. \A p \in Runs' :
         \/ p \in Runs /\ Ending \cap proc[p].sigs \subseteq proc'[p].sigs
         \/ p = svd'["main"].pid /\ svd'["main"].state = "run"
  BY <1>1, StartTold
<1>4. \A p \in Runs : "KILL" \in proc[p].sigs
  BY RunsType DEF TermInv, RunsTold
<1>5. StatusTold'
  BY <1>2 DEF StatusTold, Status
<1>6. RunsTold'
  BY <1>2, <1>3, <1>4 DEF RunsTold, Ending
<1>7. Stopping /\ v.want # "up" /\ v.state = "finish" => Stopping'
  BY <1>2, <1>3 DEF Stopping, Ending
<1> QED
  BY <1>5, <1>6, <1>7 DEF TermInv

\* d and x end what runs.
LEMMA DownTold ==
  ASSUME ServiceType, TermInv, NoCustomEnd, NEW want \in {"down", "exit"}, Down("main", want)
  PROVE  TermInv' /\ Stopping'
<1> DEFINE v == [svd["main"] EXCEPT !.want = want]
           d == UpdateStatus(disk, "main", v)
<1>1. /\ v \in Svdir /\ v.want = want /\ v.pid = svd["main"].pid
      /\ v.state = svd["main"].state /\ v.term = svd["main"].term
  BY RunsType DEF Svdir, Want
<1>2. "main" \in Service /\ disk \in DiskFiles
  BY DEF Service, ServiceType, DiskFiles
<1>3. d \in DiskFiles /\ d.status["main"] = Status(v)
  <2> HIDE DEF v
  <2>1. d \in DiskFiles
    BY <1>1, <1>2, DiskType DEF DiskFiles
  <2> QED
    BY <1>2, <2>1 DEF UpdateStatus, DiskFiles
<1>4. IF v.state = "run" THEN StopService("main", v, d)
      ELSE Record("main", v) /\ UNCHANGED <<proc, young>>
  BY DEF Down
<1>5. svd["main"] \in Svdir /\ svd \in [Service -> Svdir]
  BY RunsType DEF ServiceType
<1> HIDE DEF v, d
<1>6. CASE v.state = "run"
  <2>1. /\ svd'["main"].want = v.want /\ svd'["main"].state = v.state
        /\ svd'["main"].pid = v.pid
        /\ disk'.status["main"].up = (v.want = "up")
        /\ disk'.status["main"].term = svd'["main"].term
        /\ RunsGoOn
        /\ v.pid \in Runs => "TERM" \in proc'[v.pid].sigs
    BY <1>1, <1>3, <1>4, <1>6, StopTold DEF Status
  <2>2. \A p \in Runs' : p = v.pid => "TERM" \in proc'[p].sigs
    BY <2>1 DEF RunsGoOn
  <2>3. TermInv'
    BY <1>1, <1>6, <2>1, <2>2, RecordTold DEF Status
  <2>4. \A p \in Runs' : Ending \cap proc'[p].sigs # {}
    BY <1>1, <2>1, <2>2 DEF RunsGoOn, TermInv, RunsTold, Ending
  <2> QED
    BY <1>1, <2>1, <2>3, <2>4 DEF Stopping
<1>7. CASE v.state # "run"
  <2>1. /\ svd' = [svd EXCEPT !["main"] = v] /\ proc' = proc
        /\ disk' = UpdateStatus(disk, "main", v)
    BY <1>4, <1>7 DEF Record
  <2>2. svd'["main"] = v
    BY <1>2, <1>5, <2>1
  <2>3. disk'.status["main"] = Status(v)
    BY <1>3, <2>1 DEF d
  <2>4. TermInv'
    BY <1>1, <1>7, <2>1, <2>2, <2>3, RunsSame, RecordTold DEF Status
  <2>5. \A p \in Runs' : Ending \cap proc'[p].sigs # {}
    BY <1>1, <1>7, <2>1, RunsSame DEF RunsGoOn, TermInv, RunsTold, Ending
  <2> QED
    BY <1>1, <2>2, <2>4, <2>5 DEF Stopping
<1> QED
  BY <1>6, <1>7

LEMMA UpTold ==
  ASSUME ServiceType, TermInv, NEW want \in {"up", "down"}, Up("main", want)
  PROVE  TermInv'
<1> DEFINE v == [svd["main"] EXCEPT !.want = want]
<1>1. /\ v \in Svdir /\ v.want = want /\ v.pid = svd["main"].pid
      /\ v.state = svd["main"].state /\ v.term = svd["main"].term
  BY RunsType DEF Svdir, Want
<1>2. IF v.state = "down" THEN StartService("main", v)
      ELSE Record("main", v) /\ UNCHANGED <<proc, young>>
  BY DEF Up
<1>3. "main" \in Service /\ disk \in DiskFiles /\ svd \in [Service -> Svdir]
  BY DEF Service, ServiceType, DiskFiles
<1> HIDE DEF v
<1>4. CASE v.state = "down"
  BY <1>1, <1>2, <1>4, StartMainTold
<1>5. CASE v.state # "down"
  <2>1. svd'["main"] = v /\ proc' = proc /\ disk'.status["main"] = Status(v)
    BY <1>2, <1>3, <1>5 DEF Record, UpdateStatus, DiskFiles
  <2> QED
    BY <1>1, <2>1, RunsSame, RecordTold DEF Status
<1> QED
  BY <1>4, <1>5

LEMMA TermTold ==
  ASSUME ServiceType, TermInv, NoCustomEnd, Term("main")
  PROVE  TermInv' /\ (Stopping => Stopping')
<1>1. svd["main"] \in Svdir /\ disk \in DiskFiles
  BY RunsType DEF ServiceType, DiskFiles
<1>2. CASE Running("main")
  <2>1. StopService("main", svd["main"], disk)
    BY <1>2 DEF Term
  <2>2. /\ svd'["main"].want = svd["main"].want /\ svd'["main"].state = svd["main"].state
        /\ svd'["main"].pid = svd["main"].pid
        /\ disk'.status["main"].up = (svd["main"].want = "up")
        /\ disk'.status["main"].term = svd'["main"].term
        /\ RunsGoOn
        /\ svd["main"].pid \in Runs => "TERM" \in proc'[svd["main"].pid].sigs
    BY <1>1, <2>1, StopTold DEF TermInv, StatusTold
  <2>3. \A p \in Runs' : p = svd["main"].pid => "TERM" \in proc'[p].sigs
    BY <2>2 DEF RunsGoOn
  <2> QED
    BY <1>2, <2>2, <2>3, RecordTold DEF Running, Stopping
<1>3. CASE ~Running("main")
  BY <1>3, RunsSame, OthersTold DEF Term, service
<1> QED
  BY <1>2, <1>3

\* A signal that is passed on.
LEMMA SendTold ==
  ASSUME ServiceType, NEW c, NEW signal \in Signal, SendSignal("main", c, signal)
  PROVE  RunsGoOn
<1>1. svd["main"].pid \in Pid \cup {0}
  BY RunsType
<1>2. proc' = proc \/ proc' = Kill(proc, svd["main"].pid, {signal})
  BY DEF SendSignal
<1> QED
  BY <1>1, <1>2, RunsSame, RunsKilled

\* k records that nothing runs, and every ./run there has got its KILL.
LEMMA KillTold ==
  ASSUME ServiceType, TermInv, NoCustomEnd, KillService("main")
  PROVE  TermInv' /\ (Stopping => Stopping')
<1> DEFINE v == [svd["main"] EXCEPT !.state = "down"]
<1>1. /\ v.want = svd["main"].want /\ v.pid = svd["main"].pid
      /\ v.term = svd["main"].term
  BY RunsType DEF Svdir
<1>2. svd' = [svd EXCEPT !["main"] = v] /\ disk' = disk
  BY DEF KillService
<1>3. svd["main"].pid \in Pid \cup {0} /\ "main" \in Service /\ svd \in [Service -> Svdir]
  BY RunsType DEF ServiceType, Service
<1>4. SendSignal("main", "k", "KILL") /\ "KILL" \in Signal
  BY DEF KillService, Signal
<1> HIDE DEF v
<1>5. svd'["main"] = v
  BY <1>2, <1>3
<1>6. RunsGoOn
  BY <1>4, SendTold
<1>7. svd["main"].state = "run" => proc' = Kill(proc, svd["main"].pid, {"KILL"})
  BY <1>4 DEF SendSignal, Customized, NoCustomEnd, Running
<1>8. svd["main"].state = "run" /\ svd["main"].pid \in Runs
        => "KILL" \in proc'[svd["main"].pid].sigs
  BY <1>3, <1>4, <1>7, RunsKilled
<1>9. /\ disk'.status["main"].up = (svd'["main"].want = "up")
      /\ disk'.status["main"].term = svd'["main"].term
  BY <1>1, <1>2, <1>5 DEF TermInv, StatusTold
<1>10. \A p \in Runs' : svd["main"].state = "run" /\ p = svd["main"].pid =>
          "KILL" \in proc'[p].sigs
  BY <1>6, <1>8 DEF RunsGoOn
<1>11. TermInv' /\ (Stopping /\ svd'["main"].want # "up" => Stopping')
  BY <1>6, <1>9, <1>10, RecordTold
<1> QED
  BY <1>1, <1>5, <1>11 DEF Stopping

\* p and c.
LEMMA PauseTold ==
  ASSUME ServiceType, TermInv, NEW b \in BOOLEAN, NEW c, NEW signal \in Signal,
         SendSignal("main", c, signal), Record("main", [svd["main"] EXCEPT !.paused = b])
  PROVE  TermInv' /\ (Stopping => Stopping')
<1> DEFINE v == [svd["main"] EXCEPT !.paused = b]
<1>1. /\ v.want = svd["main"].want /\ v.pid = svd["main"].pid
      /\ v.term = svd["main"].term /\ v.state = svd["main"].state
  BY RunsType DEF Svdir
<1>2. "main" \in Service /\ svd \in [Service -> Svdir] /\ disk \in DiskFiles
  BY DEF ServiceType, Service, DiskFiles
<1>3. Record("main", v)
  OBVIOUS
<1> HIDE DEF v
<1>4. svd'["main"] = v /\ disk'.status["main"] = Status(v)
  BY <1>2, <1>3 DEF Record, UpdateStatus, DiskFiles
<1>5. RunsGoOn
  BY SendTold
<1>6. TermInv' /\ (Stopping /\ svd'["main"].want # "up" => Stopping')
  BY <1>1, <1>4, <1>5, RecordTold DEF Status
<1> QED
  BY <1>1, <1>4, <1>6 DEF Stopping

\* What each character of main does to the service.
LEMMA CtrlTold ==
  ASSUME ServiceType, TermInv, NoCustomEnd, NEW c, Ctrl("main", c)
  PROVE  /\ TermInv'
         /\ c \notin {"u", "o"} /\ Stopping => Stopping'
         /\ c \in {"d", "x"} => Stopping'
<1>1. CASE c = "u" /\ Up("main", "up")
  BY <1>1, UpTold
<1>2. CASE c = "o" /\ Up("main", "down")
  BY <1>2, UpTold
<1>3. CASE c = "d" /\ Down("main", "down")
  BY <1>3, DownTold
<1>4. CASE c = "x" /\ Down("main", "exit")
  BY <1>4, DownTold
<1>5. CASE c = "t" /\ Term("main")
  BY <1>5, TermTold
<1>6. CASE c = "k" /\ KillService("main")
  BY <1>6, KillTold
<1>7. CASE c = "p" /\ Pause("main")
  BY <1>7, PauseTold DEF Pause, Signal
<1>8. CASE c = "c" /\ Cont("main")
  BY <1>8, PauseTold DEF Cont, Signal
<1>9. CASE Forward("main", c)
  <2>1. PICK e \in Plain : c = e[1] /\ SendSignal("main", c, e[2])
                            /\ UNCHANGED <<svd, disk, young>>
    BY <1>9 DEF Forward
  <2>2. e[2] \in Signal /\ e[1] \notin {"d", "x"}
    BY DEF Plain, Signal
  <2> QED
    BY <2>1, <2>2, SendTold, OthersTold
<1> QED
  BY <1>1, <1>2, <1>3, <1>4, <1>5, <1>6, <1>7, <1>8, <1>9 DEF Ctrl, Ignore

-----------------------------------------------------------------------------
(* What is left of it while runsv goes on. *)

\* What is done to the log service does not concern main.
Apart ==
  /\ RunsGoOn /\ svd'["main"] = svd["main"]
  /\ disk'.status["main"] = disk.status["main"]

LEMMA LogApart ==
  ASSUME ServiceType, NEW c, Ctrl("log", c)
  PROVE  Apart
<1>0. /\ svd["log"] \in Svdir /\ svd["log"].pid \in Pid \cup {0}
      /\ svd \in [Service -> Svdir] /\ disk \in DiskFiles /\ "log" \in Service
      /\ "main" \in Service /\ "log" # "main"
  BY RunsType DEF ServiceType, DiskFiles, Service
<1>1. ASSUME NEW v \in Svdir, StartService("log", v) PROVE Apart
  <2>1. /\ svd'["main"] = svd["main"] /\ disk'.status["main"] = disk.status["main"]
        /\ \A p \in Runs' : p \in Runs /\ Ending \cap proc[p].sigs \subseteq proc'[p].sigs
    BY <1>0, <1>1, StartTold
  <2> QED
    BY <2>1 DEF RunsGoOn, Apart
<1>2. ASSUME NEW v, Record("log", v), RunsGoOn PROVE Apart
  BY <1>0, <1>2 DEF Record, UpdateStatus, DiskFiles, Apart
<1>3. ASSUME NEW v \in Svdir, NEW d \in DiskFiles, StopService("log", v, d),
             d.status["main"] = disk.status["main"]
      PROVE  Apart
  <2>1. PICK ok \in Customized("log") :
          /\ proc' = Kill(proc, v.pid, StopSignals(v, ok))
          /\ \E w : /\ svd' = [svd EXCEPT !["log"] = w]
                    /\ (disk' = d) \/ (disk' = UpdateStatus(d, "log", w))
    BY <1>3 DEF StopService
  <2>2. v.pid \in Pid \cup {0} /\ StopSignals(v, ok) \in SUBSET Signal
    BY StopSignalsType DEF Svdir
  <2>3. RunsGoOn
    BY <2>1, <2>2, RunsKilled
  <2>4. PICK w : /\ svd' = [svd EXCEPT !["log"] = w]
                 /\ (disk' = d) \/ (disk' = UpdateStatus(d, "log", w))
    BY <2>1
  <2>5. svd'["main"] = svd["main"]
    BY <1>0, <2>4
  <2>6. disk'.status["main"] = disk.status["main"]
    BY <1>0, <1>3, <2>4 DEF UpdateStatus, DiskFiles
  <2> QED
    BY <2>3, <2>5, <2>6 DEF Apart
<1>4. ASSUME NEW d, NEW signal \in Signal, SendSignal("log", d, signal) PROVE RunsGoOn
  <2>1. proc' = proc \/ proc' = Kill(proc, svd["log"].pid, {signal})
    BY <1>4 DEF SendSignal
  <2> QED
    BY <1>0, <2>1, RunsSame, RunsKilled
<1>5. proc' = proc => RunsGoOn
  BY RunsSame
<1>6. ASSUME NEW want \in Want, Up("log", want) PROVE Apart
  <2> DEFINE v == [svd["log"] EXCEPT !.want = want]
  <2>1. v \in Svdir
    BY <1>0 DEF Svdir
  <2>2. StartService("log", v) \/ (Record("log", v) /\ proc' = proc)
    BY <1>6 DEF Up
  <2> HIDE DEF v
  <2> QED
    BY <1>1, <1>2, <1>5, <2>1, <2>2
<1>7. ASSUME NEW want \in Want, Down("log", want) PROVE Apart
  <2> DEFINE v == [svd["log"] EXCEPT !.want = want]
             d == UpdateStatus(disk, "log", v)
  <2>1. v \in Svdir
    BY <1>0 DEF Svdir
  <2>2. StopService("log", v, d) \/ (Record("log", v) /\ proc' = proc)
    BY <1>7 DEF Down
  <2>3. d \in DiskFiles /\ d.status["main"] = disk.status["main"]
    <3> HIDE DEF v
    <3>1. d \in DiskFiles
      BY <1>0, <2>1, DiskType DEF DiskFiles
    <3> QED
      BY <1>0, <3>1 DEF UpdateStatus, DiskFiles
  <2> HIDE DEF v, d
  <2> QED
    BY <1>2, <1>3, <1>5, <2>1, <2>2, <2>3
<1>8. CASE \E want \in Want : Up("log", want) \/ Down("log", want)
  BY <1>6, <1>7, <1>8
<1>9. CASE Term("log")
  <2>1. StopService("log", svd["log"], disk) \/ UNCHANGED service
    BY <1>9 DEF Term
  <2> QED
    BY <1>0, <1>3, <1>5, <2>1 DEF service, Apart
<1>10. CASE KillService("log")
  <2>1. RunsGoOn /\ disk' = disk
    BY <1>4, <1>10 DEF KillService, Signal
  <2>2. svd' = [svd EXCEPT !["log"].state = "down"]
    BY <1>10 DEF KillService
  <2>3. svd'["main"] = svd["main"]
    BY <1>0, <2>2
  <2> QED
    BY <2>1, <2>3 DEF Apart
<1>11. CASE Pause("log") \/ Cont("log")
  <2>1. RunsGoOn
    BY <1>4, <1>11 DEF Pause, Cont, Signal
  <2>2. \E v : Record("log", v)
    BY <1>11 DEF Pause, Cont
  <2> QED
    BY <1>2, <2>1, <2>2
<1>12. CASE Forward("log", c)
  <2>1. PICK e \in Plain : SendSignal("log", c, e[2]) /\ UNCHANGED <<svd, disk>>
    BY <1>12 DEF Forward
  <2>2. e[2] \in Signal
    BY DEF Plain, Signal
  <2> QED
    BY <1>4, <2>1, <2>2 DEF Apart
<1>13. CASE UNCHANGED service
  BY <1>5, <1>13 DEF service, Apart
<1>14. {"up", "down", "exit"} \subseteq Want
  BY DEF Want
<1> QED
  BY <1>8, <1>9, <1>10, <1>11, <1>12, <1>13, <1>14 DEF Ctrl, Ignore

LEMMA LogTold ==
  ASSUME ServiceType, TermInv, NEW c, Ctrl("log", c)
  PROVE  TermInv' /\ (Stopping => Stopping')
  BY LogApart, OthersTold DEF Apart

\* A reaped ./run is no longer there.
LEMMA ReapTold ==
  ASSUME ServiceType, TermInv, NEW p \in Pid, Reap(p)
  PROVE  TermInv' /\ (Stopping => Stopping')
<1>1. /\ proc \in Table /\ proc[p].st = "zombie" /\ proc' = Wait(proc, p)
      /\ svd \in [Service -> Svdir] /\ disk \in DiskFiles
      /\ "main" \in Service /\ "log" \in Service
  BY DEF Reap, Zombies, ServiceType, DiskFiles, Service
<1>2. RunsGoOn /\ p \notin Runs'
  BY <1>1 DEF RunsGoOn, Runs, Live, Wait, Table, Blank
<1>3. CASE UNCHANGED <<svd, disk>>
  BY <1>2, <1>3, OthersTold
<1>4. ASSUME NEW s \in Service, ReapService(s, p)
      PROVE  TermInv' /\ (Stopping => Stopping')
  <2> DEFINE v == [svd[s] EXCEPT !.pid = 0, !.term = FALSE,
                     !.state = IF FinishDue(s) THEN "finish" ELSE "down",
                     !.wstat = IF s = "main" THEN proc[p].role ELSE @]
  <2>1. v.want = svd[s].want
    BY <1>1 DEF Svdir
  <2>2. svd[s].pid = p /\ svd' = [svd EXCEPT ![s] = v] /\ disk' = UpdatePid(disk, s, v)
    BY <1>4 DEF ReapService
  <2> HIDE DEF v
  <2>3. /\ svd'[s] = v /\ \A r \in Service : r # s => svd'[r] = svd[r]
        /\ disk'.status[s] = Status(v)
        /\ \A r \in Service : r # s => disk'.status[r] = disk.status[r]
    BY <1>1, <2>2 DEF UpdatePid, DiskFiles
  <2>4. CASE s = "main"
    <3>1. TermInv' /\ (Stopping /\ svd'["main"].want # "up" => Stopping')
      BY <1>2, <2>2, <2>3, <2>4, RecordTold DEF Status
    <3> QED
      BY <2>1, <2>3, <2>4, <3>1 DEF Stopping
  <2>5. CASE s # "main"
    BY <1>1, <1>2, <2>3, <2>5, OthersTold
  <2> QED
    BY <2>4, <2>5
<1> QED
  BY <1>3, <1>4 DEF Reap, ReapUnknown

-----------------------------------------------------------------------------
(* The control pipe. *)

Quiet == ~Unread("u") /\ ~Unread("o")

\* The stop has been read or will be, and nothing after it revokes it.
Heeded == Quiet /\ (Stopping \/ Unread("d"))

LEMMA UnreadTail ==
  ASSUME control["main"] \in Seq(AllCommands), control["main"] # <<>>,
         control'["main"] = Tail(control["main"]), NEW c
  PROVE  Unread(c) <=> c = Head(control["main"]) \/ Unread(c)'
<1> DEFINE s == control["main"]
           t == control'["main"]
<1>1. /\ Len(s) \in Nat /\ Len(s) # 0 /\ DOMAIN s = 1..Len(s)
      /\ DOMAIN t = 1..(Len(s) - 1) /\ Head(s) = s[1]
      /\ \A i \in 1..(Len(s) - 1) : t[i] = s[i + 1]
  OBVIOUS
<1> HIDE DEF s, t
<1>2. ASSUME NEW i \in DOMAIN s, s[i] = c
      PROVE  c = Head(s) \/ \E j \in DOMAIN t : t[j] = c
  <2>1. CASE i = 1
    BY <1>1, <1>2, <2>1
  <2>2. CASE i # 1
    <3>1. i - 1 \in 1..(Len(s) - 1) /\ t[i - 1] = s[i]
      BY <1>1, <2>2
    <3> QED
      BY <1>1, <1>2, <3>1
  <2> QED
    BY <2>1, <2>2
<1>3. ASSUME NEW j \in DOMAIN t, t[j] = c
      PROVE  \E i \in DOMAIN s : s[i] = c
  BY <1>1, <1>3
<1>4. c = Head(s) => \E i \in DOMAIN s : s[i] = c
  BY <1>1
<1> QED
  BY <1>2, <1>3, <1>4 DEF Unread, s, t

LEMMA UnreadPut ==
  ASSUME control["main"] \in Seq(AllCommands), NEW text \in Seq(AllCommands),
         control'["main"] = control["main"] \o text, NEW c
  PROVE  Unread(c)' <=> Unread(c) \/ \E i \in DOMAIN text : text[i] = c
<1> DEFINE s == control["main"]
           t == control'["main"]
<1>1. /\ Len(s) \in Nat /\ Len(text) \in Nat
      /\ DOMAIN s = 1..Len(s) /\ DOMAIN text = 1..Len(text)
      /\ DOMAIN t = 1..(Len(s) + Len(text))
      /\ \A i \in 1..Len(s) : t[i] = s[i]
      /\ \A i \in 1..Len(text) : t[Len(s) + i] = text[i]
  OBVIOUS
<1> HIDE DEF s, t
<1>2. ASSUME NEW i \in DOMAIN t, t[i] = c
      PROVE  (\E j \in DOMAIN s : s[j] = c) \/ \E j \in DOMAIN text : text[j] = c
  <2>1. CASE i <= Len(s)
    BY <1>1, <1>2, <2>1
  <2>2. CASE i > Len(s)
    <3>1. i - Len(s) \in 1..Len(text) /\ Len(s) + (i - Len(s)) = i
      BY <1>1, <2>2
    <3>2. text[i - Len(s)] = c
      BY <1>1, <1>2, <3>1
    <3> QED
      BY <1>1, <3>1, <3>2
  <2> QED
    BY <1>1, <2>1, <2>2
<1>3. ASSUME NEW j \in DOMAIN s, s[j] = c PROVE \E i \in DOMAIN t : t[i] = c
  BY <1>1, <1>3
<1>4. ASSUME NEW j \in DOMAIN text, text[j] = c PROVE \E i \in DOMAIN t : t[i] = c
  <2>1. Len(s) + j \in DOMAIN t /\ t[Len(s) + j] = c
    BY <1>1, <1>4
  <2> QED
    BY <2>1
<1> QED
  BY <1>2, <1>3, <1>4 DEF Unread, s, t

LEMMA HeededSame ==
  ASSUME TermInv' /\ (Stopping => Stopping'), control'["main"] = control["main"]
  PROVE  TermInv' /\ (Quiet => Quiet') /\ (Heeded => Heeded')
  BY DEF Quiet, Heeded, Unread

\* Nobody else writes a command that revokes a stop.
NoRevoking == Commands \cap {"u", "o"} = {}

LEMMA NextHeeded ==
  ASSUME TypeOK, TermInv, NoCustomEnd, NoRevoking, [Next]_vars
  PROVE  TermInv' /\ (Quiet => Quiet') /\ (Heeded => Heeded')
<1>0. /\ ServiceType /\ control["main"] \in Seq(AllCommands)
      /\ control \in [Service -> Seq(AllCommands)]
      /\ "main" \in Service /\ "log" \in Service /\ "main" # "log"
  BY DEF TypeOK, ServiceType, Service
<1>1. ASSUME UNCHANGED <<svd, proc, disk>> PROVE TermInv' /\ (Stopping => Stopping')
  BY <1>1, RunsSame, OthersTold
<1>2. CASE UNCHANGED <<svd, proc, disk, control>>
  BY <1>1, <1>2, HeededSame
<1>3. CASE StartLog
  <2>1. UNCHANGED <<svd, proc, disk>> \/ StartService("log", svd["log"])
    BY <1>3 DEF StartLog, StartOrSkip, service
  <2>2. ASSUME StartService("log", svd["log"])
        PROVE  TermInv' /\ (Stopping => Stopping')
    <3>1. PICK v \in Svdir : v = svd["log"]
      BY <1>0, RunsType
    <3>2. StartService("log", v)
      BY <2>2, <3>1
    <3>3. /\ svd'["main"] = svd["main"] /\ disk'.status["main"] = disk.status["main"]
          /\ \A p \in Runs' : p \in Runs /\ Ending \cap proc[p].sigs \subseteq proc'[p].sigs
      <4>1. ServiceType /\ "log" \in Service
        BY <1>0
      <4>2. /\ \A r \in Service : r # "log" => svd'[r] = svd[r] /\ disk'.status[r] = disk.status[r]
            /\ \A p \in Runs' :
              \/ p \in Runs /\ Ending \cap proc[p].sigs \subseteq proc'[p].sigs
              \/ "log" = "main" /\ p = svd'["log"].pid /\ svd'["log"].state = "run"
        BY <3>2, <4>1, StartTold
      <4> QED
        BY <1>0, <4>2
    <3> QED
      BY <3>3, OthersTold DEF RunsGoOn
  <2>3. control' = control
    BY <1>3 DEF StartLog, StartOrSkip
  <2> QED
    BY <1>1, <2>1, <2>2, <2>3, HeededSame
<1>4. CASE StartMain
  <2>1. UNCHANGED <<svd, proc, disk>> \/ (MainDue /\ StartService("main", svd["main"]))
    BY <1>4 DEF StartMain, StartOrSkip, service
  <2>2. ASSUME MainDue, StartService("main", svd["main"])
        PROVE  TermInv' /\ (Stopping => Stopping')
    <3>1. svd["main"] \in Svdir /\ svd["main"].pid = 0
      BY <1>0, <2>2, RunsType DEF MainDue, WantStart
    <3>2. PICK v \in Svdir : v = svd["main"]
      BY <3>1
    <3>3. StartService("main", v)
      BY <2>2, <3>2
    <3>4. TermInv' /\ (Stopping /\ v.want # "up" /\ v.state = "finish" => Stopping')
      BY <1>0, <3>1, <3>3, StartMainTold
    <3> QED
      BY <2>2, <3>2, <3>4 DEF MainDue, WantStart, Stopping
  <2>3. control' = control
    BY <1>4 DEF StartMain, StartOrSkip
  <2> QED
    BY <1>1, <2>1, <2>2, <2>3, HeededSame
<1>5. ASSUME NEW p \in Pid, Reap(p) PROVE TermInv' /\ (Quiet => Quiet') /\ (Heeded => Heeded')
  BY <1>0, <1>5, ReapTold, HeededSame DEF Reap
<1>6. CASE ReadMain
  <2>1. CASE control["main"] = <<>>
    BY <1>2, <1>6, <2>1 DEF ReadMain, ReadControl, service
  <2>2. CASE control["main"] # <<>>
    <3> DEFINE c == Head(control["main"])
    <3>1. Ctrl("main", c) /\ control'["main"] = Tail(control["main"])
      BY <1>0, <1>6, <2>2 DEF ReadMain, ReadControl
    <3>2. \A b : Unread(b) <=> b = c \/ Unread(b)'
      BY <1>0, <2>2, <3>1, UnreadTail
    <3> HIDE DEF c
    <3>3. /\ TermInv'
          /\ c \notin {"u", "o"} /\ Stopping => Stopping'
          /\ c \in {"d", "x"} => Stopping'
      BY <1>0, <3>1, CtrlTold
    <3>4. Quiet => Quiet' /\ c \notin {"u", "o"}
      BY <3>2 DEF Quiet
    <3>5. Unread("d") => c = "d" \/ Unread("d")'
      BY <3>2
    <3> QED
      BY <3>3, <3>4, <3>5 DEF Heeded
  <2> QED
    BY <2>1, <2>2
<1>7. CASE ReadLog
  <2>1. UNCHANGED service \/ \E c : Ctrl("log", c)
    BY <1>7 DEF ReadLog, ReadControl
  <2>2. control'["main"] = control["main"]
    BY <1>0, <1>7 DEF ReadLog, ReadControl
  <2> QED
    BY <1>0, <1>1, <2>1, <2>2, LogTold, HeededSame DEF service
<1>8. CASE CheckTerm
  <2>1. UNCHANGED service \/ Ctrl("main", "x")
    BY <1>8 DEF CheckTerm
  <2>2. control' = control
    BY <1>8 DEF CheckTerm
  <2>3. Ctrl("main", "x") => TermInv' /\ Stopping'
    BY <1>0, CtrlTold
  <2> QED
    BY <1>1, <2>1, <2>2, <2>3, HeededSame DEF service
<1>9. CASE CloseLog
  <2>1. svd'["main"] = svd["main"] /\ disk'.status["main"] = disk.status["main"]
    BY <1>0, <1>9 DEF CloseLog, Record, UpdateStatus, ServiceType
  <2>2. proc' = proc /\ control' = control
    BY <1>9 DEF CloseLog
  <2> QED
    BY <2>1, <2>2, RunsSame, OthersTold, HeededSame
<1>10. ASSUME NEW p \in Pid, Exit(p) PROVE TermInv' /\ (Quiet => Quiet') /\ (Heeded => Heeded')
  <2>1. proc' = Die(proc, p) /\ UNCHANGED <<svd, disk, control>> /\ proc \in Table
    BY <1>0, <1>10 DEF Exit, ServiceType
  <2>2. RunsGoOn
    BY <2>1 DEF RunsGoOn, Runs, Live, Die, Table, Proc
  <2> QED
    BY <2>1, <2>2, OthersTold, HeededSame
<1>11. ASSUME NEW s \in Service, NEW c \in AllCommands, Write(s, c),
              s = "main" => c \notin {"u", "o"}
       PROVE  TermInv' /\ (Quiet => Quiet') /\ (Heeded => Heeded')
  <2>1. UNCHANGED <<svd, proc, disk>> /\ control' = [control EXCEPT ![s] = Append(@, c)]
    BY <1>11 DEF Write, service
  <2>2. CASE s # "main"
    <3>1. control'["main"] = control["main"]
      BY <1>0, <2>1, <2>2
    <3> QED
      BY <1>1, <2>1, <3>1, HeededSame
  <2>3. CASE s = "main"
    <3>1. /\ control'["main"] = control["main"] \o <<c>>
          /\ <<c>> \in Seq(AllCommands)
      BY <1>0, <2>1, <2>3
    <3>2. \A b : Unread(b)' <=> Unread(b) \/ \E i \in DOMAIN <<c>> : <<c>>[i] = b
      BY <1>0, <3>1, UnreadPut
    <3>3. \A b : Unread(b)' <=> Unread(b) \/ b = c
      BY <3>2
    <3>4. Quiet => Quiet'
      BY <1>11, <2>3, <3>3 DEF Quiet
    <3> QED
      BY <1>1, <2>1, <3>3, <3>4 DEF Heeded
  <2> QED
    BY <2>2, <2>3
<1>12. ASSUME NEW c \in Commands, Write("main", c)
       PROVE  TermInv' /\ (Quiet => Quiet') /\ (Heeded => Heeded')
  BY <1>0, <1>11, <1>12, RunsvAssumption DEF NoRevoking
<1>13. ASSUME NEW c \in LogCommands, Write("log", c)
       PROVE  TermInv' /\ (Quiet => Quiet') /\ (Heeded => Heeded')
  BY <1>0, <1>11, <1>13, RunsvAssumption
<1>14. CASE UNCHANGED vars
  BY <1>2, <1>14 DEF vars
<1>15. CASE Handle \/ Wake \/ Timeout \/ AllReaped \/ Leave \/ Loop \/ Terminate
            \/ \E s \in Service : Age(s)
  BY <1>2, <1>15 DEF Handle, Wake, Timeout, EndPoll, AllReaped, Leave, Loop, Terminate,
                     Age, service
<1> QED
  BY <1>3, <1>4, <1>5, <1>6, <1>7, <1>8, <1>9, <1>10, <1>12, <1>13, <1>14, <1>15
     DEF Next, Step, Environment

-----------------------------------------------------------------------------
(* One client. *)

OneClient == \A c, d \in Client : c = d

\* What a client that is sure of its stop has seen and done.
SureInv ==
  \A c \in Client : client[c].sure =>
    /\ client[c].at = "write" => Acts(c) = <<"d">> /\ Quiet
    /\ client[c].at = "poll" => Heeded

\* A service that is wanted down and has got its TERM needs no d.
LEMMA SkippedHeeded ==
  ASSUME ServiceType, TermInv, ~StatusNow.up, StatusNow.term, control["main"] = <<>>
  PROVE  Heeded
<1>1. Stopping
  BY DEF TermInv, StatusTold, RunsTold, Stopping, StatusNow, Ending
<1> QED
  BY <1>1 DEF Heeded, Quiet, Unread

LEMMA TermSame ==
  ASSUME TermInv, UNCHANGED <<svd, proc, disk>>
  PROVE  TermInv' /\ (Stopping => Stopping')
  BY RunsSame, OthersTold

LEMMA WorkSure ==
  ASSUME SvInv, TermInv, SureInv, OneClient, NEW c \in Client, Work(c)
  PROVE  TermInv' /\ SureInv'
<1>0. /\ client[c] \in SvClient /\ client \in [Client -> SvClient] /\ ServiceType
      /\ control["main"] \in Seq(AllCommands) /\ control \in [Service -> Seq(AllCommands)]
      /\ "main" \in Service
  BY DEF SvInv, SvTypeOK, TypeOK, ServiceType, Service
<1>1. UNCHANGED <<svd, proc, disk>>
  BY DEF Work, Control, Put, Poll, Expired, SendKill, Runsvs, service
<1>2. TermInv' /\ (Stopping => Stopping')
  BY <1>1, TermSame
<1>3. \A v : Becomes(c, v) => client'[c] = v
  BY <1>0 DEF Becomes
<1>4. SUFFICES ASSUME client'[c].sure
      PROVE  /\ client'[c].at = "write" => Acts(c)' = <<"d">> /\ Quiet'
             /\ client'[c].at = "poll" => Heeded'
  BY <1>2 DEF SureInv, OneClient
<1>5. \A result : ~Answer(c, result)
  BY <1>3, <1>4 DEF Answer, AtRest
<1>6. control'["main"] = control["main"] =>
        (Quiet => Quiet') /\ (Heeded => Heeded')
  BY <1>2, HeededSame
<1>7. CASE Control(c)
  <2> DEFINE v == [client[c] EXCEPT
                     !.sure = (Acts(c) = <<"d">> /\ control["main"] = <<>>)]
  <2>1. /\ v.at = client[c].at /\ v.action = client[c].action
        /\ v.sure = (Acts(c) = <<"d">> /\ control["main"] = <<>>)
        /\ v \in SvClient
    BY <1>0 DEF SvClient
  <2>2. \/ Skips(Acts(c), StatusNow) /\ Controlled(c, v)
        \/ Becomes(c, [v EXCEPT !.at = "write"])
    BY <1>5, <1>7 DEF Control
  <2>3. control' = control
    BY <1>7 DEF Control, Runsvs
  <2> HIDE DEF v
  <2>4. CASE Skips(Acts(c), StatusNow) /\ Controlled(c, v)
    <3>1. client'[c] = [v EXCEPT !.at = "poll"]
      BY <1>3, <1>5, <2>4 DEF Controlled
    <3>2. client'[c].at = "poll" /\ v.sure
      BY <1>4, <2>1, <3>1 DEF SvClient
    <3>3. Acts(c) = <<"d">> /\ control["main"] = <<>>
      BY <2>1, <3>2
    <3>4. ~StatusNow.up /\ StatusNow.term
      BY <2>4, <3>3 DEF Skips
    <3>5. Heeded
      BY <1>0, <3>3, <3>4, SkippedHeeded
    <3> QED
      BY <1>6, <2>3, <3>2, <3>5
  <2>5. CASE Becomes(c, [v EXCEPT !.at = "write"])
    <3>1. client'[c] = [v EXCEPT !.at = "write"]
      BY <1>3, <2>5
    <3>2. client'[c].at = "write" /\ v.sure /\ client'[c].action = client[c].action
      BY <1>4, <2>1, <3>1 DEF SvClient
    <3>3. Acts(c) = <<"d">> /\ control["main"] = <<>>
      BY <2>1, <3>2
    <3>4. Quiet
      BY <3>3 DEF Quiet, Unread
    <3> QED
      BY <1>6, <2>3, <3>2, <3>3, <3>4 DEF Acts
  <2> QED
    BY <2>2, <2>4, <2>5
<1>8. CASE Put(c)
  <2>1. /\ control' = [control EXCEPT !["main"] = @ \o Acts(c)]
        /\ Controlled(c, client[c])
    BY <1>5, <1>8 DEF Put
  <2>2. client'[c] = [client[c] EXCEPT !.at = "poll"]
    BY <1>3, <1>5, <2>1 DEF Controlled
  <2>3. client'[c].at = "poll" /\ client[c].sure
    BY <1>0, <1>4, <2>2 DEF SvClient
  <2>4. Acts(c) = <<"d">> /\ Quiet
    BY <1>8, <2>3 DEF Put, SureInv
  <2>5. control'["main"] = control["main"] \o <<"d">> /\ <<"d">> \in Seq(AllCommands)
    BY <1>0, <2>1, <2>4 DEF AllCommands
  <2>6. \A b : Unread(b)' <=> Unread(b) \/ \E i \in DOMAIN <<"d">> : <<"d">>[i] = b
    BY <1>0, <2>5, UnreadPut
  <2>7. \A b : Unread(b)' <=> Unread(b) \/ b = "d"
    BY <2>6
  <2>8. Heeded'
    BY <2>4, <2>7 DEF Heeded, Quiet
  <2> QED
    BY <2>3, <2>8
<1>9. CASE Poll(c)
  <2>1. Go(c, "expired") \/ \E late \in BOOLEAN : Becomes(c, [client[c] EXCEPT !.late = late])
    BY <1>5, <1>9 DEF Poll
  <2>2. client[c].at = "poll" /\ control' = control
    BY <1>9 DEF Poll, Runsvs
  <2>3. CASE Go(c, "expired")
    <3>1. client'[c].at = "expired"
      BY <1>0, <1>3, <2>3 DEF Go, SvClient
    <3> QED
      BY <3>1
  <2>4. ASSUME NEW late \in BOOLEAN, Becomes(c, [client[c] EXCEPT !.late = late])
        PROVE  client'[c].at = "poll" /\ client[c].sure
    BY <1>0, <1>3, <1>4, <2>2, <2>4 DEF SvClient
  <2> QED
    BY <1>6, <2>1, <2>2, <2>3, <2>4 DEF SureInv
<1>10. CASE Expired(c)
  <2>1. Go(c, "kill")
    BY <1>5, <1>10 DEF Expired
  <2>2. client'[c].at = "kill"
    BY <1>0, <1>3, <2>1 DEF Go, SvClient
  <2> QED
    BY <2>2
<1>11. CASE SendKill(c)
  BY <1>5, <1>11 DEF SendKill
<1> QED
  BY <1>7, <1>8, <1>9, <1>10, <1>11 DEF Work

LEMMA BeginSure ==
  ASSUME SvInv, TermInv, SureInv, OneClient, NEW c \in Client, NEW action, Begin(c, action)
  PROVE  TermInv' /\ SureInv'
<1>1. TermInv'
  BY TermSame DEF Begin, Runsvs
<1>2. client' = [client EXCEPT ![c] =
                   [AtRest(IF action = Check THEN "poll" ELSE "control", action)
                      EXCEPT !.stamp = IF fresh THEN "same" ELSE "older"]]
      /\ client \in [Client -> SvClient]
  BY DEF Begin, Becomes, SvInv, SvTypeOK
<1>3. client'[c].sure = FALSE
  BY <1>2 DEF AtRest
<1> QED
  BY <1>1, <1>3 DEF SureInv, OneClient

LEMMA ObserveSure ==
  ASSUME SvTypeOK, SureInv, Observe, Quiet => Quiet', Heeded => Heeded'
  PROVE  SureInv'
<1>1. ASSUME NEW c \in Client
      PROVE  /\ client'[c].sure = client[c].sure /\ client'[c].at = client[c].at
             /\ client'[c].action = client[c].action
  <2>1. client[c] \in SvClient
    BY DEF SvTypeOK
  <2>2. CASE client[c].at \in Idle
    BY <2>1, <2>2 DEF Observe
  <2>3. CASE client[c].at \notin Idle
    <3>1. client'[c] =
            [client[c] EXCEPT !.stamp = IF Restamped THEN "since" ELSE @,
                              !.ran = @ \/ Starts("main", "run")]
      BY <2>3 DEF Observe
    <3> QED
      BY <2>1, <3>1 DEF SvClient
  <2> QED
    BY <2>2, <2>3
<1> QED
  BY <1>1 DEF SureInv, Acts

LEMMA SvNextSure ==
  ASSUME OneClient, NoRevoking, NoCustomEnd
  PROVE  SvInv /\ TermInv /\ SureInv /\ [SvNext]_svvars => TermInv' /\ SureInv'
<1> SUFFICES ASSUME SvInv, TermInv, SureInv, [SvNext]_svvars PROVE TermInv' /\ SureInv'
  OBVIOUS
<1>1. CASE Next /\ Observe
  BY <1>1, NextHeeded, ObserveSure DEF SvInv
<1>2. CASE Second \/ UNCHANGED svvars
  <2>1. UNCHANGED <<svd, proc, disk, control, client>>
    BY <1>2 DEF Second, Runsvs, svvars, vars
  <2>2. TermInv' /\ (Quiet => Quiet') /\ (Heeded => Heeded')
    BY <2>1, TermSame, HeededSame
  <2> QED
    BY <2>1, <2>2 DEF SureInv, Acts
<1>3. CASE \E c \in Client : Work(c) \/ \E action \in Actions : Begin(c, action)
  BY <1>3, WorkSure, BeginSure
<1> QED
  BY <1>1, <1>2, <1>3 DEF SvNext

LEMMA SvInitSure == SvInit => TermInv /\ SureInv
<1> SUFFICES ASSUME SvInit PROVE TermInv /\ SureInv
  OBVIOUS
<1>1. "main" \in Service /\ Init
  BY DEF Service, SvInit
<1>2. svd["main"].term = FALSE /\ \A p \in Pid : proc[p].st = "free"
  BY <1>1 DEF Init, Fresh, NoProcesses, Blank
<1>3. disk.status["main"] = Status(svd["main"])
  BY <1>1 DEF Init
<1>4. TermInv
  BY <1>2, <1>3 DEF TermInv, StatusTold, RunsTold, Runs, Live, Status
<1>5. SureInv
  BY DEF SvInit, SureInv, AtRest
<1> QED
  BY <1>4, <1>5

(* sv stop never waits in vain, whatever its other commands were, for a      *)
(* service that was told to run once too, unless ./control/t or ./control/k  *)
(* takes the place of the signal, another client calls the service back, or  *)
(* something was unread when sv looked at the status.                        *)
THEOREM StopIsUnderWay ==
  ASSUME OneClient, NoRevoking, NoCustomEnd
  PROVE  SvSpec => []StopUnderWay
<1>1. SvInv /\ SureInv => StopUnderWay
  <2> SUFFICES ASSUME SureInv, NEW c \in Client, client[c].at = "poll", client[c].sure,
                      control["main"] = <<>>
               PROVE  /\ svd["main"].want # "up"
                      /\ \A p \in Live(proc) :
                           proc[p].sv = "main" /\ proc[p].role = "run" =>
                             {"TERM", "KILL"} \cap proc[p].sigs # {}
    BY DEF StopUnderWay
  <2>1. Stopping
    BY DEF SureInv, Heeded, Unread
  <2> QED
    BY <2>1 DEF Stopping, Runs, Ending
<1>2. SvInit => SvInv /\ TermInv /\ SureInv
  BY SvInitInv, SvInitSure
<1>3. SvInv /\ TermInv /\ SureInv /\ [SvNext]_svvars => (SvInv /\ TermInv /\ SureInv)'
  BY SvNextInv, SvNextSure
<1> QED
  BY <1>1, <1>2, <1>3, PTL DEF SvSpec

-----------------------------------------------------------------------------
(* What ok tells. *)

\* supervise/status says of main what the record does, but for a state that k
\* has put down since.
StatusSaid ==
  /\ disk.status["main"].pid = svd["main"].pid
  /\ disk.status["main"].up = (svd["main"].want = "up")
  /\ disk.status["main"].term = svd["main"].term
  /\ \/ disk.status["main"].state = svd["main"].state
     \/ svd["main"].state = "down"

\* The pid of main changes when a child is started or reaped only, and no
\* other step makes the service anything but down.
MainMoves ==
  \/ /\ svd'["main"].pid = svd["main"].pid
     /\ svd'["main"].state \in {svd["main"].state, "down"}
  \/ Starts("main", "run")
  \/ svd["main"].state = "finish" /\ svd'["main"].state = "finish"
  \/ /\ svd["main"].pid # 0 /\ svd'["main"].pid = 0
     /\ svd'["main"].state \in {"finish", "down"}

Said == StatusSaid' /\ MainMoves

\* A new time stamp that no start of ./run has made is that of a service that
\* has gone down, and is down still.
StampInv ==
  \A c \in Client :
    client[c].at \notin Idle /\ client[c].stamp = "since" /\ ~client[c].ran =>
      svd["main"].pid = 0 /\ svd["main"].state = "down"

LEMMA StartSaid ==
  ASSUME ServiceType, NEW v \in Svdir, v.state = svd["main"].state, StartService("main", v)
  PROVE  Said
<1>0. "main" \in Service
  BY DEF Service
<1>1. PICK p \in Free(proc), ok \in Customized("main") :
        LET w == [v EXCEPT !.pid = p, !.term = FALSE, !.paused = FALSE,
                           !.state = IF @ = "finish" THEN @ ELSE "run"]
            stopped == IF v.pid = 0 THEN proc
                       ELSE Kill(proc, v.pid, StopSignals(v, ok))
        IN proc' = Fork(stopped, p, "main", w.state, HasLog => logpipe)
  BY DEF StartService
<1> DEFINE t == IF v.pid = 0 THEN proc ELSE Kill(proc, v.pid, StopSignals(v, ok))
           state == IF v.state = "finish" THEN "finish" ELSE "run"
           execs == HasLog => logpipe
<1>2. proc' = Fork(t, p, "main", state, execs)
  BY <1>1 DEF Svdir
<1>3. t \in Table
  <2>1. proc \in Table /\ v.pid \in Pid \cup {0} /\ StopSignals(v, ok) \in SUBSET Signal
    BY StopSignalsType DEF ServiceType, Svdir
  <2> QED
    BY <2>1, KillTable
<1>4. state \in Role /\ execs \in BOOLEAN /\ p \in Pid
  BY DEF Role, Free
<1>5. v.state # "finish" => state = "run"
  OBVIOUS
<1> HIDE DEF t, state, execs
<1>6. proc'[p] = [st |-> "live", sv |-> "main", role |-> state, execs |-> execs,
                  sigs |-> t[p].sigs]
  BY <1>0, <1>2, <1>3, <1>4, ForkTable
<1>7. v.state # "finish" => Starts("main", "run")
  BY <1>5, <1>6 DEF Starts
<1>8. /\ svd'["main"].state = IF v.state = "finish" THEN "finish" ELSE "run"
      /\ disk'.status["main"] = Status(svd'["main"])
  BY <1>0, StartTold
<1> QED
  BY <1>7, <1>8 DEF Said, StatusSaid, Status, MainMoves

\* The record of main is written with the same child.
LEMMA RecordSaid ==
  ASSUME svd'["main"].pid = svd["main"].pid,
         svd'["main"].state \in {svd["main"].state, "down"},
         disk'.status["main"] = Status(svd'["main"])
  PROVE  Said
  BY DEF Said, StatusSaid, Status, MainMoves

LEMMA SameSaid ==
  ASSUME StatusSaid, svd'["main"] = svd["main"],
         disk'.status["main"] = disk.status["main"]
  PROVE  Said
  BY DEF Said, StatusSaid, MainMoves

\* The record that stopservice gets is on the disk already.
LEMMA StopSaid ==
  ASSUME ServiceType, NEW v \in Svdir, v.pid = svd["main"].pid,
         v.state = svd["main"].state, NEW d \in DiskFiles,
         d.status["main"].pid = v.pid, d.status["main"].up = (v.want = "up"),
         d.status["main"].term = v.term,
         d.status["main"].state = v.state \/ v.state = "down",
         StopService("main", v, d)
  PROVE  Said
<1>1. PICK ok \in Customized("main") :
        /\ svd' = [svd EXCEPT !["main"] =
                     [v EXCEPT !.term = @ \/ "TERM" \in StopSignals(v, ok)]]
        /\ disk' = IF "TERM" \in StopSignals(v, ok)
                     THEN UpdateStatus(d, "main",
                            [v EXCEPT !.term = @ \/ "TERM" \in StopSignals(v, ok)])
                     ELSE d
  BY DEF StopService
<1> DEFINE S == StopSignals(v, ok)
           w == [v EXCEPT !.term = @ \/ "TERM" \in S]
<1>2. /\ w \in Svdir /\ w.want = v.want /\ w.state = v.state /\ w.pid = v.pid
      /\ "TERM" \notin S => w = v
  BY DEF Svdir
<1>3. /\ svd' = [svd EXCEPT !["main"] = w]
      /\ disk' = IF "TERM" \in S THEN UpdateStatus(d, "main", w) ELSE d
  BY <1>1
<1> HIDE DEF w, S
<1>4. svd'["main"] = w /\ "main" \in Service
  BY <1>3 DEF ServiceType, Service
<1>5. CASE "TERM" \in S
  <2>1. disk'.status["main"] = Status(w)
    BY <1>3, <1>4, <1>5 DEF UpdateStatus, DiskFiles
  <2> QED
    BY <1>2, <1>4, <2>1, RecordSaid
<1>6. CASE "TERM" \notin S
  <2>1. svd'["main"] = v /\ disk' = d
    BY <1>2, <1>3, <1>4, <1>6
  <2> QED
    BY <2>1 DEF Said, StatusSaid, MainMoves
<1> QED
  BY <1>5, <1>6

LEMMA WantSaid ==
  ASSUME ServiceType, NEW want \in Want, Up("main", want) \/ Down("main", want)
  PROVE  Said
<1> DEFINE v == [svd["main"] EXCEPT !.want = want]
           d == UpdateStatus(disk, "main", v)
<1>1. /\ v \in Svdir /\ v.pid = svd["main"].pid /\ v.state = svd["main"].state
  BY RunsType DEF Svdir
<1>2. "main" \in Service /\ disk \in DiskFiles /\ svd \in [Service -> Svdir]
  BY DEF Service, ServiceType, DiskFiles
<1>3. \/ StartService("main", v) \/ StopService("main", v, d) \/ Record("main", v)
  BY DEF Up, Down
<1>4. d \in DiskFiles /\ d.status["main"] = Status(v)
  <2> HIDE DEF v
  <2>1. d \in DiskFiles
    BY <1>1, <1>2, DiskType DEF DiskFiles
  <2> QED
    BY <1>2, <2>1 DEF UpdateStatus, DiskFiles
<1>5. d = UpdateStatus(disk, "main", v)
  OBVIOUS
<1> HIDE DEF v, d
<1>6. CASE StartService("main", v)
  BY <1>1, <1>6, StartSaid
<1>7. CASE StopService("main", v, d)
  BY <1>1, <1>4, <1>7, StopSaid DEF Status
<1>8. CASE Record("main", v)
  <2>1. svd'["main"] = v /\ disk'.status["main"] = Status(v)
    BY <1>2, <1>4, <1>5, <1>8 DEF Record
  <2> QED
    BY <1>1, <2>1, RecordSaid
<1> QED
  BY <1>3, <1>6, <1>7, <1>8

LEMMA CtrlSaid ==
  ASSUME ServiceType, StatusSaid, NEW c, Ctrl("main", c)
  PROVE  Said
<1>0. /\ "main" \in Service /\ disk \in DiskFiles /\ svd \in [Service -> Svdir]
      /\ svd["main"] \in Svdir
  BY RunsType DEF Service, ServiceType, DiskFiles
<1>1. {"up", "down", "exit"} \subseteq Want
  BY DEF Want
<1>2. CASE \E want \in Want : Up("main", want) \/ Down("main", want)
  BY <1>2, WantSaid
<1>3. CASE Term("main")
  <2>1. CASE UNCHANGED service
    BY <2>1, SameSaid DEF service
  <2>2. CASE StopService("main", svd["main"], disk)
    BY <1>0, <2>2, StopSaid DEF StatusSaid
  <2> QED
    BY <1>3, <2>1, <2>2 DEF Term
<1>4. CASE KillService("main")
  <2> DEFINE v == [svd["main"] EXCEPT !.state = "down"]
  <2>1. /\ v.pid = svd["main"].pid /\ v.want = svd["main"].want
        /\ v.term = svd["main"].term /\ v.state = "down"
    BY <1>0 DEF Svdir
  <2>2. svd' = [svd EXCEPT !["main"] = v] /\ disk' = disk
    BY <1>4 DEF KillService
  <2> HIDE DEF v
  <2>3. svd'["main"] = v
    BY <1>0, <2>2
  <2> QED
    BY <2>1, <2>2, <2>3 DEF Said, StatusSaid, MainMoves
<1>5. ASSUME NEW b \in BOOLEAN, Record("main", [svd["main"] EXCEPT !.paused = b])
      PROVE  Said
  <2> DEFINE v == [svd["main"] EXCEPT !.paused = b]
  <2>1. v.pid = svd["main"].pid /\ v.state = svd["main"].state
    BY <1>0 DEF Svdir
  <2>2. Record("main", v)
    BY <1>5
  <2> HIDE DEF v
  <2>3. svd'["main"] = v /\ disk'.status["main"] = Status(v)
    BY <1>0, <2>2 DEF Record, UpdateStatus, DiskFiles
  <2> QED
    BY <2>1, <2>3, RecordSaid
<1>6. CASE Pause("main") \/ Cont("main")
  BY <1>5, <1>6 DEF Pause, Cont
<1>7. CASE Forward("main", c) \/ UNCHANGED service
  BY <1>7, SameSaid DEF Forward, service
<1> QED
  BY <1>1, <1>2, <1>3, <1>4, <1>6, <1>7 DEF Ctrl, Ignore

LEMMA ReapSaid ==
  ASSUME ServiceType, StatusSaid, NEW p \in Pid, Reap(p)
  PROVE  Said
<1>1. /\ svd \in [Service -> Svdir] /\ disk \in DiskFiles
      /\ "main" \in Service /\ "log" \in Service
  BY DEF ServiceType, DiskFiles, Service
<1>2. CASE UNCHANGED <<svd, disk>>
  BY <1>2, SameSaid
<1>3. ASSUME NEW s \in Service, ReapService(s, p)
      PROVE  Said
  <2> DEFINE v == [svd[s] EXCEPT !.pid = 0, !.term = FALSE,
                     !.state = IF FinishDue(s) THEN "finish" ELSE "down",
                     !.wstat = IF s = "main" THEN proc[p].role ELSE @]
  <2>1. v.pid = 0 /\ v.state \in {"finish", "down"}
    BY <1>1 DEF Svdir
  <2>2. svd[s].pid = p /\ svd' = [svd EXCEPT ![s] = v] /\ disk' = UpdatePid(disk, s, v)
    BY <1>3 DEF ReapService
  <2> HIDE DEF v
  <2>3. /\ svd'[s] = v /\ \A r \in Service : r # s => svd'[r] = svd[r]
        /\ disk'.status[s] = Status(v)
        /\ \A r \in Service : r # s => disk'.status[r] = disk.status[r]
    BY <1>1, <2>2 DEF UpdatePid, DiskFiles
  <2>4. p # 0
    BY PidAssumption
  <2>5. CASE s = "main"
    BY <2>1, <2>2, <2>3, <2>4, <2>5 DEF Said, StatusSaid, Status, MainMoves
  <2>6. CASE s # "main"
    BY <1>1, <2>3, <2>6, SameSaid
  <2> QED
    BY <2>5, <2>6
<1> QED
  BY <1>2, <1>3 DEF Reap, ReapUnknown

LEMMA NextSaid ==
  ASSUME TypeOK, StatusSaid, [Next]_vars
  PROVE  Said
<1>0. /\ ServiceType /\ "main" \in Service /\ "log" \in Service /\ "main" # "log"
  BY DEF TypeOK, ServiceType, Service
<1>1. CASE UNCHANGED <<svd, disk>>
  BY <1>1, SameSaid
<1>2. ASSUME UNCHANGED service \/ Apart PROVE Said
  BY <1>2, SameSaid DEF service, Apart
<1>3. CASE StartLog
  <2>1. ASSUME StartService("log", svd["log"])
        PROVE  Said
    <3>1. PICK v \in Svdir : v = svd["log"]
      BY <1>0, RunsType
    <3>2. StartService("log", v)
      BY <2>1, <3>1
    <3>3. \A r \in Service : r # "log" => svd'[r] = svd[r] /\ disk'.status[r] = disk.status[r]
      BY <1>0, <3>2, StartTold
    <3> QED
      BY <1>0, <3>3, SameSaid
  <2> QED
    BY <1>2, <1>3, <2>1 DEF StartLog, StartOrSkip
<1>4. CASE StartMain
  <2>1. ASSUME StartService("main", svd["main"])
        PROVE  Said
    <3>1. PICK v \in Svdir : v = svd["main"]
      BY <1>0, RunsType
    <3>2. StartService("main", v)
      BY <2>1, <3>1
    <3> QED
      BY <1>0, <3>1, <3>2, StartSaid
  <2> QED
    BY <1>2, <1>4, <2>1 DEF StartMain, StartOrSkip
<1>5. ASSUME NEW p \in Pid, Reap(p) PROVE Said
  BY <1>0, <1>5, ReapSaid
<1>6. CASE ReadMain \/ CheckTerm
  <2>1. UNCHANGED service \/ \E c : Ctrl("main", c)
    BY <1>6 DEF ReadMain, ReadControl, CheckTerm
  <2> QED
    BY <1>0, <1>2, <2>1, CtrlSaid
<1>7. CASE ReadLog
  <2>1. UNCHANGED service \/ \E c : Ctrl("log", c)
    BY <1>7 DEF ReadLog, ReadControl
  <2> QED
    BY <1>0, <1>2, <2>1, LogApart
<1>8. CASE CloseLog
  <2>1. svd'["main"] = svd["main"] /\ disk'.status["main"] = disk.status["main"]
    BY <1>0, <1>8 DEF CloseLog, Record, UpdateStatus, ServiceType
  <2> QED
    BY <2>1, SameSaid
<1>9. CASE UNCHANGED vars
  BY <1>1, <1>9 DEF vars
<1>10. CASE \/ Handle \/ Wake \/ Timeout \/ AllReaped \/ Leave \/ Loop
            \/ Environment
  BY <1>1, <1>10 DEF Handle, Wake, Timeout, EndPoll, AllReaped, Leave, Loop, Environment,
                     Exit, Write, Terminate, Age, service
<1> QED
  BY <1>3, <1>4, <1>5, <1>6, <1>7, <1>8, <1>9, <1>10 DEF Next, Step

\* Clients.
LEMMA ObserveStamp ==
  ASSUME TypeOK, SvTypeOK, StampInv, MainMoves, TypeOK', Observe
  PROVE  StampInv'
<1>1. svd["main"] \in Svdir /\ svd'["main"] \in Svdir
  BY DEF TypeOK, Service
<1>2. SUFFICES ASSUME NEW c \in Client, client'[c].at \notin Idle,
                      client'[c].stamp = "since", ~client'[c].ran
               PROVE  svd'["main"].pid = 0 /\ svd'["main"].state = "down"
  BY DEF StampInv
<1>3. client[c] \in SvClient
  BY DEF SvTypeOK
<1>4. client[c].at \notin Idle
  BY <1>2 DEF Observe
<1>5. client'[c] =
        [client[c] EXCEPT !.stamp = IF Restamped THEN "since" ELSE @,
                          !.ran = @ \/ Starts("main", "run")]
  BY <1>4 DEF Observe
<1>6. ~client[c].ran /\ ~Starts("main", "run")
      /\ (Restamped \/ client[c].stamp = "since")
  BY <1>2, <1>3, <1>5 DEF SvClient
<1>7. CASE Restamped
  BY <1>6, <1>7 DEF Restamped, MainMoves
<1>8. CASE client[c].stamp = "since"
  <2>1. svd["main"].pid = 0 /\ svd["main"].state = "down"
    BY <1>4, <1>6, <1>8 DEF StampInv
  <2> QED
    BY <1>6, <2>1 DEF MainMoves
<1> QED
  BY <1>6, <1>7, <1>8

\* A call goes on as it has begun, or is over; sv finds no time stamp.
LEMMA WorkStamp ==
  ASSUME SvTypeOK, StampInv, NEW c \in Client, Work(c)
  PROVE  StampInv'
<1>0. client[c] \in SvClient /\ client \in [Client -> SvClient]
  BY DEF SvTypeOK
<1>1. \A v : Becomes(c, v) => client' = [client EXCEPT ![c] = v]
  BY DEF Becomes
<1>2. svd' = svd
  BY DEF Work, Control, Put, Poll, Expired, SendKill, Runsvs, service
<1>3. SUFFICES client'[c].at \in Idle
               \/ (/\ client[c].at \notin Idle /\ client'[c].stamp = client[c].stamp
                   /\ client'[c].ran = client[c].ran)
  <2>1. \A d \in Client : d # c => client'[d] = client[d]
    BY <1>0, <1>1 DEF Work, Control, Put, Poll, Expired, SendKill, Controlled, Answer, Go
  <2> QED
    BY <1>2, <1>3, <2>1 DEF StampInv
<1>4. client[c].at \notin Idle
  BY DEF Work, Control, Put, Poll, Expired, SendKill, Idle
<1>5. CASE \E result \in {"ok", "failed"} : Answer(c, result)
  BY <1>0, <1>1, <1>5 DEF Answer, AtRest, Idle
<1>6. ASSUME NEW v \in SvClient, v.stamp = client[c].stamp, v.ran = client[c].ran,
             NEW place, Becomes(c, [v EXCEPT !.at = place])
      PROVE  client'[c].stamp = client[c].stamp /\ client'[c].ran = client[c].ran
  BY <1>0, <1>1, <1>6 DEF SvClient
<1>7. CASE \E place : Go(c, place)
  BY <1>0, <1>4, <1>6, <1>7 DEF Go
<1>8. CASE Controlled(c, client[c])
  BY <1>0, <1>4, <1>5, <1>6, <1>8 DEF Controlled
<1>9. CASE Control(c)
  <2> DEFINE v == [client[c] EXCEPT
                     !.sure = (Acts(c) = <<"d">> /\ control["main"] = <<>>)]
  <2>1. v \in SvClient /\ v.stamp = client[c].stamp /\ v.ran = client[c].ran
    BY <1>0 DEF SvClient
  <2>2. \/ Answer(c, NotRunning(c)) \/ Controlled(c, v) \/ Becomes(c, [v EXCEPT !.at = "write"])
    BY <1>9 DEF Control
  <2> HIDE DEF v
  <2> QED
    BY <1>4, <1>5, <1>6, <2>1, <2>2, NotRunningType DEF Controlled
<1>10. CASE \E late \in BOOLEAN : Becomes(c, [client[c] EXCEPT !.late = late])
  BY <1>0, <1>1, <1>4, <1>10 DEF SvClient
<1> QED
  BY <1>5, <1>7, <1>8, <1>9, <1>10, NotRunningType
     DEF Work, Put, Poll, Expired, SendKill

LEMMA BeginStamp ==
  ASSUME SvTypeOK, StampInv, NEW c \in Client, NEW action, Begin(c, action)
  PROVE  StampInv'
<1>1. client' = [client EXCEPT ![c] =
                   [AtRest(IF action = Check THEN "poll" ELSE "control", action)
                      EXCEPT !.stamp = IF fresh THEN "same" ELSE "older"]]
      /\ client \in [Client -> SvClient]
  BY DEF Begin, Becomes, SvTypeOK
<1>2. client'[c].stamp # "since"
  BY <1>1 DEF AtRest
<1>3. \A d \in Client : d # c => client'[d] = client[d]
  BY <1>1
<1> QED
  BY <1>2, <1>3 DEF StampInv, Begin, Runsvs

OkInv == SvInv /\ StatusSaid /\ StampInv

LEMMA SvNextOk == OkInv /\ [SvNext]_svvars => OkInv'
<1> SUFFICES ASSUME OkInv, [SvNext]_svvars PROVE OkInv'
  OBVIOUS
<1>0. SvInv'
  BY SvNextInv DEF OkInv
<1>1. CASE Next /\ Observe
  BY <1>0, <1>1, NextSaid, ObserveStamp DEF OkInv, SvInv, Said
<1>2. ASSUME UNCHANGED <<svd, disk>> PROVE StatusSaid'
  BY <1>2 DEF StatusSaid, OkInv
<1>3. CASE Second \/ UNCHANGED svvars
  BY <1>0, <1>2, <1>3 DEF Second, Runsvs, svvars, vars, StampInv, OkInv
<1>4. ASSUME NEW c \in Client, Work(c) PROVE OkInv'
  <2>1. UNCHANGED <<svd, disk>>
    BY <1>4 DEF Work, Control, Put, Poll, Expired, SendKill, Runsvs, service
  <2> QED
    BY <1>0, <1>2, <1>4, <2>1, WorkStamp DEF OkInv, SvInv
<1>5. ASSUME NEW c \in Client, NEW action \in Actions, Begin(c, action) PROVE OkInv'
  BY <1>0, <1>2, <1>5, BeginStamp DEF OkInv, SvInv, Begin, Runsvs
<1> QED
  BY <1>1, <1>3, <1>4, <1>5 DEF SvNext

LEMMA SvInitOk == SvInit => OkInv
<1> SUFFICES ASSUME SvInit PROVE OkInv
  OBVIOUS
<1>1. "main" \in Service /\ Init
  BY DEF Service, SvInit
<1>2. StatusSaid
  BY <1>1 DEF Init, StatusSaid, Status
<1>3. StampInv
  BY DEF SvInit, StampInv, AtRest, Idle
<1> QED
  BY <1>2, <1>3, SvInitInv DEF OkInv

\* What the records say of main, when they are true.
LEMMA PhaseTold ==
  ASSUME TypeOK, ChildInv, RecordsTrue
  PROVE  /\ svd["main"].pid # 0 /\ svd["main"].state = "run" => MainPhase = "run"
         /\ svd["main"].pid # 0 => svd["main"].state # "down"
         /\ svd["main"].pid = 0 =>
              MainPhase = IF svd["main"].state = "finish" THEN "due" ELSE "idle"
<1> DEFINE mine == {q \in Children(proc) : proc[q].sv = "main"}
           roles == {proc[p].role : p \in mine}
<1>1. "main" \in Service /\ \A p \in Children(proc) : p \in Pid /\ p # 0 /\ proc[p] \in Proc
  BY PidAssumption DEF Service, Children, Live, Zombies, TypeOK, Table
<1>2. \A p \in mine : p = svd["main"].pid /\ proc[p].role = svd["main"].state
  BY DEF RecordsTrue, ChildKnown
<1>3. CASE svd["main"].pid = 0
  <2>1. mine = {}
    BY <1>1, <1>2, <1>3
  <2>2. roles = {}
    BY <2>1
  <2> QED
    BY <1>3, <2>2 DEF MainPhase
<1>4. CASE svd["main"].pid # 0
  <2> DEFINE p == svd["main"].pid
  <2>1. p \in Children(proc)
    BY <1>1, <1>4 DEF RecordsTrue
  <2>2. ChildKnown(p)
    BY <2>1 DEF RecordsTrue
  <2>3. proc[p].sv = "main"
    BY <1>1, <1>4 DEF ChildInv, PidsAreChildren
  <2>4. svd["main"].state \in roles /\ svd["main"].state \in Role
    BY <1>1, <2>1, <2>2, <2>3 DEF Proc, ChildKnown
  <2> QED
    BY <1>2, <1>4, <2>4 DEF MainPhase, Role
<1> QED
  BY <1>3, <1>4

\* A client that ends well has seen no runsv when told to shut it down, and
\* what it wanted in the status otherwise.
LEMMA OkSeen ==
  ASSUME SvTypeOK, NEW c \in Client, [SvNext]_svvars,
         client[c].at \in {"poll", "expired"}, client'[c].at = "ok"
  PROVE  \/ RunsvGone /\ Head(Acts(c)) = "x"
         \/ \E available \in BOOLEAN :
              \A i \in DOMAIN Acts(c) : Taken(c, Acts(c)[i], StatusNow, available)
<1>0. client[c] \in SvClient /\ client \in [Client -> SvClient]
      /\ \A d \in Client : client[d] \in SvClient
  BY DEF SvTypeOK
<1>1. \A v : Becomes(c, v) => client'[c] = v
  BY <1>0 DEF Becomes
<1>2. \A result : Answer(c, result) => result = "ok"
  BY <1>1 DEF Answer, AtRest
<1>3. Answer(c, NotRunning(c)) => Head(Acts(c)) = "x"
  BY <1>2 DEF NotRunning
<1>4. \A place : Go(c, place) => place = "ok"
  BY <1>0, <1>1 DEF Go, SvClient
<1>5. CASE Poll(c)
  <2>1. ASSUME NEW late \in BOOLEAN, Becomes(c, [client[c] EXCEPT !.late = late])
        PROVE  FALSE
    BY <1>0, <1>1, <2>1 DEF SvClient
  <2> QED
    BY <1>3, <1>4, <1>5, <2>1 DEF Poll
<1>6. CASE Expired(c)
  BY <1>2, <1>3, <1>4, <1>6 DEF Expired
<1>7. CASE Control(c) \/ Put(c) \/ SendKill(c)
  BY <1>7 DEF Control, Put, SendKill
<1>8. ASSUME client'[c].at = client[c].at \/ client'[c] = client[c] PROVE FALSE
  BY <1>8
<1>9. ASSUME NEW d \in Client, Work(d), d # c PROVE FALSE
  <2>1. \A v : Becomes(d, v) => client'[c] = client[c]
    BY <1>0, <1>9 DEF Becomes
  <2> QED
    BY <1>8, <1>9, <2>1 DEF Work, Control, Put, Poll, Expired, SendKill, Controlled, Answer, Go
<1>10. ASSUME NEW d \in Client, NEW action \in Actions, Begin(d, action) PROVE FALSE
  <2>1. d # c
    BY <1>10 DEF Begin, Idle
  <2> QED
    BY <1>0, <1>8, <1>10, <2>1 DEF Begin, Becomes
<1>11. CASE Observe
  <2>1. client'[c] =
          [client[c] EXCEPT !.stamp = IF Restamped THEN "since" ELSE @,
                            !.ran = @ \/ Starts("main", "run")]
    BY <1>11 DEF Observe, Idle
  <2> QED
    BY <1>0, <1>8, <2>1 DEF SvClient
<1>12. CASE Second \/ UNCHANGED svvars
  BY <1>8, <1>12 DEF Second, svvars
<1> QED
  BY <1>5, <1>6, <1>7, <1>9, <1>10, <1>11, <1>12 DEF SvNext, Work

LEMMA OkAchieved ==
  ASSUME OkInv, NEW c \in Client, [SvNext]_svvars,
         client[c].at \in {"poll", "expired"}, client'[c].at = "ok", RecordsTrue
  PROVE  Achieved(c)
<1>0. /\ TypeOK /\ ChildInv /\ SvTypeOK /\ StatusSaid /\ StampInv
      /\ client[c] \in SvClient /\ client[c].at \notin Idle
  BY DEF OkInv, SvInv, SvTypeOK, Idle
<1>1. CASE RunsvGone /\ Head(Acts(c)) = "x"
  <2>1. Acts(c) \notin {<<"d">>, <<"u">>, <<"t", "c", "u">>, <<"t", "c">>}
    BY <1>1
  <2> QED
    BY <1>1, <2>1 DEF Achieved
<1>2. ASSUME NEW available \in BOOLEAN,
             \A i \in DOMAIN Acts(c) : Taken(c, Acts(c)[i], StatusNow, available)
      PROVE  Achieved(c)
  <2>1. Acts(c) = <<"d">> => Taken(c, "d", StatusNow, available)
    BY <1>2
  <2>2. Acts(c) = <<"u">> => Taken(c, "u", StatusNow, available)
    BY <1>2
  <2>3. Acts(c) = <<"x">> => Taken(c, "x", StatusNow, available)
    BY <1>2
  <2>4. Acts(c) = <<"t", "c", "u">> => /\ Taken(c, "t", StatusNow, available)
                                       /\ Taken(c, "u", StatusNow, available)
    BY <1>2
  <2>5. Acts(c) = <<"t", "c">> => Taken(c, "t", StatusNow, available)
    BY <1>2
  <2>6. /\ StatusNow.pid = svd["main"].pid /\ StatusNow.up = (svd["main"].want = "up")
        /\ StatusNow.state = svd["main"].state \/ svd["main"].state = "down"
    BY <1>0 DEF StatusSaid, StatusNow
  <2>7. /\ svd["main"].pid # 0 /\ svd["main"].state = "run" => MainPhase = "run"
        /\ svd["main"].pid # 0 => svd["main"].state # "down"
        /\ svd["main"].pid = 0 =>
             MainPhase = IF svd["main"].state = "finish" THEN "due" ELSE "idle"
    BY <1>0, PhaseTold
  <2>8. client[c].stamp # "older" /\ svd["main"].pid # 0 => Anew(c)
    BY <1>0 DEF StampInv, SvClient, Anew
  <2>9. Taken(c, "d", StatusNow, available) => MainPhase = "idle"
    BY <2>6, <2>7 DEF Taken
  <2>10. Taken(c, "u", StatusNow, available) => svd["main"].pid # 0 /\ MainPhase = "run"
    BY <2>6, <2>7 DEF Taken
  <2>11. Taken(c, "t", StatusNow, available) =>
           Anew(c) \/ (svd["main"].pid = 0 /\ svd["main"].want # "up")
    BY <2>6, <2>8 DEF Taken
  <2>12. svd["main"].pid = 0 => MainPhase \in {"idle", "due"}
    BY <2>7
  <2>13. ~Taken(c, "x", StatusNow, available)
    BY DEF Taken
  <2> QED
    BY <2>1, <2>2, <2>3, <2>4, <2>5, <2>9, <2>10, <2>11, <2>12, <2>13 DEF Achieved
<1> QED
  BY <1>0, <1>1, <1>2, OkSeen

(* Whatever any number of clients are told to do, and whoever else writes to *)
(* the pipe, what sv reports as done was so when it read the status, if runsv *)
(* knew its children then: nothing runs after stop, ./run after start, a new *)
(* one after restart, no runsv after shutdown.                               *)
THEOREM OkIsTrue == SvSpec => OkTrue
<1>1. OkInv /\ [SvNext]_svvars =>
        [\A c \in Client :
           /\ client[c].at \in {"poll", "expired"} /\ client'[c].at = "ok"
           /\ RecordsTrue
           => Achieved(c)]_svvars
  BY OkAchieved
<1> QED
  BY <1>1, SvInitOk, SvNextOk, PTL DEF SvSpec, OkTrue
=============================================================================
