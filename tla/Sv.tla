--------------------------------- MODULE Sv ---------------------------------
(***************************************************************************)
(* sv, the program that controls services, together with the runsv it      *)
(* talks to: src/runit/src/sv.c. A client reads supervise/status, writes   *)
(* characters to supervise/control, and polls the status until it agrees   *)
(* or the time is over. Between two of its steps runsv and other clients   *)
(* may do anything. A client handles one service; sv goes through several  *)
(* one after the other and keeps nothing from one to the next.             *)
(***************************************************************************)
EXTENDS Runsv

CONSTANTS Client,    \* processes that run sv, again and again
          Actions,   \* what they are told to do
          HasCheck   \* ./check exists

(* What main makes of a command: what is written to the pipe, whether the    *)
(* status is polled afterwards, and whether a timeout sends k. check writes  *)
(* nothing; its C is never seen by runsv.                                    *)
Plainly(acts)  == [acts |-> acts, waits |-> FALSE, kll |-> FALSE]
Waiting(acts)  == [acts |-> acts, waits |-> TRUE,  kll |-> FALSE]
Forcibly(acts) == [acts |-> acts, waits |-> TRUE,  kll |-> TRUE]

Check == Waiting(<<"C">>)

AllActions ==
  {Plainly(<<c>>) : c \in AllCommands} \cup {Waiting(<<c>>) : c \in AllCommands}
    \cup {Waiting(s) : s \in {<<"t", "c">>, <<"t", "c", "u">>}}
    \cup {Forcibly(s) : s \in {<<"d">>, <<"x">>, <<"t", "c">>, <<"t", "c", "u">>}}
    \cup {Check}

ASSUME SvAssumption ==
  /\ Actions \subseteq AllActions /\ Actions # {}
  /\ HasCheck \in BOOLEAN

VARIABLES client,    \* the processes that run sv
          fresh      \* the status' time stamp is of the present second

svvars == <<vars, client, fresh>>

Runsvs == <<pc, svd, proc, control, pending, selfpipe, sigterm, logpipe, disk,
            young>>

(* A call that is over has succeeded, or failed or come to its timeout.      *)
Idle    == {"new", "ok", "failed"}
Nothing == Plainly(<<>>)
Places  == Idle \cup {"control", "write", "poll", "expired", "kill"}

(* stamp compares the status' time stamp with tstart, in seconds. Auxiliary: *)
(* ran, a ./run was started meanwhile; sure, control is called for a d and   *)
(* saw the status when no character was unread.                              *)
SvClient == [at : Places, action : Actions \cup {Nothing}, stamp : {"older", "same", "since"},
             late : BOOLEAN, ran : BOOLEAN, sure : BOOLEAN]

AtRest(place, action) ==
  [at |-> place, action |-> action, stamp |-> "older",
   late |-> FALSE, ran |-> FALSE, sure |-> FALSE]

SvTypeOK ==
  /\ client \in [Client -> SvClient]
  /\ fresh \in BOOLEAN

-----------------------------------------------------------------------------
(* startservice stamps the status when it has started ./run, the reaping     *)
(* loop when the service is down; neither does so for ./finish.              *)
Restamped ==
  svd'["main"].pid # svd["main"].pid /\ svd'["main"].state # "finish"

(* What a step of runsv means to those who wait.                             *)
Observe ==
  /\ fresh' = (Restamped \/ (fresh /\ (young["main"] => young'["main"])))
  /\ client' = [c \in Client |->
       IF client[c].at \in Idle THEN client[c]
       ELSE [client[c] EXCEPT !.stamp = IF Restamped THEN "since" ELSE @,
                              !.ran = @ \/ Starts("main", "run")]]

Second ==
  /\ fresh /\ fresh' = FALSE
  /\ UNCHANGED <<Runsvs, client>>

-----------------------------------------------------------------------------
(* sv. *)
Becomes(c, v) == client' = [client EXCEPT ![c] = v] /\ UNCHANGED fresh

Go(c, place) == Becomes(c, [client[c] EXCEPT !.at = place])

Answer(c, result) ==
  Becomes(c, AtRest(result, IF result = "ok" THEN client[c].action ELSE Nothing))

Acts(c)   == client[c].action.acts
StatusNow == disk.status["main"]

(* svstatus_get finds no reader of supervise/ok.                             *)
RunsvGone == pc = "exited"

\* BUG: only a shutdown gets an answer, the rest what svstatus_get returned.
NotRunningAsIs(c) == IF Head(Acts(c)) = "x" THEN "ok" ELSE "0"

NotRunning(c) == IF Head(Acts(c)) = "x" THEN "ok" ELSE "failed"

Begin(c, action) ==
  /\ client[c].at \in Idle
  /\ Becomes(c, [AtRest(IF action = Check THEN "poll" ELSE "control", action)
                   EXCEPT !.stamp = IF fresh THEN "same" ELSE "older"])
  /\ UNCHANGED Runsvs

\* BUG: d is left out although the service was told to run once.
SkipsOnce(acts, status) ==
  \/ Head(acts) = "u" /\ status.up
  \/ Head(acts) = "d" /\ ~status.up

(* The service is wanted so already. A service that is wanted down and has   *)
(* got no TERM is one that was told to run once.                             *)
Skips(acts, status) ==
  \/ Head(acts) = "u" /\ status.up
  \/ Head(acts) = "d" /\ ~status.up /\ status.term

Controlled(c, v) ==
  IF v.action.waits THEN Becomes(c, [v EXCEPT !.at = "poll"]) ELSE Answer(c, "ok")

(* control up to the write: what it has read may be stale by then.           *)
Control(c) ==
  /\ client[c].at = "control"
  /\ LET v == [client[c] EXCEPT
               !.sure = (Acts(c) = <<"d">> /\ control["main"] = <<>>)] IN
       IF RunsvGone THEN Answer(c, NotRunning(c))
       ELSE IF Skips(Acts(c), StatusNow) THEN Controlled(c, v)
       ELSE Becomes(c, [v EXCEPT !.at = "write"])
  /\ UNCHANGED Runsvs

(* The pipe is opened with O_NDELAY, so that a write to a full one fails; in *)
(* the model it is full with QueueCap characters.                            *)
PipeFull == Len(control["main"]) >= QueueCap

(* A write of a few characters to a fifo is atomic. runsv may exit between   *)
(* the opening and the write, which then ends sv by a SIGPIPE.               *)
Put(c) ==
  /\ client[c].at = "write"
  /\ \/ /\ RunsvGone
        /\ \E result \in {NotRunning(c), "failed"} : Answer(c, result)
        /\ UNCHANGED control
     \/ /\ ~RunsvGone /\ PipeFull
        /\ Answer(c, "failed")
        /\ UNCHANGED control
     \/ /\ ~RunsvGone /\ ~PipeFull
        /\ control' = [control EXCEPT !["main"] = @ \o Acts(c)]
        /\ Controlled(c, client[c])
  /\ UNCHANGED <<pc, service, wakeup, logpipe>>

(* check, by character: what the status must be for it to have taken effect. *)
\* BUG: the time stamp is not looked at.
TakenAnyTime(c, char, status, available) ==
  /\ char = "u" => status.pid # 0 /\ status.state = "run" /\ available
  /\ char = "d" => status.pid = 0 /\ status.state = "down"
  /\ char \in {"t", "k"} =>
       \/ status.pid = 0 /\ ~status.up
       \/ status.pid # 0 /\ ~status.term /\ available
  /\ char # "x"

Taken(c, char, status, available) ==
  LET older == client[c].stamp = "older" IN
  /\ char # "x"
  /\ char = "u" => status.pid # 0 /\ status.state = "run" /\ available
  /\ char = "d" => status.pid = 0 /\ status.state = "down"
  /\ char = "C" => status.pid = 0 \/ available
  /\ char \in {"t", "k"} =>
       \/ status.pid = 0 /\ ~status.up
       \/ ~older /\ status.pid # 0 /\ ~status.term /\ available
  /\ char = "o" => ~(status.pid = 0 /\ older) /\ (status.pid # 0 => ~status.up)
  /\ char = "p" => status.pid = 0 \/ status.paused
  /\ char = "c" => status.pid = 0 \/ ~status.paused

(* One poll, and the usleep after it, at whose end the time may be over; it  *)
(* never is at the first poll. ./check is run after the status was read and  *)
(* judges on its own; one that a signal ends counts as one that exits 0.     *)
Poll(c) ==
  /\ client[c].at = "poll"
  /\ \E available \in IF HasCheck THEN BOOLEAN ELSE {TRUE} :
       IF RunsvGone THEN Answer(c, NotRunning(c))
       ELSE IF \A i \in DOMAIN Acts(c) : Taken(c, Acts(c)[i], StatusNow, available)
              THEN Answer(c, "ok")
       ELSE IF client[c].late THEN Go(c, "expired")
       ELSE \E late \in BOOLEAN : Becomes(c, [client[c] EXCEPT !.late = late])
  /\ UNCHANGED Runsvs

(* The status is read once more to be printed.                               *)
Expired(c) ==
  /\ client[c].at = "expired"
  /\ IF RunsvGone THEN Answer(c, NotRunning(c))
     ELSE IF client[c].action.kll THEN Go(c, "kill")
     ELSE Answer(c, "failed")
  /\ UNCHANGED Runsvs

SendKill(c) ==
  /\ client[c].at = "kill"
  /\ IF RunsvGone \/ PipeFull
       THEN UNCHANGED control
       ELSE control' = [control EXCEPT !["main"] = Append(@, "k")]
  /\ Answer(c, "failed")
  /\ UNCHANGED <<pc, service, wakeup, logpipe>>

SvInit ==
  /\ Init
  /\ client = [c \in Client |-> AtRest("new", Nothing)]
  /\ fresh = TRUE

Work(c) ==
  \/ Control(c) \/ Put(c) \/ Poll(c) \/ Expired(c) \/ SendKill(c)

SvNext ==
  \/ Next /\ Observe
  \/ Second
  \/ \E c \in Client : Work(c) \/ \E action \in Actions : Begin(c, action)

SvSpec == SvInit /\ [][SvNext]_svvars

-----------------------------------------------------------------------------
(* Properties. *)

(* A command that reports ok has done what it says: stop, that nothing of    *)
(* the service runs nor ./finish is due; start, that ./run runs; shutdown,   *)
(* that runsv is gone; restart, that ./run was started anew since sv was     *)
(* called. A service started in the very second of the call counts as        *)
(* restarted, and try-restart is content with a service that is wanted down. *)
(* (After k the records may be false for a while, see runsv_replaced.)       *)
Anew(c) == client[c].ran \/ client[c].stamp = "same"

Achieved(c) ==
  /\ Acts(c) = <<"d">> => MainPhase = "idle"
  /\ Acts(c) = <<"u">> => MainPhase = "run"
  /\ Acts(c) = <<"x">> => RunsvGone
  /\ Acts(c) = <<"t", "c", "u">> => MainPhase = "run" /\ Anew(c)
  /\ Acts(c) = <<"t", "c">> =>
       Anew(c) \/ (MainPhase \in {"idle", "due"} /\ svd["main"].want # "up")

OkTrue ==
  [][\A c \in Client :
       /\ client[c].at \in {"poll", "expired"} /\ client'[c].at = "ok"
       /\ RecordsTrue
       => Achieved(c)]_svvars

(* sv stop never waits in vain: once runsv has read what was sent, every     *)
(* ./run still there has got its TERM, also when the service had been told   *)
(* to run once and was wanted down already. It takes that nothing was unread *)
(* when sv looked at the status; LastWins is about the other case.           *)
StopUnderWay ==
  \A c \in Client :
    client[c].at = "poll" /\ client[c].sure /\ control["main"] = <<>> /\ ~RunsvGone
    => /\ svd["main"].want # "up"
       /\ \A p \in Live(proc) :
            proc[p].sv = "main" /\ proc[p].role = "run" =>
              {"TERM", "KILL"} \cap proc[p].sigs # {}

(* man/sv.8 on up: "if the service is not running, start it"; on down: "do   *)
(* not restart service". When one client at a time writes and all it wrote   *)
(* has been read, the last command that was answered ok decides.             *)
LastWins ==
  \A c \in Client :
    client[c].at = "ok" /\ control["main"] = <<>> /\ ~RunsvGone =>
      /\ Acts(c) = <<"u">> => svd["main"].want = "up"
      /\ Acts(c) = <<"d">> => svd["main"].want # "up"
=============================================================================
