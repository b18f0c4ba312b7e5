---------------------------- MODULE RunitProofs ----------------------------
(***************************************************************************)
(* Proofs about Runit, for all sets of callers of runit-init, all wait     *)
(* statuses of the stage scripts and all signals from elsewhere.           *)
(***************************************************************************)
EXTENDS Runit, TLAPS

-----------------------------------------------------------------------------
(* The type invariant. That st stays below 4 takes that the stages are over  *)
(* once it is 3.                                                             *)

StagesOver == st = 3 <=> pc \in {"killall", "power", "off"}

TypeInv == TypeOK /\ StagesOver

\* The wait statuses named in the model are some.
LEMMA Statuses == 0 \in WaitStatus /\ KilledBy \in WaitStatus
  BY SMT DEF WaitStatus, KilledBy

\* What a stage may be.
LEMMA ProcessType ==
  /\ Gone \in Process
  /\ \A life \in Life, w \in WaitStatus : [life |-> life, wstat |-> w] \in Process
  BY Statuses DEF Gone, Process, Life

\* The table of stages with one of them changed.
LEMMA StageType ==
  ASSUME TypeOK, NEW s \in Stage, NEW r \in Process
  PROVE  [stage EXCEPT ![s] = r] \in [Stage -> Process]
  BY DEF TypeOK

\* The steps of runit-init keep the types of what they change.
LEMMA RunitInitType ==
  ASSUME TypeOK, NEW c \in Client, RunitInit(c)
  PROVE  /\ TypeOK'
         /\ UNCHANGED <<pc, st, stage, power>>
<1>1. file \in [stopit : File, reboot : File, ctrlaltdel : File, var : BOOLEAN]
  BY DEF TypeOK
<1>2. \A to \in {"idle", "opened", "armed", "marking", "marked", "done"} :
        [client EXCEPT ![c] = to] \in
          [Client -> {"idle", "opened", "armed", "marking", "marked", "done"}]
  BY DEF TypeOK
<1>3. ASSUME NEW mode \in File, NEW f \in {"stopit", "reboot"}, Only(f, mode)
      PROVE  /\ file' \in [stopit : File, reboot : File, ctrlaltdel : File,
                           var : BOOLEAN]
             /\ UNCHANGED <<pc, st, stage, other, pending, got, selfpipe, asked,
                            power>>
  BY <1>1, <1>3 DEF Only, processes, signals
<1>4. \A f \in {"stopit", "reboot"} : Opened(f) \in File
  BY <1>1 DEF Opened, File
<1>5. CASE OpenStopit(c) \/ ArmStopit(c)
  <2>1. PICK f \in {"stopit", "reboot"}, mode \in File : Only(f, mode)
    BY <1>4, <1>5 DEF OpenStopit, ArmStopit, File
  <2>2. client' \in [Client -> {"idle", "opened", "armed", "marking", "marked",
                                "done"}]
    BY <1>2, <1>5 DEF OpenStopit, ArmStopit, Going
  <2>3. /\ file' \in [stopit : File, reboot : File, ctrlaltdel : File,
                      var : BOOLEAN]
        /\ UNCHANGED <<pc, st, stage, other, pending, got, selfpipe, asked,
                       power>>
    BY <1>3, <2>1
  <2> QED
    BY <2>2, <2>3 DEF TypeOK
<1>6. CASE MarkHalt(c) \/ OpenReboot(c) \/ MarkReboot(c)
  <2>1. PICK f \in {"stopit", "reboot"}, mode \in File : Only(f, mode)
    BY <1>4, <1>6 DEF MarkHalt, OpenReboot, MarkReboot, File
  <2>2. client' \in [Client -> {"idle", "opened", "armed", "marking", "marked",
                                "done"}]
    BY <1>2, <1>6 DEF MarkHalt, OpenReboot, MarkReboot, Going
  <2>3. /\ file' \in [stopit : File, reboot : File, ctrlaltdel : File,
                      var : BOOLEAN]
        /\ UNCHANGED <<pc, st, stage, other, pending, got, selfpipe, asked,
                       power>>
    BY <1>3, <2>1
  <2> QED
    BY <2>2, <2>3 DEF TypeOK
<1>7. CASE SignalInit(c) \/ Abort(c)
  BY <1>2, <1>7 DEF SignalInit, Abort, Going, processes, signals, TypeOK
<1> QED
  BY <1>5, <1>6, <1>7 DEF RunitInit

LEMMA InitTypeInv == Init => TypeInv
<1> SUFFICES ASSUME Init PROVE TypeInv
  OBVIOUS
<1>1. stage \in [Stage -> Process] /\ other \in [life : Life, group : BOOLEAN]
  BY ProcessType DEF Init, Life
<1>2. file \in [stopit : File, reboot : File, ctrlaltdel : File, var : BOOLEAN]
  BY DEF Init, File
<1>3. client \in [Client -> {"idle", "opened", "armed", "marking", "marked",
                             "done"}]
  BY DEF Init
<1>4. pc = "fork" /\ st = 0 /\ power = "on" /\ selfpipe \in BOOLEAN
  BY DEF Init
<1>5. /\ pending \subseteq {"CHLD", "CONT", "INT", "USR2"}
      /\ got \subseteq {"CONT", "INT", "USR2"}
      /\ asked \subseteq {"halt", "reboot", "INT", "USR2"}
  BY DEF Init
<1>6. TypeOK
  BY <1>1, <1>2, <1>3, <1>4, <1>5 DEF TypeOK
<1> QED
  BY <1>4, <1>6 DEF TypeInv, StagesOver

LEMMA StepTypeInv == TypeInv /\ Step => TypeInv'
<1> SUFFICES ASSUME TypeInv, Step PROVE TypeInv'
  OBVIOUS
<1> USE DEF TypeInv, processes, signals, requests
<1>f. file \in [stopit : File, reboot : File, ctrlaltdel : File, var : BOOLEAN]
  BY DEF TypeOK
<1>1. CASE Fork
  <2>1. stage' \in [Stage -> Process]
    BY <1>1, Statuses, ProcessType DEF Fork, TypeOK, Life
  <2> QED
    BY <1>1, <2>1 DEF Fork, TypeOK, StagesOver
<1>2. CASE Handle \/ Wake \/ AllReaped \/ TooEarly \/ RunCtrlAltDel \/ NoRequest
           \/ TermLate
  BY <1>2 DEF Handle, Requested, Wake, AllReaped, TooEarly, RunCtrlAltDel,
              NoRequest, TermLate, TypeOK, StagesOver
<1>3. CASE ReapOther
  BY <1>3 DEF ReapOther, AfterOther, TypeOK, StagesOver, Life
<1>4. CASE LeaveStage
  <2>1. st \in Stage
    BY <1>4 DEF LeaveStage, StagesOver, TypeOK, Stage
  <2>2. \A w : NextStage(w) \in 0..3
    BY <2>1 DEF NextStage, Skips, Restarts, Stage
  <2>3. \A w : KillGroup(w) \in [life : Life, group : BOOLEAN]
    BY DEF KillGroup, TypeOK, Life
  <2>4. stage' \in [Stage -> Process]
    BY <1>4, <2>1, ProcessType, StageType DEF LeaveStage
  <2> QED
    BY <1>4, <2>2, <2>3, <2>4 DEF LeaveStage, TypeOK, StagesOver
<1>5. CASE CtrlAltDelEnds
  <2>1. file' \in [stopit : File, reboot : File, ctrlaltdel : File, var : BOOLEAN]
    BY <1>5, <1>f DEF CtrlAltDelEnds, File
  <2> QED
    BY <1>5, <2>1 DEF CtrlAltDelEnds, TypeOK, StagesOver
<1>6. CASE Stop
  <2>1. file' \in [stopit : File, reboot : File, ctrlaltdel : File, var : BOOLEAN]
    BY <1>6, <1>f DEF Stop, File
  <2> QED
    BY <1>6, <2>1 DEF Stop, TypeOK, StagesOver
<1>7. CASE TermEnded \/ Killed
  <2>1. EnterLast /\ pc \in {"term", "kill"}
    BY <1>7 DEF TermEnded, Killed
  <2>2. stage' \in [Stage -> Process]
    BY <2>1, ProcessType DEF EnterLast, TypeOK
  <2> QED
    BY <2>1, <2>2 DEF EnterLast, TypeOK, StagesOver
<1>8. CASE DiesKilled
  <2>1. stage' \in [Stage -> Process]
    BY <1>8, Statuses, ProcessType DEF DiesKilled, Ended, Life, TypeOK
  <2> QED
    BY <1>8, <2>1 DEF DiesKilled, TypeOK, StagesOver
<1>9. CASE KillAll \/ PowerDown
  <2>1. CASE KillAll
    <3>1. /\ client' \in [Client -> {"idle", "opened", "armed", "marking",
                                    "marked", "done"}]
          /\ other' \in [life : Life, group : BOOLEAN]
      BY <2>1 DEF KillAll, Life
    <3> QED
      BY <2>1, <3>1 DEF KillAll, TypeOK, StagesOver
  <2>2. CASE PowerDown
    BY <2>2 DEF PowerDown, TypeOK, StagesOver
  <2> QED
    BY <1>9, <2>1, <2>2
<1> QED
  BY <1>1, <1>2, <1>3, <1>4, <1>5, <1>6, <1>7, <1>8, <1>9 DEF Step

LEMMA EnvironmentTypeInv == TypeInv /\ Environment => TypeInv'
<1> SUFFICES ASSUME TypeInv, Environment PROVE TypeInv'
  OBVIOUS
<1> USE DEF TypeInv, processes, signals, requests
<1>1. ASSUME NEW c \in Client, RunitInit(c) PROVE TypeInv'
  BY <1>1, RunitInitType DEF StagesOver
<1>2. CASE InitVar \/ MarkLast
  <2>1. file \in [stopit : File, reboot : File, ctrlaltdel : File, var : BOOLEAN]
    BY DEF TypeOK
  <2>2. file' \in [stopit : File, reboot : File, ctrlaltdel : File, var : BOOLEAN]
    BY <1>2, <2>1 DEF InitVar, MarkLast, File
  <2> QED
    BY <1>2, <2>2 DEF InitVar, MarkLast, TypeOK, StagesOver
<1>3. ASSUME NEW s \in Stage, StageEnds(s) PROVE TypeInv'
  <2>1. \A w \in Exits : Ended(w) \in Process
    BY RunitAssumption, ProcessType DEF Ended, Life
  <2>2. stage' \in [Stage -> Process]
    BY <1>3, <2>1, StageType DEF StageEnds
  <2> QED
    BY <1>3, <2>2 DEF StageEnds, TypeOK, StagesOver
<1>4. CASE (\E group \in BOOLEAN : Inherit(group)) \/ OtherEnds
  BY <1>4 DEF Inherit, OtherEnds, TypeOK, StagesOver, Life
<1>5. ASSUME NEW key \in Keys, Press(key) PROVE TypeInv'
  BY <1>5, RunitAssumption DEF Press, TypeOK, StagesOver
<1> QED
  BY <1>1, <1>2, <1>3, <1>4, <1>5 DEF Environment

LEMMA NextTypeInv == TypeInv /\ [Next]_vars => TypeInv'
<1>1. CASE UNCHANGED vars
  BY <1>1 DEF vars, TypeInv, TypeOK, StagesOver
<1> QED
  BY <1>1, StepTypeInv, EnvironmentTypeInv DEF Next

(* Every variable of runit keeps its type; in particular st, which indexes   *)
(* the table of stages, is past it only when no stage is entered any more.   *)
THEOREM TypeCorrect == Spec => []TypeOK
<1>1. Init => TypeInv
  BY InitTypeInv
<1>2. TypeInv /\ [Next]_vars => TypeInv'
  BY NextTypeInv
<1>3. TypeInv => TypeOK
  BY DEF TypeInv
<1> QED
  BY <1>1, <1>2, <1>3, PTL DEF Spec

LEMMA TypeInvHolds == Spec => []TypeInv
  BY InitTypeInv, NextTypeInv, PTL DEF Spec

-----------------------------------------------------------------------------
(* One stage at a time. OneStage is not inductive: that no stage is unreaped *)
(* when one is entered takes that the only one there may be is st, and that  *)
(* the steps of a shutdown, which wait for stage 1 by name, are taken in it. *)

OnlySt == \A s \in Stage : stage[s].life # "none" => s = st

NoneAtFork == pc = "fork" => \A s \in Stage : stage[s].life = "none"

ShutdownInStage1 == pc \in {"ctrlaltdel", "stop", "term", "kill"} => st = 1

StageInv == OnlySt /\ NoneAtFork /\ ShutdownInStage1

LEMMA StepStageInv == TypeInv /\ StageInv /\ Step => StageInv'
<1> SUFFICES ASSUME TypeInv, StageInv, Step PROVE StageInv'
  OBVIOUS
<1> USE DEF StageInv, OnlySt, NoneAtFork, ShutdownInStage1,
            processes, signals, requests
<1>t. stage \in [Stage -> Process] /\ st \in 0..3
  BY DEF TypeInv, TypeOK
<1>1. CASE Fork
  BY <1>1, <1>t DEF Fork
<1>2. CASE Handle \/ Wake \/ ReapOther \/ AllReaped \/ TooEarly \/ RunCtrlAltDel
           \/ CtrlAltDelEnds \/ Stop \/ NoRequest \/ TermLate \/ KillAll
           \/ PowerDown
  BY <1>2 DEF Handle, Wake, ReapOther, AfterOther, AllReaped, TooEarly,
              RunCtrlAltDel, CtrlAltDelEnds, Stop, NoRequest, TermLate, KillAll,
              PowerDown
<1>3. CASE LeaveStage
  BY <1>3, <1>t DEF LeaveStage, Gone, TypeInv, StagesOver
<1>4. CASE TermEnded \/ Killed
  BY <1>4, <1>t DEF TermEnded, Killed, EnterLast, Waited, Gone, Stage
<1>5. CASE DiesKilled
  BY <1>5, <1>t DEF DiesKilled, Running, Stage
<1> QED
  BY <1>1, <1>2, <1>3, <1>4, <1>5 DEF Step

LEMMA EnvironmentStageInv == TypeInv /\ StageInv /\ Environment => StageInv'
<1> SUFFICES ASSUME TypeInv, StageInv, Environment PROVE StageInv'
  OBVIOUS
<1> USE DEF StageInv, OnlySt, NoneAtFork, ShutdownInStage1,
            processes, signals, requests
<1>1. ASSUME NEW c \in Client, RunitInit(c) PROVE StageInv'
  BY <1>1, RunitInitType DEF TypeInv
<1>2. ASSUME NEW s \in Stage, StageEnds(s) PROVE StageInv'
  BY <1>2 DEF StageEnds, Running, TypeInv, TypeOK
<1>3. CASE UNCHANGED <<pc, st, stage>>
  BY <1>3
<1> QED
  BY <1>1, <1>2, <1>3 DEF Environment, InitVar, MarkLast, Inherit, OtherEnds, Press

LEMMA NextStageInv == TypeInv /\ StageInv /\ [Next]_vars => StageInv'
<1>1. CASE UNCHANGED vars
  BY <1>1 DEF vars, StageInv, OnlySt, NoneAtFork, ShutdownInStage1
<1> QED
  BY <1>1, StepStageInv, EnvironmentStageInv DEF Next

(* Stages never overlap: whatever the scripts and other processes do, and    *)
(* whoever asks for a shutdown when, a stage is entered only after the one   *)
(* before is dead and reaped.                                                *)
THEOREM StagesExclusive == Spec => []OneStage
<1>1. Init => StageInv
  BY DEF Init, StageInv, OnlySt, NoneAtFork, ShutdownInStage1, Gone
<1>2. TypeInv /\ StageInv /\ [Next]_vars => StageInv'
  BY NextStageInv
<1>3. StageInv => OneStage
  BY DEF StageInv, OnlySt, OneStage
<1> QED
  BY <1>1, <1>2, <1>3, TypeInvHolds, PTL DEF Spec

-----------------------------------------------------------------------------
(* Shutdown. What is pending or noted has been asked for, CONT by runit-init *)
(* or by way of the script for ctrl-alt-del.                                 *)

Request(signal) == signal \in pending \cup got

ScriptAsked == "INT" \in asked /\ file.ctrlaltdel = "exec"

RequestsAsked ==
  /\ \A signal \in {"INT", "USR2"} : Request(signal) => signal \in asked
  /\ Request("CONT") => asked \cap {"halt", "reboot"} # {} \/ ScriptAsked
  /\ pc = "ctrlaltdel" => ScriptAsked

AskedInv == RequestsAsked /\ ShutdownAsked

LEMMA StepAskedInv == TypeInv /\ AskedInv /\ Step => AskedInv'
<1> SUFFICES ASSUME TypeInv, AskedInv, Step PROVE AskedInv'
  OBVIOUS
<1> USE DEF AskedInv, RequestsAsked, ShutdownAsked, Request, ScriptAsked,
            processes, signals, requests
<1>1. CASE Fork \/ Wake \/ ReapOther \/ AllReaped \/ TermLate \/ KillAll
           \/ PowerDown
  BY <1>1 DEF Fork, Wake, ReapOther, AfterOther, AllReaped, TermLate, KillAll,
              PowerDown
<1>2. CASE Handle
  BY <1>2 DEF Handle, Requested
<1>3. CASE LeaveStage \/ DiesKilled
  BY <1>3 DEF LeaveStage, DiesKilled
<1>4. CASE TooEarly \/ RunCtrlAltDel \/ NoRequest
  BY <1>4 DEF TooEarly, RunCtrlAltDel, NoRequest
<1>5. CASE CtrlAltDelEnds
  <2>1. file'.ctrlaltdel = file.ctrlaltdel
    BY <1>5 DEF CtrlAltDelEnds, TypeInv, TypeOK
  <2> QED
    BY <1>5, <2>1 DEF CtrlAltDelEnds
<1>6. CASE Stop
  <2>1. file'.ctrlaltdel = file.ctrlaltdel
    BY <1>6 DEF Stop, TypeInv, TypeOK
  <2> QED
    BY <1>6, <2>1 DEF Stop, StopWanted
<1>7. CASE TermEnded \/ Killed
  BY <1>7 DEF TermEnded, Killed, EnterLast
<1> QED
  BY <1>1, <1>2, <1>3, <1>4, <1>5, <1>6, <1>7 DEF Step

LEMMA EnvironmentAskedInv == TypeInv /\ AskedInv /\ Environment => AskedInv'
<1> SUFFICES ASSUME TypeInv, AskedInv, Environment PROVE AskedInv'
  OBVIOUS
<1> USE DEF AskedInv, RequestsAsked, ShutdownAsked, Request, ScriptAsked,
            processes, signals, requests
<1>1. ASSUME NEW c \in Client, RunitInit(c) PROVE AskedInv'
  <2>1. ASSUME NEW f \in {"stopit", "reboot"}, NEW mode, Only(f, mode)
        PROVE  AskedInv'
    <3>1. file'.ctrlaltdel = file.ctrlaltdel
      BY <2>1 DEF Only, TypeInv, TypeOK
    <3> QED
      BY <2>1, <3>1 DEF Only
  <2>2. CASE SignalInit(c)
    BY <2>2 DEF SignalInit
  <2>3. CASE Abort(c)
    BY <2>3 DEF Abort
  <2> QED
    BY <1>1, <2>1, <2>2, <2>3
    DEF RunitInit, OpenStopit, ArmStopit, MarkHalt, OpenReboot, MarkReboot
<1>2. CASE InitVar \/ MarkLast
  <2>1. file'.ctrlaltdel = file.ctrlaltdel
    BY <1>2 DEF InitVar, MarkLast, TypeInv, TypeOK
  <2> QED
    BY <1>2, <2>1 DEF InitVar, MarkLast
<1>3. ASSUME NEW s \in Stage, StageEnds(s) PROVE AskedInv'
  BY <1>3 DEF StageEnds
<1>4. CASE (\E group \in BOOLEAN : Inherit(group)) \/ OtherEnds
  BY <1>4 DEF Inherit, OtherEnds
<1>5. ASSUME NEW key \in Keys, Press(key) PROVE AskedInv'
  BY <1>5, RunitAssumption DEF Press
<1> QED
  BY <1>1, <1>2, <1>3, <1>4, <1>5 DEF Environment

LEMMA NextAskedInv == TypeInv /\ AskedInv /\ [Next]_vars => AskedInv'
<1>1. CASE UNCHANGED vars
  BY <1>1 DEF vars, AskedInv, RequestsAsked, ShutdownAsked, Request,
              ScriptAsked
<1> QED
  BY <1>1, StepAskedInv, EnvironmentAskedInv DEF Next

(* Stage 2 of man/runit.8 is never stopped unasked: neither a stale request  *)
(* nor STOPIT alone, nor any signal runit handles for itself, leads there.   *)
THEOREM StopsOnRequest == Spec => []ShutdownAsked
<1>1. Init => AskedInv
  BY DEF Init, AskedInv, RequestsAsked, ShutdownAsked, Request
<1>2. TypeInv /\ AskedInv /\ [Next]_vars => AskedInv'
  BY NextAskedInv
<1>3. AskedInv => ShutdownAsked
  BY DEF AskedInv
<1> QED
  BY <1>1, <1>2, <1>3, TypeInvHolds, PTL DEF Spec

-----------------------------------------------------------------------------
(* Reboot. As long as no runit-init 0 has begun, REBOOT stays executable     *)
(* from the moment a runit-init 6 has made it so.                            *)

HaltBegun == \E c \in Halters : client[c] # "idle"

Marked == "reboot" \in asked \/ \E c \in Client : client[c] = "marked"

RebootInv ==
  /\ Marked => HaltBegun \/ file.reboot = "exec"
  /\ power # "on" <=> pc = "off"
  /\ RebootKept

LEMMA StepRebootInv == TypeInv /\ RebootInv /\ Step => RebootInv'
<1> SUFFICES ASSUME TypeInv, RebootInv, Step PROVE RebootInv'
  OBVIOUS
<1> USE DEF RebootInv, RebootKept, HaltBegun, Marked,
            processes, signals, requests
<1>1. CASE CtrlAltDelEnds \/ Stop
  <2>1. file.reboot = "exec" => file'.reboot = "exec"
    BY <1>1 DEF CtrlAltDelEnds, Stop, TypeInv, TypeOK
  <2> QED
    BY <1>1, <2>1 DEF CtrlAltDelEnds, Stop
<1>2. CASE KillAll
  BY <1>2 DEF KillAll, Client
<1>3. CASE PowerDown
  BY <1>3 DEF PowerDown
<1>4. CASE UNCHANGED <<file, client, asked, power>> /\ pc # "off" /\ pc' # "off"
  BY <1>4
<1> QED
  BY <1>1, <1>2, <1>3, <1>4
  DEF Step, Fork, Handle, Wake, ReapOther, AfterOther, LeaveStage, AllReaped,
      TooEarly, RunCtrlAltDel, NoRequest, TermEnded, TermLate, DiesKilled, Killed,
      EnterLast

LEMMA RunitInitRebootInv ==
  ASSUME TypeInv, RebootInv, NEW c \in Client, RunitInit(c)
  PROVE  RebootInv'
<1> USE DEF RebootInv, RebootKept, HaltBegun, Marked,
            processes, signals, requests
<1>t. /\ client \in [Client -> {"idle", "opened", "armed", "marking", "marked",
                                "done"}]
      /\ file \in [stopit : File, reboot : File, ctrlaltdel : File, var : BOOLEAN]
  BY DEF TypeInv, TypeOK
\* A runit-init that has begun does not become idle again.
<1>g. ASSUME NEW from, NEW to, to # "idle", Going(c, from, to)
      PROVE  /\ HaltBegun => HaltBegun'
             /\ c \in Halters => HaltBegun'
             /\ to # "marked" => \A d \in Client :
                  client'[d] = "marked" => client[d] = "marked"
             /\ pc # "off"
  BY <1>g, <1>t DEF Going, Client
<1>1. CASE OpenStopit(c) \/ ArmStopit(c)
  <2>1. file'.reboot = file.reboot
    BY <1>1, <1>t DEF OpenStopit, ArmStopit, Only
  <2> QED
    BY <1>1, <1>g, <2>1 DEF OpenStopit, ArmStopit, Only
<1>2. CASE MarkHalt(c)
  BY <1>2, <1>g DEF MarkHalt, Only
<1>3. CASE OpenReboot(c)
  <2>1. file.reboot = "exec" => file'.reboot = "exec"
    BY <1>3, <1>t DEF OpenReboot, Only, Opened
  <2> QED
    BY <1>3, <1>g, <2>1 DEF OpenReboot, Only
<1>4. CASE MarkReboot(c)
  <2>1. file'.reboot = "exec"
    BY <1>4, <1>t DEF MarkReboot, Only
  <2> QED
    BY <1>4, <1>g, <2>1 DEF MarkReboot, Only
<1>5. CASE SignalInit(c)
  <2>1. Marked
    BY <1>5 DEF SignalInit, Going
  <2> QED
    BY <1>5, <1>g, <2>1 DEF SignalInit
<1>6. CASE Abort(c)
  BY <1>6, <1>t DEF Abort, Client
<1> QED
  BY <1>1, <1>2, <1>3, <1>4, <1>5, <1>6 DEF RunitInit

LEMMA EnvironmentRebootInv == TypeInv /\ RebootInv /\ Environment => RebootInv'
<1> SUFFICES ASSUME TypeInv, RebootInv, Environment PROVE RebootInv'
  OBVIOUS
<1> USE DEF RebootInv, RebootKept, HaltBegun, Marked,
            processes, signals, requests
<1>1. ASSUME NEW c \in Client, RunitInit(c) PROVE RebootInv'
  BY <1>1, RunitInitRebootInv
<1>2. CASE InitVar \/ MarkLast
  <2>1. file.reboot = "exec" => file'.reboot = "exec"
    BY <1>2 DEF InitVar, MarkLast, TypeInv, TypeOK
  <2> QED
    BY <1>2, <2>1 DEF InitVar, MarkLast
<1>3. ASSUME NEW key \in Keys, Press(key) PROVE RebootInv'
  BY <1>3, RunitAssumption DEF Press
<1>4. CASE UNCHANGED <<file, client, asked, power, pc>>
  BY <1>4
<1> QED
  BY <1>1, <1>2, <1>3, <1>4 DEF Environment, StageEnds, Inherit, OtherEnds

LEMMA NextRebootInv == TypeInv /\ RebootInv /\ [Next]_vars => RebootInv'
<1>1. CASE UNCHANGED vars
  BY <1>1 DEF vars, RebootInv, RebootKept, HaltBegun, Marked
<1> QED
  BY <1>1, StepRebootInv, EnvironmentRebootInv DEF Next

(* What runit does to the power in the end is what the last runit-init asked *)
(* for, when it was a runit-init 6 and no runit-init 0 ran: no interleaving  *)
(* of callers, interrupted ones among them, and of scripts turns the reboot  *)
(* into a halt.                                                              *)
THEOREM RebootHappens == Spec => []RebootKept
<1>1. Init => RebootInv
  BY DEF Init, RebootInv, RebootKept, Marked
<1>2. TypeInv /\ RebootInv /\ [Next]_vars => RebootInv'
  BY NextRebootInv
<1>3. RebootInv => RebootKept
  BY DEF RebootInv
<1> QED
  BY <1>1, <1>2, <1>3, TypeInvHolds, PTL DEF Spec
=============================================================================
