------------------------------ MODULE Runsvdir ------------------------------
(***************************************************************************)
(* runsvdir, which runs a runsv for every subdirectory of a services       *)
(* directory: src/runit/src/runsvdir.c. With it src/runit/src/runsvchdir.c *)
(* that switches the directory, the directories as others change them, and *)
(* the runsv processes as runsvdir sees them.                              *)
(***************************************************************************)
EXTENDS Integers, Sequences, FiniteSets

CONSTANTS Service,      \* subdirectories, by device and inode
          Dir,          \* the services directories that may be current
          Pid,          \* the pids of children; one is free again once reaped
          None,         \* stands for no directory and no service
          MAXSERVICES,
          MaxTime,      \* bound: changes of the modification time of a Dir
          Signals,      \* those somebody sends: 1 stands for TERM, 2 for HUP
          Faults        \* what may go wrong: see AllFaults

\* fork fails; opendir fails; readdir ends with an error; a child has not
\* got to run within a second; current changes between stat and chdir.
AllFaults == {"fork", "opendir", "readdir", "slow", "switch"}

ASSUME RunsvdirAssumption ==
  /\ MAXSERVICES \in Nat /\ MaxTime \in Nat
  /\ Faults \subseteq AllFaults /\ Signals \subseteq {1, 2}
  /\ 0 \notin Pid /\ None \notin Dir \cup Service

VARIABLES pc,        \* where runsvdir is
          sv,        \* sv[0..svnum-1]
          i,         \* the index of the sweep
          check,     \* the directory has to be scanned again
          seen,      \* dir, ino and mtime of the last scan, as the code has them
          s,         \* what stat returned, between stat and chdir
          cwd,       \* the directory being scanned
          unread,    \* the entries readdir has yet to return
          errno,     \* an error was noted since opendir or a failed stat
          missed,    \* auxiliary: opendir or a fork failed in the last scan
          absent,    \* auxiliary: what was not in cwd at some time of the scan
          exitsoon,
          proc,      \* the children
          current,   \* where the path svdir leads
          next,      \* the target of a runsvchdir between its two renames
          previous,  \* ... and where current led before it
          content,   \* the subdirectories in each Dir
          mtime,     \* ... and its modification time
          fresh      \* that time is the present second

vars == <<pc, sv, i, check, seen, s, cwd, unread, errno, missed, absent,
          exitsoon, proc, current, next, previous, content, mtime, fresh>>

main  == <<seen, s, cwd, unread, errno, missed, absent>>
links == <<current, next, previous>>
disk  == <<links, content, mtime, fresh>>

Entry == [ino : Service, pid : Pid \cup {0}, isgone : BOOLEAN]
Stat  == [dir : Dir \cup {None}, time : 0..MaxTime, fresh : BOOLEAN]

Nothing == [dir |-> None, time |-> 0, fresh |-> FALSE]

(* A child before it has given up the handlers it inherited is "forked".     *)
Child == [st : {"free", "forked", "live", "zombie"}, ino : Service \cup {None},
          from : Dir \cup {None}, term : BOOLEAN]

Reaped == [st |-> "free", ino |-> None, from |-> None, term |-> FALSE]

Free == {p \in Pid : proc[p].st = "free"}

TypeOK ==
  /\ pc \in {"collect", "stat", "chdir", "opendir", "read", "sweep", "pause",
             "exited"}
  /\ sv \in Seq(Entry) /\ Len(sv) <= MAXSERVICES
  /\ i \in Nat
  /\ check \in BOOLEAN
  /\ seen \in [dir : Dir \cup {None}, time : 0..MaxTime]
  /\ s \in Stat
  /\ cwd \in Dir \cup {None}
  /\ unread \subseteq Service
  /\ errno \in BOOLEAN /\ missed \in BOOLEAN
  /\ absent \subseteq Service
  /\ exitsoon \in 0..2
  /\ proc \in [Pid -> Child]
  /\ current \in Dir \cup {None} /\ next \in Dir \cup {None}
  /\ previous \in Dir \cup {None}
  /\ content \in [Dir -> SUBSET Service]
  /\ mtime \in [Dir -> 0..MaxTime]
  /\ fresh \in [Dir -> BOOLEAN]

-----------------------------------------------------------------------------
(* Operators marked BUG stand for plausible mistakes; each replaces the      *)
(* definition after it to show that a property notices.                      *)
Inos == {sv[j].ino : j \in DOMAIN sv}

\* BUG: the entry of a runsv that has gone keeps its pid.
KeepEntry(p) == sv

ClearEntry(p) ==
  [j \in DOMAIN sv |-> IF sv[j].pid = p THEN [sv[j] EXCEPT !.pid = 0] ELSE sv[j]]

\* BUG: that a runsv has gone does not call for a scan.
SameCheck(p) == check

GoneCheck(p) == check \/ \E j \in DOMAIN sv : sv[j].pid = p

Collect(p) ==
  /\ pc = "collect" /\ proc[p].st = "zombie"
  /\ sv' = ClearEntry(p)
  /\ check' = GoneCheck(p)
  /\ proc' = [proc EXCEPT ![p] = Reaped]
  /\ UNCHANGED <<pc, i, main, exitsoon, disk>>

Collected ==
  /\ pc = "collect" /\ \A p \in Pid : proc[p].st # "zombie"
  /\ pc' = "stat"
  /\ UNCHANGED <<sv, i, check, main, exitsoon, proc, disk>>

(* The path leads nowhere, or less than a second has passed.                 *)
SkipStat ==
  /\ pc = "stat"
  /\ pc' = "pause"
  /\ UNCHANGED <<sv, i, check, main, exitsoon, proc, disk>>

DoStat ==
  /\ pc = "stat" /\ current # None
  /\ IF check \/ current # seen.dir \/ mtime[current] # seen.time
     THEN /\ s' = [dir |-> current, time |-> mtime[current],
                   fresh |-> fresh[current]]
          /\ pc' = "chdir"
     ELSE s' = Nothing /\ pc' = "pause"
  /\ UNCHANGED <<sv, i, check, seen, cwd, unread, errno, missed, absent, exitsoon,
                 proc, disk>>

ChdirFails ==
  /\ pc = "chdir" /\ current = None
  /\ pc' = "pause" /\ s' = Nothing
  /\ UNCHANGED <<sv, i, check, seen, cwd, unread, errno, missed, absent, exitsoon,
                 proc, disk>>

\* BUG: no pause, when the directory was changed in this very second.
NoSleep == fresh

(* sleep(1), so that a later change has a later time.                        *)
Sleep == IF s.fresh THEN [d \in Dir |-> FALSE] ELSE fresh

Chdir ==
  /\ pc = "chdir" /\ current # None
  /\ cwd' = current
  /\ seen' = [dir |-> s.dir, time |-> s.time]
  /\ s' = Nothing
  /\ check' = FALSE
  /\ fresh' = Sleep
  /\ pc' = "opendir"
  /\ UNCHANGED <<sv, i, unread, errno, missed, absent, exitsoon, proc, links,
                 content, mtime>>

OpendirFails ==
  /\ pc = "opendir" /\ "opendir" \in Faults
  /\ missed' = TRUE
  /\ pc' = "pause" /\ cwd' = None
  /\ UNCHANGED <<sv, i, check, seen, s, unread, errno, absent, exitsoon, proc, disk>>

Opendir ==
  /\ pc = "opendir"
  /\ sv' = [j \in DOMAIN sv |-> [sv[j] EXCEPT !.isgone = TRUE]]
  /\ unread' = content[cwd]
  /\ errno' = FALSE /\ missed' = FALSE
  /\ absent' = Service \ content[cwd]
  /\ pc' = "read"
  /\ UNCHANGED <<i, check, seen, s, cwd, exitsoon, proc, disk>>

(* runsv(): the entries are those of t, of which the one numbered j is for   *)
(* the child. When fork fails its pid stays 0, and errno is left as it is.   *)
StartRunsv(t, j) ==
  \/ \E p \in Free :
       /\ proc' = [proc EXCEPT ![p] = [st |-> "forked", ino |-> t[j].ino,
                                       from |-> cwd, term |-> FALSE]]
       /\ sv' = [t EXCEPT ![j].pid = p]
       /\ UNCHANGED <<errno, missed>>
  \/ /\ "fork" \in Faults
     /\ errno' = TRUE /\ missed' = TRUE
     /\ sv' = t /\ UNCHANGED proc

(* An entry that stat fails on, as it has just been removed: errno is reset, *)
(* whatever had set it.                                                      *)
EntryGone(e) ==
  /\ e \notin content[cwd]
  /\ errno' = FALSE
  /\ UNCHANGED <<sv, check, missed, proc>>

\* BUG: an entry that is found again stays marked as gone.
EntryStaysGone(e) ==
  \E j \in DOMAIN sv :
    /\ sv[j].ino = e
    /\ IF sv[j].pid = 0 THEN StartRunsv(sv, j)
       ELSE UNCHANGED <<sv, proc, errno, missed>>
    /\ UNCHANGED check

EntryKnown(e) ==
  \E j \in DOMAIN sv :
    LET t == [sv EXCEPT ![j].isgone = FALSE]
    IN /\ sv[j].ino = e
       /\ IF sv[j].pid = 0 THEN StartRunsv(t, j)
          ELSE sv' = t /\ UNCHANGED <<proc, errno, missed>>
       /\ UNCHANGED check

\* BUG: one too many.
RoomToo == Len(sv) <= MAXSERVICES

Room == Len(sv) < MAXSERVICES

EntryNew(e) ==
  /\ e \notin Inos /\ Room
  /\ StartRunsv(Append(sv, [ino |-> e, pid |-> 0, isgone |-> FALSE]), Len(sv) + 1)
  /\ check' = TRUE

TooMany(e) ==
  /\ e \notin Inos /\ ~Room
  /\ UNCHANGED <<sv, check, proc, errno, missed>>

Readdir(e) ==
  /\ pc = "read" /\ e \in unread
  /\ unread' = unread \ {e}
  /\ \/ EntryGone(e)
     \/ e \in content[cwd] /\ (EntryKnown(e) \/ EntryNew(e) \/ TooMany(e))
  /\ UNCHANGED <<pc, i, seen, s, cwd, absent, exitsoon, disk>>

(* errno is not 0 at the end: readdir's doing, or that of a fork.            *)
ReaddirFails ==
  /\ pc = "read"
  /\ "readdir" \in Faults \/ (unread = {} /\ errno)
  /\ check' = TRUE
  /\ pc' = "pause" /\ cwd' = None /\ unread' = {} /\ errno' = FALSE /\ absent' = {}
  /\ UNCHANGED <<sv, i, seen, s, missed, exitsoon, proc, disk>>

ReaddirEnds ==
  /\ pc = "read" /\ unread = {} /\ ~errno
  /\ pc' = "sweep" /\ i' = 1
  /\ UNCHANGED <<sv, check, main, exitsoon, proc, disk>>

(* kill(pid, SIGTERM): a child that has not got rid of the handler it was    *)
(* forked with does not notice.                                              *)
Term(pids) ==
  [p \in Pid |-> IF p \in pids /\ proc[p].st = "live"
                 THEN [proc[p] EXCEPT !.term = TRUE] ELSE proc[p]]

(* sv[i] =sv[--svnum], and the loop goes on with i + 1.                      *)
Sweep ==
  /\ pc = "sweep" /\ i <= Len(sv)
  /\ IF sv[i].isgone
     THEN /\ proc' = Term({sv[i].pid})
          /\ sv' = SubSeq([sv EXCEPT ![i] = sv[Len(sv)]], 1, Len(sv) - 1)
          /\ check' = TRUE
     ELSE UNCHANGED <<proc, sv, check>>
  /\ i' = i + 1
  /\ UNCHANGED <<pc, main, exitsoon, disk>>

SweepEnds ==
  /\ pc = "sweep" /\ i > Len(sv)
  /\ pc' = "pause" /\ cwd' = None /\ i' = 0 /\ absent' = {}
  /\ UNCHANGED <<sv, check, seen, s, unread, errno, missed, exitsoon, proc, disk>>

(* iopause; a second is enough for a child to run.                           *)
Pause ==
  /\ pc = "pause" /\ exitsoon = 0
  /\ "slow" \in Faults \/ \A p \in Pid : proc[p].st # "forked"
  /\ pc' = "collect"
  /\ UNCHANGED <<sv, i, check, main, exitsoon, proc, disk>>

ExitTerm ==
  /\ pc = "pause" /\ exitsoon = 1
  /\ pc' = "exited"
  /\ UNCHANGED <<sv, i, check, main, exitsoon, proc, disk>>

ExitHangup ==
  /\ pc = "pause" /\ exitsoon = 2
  /\ proc' = Term({sv[j].pid : j \in DOMAIN sv})
  /\ pc' = "exited"
  /\ UNCHANGED <<sv, i, check, main, exitsoon, disk>>

-----------------------------------------------------------------------------
(* The children. runsv exits when it cannot change to its directory or       *)
(* another runsv has locked it, when it got a TERM, and when told to exit.   *)
Exec(p) ==
  /\ proc[p].st = "forked"
  /\ LET locked == \E q \in Pid : proc[q].st = "live" /\ proc[q].ino = proc[p].ino
         found  == proc[p].ino \in content[proc[p].from]
     IN proc' = [proc EXCEPT ![p].st = IF found /\ ~locked THEN "live"
                                       ELSE "zombie",
                             ![p].from = None]
  /\ UNCHANGED <<pc, sv, i, check, main, exitsoon, disk>>

RunsvExits(p) ==
  /\ proc[p].st = "live"
  /\ proc' = [proc EXCEPT ![p].st = "zombie"]
  /\ UNCHANGED <<pc, sv, i, check, main, exitsoon, disk>>

(* s_term and s_hangup: the signal that comes last counts.                   *)
Signal(k) ==
  /\ pc # "exited"
  /\ exitsoon' = k
  /\ UNCHANGED <<pc, sv, i, check, main, proc, disk>>

-----------------------------------------------------------------------------
(* The services directories. Bound: nothing is removed while a child that    *)
(* has been let go is still there, which bounds the number of children.      *)
Strays == {p \in Pid : /\ proc[p].st # "free"
                       /\ \A j \in DOMAIN sv : sv[j].pid # p}

Touch(d) ==
  /\ fresh[d] \/ mtime[d] < MaxTime
  /\ mtime' = [mtime EXCEPT ![d] = IF fresh[d] THEN @ ELSE @ + 1]
  /\ fresh' = [fresh EXCEPT ![d] = TRUE]

(* readdir may or may not return what is added while it is at work. Bound:   *)
(* it may only for the first change in a second, so that the scan ends.      *)
Link(d, e) ==
  /\ e \notin content[d]
  /\ Touch(d)
  /\ content' = [content EXCEPT ![d] = @ \cup {e}]
  /\ unread' \in {unread} \cup (IF pc = "read" /\ cwd = d /\ ~fresh[d]
                                THEN {unread \cup {e}} ELSE {})
  /\ UNCHANGED <<pc, sv, i, check, seen, s, cwd, errno, missed, absent, exitsoon, proc,
                 links>>

Unlink(d, e) ==
  /\ e \in content[d] /\ Strays = {}
  /\ Touch(d)
  /\ content' = [content EXCEPT ![d] = @ \ {e}]
  /\ absent' = IF pc \in {"read", "sweep"} /\ cwd = d THEN absent \cup {e} ELSE absent
  /\ UNCHANGED <<pc, sv, i, check, seen, s, cwd, unread, errno, missed, exitsoon,
                 proc, links>>

Tick ==
  /\ \E d \in Dir : fresh[d]
  /\ fresh' = [d \in Dir |-> FALSE]
  /\ UNCHANGED <<pc, sv, i, check, main, exitsoon, proc, links, content, mtime>>

(* runsvchdir: current becomes previous, then the new link current.          *)
MoveAway(d) ==
  /\ current # None /\ d # current /\ next = None /\ Strays = {}
  /\ previous' = current /\ current' = None /\ next' = d
  /\ UNCHANGED <<pc, sv, i, check, main, exitsoon, proc, content, mtime, fresh>>

MoveIn ==
  /\ next # None
  /\ pc = "chdir" => "switch" \in Faults
  /\ current' = next /\ next' = None /\ previous' = None
  /\ UNCHANGED <<pc, sv, i, check, main, exitsoon, proc, content, mtime, fresh>>

(* The second rename fails.                                                  *)
MoveBack ==
  /\ next # None
  /\ current' = previous /\ previous' = None /\ next' = None
  /\ UNCHANGED <<pc, sv, i, check, main, exitsoon, proc, content, mtime, fresh>>

-----------------------------------------------------------------------------
Init ==
  /\ pc = "collect"
  /\ sv = <<>> /\ i = 0 /\ check = TRUE
  /\ seen = [dir |-> None, time |-> 0]
  /\ s = Nothing
  /\ cwd = None /\ unread = {} /\ errno = FALSE /\ missed = FALSE /\ absent = {}
  /\ exitsoon = 0
  /\ proc = [p \in Pid |-> Reaped]
  /\ current \in Dir /\ next = None /\ previous = None
  /\ content \in [Dir -> SUBSET Service]
  /\ mtime = [d \in Dir |-> 0]
  /\ fresh \in [Dir -> BOOLEAN]

Step ==
  \/ \E p \in Pid : Collect(p)
  \/ Collected \/ SkipStat \/ DoStat \/ ChdirFails \/ Chdir
  \/ OpendirFails \/ Opendir
  \/ \E e \in Service : Readdir(e)
  \/ ReaddirFails \/ ReaddirEnds \/ Sweep \/ SweepEnds
  \/ Pause \/ ExitTerm \/ ExitHangup

Environment ==
  \/ \E p \in Pid : Exec(p) \/ RunsvExits(p)
  \/ \E k \in Signals : Signal(k)
  \/ \E d \in Dir, e \in Service : Link(d, e) \/ Unlink(d, e)
  \/ Tick
  \/ \E d \in Dir : MoveAway(d)
  \/ MoveIn \/ MoveBack

Next == Step \/ Environment

Spec == Init /\ [][Next]_vars

-----------------------------------------------------------------------------
(* Fairness. runsvdir keeps running and every so often a second has passed;  *)
(* errors of readdir do not last; a child gets to run, and a runsv that has  *)
(* a TERM exits, as Runsv!ExitHappens says.                                  *)
Fairness ==
  /\ WF_vars(Step) /\ SF_vars(DoStat) /\ <>[][~ReaddirFails]_vars
  /\ \A p \in Pid : WF_vars(Exec(p)) /\ WF_vars(proc[p].term /\ RunsvExits(p))

FairSpec == Spec /\ Fairness

-----------------------------------------------------------------------------
(* Properties. *)

(* Each entry is a service of its own, and its pid is that of an unreaped    *)
(* child started for it: no runsv is started twice, and kill never reaches   *)
(* a stranger or a child of another service.                                 *)
EntriesTrue ==
  /\ \A j, k \in DOMAIN sv : sv[j].ino = sv[k].ino => j = k
  /\ \A j \in DOMAIN sv :
       sv[j].pid # 0 => /\ proc[sv[j].pid].st # "free"
                        /\ proc[sv[j].pid].ino = sv[j].ino

(* The state in which runsvdir sees no reason to scan.                       *)
Settled ==
  /\ pc = "pause" /\ ~check /\ current # None
  /\ seen.dir = current /\ seen.time = mtime[current]

(* man/runsvdir.8: a changed services directory is scanned again. When no    *)
(* scan is due the entries are the subdirectories, as far as there is room,  *)
(* unless the last scan was cut short.                                       *)
NothingMissed ==
  Settled /\ ~missed => /\ Inos \subseteq content[current]
                        /\ (Inos = content[current] \/ Len(sv) = MAXSERVICES)

(* man/runsvdir.8: runsvdir "restarts a runsv(8) process if it terminates".  *)
(* When no scan is due each entry has its runsv.                             *)
Restarted == Settled => \A j \in DOMAIN sv : sv[j].pid # 0

(* Only a failing opendir or fork in the last scan leaves one without.       *)
AllStarted == ~missed => Restarted

(* A service whose subdirectory was in the directory all through a scan is   *)
(* not told to end by that scan: a runsv gets a TERM only when its           *)
(* subdirectory was not there at some time between opendir and the kill, or  *)
(* when runsvdir itself was told to hang up.                                 *)
SparesOthers ==
  [][\A p \in Pid :
       proc[p].st = "live" /\ ~proc[p].term /\ proc'[p].term =>
         \/ proc[p].ino \in absent
         \/ pc' = "exited" /\ exitsoon = 2]_vars

(* A service that stays in the current directory, when there is room for all *)
(* that are in it, is run, again and again.                                  *)
Monitored(e) ==
  \E j \in DOMAIN sv :
    sv[j].ino = e /\ sv[j].pid # 0 /\ proc[sv[j].pid].st = "live"

KeepsRunning ==
  \A e \in Service :
    <>[](/\ current # None /\ e \in content[current]
         /\ Cardinality(content[current]) <= MAXSERVICES)
      => []<>(Monitored(e) \/ pc = "exited")

(* A service that is not in the current directory any more ends for good.    *)
LetsGo ==
  \A e \in Service :
    <>[](current # None /\ e \notin content[current])
      => <>[]((\A p \in Pid : proc[p].st = "live" => proc[p].ino # e) \/ pc = "exited")
=============================================================================
