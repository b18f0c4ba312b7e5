------------------------------- MODULE Logdir -------------------------------
(***************************************************************************)
(* One log directory of svlogd: writing to current, its rotation, the      *)
(* processor that old logs are fed to, a full disk, reopening on a HUP,    *)
(* the exit and the restart after a crash, from src/runit/src/svlogd.c.    *)
(* Log data are units 1, 2, ... in the order they were first written; a    *)
(* unit is what linemax characters take.                                   *)
(***************************************************************************)
EXTENDS Integers, Sequences, FiniteSets, SequencesExt

CONSTANTS Configs,      \* what the file config may say, see Config
          Pid,          \* pids of processors; one is free again once reaped
          MaxData,      \* bound: units of data
          MaxOpen,      \* bound: openings of the directory
          Events        \* what may happen, see AllEvents

\* A processor may end well, with a failure, or be killed; svlogd gets HUP or
\* is killed; the power fails; the disk gets full.
AllEvents == {"ok", "fail", "killed", "HUP", "kill", "power", "full"}

\* size and nmax are 0 for none; linemax is a unit.
Config == [size : Nat, nmax : Nat, nmin : Nat, processor : BOOLEAN]

ASSUME LogdirAssumption ==
  /\ Configs \subseteq Config
  /\ MaxData \in Nat /\ MaxOpen \in Nat
  /\ Events \subseteq AllEvents
  /\ 0 \notin Pid

VARIABLES pc,           \* where svlogd is
          back, ret,    \* where rotate and processorstop return to
          config,       \* what logdir_open read
          size,         \* ld->size
          todo,         \* how much buffer_flush has yet to write
          fn,           \* the time stamp in ld->fnsave
          ppid, failed, \* ld->ppid; wait_exitcode(wstat) # 0
          astray,       \* the working directory is the log directory
          here, current,\* the file current: whether there is one, and which
          old,          \* the files named @stamp.s, .u and .t
          state, newstate,  \* those files: the logs that went into them
          proc,         \* the processors
          full,         \* the disk is full
          written,      \* auxiliary: units written so far
          stray,        \* auxiliary: a processor was left to itself
          opened, crashes   \* auxiliary: counters

vars == <<pc, back, ret, config, size, todo, fn, ppid, failed, astray, here,
          current, old, state, newstate, proc, full, written, stray, opened,
          crashes>>

mem   == <<config, size, todo, fn, ppid, failed>>
logs  == <<here, current, old>>
files == <<logs, state, newstate>>
aux   == <<written, stray, opened, crashes>>

(* data is what a file holds, the first synced units of it whatever happens; *)
(* x is its execute bit. The output of a processor that has not ended well   *)
(* holds something else, and is known by whole.                              *)
File == [data : Seq(Nat), synced : Nat, x : BOOLEAN, whole : BOOLEAN]

Empty == [data |-> <<>>, synced |-> 0, x |-> FALSE, whole |-> TRUE]

Name == [stamp : Nat, ext : {"s", "t", "u"}]
N(k, e) == [stamp |-> k, ext |-> e]

(* A processor: forked, running, or ended in one of three ways; the log it   *)
(* was started for, what it reads from that and from state, what name the    *)
(* file it has as newstate has now, and whether svlogd is still its parent.  *)
Processor == [st : {"free", "forked", "running", "ok", "fail", "killed"},
              stamp : Nat, data : Seq(Nat), read : Seq(Nat), fd5 : {"newstate", "state", "none"},
              mine : BOOLEAN]

Reaped == [st |-> "free", stamp |-> 0, data |-> <<>>, read |-> <<>>,
           fd5 |-> "none", mine |-> FALSE]

NoConfig == [size |-> 0, nmax |-> 0, nmin |-> 0, processor |-> FALSE]

TypeOK ==
  /\ pc \in {"down", "open", "aside", "prune", "append", "ready", "pwrite",
             "rotate", "rename", "create", "start", "wait", "stopped",
             "unlink", "state", "exit"}
  /\ back \in {"ready", "pwrite"} /\ ret \in {"ready", "rotate", "exit"}
  /\ config \in Config /\ size \in Nat /\ todo \in 0..2
  /\ fn \in Nat /\ ppid \in Pid \cup {0} /\ failed \in BOOLEAN
  /\ {astray, here, full, stray} \subseteq BOOLEAN
  /\ current \in File
  /\ DOMAIN old \subseteq Name /\ \A f \in DOMAIN old : old[f] \in File
  /\ state \in Seq(Nat) /\ newstate \in Seq(Nat)
  /\ proc \in [Pid -> Processor]
  /\ written \in 0..MaxData
  /\ opened \in 0..MaxOpen /\ crashes \in 0..MaxOpen

-----------------------------------------------------------------------------
(* Names sort by time stamp, then by extension.                              *)
Rank(e) == CASE e = "s" -> 1 [] e = "t" -> 2 [] e = "u" -> 3

Before(f, g) == \/ f.stamp < g.stamp
                \/ f.stamp = g.stamp /\ Rank(f.ext) < Rank(g.ext)

Oldest(S) == CHOOSE f \in S : \A g \in S \ {f} : Before(f, g)

Without(F, S) == [f \in DOMAIN F \ S |-> F[f]]
With(F, f, c) == [g \in DOMAIN F \cup {f} |-> IF g = f THEN c ELSE F[g]]

(* The old logs, without the output of processors.                           *)
Saved(F) == {f \in DOMAIN F : f.ext # "t"}

(* BUG: one log too many is kept.                                            *)
RmOldestLate(F) ==
  LET S    == Saved(F)
      gone == IF config.nmax > 0 /\ Cardinality(S) > config.nmax + 1
                THEN {Oldest(S)} ELSE {}
  IN  old' = Without(F, (DOMAIN F \ S) \cup gone)

(* rmoldest: deletes what a processor left, and the oldest log if there are  *)
(* more than nmax.                                                           *)
RmOldest(F) ==
  LET S    == Saved(F)
      gone == IF config.nmax > 0 /\ Cardinality(S) > config.nmax
                THEN {Oldest(S)} ELSE {}
  IN  old' = Without(F, (DOMAIN F \ S) \cup gone)

(* BUG: the execute bit is set before the data is on the disk.               *)
MarkedSafe(f) == [f EXCEPT !.x = TRUE]

(* fsync, then fchmod: what current is before it is closed.                  *)
Safe(f) == [f EXCEPT !.synced = Len(f.data), !.x = TRUE]

(* The units that are in the log.                                            *)
Held(h, c, F) ==
  (IF h THEN Range(c.data) ELSE {})
    \cup UNION {Range(F[f].data) : f \in {g \in Saved(F) : F[g].whole}}

(* A processor ends: svlogd, or init in its place, reaps it.                 *)
Over(q, how) == IF q.mine THEN [q EXCEPT !.st = how] ELSE Reaped

(* ... or is no longer svlogd's child.                                       *)
Orphan(q) == IF q.st \in {"forked", "running"} THEN [q EXCEPT !.mine = FALSE]
                                               ELSE Reaped

(* The time of a rotation: svlogd has written something since the last one.  *)
Now == written

-----------------------------------------------------------------------------
(* Starting: main and logdir_open.                                           *)
Start ==
  /\ pc = "down" /\ opened < MaxOpen
  /\ pc' = "open" /\ opened' = opened + 1
  /\ astray' = FALSE
  /\ UNCHANGED <<back, ret, mem, files, proc, full, written, stray,
                 crashes>>

(* The name of the directory may be a relative one.                          *)
OpenFails ==
  /\ pc = "open" /\ astray
  /\ pc' = "down"
  /\ proc' = [p \in Pid |-> Orphan(proc[p])]
  /\ UNCHANGED <<back, ret, mem, files, astray, full, aux>>

(* BUG: whatever there is in current is appended to.                         *)
UnsafeNever == FALSE

(* current was not closed by the svlogd that wrote it.                       *)
Unsafe == here /\ current.data # <<>> /\ ~current.x

Open ==
  /\ pc = "open" /\ ~astray
  /\ config' \in Configs
  /\ size' = IF here /\ ~Unsafe THEN Len(current.data) ELSE 0
  /\ todo' = 0 /\ ppid' = 0
  /\ stray' = (stray \/ \E p \in Pid : proc[p].st # "free")
  /\ pc' = IF Unsafe THEN "aside" ELSE "append"
  /\ UNCHANGED <<back, ret, fn, failed, astray, files, proc, full, written,
                 opened, crashes>>

SetAside ==
  /\ pc = "aside"
  /\ fn' = Now
  /\ old' = With(old, N(Now, "u"), current)
  /\ here' = FALSE /\ current' = Empty
  /\ pc' = "prune"
  /\ UNCHANGED <<back, ret, config, size, todo, ppid, failed, astray, state,
                 newstate, proc, full, aux>>

PruneAside ==
  /\ pc = "prune"
  /\ RmOldest(old)
  /\ pc' = "append"
  /\ UNCHANGED <<back, ret, mem, astray, here, current, state, newstate, proc,
                 full, written, stray, opened, crashes>>

AppendCurrent ==
  /\ pc = "append"
  /\ here' = TRUE /\ current' = [current EXCEPT !.x = FALSE]
  /\ pc' = "ready" /\ astray' = FALSE
  /\ UNCHANGED <<back, ret, mem, old, state, newstate, proc, full, aux>>

-----------------------------------------------------------------------------
(* Writing: buffer_flush calls buffer_pwrite until all is written.           *)
Flush(n) ==
  /\ pc = "ready" /\ written + n <= MaxData
  /\ todo' = n /\ pc' = "pwrite"
  /\ UNCHANGED <<back, ret, config, size, fn, ppid, failed, astray, files,
                 proc, full, aux>>

TooLarge == config.size > 0 /\ size >= config.size

RotateFirst ==
  /\ pc = "pwrite" /\ TooLarge
  /\ pc' = "rotate" /\ back' = "pwrite"
  /\ UNCHANGED <<ret, mem, astray, files, proc, full, aux>>

(* With a newline at its end what was written fills the file when a line     *)
(* more would not fit.                                                       *)
Write ==
  /\ pc = "pwrite" /\ ~TooLarge /\ ~full
  /\ \E i \in 1..todo, newline \in BOOLEAN :
       /\ config.size > 0 => i <= config.size - size
       /\ current' = [current EXCEPT
                        !.data = @ \o [k \in 1..i |-> written + k]]
       /\ written' = written + i /\ size' = size + i /\ todo' = todo - i
       /\ IF config.size > 0 /\ newline /\ size' >= config.size - 1
            THEN /\ pc' = "rotate"
                 /\ back' = IF todo' = 0 THEN "ready" ELSE "pwrite"
            ELSE /\ pc' = IF todo' = 0 THEN "ready" ELSE "pwrite"
                 /\ UNCHANGED back
  /\ UNCHANGED <<ret, config, fn, ppid, failed, astray, here, old, state,
                 newstate, proc, full, stray, opened, crashes>>

(* ENOSPC: the oldest file is deleted if there are more than nmin. Only then *)
(* does svlogd return to its working directory.                              *)
NoSpace ==
  /\ pc = "pwrite" /\ ~TooLarge /\ full
  /\ config.nmin < config.nmax
  /\ IF Cardinality(DOMAIN old) > config.nmin
       THEN old' = Without(old, {Oldest(DOMAIN old)}) /\ astray' = FALSE
       ELSE astray' = TRUE /\ UNCHANGED old
  /\ UNCHANGED <<pc, back, ret, mem, here, current, state, newstate, proc, full,
                 written, stray, opened, crashes>>

-----------------------------------------------------------------------------
(* rotate.                                                                   *)
RotateWaits ==
  /\ pc = "rotate" /\ ppid # 0
  /\ pc' = "wait" /\ ret' = "rotate"
  /\ UNCHANGED <<back, mem, astray, files, proc, full, aux>>

RotateNothing ==
  /\ pc = "rotate" /\ ppid = 0 /\ size = 0
  /\ fn' = Now
  /\ pc' = back /\ astray' = FALSE
  /\ UNCHANGED <<back, ret, config, size, todo, ppid, failed, files, proc, full,
                 aux>>

Sync ==
  /\ pc = "rotate" /\ ppid = 0 /\ size > 0
  /\ fn' = Now
  /\ current' = Safe(current)
  /\ pc' = "rename"
  /\ UNCHANGED <<back, ret, config, size, todo, ppid, failed, astray, here, old,
                 state, newstate, proc, full, aux>>

(* BUG: the extension is not set.                                            *)
SavedBare == N(fn, "")

SavedName == N(fn, IF config.processor THEN "u" ELSE "s")

Rename ==
  /\ pc = "rename"
  /\ old' = With(old, SavedName, current)
  /\ here' = FALSE /\ current' = Empty
  /\ pc' = "create"
  /\ UNCHANGED <<back, ret, mem, astray, state, newstate, proc, full, aux>>

Create ==
  /\ pc = "create"
  /\ here' = TRUE /\ size' = 0
  /\ RmOldest(old)
  /\ pc' = "start"
  /\ UNCHANGED <<back, ret, config, todo, fn, ppid, failed, astray, current,
                 state, newstate, proc, full, written, stray, opened, crashes>>

(* processorstart: fork is retried until there is a pid.                     *)
ProcessorStart ==
  IF config.processor
    THEN \E p \in Pid :
           /\ proc[p].st = "free"
           /\ proc' = [proc EXCEPT ![p] = [Reaped EXCEPT
                         !.st = "forked", !.stamp = fn, !.mine = TRUE]]
           /\ ppid' = p
    ELSE UNCHANGED <<proc, ppid>>

RotateEnds ==
  /\ pc = "start"
  /\ ProcessorStart
  /\ pc' = back /\ astray' = FALSE
  /\ UNCHANGED <<back, ret, config, size, todo, fn, failed, files, full, aux>>

-----------------------------------------------------------------------------
(* processorstop, and the handler of SIGCHLD, which calls it for a processor *)
(* that has ended.                                                           *)
Ended == {"ok", "fail", "killed"}

(* BUG: wait_crashed in the place of wait_exitcode.                          *)
FailedBySignal(p) == proc[p].st = "killed"

(* wait_exitcode is 0 for a process that a signal ended, too.                *)
Failed(p) == proc[p].st = "fail"

Reap(p) ==
  /\ proc[p].st \in Ended
  /\ failed' = Failed(p)
  /\ proc' = [proc EXCEPT ![p] = Reaped]

(* BUG: ppid is not reset.                                                   *)
WaitKept ==
  /\ pc = "wait"
  /\ Reap(ppid)
  /\ pc' = "stopped"
  /\ UNCHANGED <<back, ret, config, size, todo, fn, ppid, astray, files, full,
                 aux>>

Wait ==
  /\ pc = "wait"
  /\ Reap(ppid)
  /\ ppid' = 0 /\ pc' = "stopped"
  /\ UNCHANGED <<back, ret, config, size, todo, fn, astray, files, full, aux>>

Child(p) ==
  /\ pc = "ready"
  /\ Reap(p)
  /\ IF p = ppid THEN ppid' = 0 /\ pc' = "stopped" /\ ret' = "ready"
                 ELSE UNCHANGED <<ppid, pc, ret>>
  /\ UNCHANGED <<back, config, size, todo, fn, astray, files, full, aux>>

Retry ==
  /\ pc = "stopped" /\ failed
  /\ old' = Without(old, {N(fn, "t")})
  /\ ProcessorStart
  /\ pc' = ret /\ astray' = FALSE
  /\ UNCHANGED <<back, ret, config, size, todo, fn, failed, here, current, state,
                 newstate, full, aux>>

(* BUG: newstate is renamed before the output.                               *)
RenameStateFirst ==
  /\ pc = "stopped" /\ ~failed /\ N(fn, "t") \in DOMAIN old
  /\ state' = newstate /\ newstate' = <<>>
  /\ pc' = "unlink"
  /\ UNCHANGED <<back, ret, mem, astray, logs, proc, full, aux>>

(* rename is retried until it works, for ever without a file.                *)
RenameOutput ==
  /\ pc = "stopped" /\ ~failed /\ N(fn, "t") \in DOMAIN old
  /\ old' = With(Without(old, {N(fn, "t")}), N(fn, "s"),
                 [old[N(fn, "t")] EXCEPT !.x = TRUE])
  /\ pc' = "unlink"
  /\ UNCHANGED <<back, ret, mem, astray, here, current, state, newstate, proc,
                 full, aux>>

UnlinkInput ==
  /\ pc = "unlink"
  /\ old' = Without(old, {N(fn, "u")})
  /\ pc' = "state"
  /\ UNCHANGED <<back, ret, mem, astray, here, current, state, newstate, proc,
                 full, aux>>

RenameState ==
  /\ pc = "state"
  /\ state' = newstate /\ newstate' = <<>>
  /\ proc' = [p \in Pid |-> [proc[p] EXCEPT
                !.fd5 = IF @ = "newstate" THEN "state" ELSE "none"]]
  /\ pc' = ret /\ astray' = FALSE
  /\ UNCHANGED <<back, ret, mem, logs, full, aux>>

-----------------------------------------------------------------------------
(* Signals. Those that come while svlogd is busy wait until it is ready.     *)
Alarm ==
  /\ pc = "ready"
  /\ pc' = "rotate" /\ back' = "ready"
  /\ UNCHANGED <<ret, mem, astray, files, proc, full, aux>>

(* logdirs_reopen: logdir_close, then logdir_open.                           *)
Hup ==
  /\ pc = "ready" /\ "HUP" \in Events /\ opened < MaxOpen
  /\ current' = Safe(current)
  /\ pc' = "open" /\ opened' = opened + 1
  /\ UNCHANGED <<back, ret, mem, astray, here, old, state, newstate, proc, full,
                 written, stray, crashes>>

Term ==
  /\ pc = "ready"
  /\ pc' = "exit"
  /\ UNCHANGED <<back, ret, mem, astray, files, proc, full, aux>>

ExitWaits ==
  /\ pc = "exit" /\ ppid # 0
  /\ pc' = "wait" /\ ret' = "exit"
  /\ UNCHANGED <<back, mem, astray, files, proc, full, aux>>

Exit ==
  /\ pc = "exit" /\ ppid = 0
  /\ current' = Safe(current)
  /\ proc' = [p \in Pid |-> Orphan(proc[p])]
  /\ pc' = "down"
  /\ UNCHANGED <<back, ret, mem, astray, here, old, state, newstate, full, aux>>

-----------------------------------------------------------------------------
(* Processors. One opens its files, or fails; what it reads stays open.      *)
Begin(p) ==
  /\ proc[p].st = "forked"
  /\ IF N(proc[p].stamp, "u") \in DOMAIN old
       THEN /\ old' = With(old, N(proc[p].stamp, "t"),
                           [Empty EXCEPT !.whole = FALSE])
            /\ newstate' = <<>>
            /\ proc' = [proc EXCEPT
                 ![p].st = "running", ![p].read = state, ![p].fd5 = "newstate",
                 ![p].data = old[N(proc[p].stamp, "u")].data]
       ELSE /\ proc' = [proc EXCEPT ![p] = Over(@, "fail")]
            /\ UNCHANGED <<old, newstate>>
  /\ UNCHANGED <<pc, back, ret, mem, astray, here, current, state, full, aux>>

(* It ends well: its output is the whole log, and state follows. Nobody      *)
(* syncs the output, neither the processor nor svlogd.                       *)
EndWell(p) ==
  /\ proc[p].st = "running" /\ "ok" \in Events
  /\ LET t == N(proc[p].stamp, "t")
         d == proc[p].data
         q == Append(proc[p].read, proc[p].stamp)
     IN  /\ old' = IF t \in DOMAIN old
                     THEN With(old, t, [Empty EXCEPT !.data = d])
                     ELSE old
         /\ newstate' = IF proc[p].fd5 = "newstate" THEN q ELSE newstate
         /\ state' = IF proc[p].fd5 = "state" THEN q ELSE state
  /\ proc' = [proc EXCEPT ![p] = Over(@, "ok")]
  /\ UNCHANGED <<pc, back, ret, mem, astray, here, current, full, aux>>

EndBadly(p, how) ==
  /\ how \in {"fail", "killed"} \cap Events
  /\ proc[p].st = "running"
  /\ proc' = [proc EXCEPT ![p] = Over(@, how)]
  /\ UNCHANGED <<pc, back, ret, mem, astray, files, full, aux>>

(* svlogd is killed.                                                         *)
Kill ==
  /\ "kill" \in Events /\ pc # "down"
  /\ pc' = "down"
  /\ proc' = [p \in Pid |-> Orphan(proc[p])]
  /\ crashes' = crashes + 1
  /\ UNCHANGED <<back, ret, mem, astray, files, full, written, stray,
                 opened>>

(* The power fails: of each file a part that was not synced may be missing.  *)
Torn(f, n) == [f EXCEPT !.data = SubSeq(@, 1, n)]

Power ==
  /\ "power" \in Events /\ pc # "down"
  /\ \E n \in current.synced..Len(current.data) : current' = Torn(current, n)
  /\ \E n \in [DOMAIN old -> 0..MaxData] :
       /\ \A f \in DOMAIN old : n[f] \in old[f].synced..Len(old[f].data)
       /\ old' = [f \in DOMAIN old |-> Torn(old[f], n[f])]
  /\ pc' = "down"
  /\ proc' = [p \in Pid |-> Reaped]
  /\ crashes' = crashes + 1
  /\ UNCHANGED <<back, ret, mem, astray, here, state, newstate, full, written,
                 stray, opened>>

Fill ==
  /\ "full" \in Events /\ ~full
  /\ full' = TRUE
  /\ UNCHANGED <<pc, back, ret, mem, astray, files, proc, aux>>

Free ==
  /\ full
  /\ full' = FALSE
  /\ UNCHANGED <<pc, back, ret, mem, astray, files, proc, aux>>

-----------------------------------------------------------------------------
Init ==
  /\ pc = "down" /\ back = "ready" /\ ret = "ready"
  /\ config = NoConfig /\ size = 0 /\ todo = 0 /\ fn = 0
  /\ ppid = 0 /\ failed = FALSE /\ astray = FALSE
  /\ here = FALSE /\ current = Empty /\ old = <<>>
  /\ state = <<>> /\ newstate = <<>>
  /\ proc = [p \in Pid |-> Reaped]
  /\ full = FALSE
  /\ written = 0 /\ stray = FALSE
  /\ opened = 0 /\ crashes = 0

Step ==
  \/ OpenFails \/ Open \/ SetAside \/ PruneAside \/ AppendCurrent
  \/ RotateFirst \/ Write \/ NoSpace
  \/ RotateWaits \/ RotateNothing \/ Sync \/ Rename \/ Create \/ RotateEnds
  \/ Wait \/ Retry \/ RenameOutput \/ UnlinkInput \/ RenameState
  \/ ExitWaits \/ Exit
  \/ \E p \in Pid : Child(p)

Request == Start \/ Alarm \/ Hup \/ Term \/ \E n \in 1..2 : Flush(n)

Environment ==
  \/ Kill \/ Power \/ Fill \/ Free
  \/ \E p \in Pid : Begin(p) \/ EndWell(p) \/ \E how \in Ended : EndBadly(p, how)

Next == Step \/ Request \/ Environment

Spec == Init /\ [][Next]_vars

(* svlogd keeps running; the disk does not stay full; a processor runs, and  *)
(* when it is started again and again ends well at last.                     *)
Fairness ==
  /\ WF_vars(Step) /\ SF_vars(Write) /\ WF_vars(Free)
  /\ \A p \in Pid : WF_vars(Begin(p))
  /\ WF_vars(\E p \in Pid : EndWell(p) \/ EndBadly(p, "fail"))
  /\ SF_vars(\E p \in Pid : EndWell(p))

FairSpec == Spec /\ Fairness

-----------------------------------------------------------------------------
(* Properties. *)

(* A log is data without a gap, and the order of the names is that of what   *)
(* is in the logs, with current at the end. So nothing is ever appended to a *)
(* file that lost its end when the power failed.                             *)
Run(s) == \A k \in 1..Len(s) - 1 : s[k + 1] = s[k] + 1

LogInOrder ==
  /\ Run(current.data)
  /\ \A f \in Saved(old) :
       /\ Run(old[f].data)
       /\ \A k \in Range(old[f].data) :
            /\ \A j \in Range(current.data) : k < j
            /\ \A g \in Saved(old) : f.stamp < g.stamp =>
                 \A j \in Range(old[g].data) : k < j

(* The directory is a Log: what was written stays in current, in an old log  *)
(* or in the whole output of a processor, until rmoldest or a full disk      *)
(* delete the oldest of it. What was synced stays on the disk, too, but for  *)
(* the log of which svlogd unlinks the input when its processor has ended    *)
(* well: that is then in the output alone, which was not synced. A crash     *)
(* takes nothing but what was not on the disk.                               *)
OnDisk(f) == Torn(f, f.synced)

Kept   == Held(here, current, old)
Disk   == Held(here, OnDisk(current), [f \in DOMAIN old |-> OnDisk(old[f])])
Output == (UNION {Range(old[f].data) : f \in {g \in DOMAIN old : g.ext = "s"}}) \ Disk

SafeLog == INSTANCE Log WITH kept <- Kept, safe <- Disk, output <- Output

LogKept == SafeLog!Safety

(* man/svlogd.8: num is the number of old logs that svlogd maintains. Each   *)
(* crash may add one that remains.                                           *)
OldBounded ==
  pc = "ready" /\ (\A c \in Configs : c.nmax > 0) =>
    Cardinality(Saved(old)) <= crashes + Max({c.nmax : c \in Configs})

(* A log's part of state is there only after its output, and once: what the  *)
(* next processor reads never runs ahead of the logs. Unless a processor was *)
(* left to itself by a HUP or a crash (see the README).                      *)
StateFollows ==
  ~stray =>
    /\ \A k \in 1..Len(state) - 1 : state[k] < state[k + 1]
    /\ \A k \in Range(state) : N(k, "u") \in DOMAIN old => N(k, "s") \in DOMAIN old

(* man/svlogd.8: on TERM svlogd waits for its processors. It leaves none     *)
(* behind but those it has lost track of, and current closed and synced.     *)
ExitClean ==
  [][pc = "exit" /\ pc' = "down" /\ crashes' = crashes =>
       /\ current'.x /\ current'.synced = Len(current'.data)
       /\ ~stray => \A p \in Pid : proc'[p].st = "free"]_vars

(* A write ends, with all the rotations and processors it has to wait for.   *)
WriteEnds == pc = "pwrite" ~> pc \in {"ready", "down"}
=============================================================================
