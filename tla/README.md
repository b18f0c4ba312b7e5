# freebsd-runit: a TLA+ model

TLA+ models, TLC runs and TLAPS proofs for the runit programs in this
repository (`src/runit/src`) and the boot scripts that drive them
(`src/etc/runit`). Paths below are relative to the repository, whose files are
under `src/`.

    tlc -workers 2 -config RunsvSafe.cfg MCRunsv.tla      # any run of PROJECT.json
    tlapm RunsvProofs.tla                                 # any of the *Proofs modules

## 1. The system

    runit (pid 1) -- stage 1, 2, 3 scripts        runit-init 0|6 -> files + CONT
      stage 2 = runsvdir -- runsv per service directory
                              |-- ./run, ./finish, ./control/c
                              `-- log/run = svlogd      sv -> supervise/control
                                                        sv <- supervise/status

| Component | State | Operations | What makes it correct |
|---|---|---|---|
| **runsv** (`runsv.c`) | two `struct svdir` (service, log service), self pipe, log pipe, `supervise/{status,pid,control,ok,lock}` | start-up, one turn of the main loop, `ctrl` for 14 characters, SIGCHLD, SIGTERM | it never signals a process that is not its child, loses no child, runs at most one process per service, alternates `./run` and `./finish`, writes a true status, ends when told |
| **runit, runit-init** (`runit.c`, `runit-init.c`, `etc/runit/3`, `ctrlaltdel`, `33-init-var.sh`) | stage, its process, signal flags and self pipe; the files `stopit`, `reboot`, `ctrlaltdel` | fork, reap, restart or next stage, CONT, INT, forced stop of stage 2, power off | one stage at a time, no shutdown without a request, a request is carried out, the power action is the one asked for |
| **runsvdir, runsvchdir** (`runsvdir.c`, `runsvchdir.c`) | array `sv`, `check`, last mtime, inode and device; the link `current` | collect, stat, scan, sweep, pause, TERM, HUP; the switch by two renames | one runsv per subdirectory, no change missed, none that stayed in the directory is told to end |
| **svlogd** (`svlogd.c`, `buffer_get.c`, `buffer_put.c`) | its input buffer and flags; per log directory a buffer, size, `current`, old files, processor and its state files | read, select, write, rotate, reopen (HUP), rotate (ALRM), drain and exit (TERM), full disk | whole lines once and in order, nothing lost but by the rules, logs without gaps after a crash, bounds on their number |
| **pmatch** (`pmatch.c`) | none | match a line against a pattern | the patterns of `man/svlogd.8` |
| **sv** (`sv.c`) | none that lasts: what it read of the status, when it began | write a control string, poll until the status agrees or 7 s are over, send `k` | success is reported only for what happened; the last command decides |
| **chpst, utmpset** | of the calling process | set limits, ids, environment, then exec | - |
| **runsvctrl, runsvstat, svwaitup, svwaitdown** | none | superseded by sv | - |
| **library** (buffer, stralloc, taia, sig, iopause...) | - | wrappers of system calls | - |
| **stage scripts, service templates, svclone, svmod** | files | run once | - |

Interactions. runsvdir starts runsv by fork and ends it with SIGTERM. runsv
excludes a second runsv on the same directory by a lock and learns of its
children's ends by SIGCHLD and a self pipe. sv and runsv share two files: sv
writes characters into the fifo `supervise/control`, of which runsv reads one
per turn, and reads `supervise/status`, which runsv replaces by rename.
runit-init and runit share the modes of `stopit` and `reboot`, and a CONT.

The hard behaviours, each at its line in `PROJECT.json` under `hazards`: deaths that
share a SIGCHLD or race a control character; control characters sent in an order
nobody tested; a pid reused after it was reaped; requests that arrive together
with the end of a stage; services directories that change during a scan;
a TERM or HUP in the middle of a log line; crashes and power failures during the
rotation of a log; and failing system calls half way through.

## 2. Modules

| Module | Models | From |
|---|---|---|
| `Processes` | the process table: fork, kill, exit, wait | external, as `runsv.c` calls it |
| `ServiceLife` | abstract specification: what runsv promises about `./run` and `./finish` | `man/runsv.8`, stated |
| `Runsv` | runsv with both services | `runsv.c` |
| `MCRunsv` | small sets of pids | |
| `RunsvProofs` | theorems about `Runsv` | |
| `Runit` | runit, any number of runit-init, what the scripts do to the files | `runit.c`, `runit-init.c`, `etc/runit` |
| `RunitProofs` | theorems about `Runit` | |
| `Runsvdir` | runsvdir, runsvchdir, directories, the runsv processes from outside | `runsvdir.c`, `runsvchdir.c` |
| `MCRunsvdir` | small sets for `Runsvdir` | |
| `RunsvdirProofs` | theorems about `Runsvdir` | |
| `Sv` | sv and the runsv it talks to, on one service | `sv.c` |
| `MCSv` | commands for `Sv` | |
| `SvProofs` | theorems about `Sv` | |
| `Log` | abstract specification: what svlogd promises about a log, and what a crash may take of it | `man/svlogd.8` and `svlogd.c`, stated |
| `Logdir` | one log directory of svlogd and its processors, with crashes and full disks | `svlogd.c` 118-575 |
| `MCLogdir` | what `config` may say | |
| `LogdirProofs`, `LogKeptProofs` | theorems about `Logdir` | |
| `Pmatch` | the pattern matcher, and what its manual page says of patterns | `pmatch.c` |
| `PmatchProofs` | the matcher compared with that, for every pattern and message | |
| `Svlogd` | svlogd from its input to what it hands to the directories | `svlogd.c` 577-846, `buffer_get.c`, `buffer_put.c` |
| `MCSvlogd` | inputs and patterns for `Svlogd` | |
| `SvlogdProofs` | theorems about `Svlogd` | |

`Sv` EXTENDS `Runsv`: each of its steps is a step of that module with what it
means to the clients, or a step of a client. `Svlogd` uses `Pmatch`. `ServiceLife`
and `Log` are instances that `Runsv` and `Logdir` implement.

Conventions. `pc` is the place in the main loop; one action is what happens
between two points where another process can matter. Operators marked `BUG`
are plausible mistakes; each takes the parameters of the definition after it, and
the run named in `PROJECT.json` fails its property when it takes that definition's place.
None of them is used by the models.

### Runsv

`svd["main"]` and `svd["log"]` are `svd[0]` and `svd[1]`, with `C_TERM` and
`C_PAUSE` of `ctrl` as `term` and `paused`; of `wstat` only whose exit status it
is. `disk` is the status and pid file of both. `selfpipe`, `pending` and
`sigterm` are the self pipe, the blocked signals and the flag of `s_term`.
`StartLog`/`StartMain` (522-526), `Handle` and `Wake` (528-547), `Reap`
(552-587), `ReadMain`/`ReadLog` (588-590), `CheckTerm` (592), `Leave`,
`CloseLog`, `Loop` (594-604) are the turn of the loop, `Ctrl` is `ctrl()` by
character. A customized character (`./control/c`) exits 0 or not as it likes.
`young` stands for "the second in which ./run was started", which `Age` ends at
any time. A child forked after the log pipe is closed cannot set up its output
(`execs`). Left out: arguments, opening of files, the text of
`supervise/stat`, and system calls that fail and are retried.

Each property says in its comment what it is about. The strongest ones:
`OnlyChildrenSignalled` (no signal to a reaped pid or to the process group 0),
`RecordsTrue` (the record names the one child and what it is), `NoLostChild`,
`FinishAfterRun`, `LogClosedLast`, and `LifeSafety`, the refinement of
`ServiceLife` with the phase read off the *process table*, not off runsv's own
records.

### Sv

The state of `Runsv` and, of each client, where it is (`at`), what it was told
(`action`: the string of control characters, whether it polls, whether it
sends `k`), whether the seven seconds are over (`late`), and how `tstart` compares
with the status' time stamp. Both are seconds, so the model keeps the
comparison: `stamp` is "older" (than tstart), "same" (the second in
which sv was called) or "since"; `fresh` says that the file's stamp
is of the present second, which ends at any time (`Second`). runsv stamps the status in startservice
(not for `./finish`) and when the service is down (`Restamped`).
`control` is two steps, since runsv and others run in between: the reading of the status
and the comparison (`Control`), the opening and writing of the pipe (`Put`;
runsv may be gone by then, and sv dies of SIGPIPE; the pipe may be full, and since `open_write` opens
it with `O_NDELAY` the write then fails: `PipeFull`, at `QueueCap` characters in the model). A poll (`Poll`) reads the
status once and judges what it read; `./check`, run after it, says what it likes. `Expired`
and `SendKill` are lines 377-382. Auxiliary: `ran` (a `./run` was started since
sv began), `sure` (nothing was unread when `control` looked). A client that has
finished begins again with any command. Left out: output, `status`, exit codes
beyond success or failure, errors of system calls, and the loop over several services,
which carries nothing from one to the next.

`OkTrue` relates what sv reports to the process table. It holds while `RecordsTrue`
does, which a `k` breaks until the killed process is reaped. `StopUnderWay` says that what `stop` waits
for is on its way, the `once` case of line 253 included.

### Runit

`st` is the stage, `stage` the process of each stage with its wait status as
the kernel encodes it (`0`, `100*256`, `111*256`, `9` for a crash), `other` an
inherited process which may belong to the process group of stage 2, `file` the
modes of the three files, `client` the progress of each runit-init between its
system calls. `wait_exitcode` and `wait_crashed` are what `wait.h` defines.
Signals are kept in `pending` until the poll unblocks them; `got` are the
flags `sigc` and `sigi`. The forced stop of stage 2 is `Stop`, `TermEnded`,
`TermLate` (its timeout) and `Killed`. Left out: the console, messages, `sync`, and
fork or pipe failing for a while.

### Runsvdir

`sv` is the array, entries without names since a service is its inode;
`seen` are `dev`, `ino`, `mtime`; `s` is what `stat` returned, kept between
`stat` and `chdir` because the link may change there; `unread` is what
`readdir` has yet to return, in any order; `fresh` says that a directory's
modification time is the present second, which is what the `sleep(1)` of line 236 is about.
`errno` is modelled since it decides whether the scan ends as failed, and a
failing `fork` sets it, a failing `stat` clears it. `missed` is
auxiliary: opendir or a fork failed in the last scan. So is `absent`, what was not
in the scanned directory at some time since `opendir`: `SparesOthers` is stated over it, over what
others made of the directory, and not over the code's flag `isgone`. A child is "forked" until it runs and then
holds the service's lock, or ends because another does. `MoveAway`, `MoveIn`
and `MoveBack` are the renames of runsvchdir. Left out: the readproctitle log,
`-P`, and the `fchdir` back, which is retried until it works.

### Logdir

`LogKept` is the refinement of `Log`: `kept` is what the files hold (`Kept`), `safe` what of it is
on the disk (`Disk`), `output` what is in the processed output of a log and not on the disk
(`Output`). Data are deleted by a full disk and `rmoldest` only, and only the oldest. A crash takes
nothing that is safe. What was safe ceases to be so in one step, `Process` of `Log`: the `unlink` of a
processor's input (`UnlinkInput`), after which the log is in the output alone, which nobody
syncs. A power failure tears each file at a place of its own, so that of several logs in `output` any
may lose its end or all (`Power`).

The seam between the two modules of svlogd is `buffer_flush`: `Svlogd` says what
reaches `buffer_pwrite`, and `Logdir` what becomes of it. A directory's steps
are sequential and share nothing with another's but the process, so `Logdir` has
one.

Data are units 1, 2, ... in the order of writing; a unit is what `linemax`
characters take, `size` counts units, and "a newline within the last `linemax`
bytes" is `newline` with at most one unit left. Files are known by `@stamp` and
extension; the stamp is the number of units written, which grows between two
rotations that save something, as time does. `here` and `current` are the file
`current`; of any file `synced` is how much of it survives a power failure, and
`x` its execute bit, by which `logdir_open` tells a `current` that was closed
properly. `pc` separates what a crash can separate: `Sync`, `Rename`, `Create`
(with `rmoldest`, deletions that follow each other), `RenameOutput`,
`UnlinkInput`, `RenameState`, `SetAside`, `PruneAside`. `back` and `ret` are the
return addresses of `rotate` and `processorstop`. `astray` is the working directory: the
log directory instead of svlogd's own. A processor is forked, then opens its files
or fails (`Begin`), then ends; `fd5` is what name its `newstate` has by then, `mine` whether
svlogd is still its parent. `written`, `stray` (a processor was left to itself) and the counters are
auxiliary. Rotation by age is `Alarm`, like ALRM: both rotate at a time of their
own. Left out: the lock between fork and exec, prefixes and time stamps of lines, `udp` and stderr, and
failing calls that are retried with nothing changed.

### Svlogd and Pmatch

A character is its position in the input, so that loss, repetition and disorder
show in the output; 0 is a newline svlogd adds itself. `rd` and `p` are what has
been read and what of that is still in `data`; `b` and `out` of each directory
its buffer and what has been passed on, `err` the lines put on standard error for it.
`line` is the array of that name, with what earlier lines have left behind the
present one. `Pread` is `buffer_pread` up to `iopause`
(585-605), `Read` and `ReadNothing` from there (606-616); handlers run in
between only (`Handle`). `GetChar` reads a line's head until newline or `linemax`
(737-764), `Emit` selects directories and writes it (765-817), `GetLong` and
`Newline` do the rest (818-838). `LogMatch` and `LogMatchErr` are `logmatch`, each
match a call of `Pmatch`, which is given the character behind the line, since a `+` may look
at it. One turn of the matcher's loop is `MatchesFrom`: from where on the message matches the
rest of a pattern. `Described` is the meaning of patterns in `man/svlogd.8`: there is a way to cut the
message into pieces (`Cuts`), one for each item. Every line of a run is matched against all patterns of `Patterns`
(`PmatchFits`), besides those of the configuration. A directory with no pattern is never matched again,
and keeps the `match` that `logdir_open` sets, as in the code.

## 3. Runs

| Run | What it asks | Bounds |
|---|---|---|
| `runsv_safe` | invariants, action properties and the refinement, with log service and `./finish`, `u d x o` for the service, `u d x` for the log, SIGTERM to runsv | 2 pids, one unread character per pipe |
| `runsv_live` | liveness under `x p d` and `t` for the log | 2 pids |
| `runsv_replaced` | *violated*: startservice is never called for a service that has a process | 2 pids |
| `sv` | what sv reports has happened, stop does not wait in vain, no signal goes astray though records may lie after `k` | force-stop, restart, once and shutdown in any order, `./check`, `./finish`; one client, 2 pids, no log |
| `sv_lost` | *violated*: the last command that was answered decides | `up` and `down` of one client, 2 pids |
| `runit` | all of `Runit`, safety and liveness | one runit-init 0, one 6, INT, wait statuses 0, 100, 111, one inherited process |
| `runit_crash` | *violated*: a crash is handled | wait statuses 0 and signal 9 |
| `runsvdir` | entries, children and directories agree | 2 directories, 2 services in either, room for 2, 4 pids, one change of modification time each, fork and opendir may fail |
| `runsvdir_live` | who stays is run, who is removed ends | 1 directory, 2 services, room for 1, 3 pids, TERM, HUP, readdir errors |
| `logdir` | order of the logs, the refinement of `Log`, their number, the processors' state, exit, progress | a plain directory of 2 units a file, num 2, min 1, and one with a processor, num and min 1; a HUP or a restart may change one into the other; 3 units, 2 openings, 2 pids; processors that fail, HUP, kill, power failure, full disk |
| `svlogd` | what reaches the directories and standard error, the matcher, exit, progress | 3 inputs of up to 7 characters with short, empty, long and unfinished lines, `linemax` 2, buffers of 3; one directory that takes everything and may fail to open, one with two patterns; TERM, HUP |
| `svlogd_term` | *violated*: nothing that was read is lost at exit | the inputs of `svlogd`, TERM only |

Why the bounds suffice. Two pids are one for each service, and each is reused as
soon as it is reaped, which is the case the signal properties are about. One unread character per pipe still
lets every order of characters occur, since a writer may follow at once; runsv
reads one per turn, so that more of them in the pipe add no interleaving of
their own. In `Runsvdir`, four pids are enough for two services and two that
were let go: a scan never runs out of them. Two services and room for two make the sweep move
an entry; room for one of two makes an entry be refused and later accepted. One change of
the modification time, together with changes within the same second, which do
not change it, are the cases the code distinguishes. A removal waits until the
children let go before have ended, which bounds the children and hides no
order of a single removal. In `Sv` one client calls
one command after the other, so that its own earlier one may still be unread
when it looks; a service directory without log leaves out nothing sv looks at;
the run also passes with a `d` that others may write at any time
(`Commands = {"d"}`, 3.9 million states), which is left out for its time. In `Logdir`, two units fill a file and three make it
be rotated and written again; two openings are a start and either a HUP or a
restart after a crash. A third opening multiplies the states; what it
adds is under "Also met". In `Svlogd` buffers of 3 with `linemax` 2 fill half way
through a line, and the longest line is twice `linemax`.

`CHECK_DEADLOCK FALSE` is in every configuration as each program may exit, or the machine be off.
Symmetry is used for pids (and services and directories) in runs without
liveness; the models only compare them.

Fairness. Each program is one sequential process that the kernel keeps
running: weak fairness of its step. A poll returns once something is readable
even if handlers keep interrupting it: strong fairness of `Wake`. runsv assumes
nothing of a service, except that a process with a TERM or KILL that is not
stopped ends, that `./finish` ends, and that the log service ends at end of
file. runit needs that inherited processes do not die faster than it reaps and
that stage 3 ends. runsvdir needs that a second passes now and then
(`SF_vars(DoStat)`, since `SkipStat` is also what happens when no time has
passed), that readdir does not fail for ever, and that runsv ends after a TERM, which `ExitHappens` of
`Runsv` shows. svlogd needs that the disk does not stay full (a write that is
tried again and again succeeds once), that a processor gets to run and ends, and well
at last when it is started again and again (without it svlogd waits for ever, by
design), and that the writer writes the line it has begun.

### What the violated runs show

1. `runsv_replaced`, `runsv.c:344`. `k` sets the state to down with the process still there; `u` or
   `o` read before it is reaped enters `startservice` with a pid, "should never
   happen" by the comment of line 281. The first process is then nobody's.
2. `runit_crash`, `runit.c:180`. A crashed stage has exit code 0, so the code
   for crashes is never reached and `man/runit.8` does not hold.
3. `sv_lost`, `sv.c:252`. control sends nothing if the status says that the service is
   wanted so already, and does not see what is still in the pipe: in `sv down; sv up` the
   up may be left out, with exit code 0, after which runsv reads the `d`. `StopUnderWay` shows
   that a stop is not lost when nothing was unread.
4. `svlogd_term`, `svlogd.c:765`. The test for the exit stands between reading a line and writing it, so
   that what has been read of a line can be dropped, against `man/svlogd.8:440-444` ("processes the data in the
   buffer"), in two cases. On a TERM: with `exitasap` set, the line whose reading empties the
   buffer is dropped, be it complete, or longer than `linemax` and not yet read to its end. At end of file: an input may
   end without a newline; `buffer_GETC` then sets `exitasap` (739-742), and what has been read of that
   line is dropped if it is less than `linemax` characters (line 831 has a case for a line without newline,
   which only longer ones reach). TLC finds the first with `Signals = {"TERM"}`, as in the
   run, and the second with `Signals = {}`. `OnlyLastLost` shows that these two are all: nothing is lost but of
   the last line, and that on a TERM or at such an end only.

Also met; the exception stands in the comment of the property, or in the run's bounds:

- `runsv.c:132`. `pidchanged` is shared by the service and the log service; with
  `./log/down` a stale `log/supervise/pid` survives start-up. `runsv_safe` has no `./log/down`.
- `sv.c:234`. A service whose `./run` was started in the second in which `sv
  restart` is called counts as restarted: "same" in `OkTrue`.
- `sv.c:234`. try-restart looks at the pid, not at the state: it reports ok while the
  `./finish` of the service runs, if the status was stamped since.
- `sv.c:209`. A `./check` that a signal ends has exit code 0 and counts as
  success. `sv.c:229`: `sv check` calls a service that is down ok whatever is wanted.
- `sv.c:253`. After pause, term and once, stop finds a service that is wanted down and
  has got TERM, and sends nothing, so no CONT either: the service stays stopped
  until the time is over. `StopUnderWay` speaks of the TERM only.
- `sv.c:169`. With LSB, `status` exits with the code of the log service, and prints what it
  read for the service if that of the log service cannot be read. Not modelled.
- `pmatch.c:16-18`. A `+` at the end of the line reads the byte behind it, which an
  earlier line has left there, and if that fits ends the match whatever the pattern goes on
  with: "+bc" then matches "". With only `b`s left "+bc" matches "b". `PlusMeetsEnd` in `PmatchFits`.
- `svlogd.c:192`. `wait_exitcode` is 0 for a processor ended by a signal too: its unfinished
  output replaces the log, which is deleted, against `man/svlogd.8:115-127`. Modelled
  (`Failed`, event "killed") but not in the `Events` of the run: with it `LogKept` fails.
- `svlogd.c:192-212`. A log is synced before a processor reads it (`rotate`), but the output that takes
  its place is not: nothing calls `fsync` between the end of the processor and the `unlink` of the input
  (210). A power failure later may take that log, or a part of it, though it was on the disk. `Power` does so;
  `output` in `Log` is what it may take.
- `runsv.c:575-585`. `man/runsv.8:57` says that `./finish` of the log service is started as that of the
  service; the code starts that of the service only. No property is about it.
- `runit.c:201`. A CONT taken in the wakeup in which stage 2 is found ended with
  111 is not looked at until something else wakes runit; `RequestHonoured` shows
  that a restart of the stage is the only way to lose one.
- `runsvdir.c:87`. `check`, set because a runsv ended, is cleared before the
  directory is opened; if that fails the service is without runsv until the
  directory changes or another runsv ends. A failing fork is noticed by `errno` at the
  end of the scan, unless a later stat fails too. `AllStarted` shows that nothing
  else can do this.
- `runsvdir.c:230`. When `current` is switched between `stat` and `chdir`, and back after the scan,
  the entries of the other directory are taken for those of the one whose time was noted, until that one
  changes: it takes two runsvchdir within one pass of the loop. "switch" in `Faults` allows it, and then
  `NothingMissed` fails.
- `etc/runit/3` makes any `reboot` file executable, so that `init 0` after an
  interrupted `init 6` reboots.
- `svlogd.c:342`. On a full disk the output of a running processor counts as an old
  log. With `N1` it is deleted, and `processorstop` then retries its rename for
  ever. The run's directory with a processor has num = min.
- `svlogd.c:351`. With min or fewer old logs on a full disk svlogd stays in the log
  directory after the write; on the next HUP it does not find the directories by
  relative names, and dies (`OpenFails`). A restart mends it.
- `svlogd.c:430`. A HUP forgets the processor, which goes on beside the next one.
  They share `newstate`, and with three openings the state can run ahead of the
  logs: hence `stray` in `StateFollows` and `ExitClean`.
- `svlogd.c:589`. A HUP served inside a line longer than `linemax` selects the rest of
  it anew without looking at the patterns: hence `cut` in `WholeLines`.
- `svlogd.c:769`. `matcherr` is not reset by `logdir_open`, but set before every use (`LogMatchErr`).

## 4. Proofs

Each theorem holds for every value of its module's constants: any sets of pids,
services, directories and clients, any bounds, every kind of configuration and fault. They
use the named assumptions of the modules (`RunsvAssumption`, `PidAssumption`, `RunitAssumption`,
`RunsvdirAssumption`, `LogdirAssumption`, `SvlogdAssumption`: the types of the constants, and that 0 is no pid), which TLC evaluates. A
theorem with a hypothesis besides has it below. Every inductive invariant was
checked by TLC first. Each proof has one lemma or step per action.

`RunsvProofs`:

- `TypeCorrect`: `Spec => []TypeOK`; one lemma per helper, then one step per action.
- `SignalSafety`: `Spec => []OnlyChildrenSignalled`. Not inductive: that a
  signal goes to a child needs that a recorded pid is of an unreaped child
  (`PidsAreChildren`), and that a running service has a pid
  (`RunningHasPid`), since a `kill` guarded by the state would reach pid 0
  otherwise. The two services' pids must differ for this to survive a reap. Together: `ChildInv`. It
  holds with `k` too, though the records then lie.
- `NoChildForgotten`: `Spec => []NoLostChild`. No step but a child's end makes a
  zombie, and that sets SIGCHLD pending; handling it fills the self pipe, and
  emptying that is the step into the reaping loop.

`RunsvProofs`, second part, all under `NoKillSent` (nobody writes `k`), without which they
are false (`runsv_replaced`):

- `RecordsAreTrue`: `Spec => []RecordsTrue` from `LifeInv`, which adds to the
  record that no unread character is `k` and that a service in state down has
  no pid. The converse, that no child is without a record, is what makes it
  inductive across a start.
- `NoneReplaced`: startservice finds no pid whenever it is called.
- `ExitIsClean`: no child is left when runsv exits.
- `RunsvIsServiceLife`: `Spec => LifeSafety`, the refinement. By `PhaseIsRecorded` the phase of the
  process table is the one recorded in `svd["main"]`; then every action is a
  step of `ServiceLife` or leaves the phase alone.
- `LogIsClosedLast`: `Spec => LogClosedLast`. By `LifeInv` every process of the service is
  the recorded one, and `CloseLog` finds none recorded.
- `FinishIsAfterRun`: `Spec => FinishAfterRun`, from `RunReaped`: while `./finish` is due or
  running the record holds the exit status of `./run`; only reaping touches it.
- `FilesAreCurrent`: `Spec => []FilesCurrent`, from `FilesInv`: the status file always says what
  the record says, and the pid file too, but for that of a log service still to be started. Hypothesis
  `HasLog => ~LogDown`: with `./log/down` that one is never started, and its pid file is
  the one an earlier runsv left (see "Also met").

`RunitProofs`:

- `TypeCorrect`: `Spec => []TypeOK`. The table of stages is indexed with `st`; by `StagesOver`
  it is past the last stage only once all is killed.
- `StagesExclusive`: `Spec => []OneStage` from `StageInv`: no stage but `st` has a process,
  and none has one where the next is forked; the steps of a shutdown, which wait for a stage
  by name, are taken in that stage.
- `StopsOnRequest`: `Spec => []ShutdownAsked` from `RequestsAsked`: a signal pending or noted
  has been asked for, CONT by a runit-init or by way of the script for ctrl-alt-del.
- `RebootHappens`: `Spec => []RebootKept` from `RebootInv`: from the moment a `runit-init 6` has made
  the file `reboot` executable it stays so while no `runit-init 0` has begun.

`RunsvdirProofs`:

- `TypeCorrect`: `Spec => []TypeOK` from `TypeInv`: a scan is always of a directory, and the
  sweep begins with the first entry.
- `EntriesAreTrue`: `Spec => []EntriesTrue`, inductive with `TypeInv`. The two hard steps are the
  sweep's move of the last entry over the removed one and the return of a pid that was reaped.
- `OthersAreSpared`: `Spec => SparesOthers`, from `GoneInv`: an entry marked `isgone` is of a service
  that `readdir` has yet to return or that was not there at some time of the scan, so that after the
  last `readdir` only the latter are left to be told to end. The sweep kills the pid of an entry, which by
  `EntriesTrue` is a runsv of that entry's service.
- `AllAreStarted`: `Spec => []AllStarted` from `StartedInv`: during a scan the entries it has found
  have their runsv, and the sweep has left none it did not find before the entry it is at,
  unless `check` is set and calls for another scan.
- `ChangesAreSeen`: `Spec => []NothingMissed`, hypothesis `"switch" \notin Faults` (the link
  `current` does not change between the `stat` and the `chdir` of one pass; then the code notes
  one directory's time for another's entries). From `StartedInv`, `TimesInv` (a time noted is
  not ahead, and when it is still the directory's the second is over in which it could change unseen),
  `LinksInv` (the directory that `stat` told of is the one `chdir` leads to) and `FoundInv`
  (each subdirectory has an entry, is still unread, or found no room, and only those have).

`SvProofs`:

- `SvTypeCorrect`: `SvSpec => []SvTypeOK`.
- `SvSignalSafety`: `SvSpec => []OnlyChildrenSignalled`, for any number of clients. `ChildInv` of
  `RunsvProofs` does not depend on what is in the pipes, so each step of `Sv` that is a step
  of runsv keeps it, and the others leave the records alone.
- `OkIsTrue`: `SvSpec => OkTrue`, for any clients, commands and scripts, `k` and other writers included. From
  `StatusSaid` (the status file says of the service what the record says, but for a state that a `k` has put down
  since) and `StampInv` (a new time stamp that no start of `./run` has made means that the service has
  gone down, and is down still). By `MainMoves` the pid of the service changes by a start or a reap only.
- `StopIsUnderWay`: `SvSpec => []StopUnderWay` from `TermInv` (each `./run` has got a KILL or is the recorded
  one, which has got TERM when record and status say so) and `SureInv` (between the look at the status and the
  write nothing that revokes the stop is unread; while sv polls, the `d` is unread or the service is on
  its way down). Hypotheses: `OneClient` and `NoRevoking`, since another `u` or `o` revokes the stop, and
  `NoCustomEnd`, since `./control/t` and `./control/k` take the place of the signals.

`LogdirProofs`, with no hypothesis: any number of crashes, power failures, HUPs and changes of `config`:

- `TypeCorrect`: `Spec => []TypeOK` from `TypeInv`: no file has more synced than it has.
- `ExitIsClean`: `Spec => ExitClean` from `PidInv`: `ppid` is 0 or the processor started for
  `@fn`, and until one was left to itself there is no other.
- `LogsAreInOrder`: `Spec => []LogInOrder` from `CurrentInv` (which `current` may be appended to:
  empty, or closed in good order, hence with all of it on the disk) and `OrderInv` (a
  time stamp in a name lies between the file's data and all later data; so does that of a processor's input).
- `StateIsBehind`: `Spec => []StateFollows` from `StateInv`: `newstate` is empty or is `state` with
  the log of the processor that has ended; that log is younger than all in `state`, and its
  input is deleted before `newstate` is renamed.

`LogKeptProofs`:

- `LogdirIsLog`: `Spec => LogKept`, the refinement of `Log`. Hypotheses: `NoneKilled` (a processor does not
  end by a signal; if it does its unfinished output becomes the log, `svlogd.c:192`) and `KeepsInputs` (a
  `config` with a processor has a min of at least num; else a full disk may delete what the
  processor reads or writes, `svlogd.c:342`). The inductive invariant `KeptInv` adds to those of `LogdirProofs`
  that all old logs but the output of a processor are whole, and that beside an output there is its closed
  input or none, which holds all that the output does (`FilesKept`); that no two processors have the same log, and one that runs or has ended well has
  read the log as it is (`InputsKept`); and that the input of svlogd's own processor is there until the output is,
  and is on the disk before (`RotationKept`). The rename of an output over the one of an earlier processor then changes nothing in the log, since the
  input is still there and on the disk; the `unlink` of the input leaves what the log holds, and moves
  what was safe of it to `output` (`MapsProcess`): no other file holds it (`OutputAlone`). What `rmoldest` deletes is the oldest, by
  `OrderInv`; data of it that remain are in the other file of the same time.
- `LogsAreBounded`: `Spec => []OldBounded` from `CountInv`: one log too many is there only between a
  rename and what makes room for it, and a crash there is counted. While a processor works its input
  is there, whose place the output takes, or was deleted for a full disk and has left room. `rmoldest` does not delete
  the log just renamed, since by `OrderInv` no other is younger. Hypotheses: there is a configuration, and
  their nums are finitely many, as numbers of the code's width are; so one of them is the largest (`FiniteHasMost`).

`PmatchProofs`, about the operators alone, for every pattern in which each `*` and `+` has a meaning
(`IsPattern`), every message and every character behind it:

- `MatchesWhatIsDescribed`: what the pattern describes matches, and what matches is described unless a `+` meets
  the end of the message (`PlusMeetsEnd`: nothing but its character is left). The matcher is a recursive
  function and the pattern has any length, so both directions are inductions. The library's induction theorems take
  an operator and cannot be instantiated here; `Induction` states it for sets of numbers, and
  follows from the least element that a well-founded relation has (`LeastOf`). With it `PmatchIs` shows that the
  function exists and obeys its equation, from the pattern's end to its front. `ItemMatches` and `DescribedMatches` go
  the same way along the pieces of a cut: from the start of each the message matches the rest of the pattern. The
  other direction carries a cut of what is behind the place reached (`Reached`) through the pattern:
  `MatchGoesOn` adds the next piece, or finds a `+` that has met the end, since then the front of the pattern
  describes the front of the message (`FrontDescribed`).
- `PlainPatternsAreExact`: without a `+` matcher and description agree.

`SvlogdProofs`, for any input, pieces it comes in, signals and configuration:

- `TypeCorrect`: `Spec => []TypeOK` from `PosInv`: at each place of the loop, where `first`, `linelen`, `rd` and
  `p` stand with respect to the newlines of the input. It says why `line` is not overrun, and that nothing
  is taken from an empty buffer.
- `LinesAreWhole`: `Spec => []WholeLines`. `OrderInv`: what a directory has been given grows in order up to the
  place reached in the present line. `LineInv`: the array `line` holds the present line's head, so (with the
  hypothesis below) `logmatch` decides as the line's patterns do. `MatchInv`: `match` stays so until the line's
  newline, unless a HUP sets it anew. `WholeInv`: a line of which a directory has anything is there up to the place
  reached, all of it once it is over. `HeadsInv`: the same for standard error.
- `OnlyLastIsLost`: `Spec => []OnlyLastLost` from `LostInv` (each character of the lines gone through, and each of
  the present one that has been given out, is in the output of each directory that is to have it) and
  `PosInv`: where the loop is left all that has been read is of the present line, which either ends with
  the last character read, after a TERM, or is unfinished and shorter than `linemax`.

These two have the hypothesis `MatchedAsDescribed`: the patterns of the instructions match the lines they
describe. `MCAssumption` has TLC evaluate it for the instructions of the runs. With an instruction whose `+`
meets the end of a line `logmatch` selects otherwise than `man/svlogd.8` says, and `WholeLines` may fail.

- `MatcherIsRight`: `Spec => []PmatchFits`, from `MatchesWhatIsDescribed` and the type of `line`: no hypothesis, and
  nothing of what earlier lines left behind the present one.
- `PlainLinesAreKept`: `Spec => [](WholeLines /\ OnlyLastLost)` under `NoPlus`, no `+` in the patterns of the instructions,
  which by `PlainPatternsAreExact` gives `MatchedAsDescribed`: nothing is then assumed of the matcher.

Only model-checked: the liveness properties (`FairSpec` in the runs), which the prover cannot do. Of the constants
the proofs about patterns assume that a pattern is a sequence without `Nul`, as a C string is, and regular.

## 5. Not modelled yet, and the plan

Every invariant and action property of the runs has its theorem. What could follow: the same
for instructions with a `+`, from a condition on the lines that keeps it from meeting their end.

Not modelled: two runsv whose services share a log directory, the second of which
waits for the lock of the first for ever (`runsv.c:475`; it follows from the
two lines, and no step of either has to race); a runsv that is killed,
whose children go on without it, for which no code is there; fork and other
calls that fail for a while and are retried.

Not planned: chpst, utmpset and the obsolete tools (one pass, no state of
theirs outlives the call), the library (abstracted to its results), the boot
scripts' one time tasks, the service templates, svclone and svmod.
