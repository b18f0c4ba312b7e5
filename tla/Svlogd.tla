------------------------------- MODULE Svlogd -------------------------------
(***************************************************************************)
(* svlogd from its standard input to its log directories: the main loop    *)
(* and buffer_pread of src/runit/src/svlogd.c with the buffers of          *)
(* src/runit/src/buffer_get.c and buffer_put.c. What happens inside a log  *)
(* directory is the subject of module Logdir; rotation leaves the buffers  *)
(* alone and does not appear here. Characters are known by their position  *)
(* in the input, so that loss, repetition and disorder show in the output. *)
(***************************************************************************)
EXTENDS Integers, Sequences, FiniteSets, SequencesExt, Pmatch

CONSTANTS Texts,        \* the inputs: sequences of characters
          NL,           \* the character that ends a line
          Dir,          \* the log directories
          Inst,         \* the instructions in the config of each
          Patterns,     \* patterns to try on every line
          Flaky,        \* directories that may fail to open on a HUP
          LineMax,      \* linemax
          BufLen,       \* buflen
          Signals       \* those somebody sends: a subset of {"TERM", "HUP"}

Char == UNION {{t[k] : k \in DOMAIN t} : t \in Texts}

ASSUME SvlogdAssumption ==
  /\ LineMax \in Nat \ {0} /\ BufLen \in Nat /\ BufLen > LineMax
  /\ \A t \in Texts : t \in Seq(Char)
  /\ Flaky \subseteq Dir
  /\ Signals \subseteq {"TERM", "HUP"}
  /\ \A d \in Dir : \A k \in DOMAIN Inst[d] :
       Inst[d][k].op \in {"+", "-", "e", "E"} /\ IsPattern(Inst[d][k].pat)
  /\ \A pat \in Patterns : IsPattern(pat)
  /\ Nul \notin Char

VARIABLES text,         \* the input
          arrived,      \* how much of it has been written to the pipe
          closed,       \* the writer has closed the pipe
          rd,           \* how much of it has been read
          p,            \* data.p: how much of that is still in the buffer
          pc, caller,   \* where svlogd is; which loop called buffer_GETC
          want,         \* the len of read, settled before signals are let in
          first,        \* the position of the line's first character
          line,         \* the array line, with what earlier lines left in it
          linelen,
          exitasap, reopenasap, linecomplete,
          open,         \* the directories with fddir # -1
          match, b,     \* of each directory; b as what is in its buffer
          out,          \* what was handed to buffer_pwrite
          err,          \* of each directory, the lines put on standard error
          term,         \* auxiliary: a TERM was received
          cut           \* auxiliary: a HUP was served inside a long line

vars == <<text, arrived, closed, rd, p, pc, caller, want, first, line, linelen,
          exitasap, reopenasap, linecomplete, open, match, b, out, err, term,
          cut>>

stdin == <<text, arrived, closed>>
flags == <<exitasap, reopenasap, linecomplete, term, cut>>
dirs  == <<open, match, b, out, err>>

(* The position of the last character taken from the buffer.                 *)
Taken == rd - p

TypeOK ==
  /\ text \in Texts
  /\ arrived \in 0..Len(text) /\ rd \in 0..arrived /\ p \in 0..BufLen
  /\ closed \in BOOLEAN
  /\ pc \in {"line", "long", "pread", "pause", "emit", "newline", "close",
             "gone", "died"}
  /\ caller \in {"line", "long"}
  /\ want \in {1, BufLen}
  /\ first \in 1..Len(text) + 1 /\ linelen \in 0..LineMax
  /\ line \in [1..LineMax + 1 -> Char \cup {Nul}]
  /\ {exitasap, reopenasap, linecomplete, term, cut} \subseteq BOOLEAN
  /\ open \subseteq Dir
  /\ match \in [Dir -> {"+", "-"}]
  /\ \A d \in Dir : b[d] \in Seq(0..Len(text)) /\ Len(b[d]) <= BufLen
  /\ \A d \in Dir : out[d] \in Seq(0..Len(text))
  /\ err \in [Dir -> Seq([from : 1..Len(text) + 1, len : 0..LineMax])]

-----------------------------------------------------------------------------
(* The buffer of a directory. A put that does not fit flushes it first.      *)
\* BUG: it does not.
HeldAll(buf, s) == buf \o s

Held(buf, s) == IF Len(buf) + Len(s) <= BufLen THEN buf \o s ELSE s

\* BUG: what is in the buffer is forgotten.
FlushedNone(buf, s) == <<>>

Flushed(buf, s) == IF Len(buf) + Len(s) <= BufLen THEN <<>> ELSE buf

Put(D, s) ==
  /\ b'   = [d \in Dir |-> IF d \in D THEN Held(b[d], s) ELSE b[d]]
  /\ out' = [d \in Dir |-> IF d \in D THEN out[d] \o Flushed(b[d], s)
                                      ELSE out[d]]

FlushAll ==
  /\ b'   = [d \in Dir |-> <<>>]
  /\ out' = [d \in Dir |-> out[d] \o b[d]]

(* The directories the present line goes to.                                 *)
Selecting(m) == {d \in open : m[d] = "+"}

-----------------------------------------------------------------------------
(* buffer_GETC returned 0: the loop it is in is left.                        *)
EndOfInput ==
  /\ exitasap' = TRUE
  /\ pc' = IF caller = "line" THEN "emit" ELSE "newline"

(* The next character comes from the buffer, or from buffer_pread.           *)
Refill ==
  /\ pc \in {"line", "long"} /\ p = 0
  /\ caller' = pc /\ pc' = "pread"
  /\ UNCHANGED <<stdin, rd, p, want, first, line, linelen, flags, dirs>>

GetChar ==
  /\ pc = "line" /\ p > 0
  /\ p' = p - 1
  /\ LET ch == text[Taken + 1] IN
       /\ linelen' = IF ch = NL THEN linelen ELSE linelen + 1
       /\ line' = IF ch = NL THEN line ELSE [line EXCEPT ![linelen + 1] = ch]
       /\ pc' = IF ch = NL \/ linelen' = LineMax THEN "emit" ELSE "line"
  /\ UNCHANGED <<stdin, rd, caller, want, first, flags, dirs>>

(* The rest of a line that is longer than linemax.                           *)
GetLong ==
  /\ pc = "long" /\ p > 0
  /\ p' = p - 1
  /\ IF text[Taken + 1] = NL
       THEN pc' = "newline" /\ UNCHANGED <<b, out>>
       ELSE pc' = "long" /\ Put(Selecting(match), <<Taken + 1>>)
  /\ UNCHANGED <<stdin, rd, caller, want, first, line, linelen, flags, open, match,
                 err>>

(* logdirs_reopen: every directory is closed and opened anew, with match as  *)
(* logdir_open sets it; without a single one svlogd ends.                    *)
Reopen ==
  \E failing \in SUBSET Flaky :
    /\ open'  = Dir \ failing
    /\ match' = [d \in Dir |-> IF d \in failing THEN match[d] ELSE "+"]
    /\ cut'   = (cut \/ caller = "long")
    /\ reopenasap' = FALSE

(* BUG: a TERM is noticed at the end of the input only.                      *)
StopsAtEnd == exitasap /\ linecomplete /\ closed

(* Nothing more is to be read.                                               *)
Stops == exitasap /\ linecomplete

Pread ==
  /\ pc = "pread"
  /\ FlushAll
  /\ IF Stops
       THEN EndOfInput /\ UNCHANGED <<want, open, match, cut, reopenasap>>
       ELSE /\ want' = IF exitasap THEN 1 ELSE BufLen
            /\ IF reopenasap THEN Reopen
                             ELSE UNCHANGED <<open, match, cut, reopenasap>>
            /\ pc' = IF open' = {} THEN "died" ELSE "pause"
            /\ UNCHANGED exitasap
  /\ UNCHANGED <<stdin, rd, p, caller, first, line, linelen, linecomplete, term,
                 err>>

(* iopause returns, because of data, its timeout or a signal, and read takes *)
(* what there is. Without data svlogd comes round again.                     *)
Available == IF arrived - rd < want THEN arrived - rd ELSE want

Read ==
  /\ pc = "pause" /\ Available > 0
  /\ rd' = rd + Available /\ p' = Available
  /\ linecomplete' = (text[rd'] = NL)
  /\ pc' = caller
  /\ UNCHANGED <<stdin, caller, want, first, line, linelen, exitasap, reopenasap,
                 term, cut, dirs>>

ReadNothing ==
  /\ pc = "pause" /\ Available = 0
  /\ IF closed THEN EndOfInput ELSE pc' = "pread" /\ UNCHANGED exitasap
  /\ UNCHANGED <<stdin, rd, p, caller, want, first, line, linelen, reopenasap,
                 linecomplete, term, cut, dirs>>

(* The handlers run inside iopause only.                                     *)
Handle(sig) ==
  /\ pc = "pause" /\ sig \in Signals
  /\ exitasap'   = (exitasap \/ sig = "TERM")
  /\ term'       = (term \/ sig = "TERM")
  /\ reopenasap' = (reopenasap \/ sig = "HUP")
  /\ UNCHANGED <<stdin, rd, p, pc, caller, want, first, line, linelen, linecomplete,
                 cut, dirs>>

(* logmatch: of + and -, and of e and E, the last instruction whose pattern  *)
(* matches the first linemax characters decides; a line nothing matches is   *)
(* selected, and not for standard error. Behind the line stands what an      *)
(* earlier one has left there. (alloc gives one byte more than it is asked   *)
(* for, which stays zero.)                                                   *)
Matches(pat) == Pmatch(pat, SubSeq(line, 1, linelen), line[linelen + 1])

(* BUG: the first instruction decides.                                       *)
FirstMatch(d, ops) ==
  LET hits == {k \in DOMAIN Inst[d] : Inst[d][k].op \in ops /\ Matches(Inst[d][k].pat)}
  IN  {Inst[d][k].op : k \in {k \in hits : \A l \in hits : l >= k}}

LastMatch(d, ops) ==
  LET hits == {k \in DOMAIN Inst[d] : Inst[d][k].op \in ops /\ Matches(Inst[d][k].pat)}
  IN  {Inst[d][k].op : k \in {k \in hits : \A l \in hits : l <= k}}

LogMatch(d)    == IF "-" \in LastMatch(d, {"+", "-"}) THEN "-" ELSE "+"
LogMatchErr(d) == IF "e" \in LastMatch(d, {"e", "E"}) THEN "e" ELSE "E"

(* BUG: what is still in the buffer is not looked at.                        *)
DrainedSoon == exitasap

(* The loop ends: svlogd is to exit and the buffer is empty.                 *)
Drained == exitasap /\ p = 0

(* The line's first linemax characters go to the directories selecting it    *)
(* and to standard error.                                                    *)
Emit ==
  /\ pc = "emit" /\ ~Drained
  /\ match' = [d \in Dir |-> IF d \in open /\ Inst[d] # <<>> THEN LogMatch(d)
                                                             ELSE match[d]]
  /\ Put(Selecting(match'), [k \in 1..linelen |-> first + k - 1])
  /\ err' = [d \in Dir |-> IF d \in open /\ LogMatchErr(d) = "e"
                             THEN Append(err[d], [from |-> first, len |-> linelen])
                             ELSE err[d]]
  /\ pc' = IF linelen = LineMax THEN "long" ELSE "newline"
  /\ UNCHANGED <<stdin, rd, p, caller, want, first, line, linelen, flags, open>>

LeaveLoop ==
  /\ pc = "emit" /\ Drained
  /\ pc' = "close"
  /\ UNCHANGED <<stdin, rd, p, caller, want, first, line, linelen, flags, dirs>>

(* The newline is written, the one that was read or, at the end of the       *)
(* input, one of svlogd's own, and the line flushed.                         *)
Newline ==
  /\ pc = "newline"
  /\ LET nl == IF text[Taken] = NL THEN Taken ELSE 0 IN
       /\ b'   = [d \in Dir |-> IF d \in Selecting(match) THEN <<>> ELSE b[d]]
       /\ out' = [d \in Dir |-> IF d \in Selecting(match)
                                  THEN Append(out[d] \o b[d], nl) ELSE out[d]]
  /\ linelen' = 0 /\ first' = Taken + 1
  /\ pc' = "line"
  /\ UNCHANGED <<stdin, rd, p, caller, want, line, flags, open, match, err>>

(* The directories are closed, with what is in their buffers; Logdir has the *)
(* wait for the processors.                                                  *)
Close ==
  /\ pc = "close"
  /\ FlushAll
  /\ pc' = "gone"
  /\ UNCHANGED <<stdin, rd, p, caller, want, first, line, linelen, flags, open, match,
                 err>>

-----------------------------------------------------------------------------
(* The program that writes the log.                                          *)
Arrive ==
  /\ ~closed /\ arrived < Len(text)
  /\ arrived' = arrived + 1
  /\ UNCHANGED <<text, closed, rd, p, pc, caller, want, first, line, linelen, flags,
                 dirs>>

Hangup ==
  /\ ~closed
  /\ closed' = TRUE
  /\ UNCHANGED <<text, arrived, rd, p, pc, caller, want, first, line, linelen, flags,
                 dirs>>

Init ==
  /\ text \in Texts
  /\ arrived = 0 /\ closed = FALSE /\ rd = 0 /\ p = 0
  /\ pc = "line" /\ caller = "line" /\ want = BufLen
  /\ first = 1 /\ linelen = 0
  /\ line = [k \in 1..LineMax + 1 |-> Nul]
  /\ exitasap = FALSE /\ reopenasap = FALSE /\ linecomplete = TRUE
  /\ open \in {Dir \ failing : failing \in SUBSET Flaky}
  /\ match = [d \in Dir |-> "+"]
  /\ b = [d \in Dir |-> <<>>] /\ out = [d \in Dir |-> <<>>]
  /\ err = [d \in Dir |-> <<>>]
  /\ term = FALSE /\ cut = FALSE

Step ==
  \/ Refill \/ GetChar \/ GetLong \/ Pread \/ Read \/ ReadNothing
  \/ Emit \/ LeaveLoop \/ Newline \/ Close

Next ==
  \/ Step \/ Arrive \/ Hangup
  \/ \E sig \in Signals : Handle(sig)

Spec == Init /\ [][Next]_vars

(* svlogd runs whenever it can, and its writer finishes what it has to say.  *)
Fairness == WF_vars(Step) /\ WF_vars(Arrive)

FairSpec == Spec /\ Fairness

-----------------------------------------------------------------------------
(* Properties. *)

Ends == {e \in DOMAIN text : text[e] = NL}

(* The positions of the line with position i in it, its newline included.    *)
LineOf(i) == {j \in DOMAIN text : \A e \in Ends : i <= e <=> j <= e}

(* What patterns see of it: its first linemax characters.                    *)
HeadLen(i) ==
  Cardinality({j \in LineOf(i) \ Ends : j < Min(LineOf(i)) + LineMax})

Fits(pat, i) ==
  Described(pat, [k \in 1..HeadLen(i) |-> text[Min(LineOf(i)) + k - 1]])

(* The instructions of d that describe line i and are not overruled.         *)
Decisive(d, ops, i) ==
  LET fit == {k \in DOMAIN Inst[d] : Inst[d][k].op \in ops /\ Fits(Inst[d][k].pat, i)}
  IN  {Inst[d][k].op : k \in {k \in fit : \A l \in fit : l <= k}}

Selected(d, i) == "-" \notin Decisive(d, {"+", "-"}, i)
Reported(d, i) == "e" \in Decisive(d, {"e", "E"}, i)

(* What is written to d, in the log or still in the buffer.                  *)
Output(d) == out[d] \o b[d]

(* The lines whose first character stands before position i.                 *)
Begun(i) == {k \in 1..i - 1 : k = 1 \/ k - 1 \in Ends}

(* Standard error gets the heads of the lines it is to get, each once and in *)
(* order.                                                                    *)
HeadsReported(d) ==
  /\ \A k \in 1..Len(err[d]) - 1 : err[d][k].from < err[d][k + 1].from
  /\ \A k \in DOMAIN err[d] :
       /\ Reported(d, err[d][k].from)
       /\ err[d][k].len = HeadLen(err[d][k].from)
  /\ d \notin Flaky => \A i \in Begun(first) :
       Reported(d, i) => \E k \in DOMAIN err[d] : err[d][k].from = i

(* What a directory receives, newlines of svlogd's own (0) apart, are the    *)
(* lines selected for it, in order, whole and once, though read in pieces,   *)
(* longer than linemax, or flushed half way through, unless a HUP is served  *)
(* inside a long line (see the README); and standard error gets what it is   *)
(* to get on the directory's behalf.                                         *)
WholeLines ==
  \A d \in Dir :
    /\ HeadsReported(d)
    /\ ~cut => LET o == Output(d) IN
         /\ \A k, l \in DOMAIN o : k < l /\ o[l] # 0 => o[k] < o[l]
         /\ \A k \in DOMAIN o : o[k] # 0 =>
              /\ Selected(d, o[k])
              /\ o[k] >= first
                   \/ \A j \in LineOf(o[k]) : j > arrived \/ Contains(o, j)

(* A line is matched as man/svlogd.8 describes, whatever earlier lines left  *)
(* in the buffer: what it describes matches, and nothing else does unless    *)
(* the line ends where the pattern has a plus (pmatch.c:16-18: a plus at the *)
(* end of the line looks at what is left there, and ends the match).         *)
PmatchFits ==
  pc = "emit" =>
    LET message == SubSeq(line, 1, linelen) IN
    \A pat \in Patterns :
      /\ Described(pat, message) => Matches(pat)
      /\ Matches(pat) => Described(pat, message) \/ PlusMeetsEnd(pat, message)

(* No line is one for which the patterns of the instructions match though    *)
(* they do not describe it, or the other way round.                          *)
MatchedAsDescribed ==
  \A d \in Dir : \A k \in DOMAIN Inst[d] :
    LET pat == Inst[d][k].pat IN
    \A message \in UNION {[1..n -> Char \ {NL}] : n \in 0..LineMax} :
      \A after \in Char \cup {Nul} :
        Pmatch(pat, message, after) <=> Described(pat, message)

(* Characters svlogd has read and not written, though a directory that is    *)
(* open all the time was to get their line.                                  *)
Lost == {j \in 1..rd : \E d \in Dir \ Flaky : Selected(d, j) /\ ~Contains(out[d], j)}

(* All that is lost is of the line read last, and that only on a TERM, or    *)
(* when the input ends within the line and fewer than linemax characters of  *)
(* it have come.                                                             *)
OnlyLastLost ==
  pc = "gone" => \A j \in Lost :
    /\ LineOf(j) = LineOf(rd)
    /\ term \/ (text[rd] # NL /\ rd - Min(LineOf(rd)) + 1 < LineMax)

(* man/svlogd.8 on TERM and end of file: svlogd "processes the data in the   *)
(* buffer" and then exits: nothing that it has read is lost. (With no signal *)
(* sent it is an unfinished last line that is.)                              *)
NothingLost == pc = "gone" => Lost = {}

(* A TERM makes svlogd exit: all it waits for is the rest of a line, and     *)
(* that for ever if the writer neither ends the line nor closes the pipe.    *)
Unfinished == ~closed /\ arrived = Len(text) /\ text[arrived] # NL

TermExits == term ~> (pc \in {"gone", "died"} \/ Unfinished)

(* A line that arrives is logged, whatever HUPs there are, unless svlogd is  *)
(* told to exit or has seen the end of its input.                            *)
Logged ==
  \A d \in Dir \ Flaky : \A e \in UNION {DOMAIN t : t \in Texts} :
    (e \in Ends /\ e <= arrived /\ Selected(d, e))
      ~> (exitasap \/ Contains(out[d], e))
=============================================================================
