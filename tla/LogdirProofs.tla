---------------------------- MODULE LogdirProofs ----------------------------
(***************************************************************************)
(* Proofs about Logdir, for all configurations, any number of processors,  *)
(* and any bounds on the data, the openings and the events.                *)
(***************************************************************************)
EXTENDS Logdir, FiniteSetTheorems, SequenceTheorems, WellFoundedInduction, TLAPS

-----------------------------------------------------------------------------
(* Files and processors. *)

Sound(f) == f \in File /\ f.synced <= Len(f.data)

SoundDir(F) == DOMAIN F \subseteq Name /\ \A f \in DOMAIN F : Sound(F[f])

\* A prefix of a sequence.
LEMMA Prefix ==
  ASSUME NEW S, NEW d \in Seq(S), NEW n \in 0..Len(d)
  PROVE  /\ SubSeq(d, 1, n) \in Seq(S) /\ Len(SubSeq(d, 1, n)) = n
         /\ \A k \in 1..n : SubSeq(d, 1, n)[k] = d[k]
<1>1. Len(d) \in Nat /\ n \in Nat
  BY LenProperties
<1>2. \A k \in 1..n : d[k] \in S
  BY <1>1, ElementOfSeq
<1> QED
  BY <1>1, <1>2, SubSeqProperties

LEMMA NoData == <<>> \in Seq(Nat) /\ Len(<<>>) = 0 /\ DOMAIN <<>> = {}
  BY EmptySeq

\* What svlogd and the loss of power make of a file is a file.
LEMMA FileFacts ==
  ASSUME NEW f, Sound(f)
  PROVE  /\ f.data \in Seq(Nat) /\ Len(f.data) \in Nat /\ f.synced \in 0..Len(f.data)
         /\ Sound(Safe(f))
         /\ \A b \in BOOLEAN : Sound([f EXCEPT !.x = b])
         /\ \A n \in f.synced..Len(f.data) : Sound(Torn(f, n))
<1>1. /\ f \in File /\ f.data \in Seq(Nat) /\ f.synced \in Nat
      /\ f.x \in BOOLEAN /\ f.whole \in BOOLEAN
  BY DEF Sound, File
<1>2. Len(f.data) \in Nat /\ f.synced \in 0..Len(f.data)
  BY <1>1, LenProperties DEF Sound
<1>3. Sound(Safe(f))
  <2>1. Safe(f) \in File
    BY <1>1, <1>2 DEF Safe, File
  <2>2. Safe(f).data = f.data /\ Safe(f).synced = Len(f.data)
    BY <1>1, <1>2 DEF Safe, File
  <2> QED
    BY <1>2, <2>1, <2>2 DEF Sound
<1>4. ASSUME NEW b \in BOOLEAN PROVE Sound([f EXCEPT !.x = b])
  <2>1. [f EXCEPT !.x = b] \in File
    BY <1>1 DEF File
  <2>2. [f EXCEPT !.x = b].data = f.data /\ [f EXCEPT !.x = b].synced = f.synced
    BY <1>1 DEF File
  <2> QED
    BY <1>2, <2>1, <2>2 DEF Sound
<1>5. ASSUME NEW n \in f.synced..Len(f.data)
      PROVE  Sound(Torn(f, n))
  <2>1. n \in 0..Len(f.data)
    BY <1>2
  <2>2. SubSeq(f.data, 1, n) \in Seq(Nat) /\ Len(SubSeq(f.data, 1, n)) = n
    BY <1>1, <2>1, Prefix
  <2>3. Torn(f, n) = [f EXCEPT !.data = SubSeq(f.data, 1, n)]
    BY DEF Torn
  <2>4. Torn(f, n) \in File
    BY <1>1, <2>2, <2>3 DEF File
  <2>5. Torn(f, n).data = SubSeq(f.data, 1, n) /\ Torn(f, n).synced = f.synced
    BY <1>1, <2>3 DEF File
  <2> QED
    BY <1>2, <2>2, <2>4, <2>5 DEF Sound
<1> QED
  BY <1>1, <1>2, <1>3, <1>4, <1>5

LEMMA EmptySound ==
  /\ Sound(Empty) /\ Empty.data = <<>> /\ Empty.whole
  /\ Sound([Empty EXCEPT !.whole = FALSE])
  /\ [Empty EXCEPT !.whole = FALSE].data = <<>>
<1>1. Empty \in File /\ Empty.data = <<>> /\ Empty.synced = 0 /\ Empty.whole
  BY NoData DEF Empty, File
<1>2. [Empty EXCEPT !.whole = FALSE] \in File
  BY <1>1 DEF File
<1>3. [Empty EXCEPT !.whole = FALSE].data = <<>> /\ [Empty EXCEPT !.whole = FALSE].synced = 0
  BY <1>1 DEF File
<1> QED
  BY <1>1, <1>2, <1>3, NoData DEF Sound

\* What a processor that ends well leaves.
LEMMA OutputSound ==
  ASSUME NEW d \in Seq(Nat)
  PROVE  /\ Sound([Empty EXCEPT !.data = d])
         /\ [Empty EXCEPT !.data = d].data = d /\ [Empty EXCEPT !.data = d].whole
<1>1. Empty \in File /\ Empty.synced = 0 /\ Empty.whole
  BY NoData DEF Empty, File
<1>2. /\ [Empty EXCEPT !.data = d] \in File /\ [Empty EXCEPT !.data = d].data = d
      /\ [Empty EXCEPT !.data = d].synced = 0 /\ [Empty EXCEPT !.data = d].whole
  BY <1>1 DEF File
<1>3. Len(d) \in Nat
  BY LenProperties
<1> QED
  BY <1>2, <1>3 DEF Sound

\* Adding and removing files.
LEMMA DirFacts ==
  ASSUME NEW F, SoundDir(F)
  PROVE  /\ \A c : Sound(c) => \A n \in Name : SoundDir(With(F, n, c))
         /\ \A S : SoundDir(Without(F, S))
  BY DEF SoundDir, With, Without

\* What becomes of a processor that ends, or loses its parent.
LEMMA ProcessorFacts ==
  /\ Reaped \in Processor
  /\ \A q \in Processor : Orphan(q) \in Processor
  /\ \A q \in Processor, how \in Ended : Over(q, how) \in Processor
<1>1. Reaped \in Processor
  BY NoData DEF Processor, Reaped
<1>2. ASSUME NEW q \in Processor PROVE Orphan(q) \in Processor
  BY <1>1, <1>2 DEF Orphan, Processor
<1>3. ASSUME NEW q \in Processor, NEW how \in Ended PROVE Over(q, how) \in Processor
  BY <1>1, <1>3 DEF Over, Processor, Ended
<1> QED
  BY <1>1, <1>2, <1>3

\* The processor that processorstart makes.
LEMMA ForkedFacts ==
  ASSUME NEW k \in Nat
  PROVE  LET q == [Reaped EXCEPT !.st = "forked", !.stamp = k, !.mine = TRUE]
         IN  /\ q \in Processor /\ q.st = "forked" /\ q.stamp = k /\ q.mine
             /\ q.data = <<>> /\ q.read = <<>>
<1>1. /\ Reaped \in Processor /\ Reaped.data = <<>> /\ Reaped.read = <<>>
  BY ProcessorFacts DEF Reaped
<1> QED
  BY <1>1 DEF Processor

LEMMA StartedType ==
  ASSUME proc \in [Pid -> Processor], ppid \in Pid \cup {0}, fn \in Nat, ProcessorStart
  PROVE  proc' \in [Pid -> Processor] /\ ppid' \in Pid \cup {0}
<1>1. CASE config.processor
  <2>1. PICK p \in Pid :
          /\ proc' = [proc EXCEPT ![p] = [Reaped EXCEPT
                        !.st = "forked", !.stamp = fn, !.mine = TRUE]]
          /\ ppid' = p
    BY <1>1 DEF ProcessorStart
  <2> QED
    BY <2>1, ForkedFacts
<1>2. CASE ~config.processor
  BY <1>2 DEF ProcessorStart
<1> QED
  BY <1>1, <1>2

-----------------------------------------------------------------------------
(* Types. *)

\* What makes TypeOK inductive: no more of a file is synced than it has, what
\* is to be written fits the bound, and each opening can crash once.
TypeInv ==
  /\ TypeOK
  /\ Sound(current) /\ SoundDir(old)
  /\ written + todo <= MaxData
  /\ crashes <= opened /\ (pc # "down" => crashes < opened)

LEMMA TypeInit == Init => TypeInv
<1> SUFFICES ASSUME Init PROVE TypeInv
  OBVIOUS
<1>1. NoConfig \in Config
  BY DEF NoConfig, Config
<1>2. Sound(current) /\ current \in File
  BY EmptySound DEF Init, Sound
<1>3. DOMAIN old = {} /\ SoundDir(old)
  BY DEF Init, SoundDir
<1>4. proc \in [Pid -> Processor]
  BY ProcessorFacts DEF Init
<1>5. /\ written \in 0..MaxData /\ opened \in 0..MaxOpen /\ crashes \in 0..MaxOpen
      /\ written + todo <= MaxData /\ crashes <= opened /\ pc = "down"
      /\ size \in Nat /\ todo \in 0..2 /\ fn \in Nat /\ ppid \in Pid \cup {0}
  BY LogdirAssumption DEF Init
<1>6. state \in Seq(Nat) /\ newstate \in Seq(Nat)
  BY NoData DEF Init
<1> QED
  BY <1>1, <1>2, <1>3, <1>4, <1>5, <1>6 DEF Init, TypeInv, TypeOK

\* Starting and opening.
LEMMA TypeOpening ==
  ASSUME TypeInv, Start \/ OpenFails \/ Open \/ SetAside \/ PruneAside \/ AppendCurrent
  PROVE  TypeInv'
<1> USE LogdirAssumption
<1> USE DEF TypeInv, TypeOK, aux, files, logs, mem
<1>1. CASE Start
  <2>1. /\ opened' \in 0..MaxOpen /\ crashes' \in 0..MaxOpen
        /\ crashes' <= opened' /\ crashes' < opened' /\ pc' = "open"
        /\ written' + todo' <= MaxData /\ written' \in 0..MaxData
    BY <1>1 DEF Start
  <2> QED
    BY <1>1, <2>1 DEF Start
<1>2. CASE OpenFails
  BY <1>2, ProcessorFacts DEF OpenFails
<1>3. CASE Open
  BY <1>3, FileFacts DEF Open
<1>4. CASE SetAside
  <2>1. N(Now, "u") \in Name
    BY DEF N, Name, Now
  <2>2. SoundDir(old') /\ Sound(current')
    BY <1>4, <2>1, DirFacts, EmptySound DEF SetAside
  <2>3. fn' \in Nat
    BY <1>4 DEF SetAside, Now
  <2> QED
    BY <1>4, <2>2, <2>3 DEF SetAside, Sound, SoundDir
<1>5. CASE PruneAside
  <2>1. SoundDir(old')
    BY <1>5, DirFacts DEF PruneAside, RmOldest
  <2> QED
    BY <1>5, <2>1 DEF PruneAside, SoundDir, Sound
<1>6. CASE AppendCurrent
  <2>1. Sound(current')
    BY <1>6, FileFacts DEF AppendCurrent
  <2> QED
    BY <1>6, <2>1 DEF AppendCurrent, Sound
<1> QED
  BY <1>1, <1>2, <1>3, <1>4, <1>5, <1>6

\* Writing.
LEMMA WriteBound ==
  ASSUME NEW m \in Nat, NEW w \in 0..m, NEW n \in 0..2, w + n <= m, NEW i \in 1..n
  PROVE  /\ w + i \in 0..m /\ (w + i) + (n - i) <= m /\ n - i \in 0..2
         /\ \A k \in Nat : k + i \in Nat
  OBVIOUS

LEMMA TypeWriting ==
  ASSUME TypeInv, (\E n \in 1..2 : Flush(n)) \/ RotateFirst \/ Write \/ NoSpace
  PROVE  TypeInv'
<1> USE LogdirAssumption
<1> USE DEF TypeInv, TypeOK, aux, files, logs, mem
<1>1. CASE \E n \in 1..2 : Flush(n)
  BY <1>1 DEF Flush
<1>2. CASE RotateFirst
  BY <1>2 DEF RotateFirst
<1>3. CASE Write
  <2>1. PICK i \in 1..todo, newline \in BOOLEAN :
          /\ current' = [current EXCEPT
                           !.data = @ \o [k \in 1..i |-> written + k]]
          /\ written' = written + i /\ size' = size + i /\ todo' = todo - i
          /\ pc' \in {"rotate", "ready", "pwrite"}
          /\ back' \in {"ready", "pwrite"}
    BY <1>3 DEF Write
  <2>2. i \in Nat /\ [k \in 1..i |-> written + k] \in Seq(Nat)
    <3>1. i \in Nat /\ [k \in 1..i |-> written + k] \in [1..i -> Nat]
      BY <2>1
    <3> QED
      BY <3>1, SeqDef
  <2>3. current.data \in Seq(Nat) /\ current.synced <= Len(current.data)
    BY DEF Sound, File
  <2> DEFINE e == [k \in 1..i |-> written + k]
  <2>4. current.data \o e \in Seq(Nat) /\ Len(current.data \o e) = Len(current.data) + Len(e)
    BY <2>2, <2>3, ConcatProperties
  <2>5. Len(current.data) \in Nat /\ Len(e) \in Nat
    BY <2>2, <2>3, LenProperties
  <2>6. current' = [current EXCEPT !.data = current.data \o e]
    BY <2>1 DEF Sound, File
  <2> HIDE DEF e
  <2>7. current' \in File
    BY <2>4, <2>6 DEF Sound, File
  <2>8. current'.data = current.data \o e /\ current'.synced = current.synced
    BY <2>6 DEF Sound, File
  <2>9. Sound(current')
    BY <2>3, <2>4, <2>5, <2>7, <2>8 DEF Sound, File
  <2>10. /\ written' \in 0..MaxData /\ written' + todo' <= MaxData
         /\ size' \in Nat /\ todo' \in 0..2
    BY <2>1, WriteBound
  <2>11. /\ opened' = opened /\ crashes' = crashes /\ crashes' < opened'
    BY <1>3 DEF Write
  <2> QED
    BY <1>3, <2>1, <2>7, <2>9, <2>10, <2>11 DEF Write
<1>4. CASE NoSpace
  <2>1. SoundDir(old')
    BY <1>4, DirFacts DEF NoSpace
  <2> QED
    BY <1>4, <2>1 DEF NoSpace, SoundDir, Sound
<1> QED
  BY <1>1, <1>2, <1>3, <1>4

\* A rotation.
LEMMA TypeRotation ==
  ASSUME TypeInv,
         RotateWaits \/ RotateNothing \/ Sync \/ Rename \/ Create \/ RotateEnds
  PROVE  TypeInv'
<1> USE LogdirAssumption
<1> USE DEF TypeInv, TypeOK, aux, files, logs, mem
<1>1. CASE RotateWaits
  BY <1>1 DEF RotateWaits
<1>2. CASE RotateNothing
  <2>1. fn' \in Nat
    BY <1>2 DEF RotateNothing, Now
  <2> QED
    BY <1>2, <2>1 DEF RotateNothing
<1>3. CASE Sync
  <2>1. Sound(current')
    BY <1>3, FileFacts DEF Sync
  <2> QED
    BY <1>3, <2>1 DEF Sync, Sound, Now
<1>4. CASE Rename
  <2>1. SavedName \in Name
    BY DEF SavedName, N, Name
  <2>2. SoundDir(old') /\ Sound(current')
    BY <1>4, <2>1, DirFacts, EmptySound DEF Rename
  <2> QED
    BY <1>4, <2>2 DEF Rename, Sound, SoundDir
<1>5. CASE Create
  <2>1. SoundDir(old')
    BY <1>5, DirFacts DEF Create, RmOldest
  <2> QED
    BY <1>5, <2>1 DEF Create, Sound, SoundDir
<1>6. CASE RotateEnds
  <2>1. proc' \in [Pid -> Processor] /\ ppid' \in Pid \cup {0}
    BY <1>6, StartedType DEF RotateEnds
  <2> QED
    BY <1>6, <2>1 DEF RotateEnds
<1> QED
  BY <1>1, <1>2, <1>3, <1>4, <1>5, <1>6

\* A processor is waited for, and its output becomes a log.
LEMMA TypeStopping ==
  ASSUME TypeInv,
         \/ Wait \/ Retry \/ RenameOutput \/ UnlinkInput \/ RenameState
         \/ \E p \in Pid : Child(p)
  PROVE  TypeInv'
<1> USE LogdirAssumption
<1> USE DEF TypeInv, TypeOK, aux, files, logs, mem
<1>1. CASE Wait
  BY <1>1, ProcessorFacts DEF Wait, Reap, Failed
<1>2. CASE Retry
  <2>1. SoundDir(old')
    BY <1>2, DirFacts DEF Retry
  <2>2. proc' \in [Pid -> Processor] /\ ppid' \in Pid \cup {0}
    BY <1>2, StartedType DEF Retry
  <2> QED
    BY <1>2, <2>1, <2>2 DEF Retry, Sound, SoundDir
<1>3. CASE RenameOutput
  <2>1. N(fn, "s") \in Name
    BY DEF N, Name
  <2>2. Sound([old[N(fn, "t")] EXCEPT !.x = TRUE])
    BY <1>3, FileFacts DEF RenameOutput, SoundDir
  <2>3. SoundDir(old')
    BY <1>3, <2>1, <2>2, DirFacts DEF RenameOutput
  <2> QED
    BY <1>3, <2>3 DEF RenameOutput, Sound, SoundDir
<1>4. CASE UnlinkInput
  <2>1. SoundDir(old')
    BY <1>4, DirFacts DEF UnlinkInput
  <2> QED
    BY <1>4, <2>1 DEF UnlinkInput, Sound, SoundDir
<1>5. CASE RenameState
  <2>1. \A p \in Pid : [proc[p] EXCEPT !.fd5 = IF @ = "newstate" THEN "state" ELSE "none"]
                         \in Processor
    BY DEF Processor
  <2>2. proc' \in [Pid -> Processor]
    BY <1>5, <2>1 DEF RenameState
  <2>3. newstate' \in Seq(Nat) /\ state' \in Seq(Nat)
    BY <1>5 DEF RenameState
  <2> QED
    BY <1>5, <2>2, <2>3 DEF RenameState
<1>6. CASE \E p \in Pid : Child(p)
  BY <1>6, ProcessorFacts DEF Child, Reap, Failed
<1> QED
  BY <1>1, <1>2, <1>3, <1>4, <1>5, <1>6

\* Signals, the exit, and the disk.
LEMMA TypeSignals ==
  ASSUME TypeInv, Alarm \/ Hup \/ Term \/ ExitWaits \/ Exit \/ Fill \/ Free
  PROVE  TypeInv'
<1> USE LogdirAssumption
<1> USE DEF TypeInv, TypeOK, aux, files, logs, mem
<1>1. CASE Alarm
  BY <1>1 DEF Alarm
<1>2. CASE Hup
  <2>1. Sound(current')
    BY <1>2, FileFacts DEF Hup
  <2> QED
    BY <1>2, <2>1 DEF Hup, Sound
<1>3. CASE Term
  BY <1>3 DEF Term
<1>4. CASE ExitWaits
  BY <1>4 DEF ExitWaits
<1>5. CASE Exit
  <2>1. Sound(current')
    BY <1>5, FileFacts DEF Exit
  <2>2. proc' \in [Pid -> Processor]
    BY <1>5, ProcessorFacts DEF Exit
  <2> QED
    BY <1>5, <2>1, <2>2 DEF Exit, Sound
<1>6. CASE Fill \/ Free
  BY <1>6 DEF Fill, Free
<1> QED
  BY <1>1, <1>2, <1>3, <1>4, <1>5, <1>6

\* What the loss of power makes of the old logs.
LEMMA PowerFacts ==
  ASSUME Power
  PROVE  /\ DOMAIN old' = DOMAIN old
         /\ \A f \in DOMAIN old :
              \E n \in old[f].synced..Len(old[f].data) : old'[f] = Torn(old[f], n)
  BY DEF Power

\* Processors, and crashes.
LEMMA TypeEnvironment ==
  ASSUME TypeInv,
         \/ Kill \/ Power
         \/ \E p \in Pid : Begin(p) \/ EndWell(p) \/ \E how \in Ended : EndBadly(p, how)
  PROVE  TypeInv'
<1> USE LogdirAssumption
<1> USE DEF TypeInv, TypeOK, aux, files, logs, mem
<1>1. CASE Kill
  BY <1>1, ProcessorFacts DEF Kill
<1>2. CASE Power
  <2>1. PICK n \in current.synced..Len(current.data) : current' = Torn(current, n)
    BY <1>2 DEF Power
  <2>2. Sound(current')
    BY <2>1, FileFacts
  <2>3. \A f \in DOMAIN old : Sound(old'[f])
    <3> TAKE f \in DOMAIN old
    <3>1. Sound(old[f])
      BY DEF SoundDir
    <3>2. PICK m \in old[f].synced..Len(old[f].data) : old'[f] = Torn(old[f], m)
      BY <1>2, PowerFacts
    <3> QED
      BY <3>1, <3>2, FileFacts
  <2>4. SoundDir(old')
    BY <1>2, <2>3, PowerFacts DEF SoundDir
  <2>5. proc' \in [Pid -> Processor]
    BY <1>2, ProcessorFacts DEF Power
  <2> QED
    BY <1>2, <2>2, <2>4, <2>5 DEF Power, Sound, SoundDir
<1>3. ASSUME NEW p \in Pid, Begin(p) PROVE TypeInv'
  <2>1. CASE N(proc[p].stamp, "u") \in DOMAIN old
    <3>1. N(proc[p].stamp, "t") \in Name
      BY DEF N, Name, Processor
    <3>2. SoundDir(old')
      <4>1. old' = With(old, N(proc[p].stamp, "t"), [Empty EXCEPT !.whole = FALSE])
        BY <1>3, <2>1 DEF Begin
      <4> QED
        BY <4>1, <3>1, DirFacts, EmptySound
    <3>3. old[N(proc[p].stamp, "u")].data \in Seq(Nat)
      BY <2>1 DEF SoundDir, Sound, File
    <3>4. proc' \in [Pid -> Processor]
      <4> DEFINE q == [proc[p] EXCEPT !.st = "running", !.read = state, !.fd5 = "newstate",
                                      !.data = old[N(proc[p].stamp, "u")].data]
      <4>1. q \in Processor
        BY <3>3 DEF Processor
      <4>2. proc' = [proc EXCEPT ![p] = q]
        BY <1>3, <2>1 DEF Begin
      <4> QED
        BY <4>1, <4>2
    <3>5. newstate' \in Seq(Nat)
      BY <1>3, <2>1, NoData DEF Begin
    <3> QED
      BY <1>3, <3>2, <3>4, <3>5 DEF Begin, SoundDir, Sound
  <2>2. CASE N(proc[p].stamp, "u") \notin DOMAIN old
    <3>1. proc' \in [Pid -> Processor]
      <4>1. proc' = [proc EXCEPT ![p] = Over(proc[p], "fail")]
        BY <1>3, <2>2 DEF Begin
      <4> QED
        BY <4>1, ProcessorFacts DEF Ended
    <3> QED
      BY <1>3, <2>2, <3>1 DEF Begin
  <2> QED
    BY <2>1, <2>2
<1>4. ASSUME NEW p \in Pid, EndWell(p) PROVE TypeInv'
  <2> DEFINE d == proc[p].data
             t == N(proc[p].stamp, "t")
             c == [Empty EXCEPT !.data = d]
             q == Append(proc[p].read, proc[p].stamp)
  <2>1. d \in Seq(Nat) /\ q \in Seq(Nat) /\ t \in Name
    BY AppendProperties DEF Processor, N, Name
  <2>3. Sound(c)
    BY <2>1, OutputSound
  <2>4. /\ old' = IF t \in DOMAIN old THEN With(old, t, c) ELSE old
        /\ newstate' \in {q, newstate} /\ state' \in {q, state}
        /\ proc' = [proc EXCEPT ![p] = Over(@, "ok")]
    BY <1>4 DEF EndWell
  <2> HIDE DEF c, q, t, d
  <2>5. SoundDir(old')
    BY <2>1, <2>3, <2>4, DirFacts
  <2>6. proc' \in [Pid -> Processor]
    BY <2>4, ProcessorFacts DEF Ended
  <2>7. UNCHANGED <<pc, back, ret, mem, astray, here, current, full, aux>>
    BY <1>4 DEF EndWell
  <2>8. newstate' \in Seq(Nat) /\ state' \in Seq(Nat)
    BY <2>1, <2>4
  <2> QED
    BY <2>5, <2>6, <2>7, <2>8 DEF SoundDir, Sound
<1>5. ASSUME NEW p \in Pid, NEW how \in Ended, EndBadly(p, how) PROVE TypeInv'
  BY <1>5, ProcessorFacts DEF EndBadly
<1> QED
  BY <1>1, <1>2, <1>3, <1>4, <1>5

LEMMA TypeStep == TypeInv /\ [Next]_vars => TypeInv'
<1>1. ASSUME TypeInv, UNCHANGED vars PROVE TypeInv'
  BY <1>1 DEF TypeInv, TypeOK, vars, Sound, SoundDir
<1> QED
  BY <1>1, TypeOpening, TypeWriting, TypeRotation, TypeStopping, TypeSignals,
     TypeEnvironment DEF Next, Step, Request, Environment

\* All variables stay in their types.
THEOREM TypeCorrect == Spec => []TypeOK
<1>1. TypeInv => TypeOK
  BY DEF TypeInv
<1> QED
  BY <1>1, TypeInit, TypeStep, PTL DEF Spec

-----------------------------------------------------------------------------
(* svlogd and its processors. *)

Busy(p) == proc[p].st # "free"

\* Where svlogd has no processor of its own, and where it is done with one.
Alone == {"aside", "prune", "append", "rename", "create", "start", "stopped",
          "unlink", "state"}

Finishing == {"stopped", "unlink", "state"}

\* While svlogd works on the directory, ppid is 0 or the processor that it
\* started for the log @fn, and there is no other unless one was left to
\* itself. When it has died or is about to open the directory again there may
\* still be that one.
PidInv ==
  /\ pc \in Alone => ppid = 0
  /\ pc = "wait" => ppid # 0
  /\ pc \in Finishing => config.processor
  /\ pc \notin {"down", "open"} /\ ppid # 0 =>
       /\ config.processor
       /\ Busy(ppid) /\ proc[ppid].mine /\ proc[ppid].stamp = fn
  /\ ~stray => \A p, q \in Pid : Busy(p) /\ Busy(q) => p = q
  /\ ~stray /\ pc \notin {"down", "open"} => \A p \in Pid : Busy(p) => p = ppid

\* What becomes of a processor: it keeps its stamp until it is reaped, and
\* svlogd as its parent until that dies.
LEMMA BusyFacts ==
  /\ Reaped.st = "free"
  /\ \A q \in Processor : Orphan(q).st # "free" => q.st # "free"
  /\ \A q \in Processor, how \in Ended :
       /\ q.mine => Over(q, how).st = how /\ Over(q, how).mine
                      /\ Over(q, how).stamp = q.stamp /\ Over(q, how).data = q.data
                      /\ Over(q, how).read = q.read /\ Over(q, how).fd5 = q.fd5
       /\ ~q.mine => Over(q, how) = Reaped
<1>1. Reaped.st = "free"
  BY DEF Reaped
<1>2. ASSUME NEW q \in Processor, Orphan(q).st # "free" PROVE q.st # "free"
  BY <1>1, <1>2 DEF Orphan
<1>3. ASSUME NEW q \in Processor, NEW how \in Ended
      PROVE  /\ q.mine => Over(q, how).st = how /\ Over(q, how).mine
                      /\ Over(q, how).stamp = q.stamp /\ Over(q, how).data = q.data
                      /\ Over(q, how).read = q.read /\ Over(q, how).fd5 = q.fd5
             /\ ~q.mine => Over(q, how) = Reaped
  BY DEF Over, Processor
<1> QED
  BY <1>1, <1>2, <1>3

LEMMA PidInit == Init => PidInv
  BY BusyFacts DEF Init, PidInv, Busy, Alone, Finishing

\* A processor is started when there is none.
LEMMA PidStarted ==
  ASSUME TypeInv, PidInv, ppid = 0, pc \notin {"down", "open"}, ProcessorStart,
         pc' \in {"ready", "pwrite", "rotate", "exit"},
         fn' = fn, config' = config, stray' = stray
  PROVE  PidInv'
<1>1. CASE ~config.processor
  BY <1>1 DEF PidInv, ProcessorStart, Busy, Alone, Finishing
<1>2. CASE config.processor
  <2> DEFINE q == [Reaped EXCEPT !.st = "forked", !.stamp = fn, !.mine = TRUE]
  <2>1. PICK p \in Pid : proc[p].st = "free" /\ proc' = [proc EXCEPT ![p] = q] /\ ppid' = p
    BY <1>2 DEF ProcessorStart
  <2>2. q.st = "forked" /\ q.stamp = fn /\ q.mine
    BY ForkedFacts DEF TypeInv, TypeOK
  <2> HIDE DEF q
  <2>3. p # 0
    BY LogdirAssumption
  <2>4. proc'[p] = q /\ \A r \in Pid \ {p} : proc'[r] = proc[r]
    BY <2>1 DEF TypeInv, TypeOK
  <2>5. ~stray => \A r \in Pid \ {p} : ~Busy(r)
    BY LogdirAssumption DEF PidInv
  <2> QED
    BY <1>2, <2>1, <2>2, <2>3, <2>4, <2>5 DEF PidInv, Busy, Alone, Finishing
<1> QED
  BY <1>1, <1>2

LEMMA PidOpening ==
  ASSUME TypeInv, PidInv,
         Start \/ OpenFails \/ Open \/ SetAside \/ PruneAside \/ AppendCurrent
  PROVE  PidInv'
<1> USE DEF PidInv, Busy, Alone, Finishing, aux, files, logs, mem
<1>1. CASE Start
  BY <1>1 DEF Start
<1>2. CASE OpenFails
  <2>1. \A p \in Pid : Busy(p)' => Busy(p)
    BY <1>2, BusyFacts DEF OpenFails, TypeInv, TypeOK
  <2> QED
    BY <1>2, <2>1 DEF OpenFails
<1>3. CASE Open
  BY <1>3 DEF Open
<1>4. CASE SetAside
  BY <1>4 DEF SetAside
<1>5. CASE PruneAside
  BY <1>5 DEF PruneAside
<1>6. CASE AppendCurrent
  BY <1>6 DEF AppendCurrent
<1> QED
  BY <1>1, <1>2, <1>3, <1>4, <1>5, <1>6

LEMMA PidWriting ==
  ASSUME TypeInv, PidInv, (\E n \in 1..2 : Flush(n)) \/ RotateFirst \/ Write \/ NoSpace
  PROVE  PidInv'
<1> USE DEF PidInv, Busy, Alone, Finishing, aux, files, logs, mem
<1>1. CASE \E n \in 1..2 : Flush(n)
  BY <1>1 DEF Flush
<1>2. CASE RotateFirst
  BY <1>2 DEF RotateFirst
<1>3. CASE Write
  <2>1. pc' \in {"rotate", "ready", "pwrite"}
    BY <1>3 DEF Write
  <2> QED
    BY <1>3, <2>1 DEF Write
<1>4. CASE NoSpace
  BY <1>4 DEF NoSpace
<1> QED
  BY <1>1, <1>2, <1>3, <1>4

LEMMA PidRotation ==
  ASSUME TypeInv, PidInv,
         RotateWaits \/ RotateNothing \/ Sync \/ Rename \/ Create \/ RotateEnds
  PROVE  PidInv'
<1>0. back \in {"ready", "pwrite"}
  BY DEF TypeInv, TypeOK
<1>1. CASE RotateWaits
  BY <1>1 DEF RotateWaits, PidInv, Busy, Alone, Finishing, aux, files, logs, mem
<1>2. CASE RotateNothing
  BY <1>0, <1>2 DEF RotateNothing, PidInv, Busy, Alone, Finishing, aux, files, logs, mem
<1>3. CASE Sync
  BY <1>3 DEF Sync, PidInv, Busy, Alone, Finishing, aux, files, logs, mem
<1>4. CASE Rename
  BY <1>4 DEF Rename, PidInv, Busy, Alone, Finishing, aux, files, logs, mem
<1>5. CASE Create
  BY <1>5 DEF Create, PidInv, Busy, Alone, Finishing, aux, files, logs, mem
<1>6. CASE RotateEnds
  <2>1. ppid = 0 /\ pc = "start"
    BY <1>6 DEF RotateEnds, PidInv, Alone
  <2> QED
    BY <1>0, <1>6, <2>1, PidStarted DEF RotateEnds, aux
<1> QED
  BY <1>1, <1>2, <1>3, <1>4, <1>5, <1>6

LEMMA PidStopping ==
  ASSUME TypeInv, PidInv,
         \/ Wait \/ Retry \/ RenameOutput \/ UnlinkInput \/ RenameState
         \/ \E p \in Pid : Child(p)
  PROVE  PidInv'
<1>0. ret \in {"ready", "rotate", "exit"} /\ ppid \in Pid \cup {0}
  BY DEF TypeInv, TypeOK
<1>1. CASE Wait
  <2>1. ppid # 0 /\ ppid \in Pid /\ config.processor
    BY <1>0, <1>1 DEF Wait, PidInv
  <2>2. /\ proc'[ppid] = Reaped /\ \A r \in Pid \ {ppid} : proc'[r] = proc[r]
    BY <1>1, <2>1 DEF Wait, Reap, TypeInv, TypeOK
  <2>3. \A r \in Pid : Busy(r)' => Busy(r) /\ r # ppid
    BY <2>2, BusyFacts DEF Busy
  <2>4. pc' = "stopped" /\ ppid' = 0 /\ config' = config /\ stray' = stray
        /\ pc = "wait"
    BY <1>1 DEF Wait, aux
  <2> QED
    BY <2>1, <2>3, <2>4 DEF PidInv, Alone, Finishing
<1>2. CASE Retry
  <2>1. ppid = 0 /\ pc = "stopped"
    BY <1>2 DEF Retry, PidInv, Alone
  <2> QED
    BY <1>0, <1>2, <2>1, PidStarted DEF Retry, aux
<1>3. CASE RenameOutput
  BY <1>3 DEF RenameOutput, PidInv, Busy, Alone, Finishing, aux, files, logs, mem
<1>4. CASE UnlinkInput
  BY <1>4 DEF UnlinkInput, PidInv, Busy, Alone, Finishing, aux, files, logs, mem
<1>5. CASE RenameState
  <2>1. \A r \in Pid : proc'[r].st = proc[r].st
    BY <1>5 DEF RenameState, TypeInv, TypeOK, Processor
  <2>2. /\ pc' \in {"ready", "rotate", "exit"} /\ ppid' = ppid /\ config' = config
        /\ stray' = stray /\ ppid = 0 /\ pc = "state"
    BY <1>0, <1>5 DEF RenameState, PidInv, Alone, aux, mem
  <2> QED
    BY <2>1, <2>2 DEF PidInv, Busy, Alone, Finishing
<1>6. ASSUME NEW p \in Pid, Child(p) PROVE PidInv'
  <2>1. proc'[p] = Reaped /\ \A r \in Pid \ {p} : proc'[r] = proc[r]
    BY <1>6 DEF Child, Reap, TypeInv, TypeOK
  <2>2. \A r \in Pid : Busy(r)' => Busy(r) /\ r # p
    BY <2>1, BusyFacts DEF Busy
  <2>3. pc = "ready" /\ fn' = fn /\ config' = config /\ stray' = stray
    BY <1>6 DEF Child, aux
  <2>4. CASE p = ppid
    <3>1. ppid' = 0 /\ pc' = "stopped" /\ ppid # 0
      BY <1>6, <2>4, LogdirAssumption DEF Child
    <3> QED
      BY <2>2, <2>3, <2>4, <3>1 DEF PidInv, Alone, Finishing
  <2>5. CASE p # ppid
    <3>1. ppid' = ppid /\ pc' = pc
      BY <1>6, <2>5 DEF Child
    <3>2. ppid # 0 => proc'[ppid] = proc[ppid]
      BY <1>0, <2>1, <2>5
    <3> QED
      BY <2>2, <2>3, <2>5, <3>1, <3>2 DEF PidInv, Busy, Alone, Finishing
  <2> QED
    BY <2>4, <2>5
<1> QED
  BY <1>1, <1>2, <1>3, <1>4, <1>5, <1>6

LEMMA PidSignals ==
  ASSUME TypeInv, PidInv, Alarm \/ Hup \/ Term \/ ExitWaits \/ Exit \/ Fill \/ Free
  PROVE  PidInv'
<1> USE DEF PidInv, Busy, Alone, Finishing, aux, files, logs, mem
<1>1. CASE Alarm
  BY <1>1 DEF Alarm
<1>2. CASE Hup
  BY <1>2 DEF Hup
<1>3. CASE Term
  BY <1>3 DEF Term
<1>4. CASE ExitWaits
  BY <1>4 DEF ExitWaits
<1>5. CASE Exit
  <2>1. \A p \in Pid : Busy(p)' => Busy(p)
    BY <1>5, BusyFacts DEF Exit, TypeInv, TypeOK
  <2> QED
    BY <1>5, <2>1 DEF Exit
<1>6. CASE Fill \/ Free
  BY <1>6 DEF Fill, Free
<1> QED
  BY <1>1, <1>2, <1>3, <1>4, <1>5, <1>6

\* A processor that has not been reaped stays what it was to svlogd.
LEMMA PidProcessor ==
  ASSUME TypeInv, PidInv, NEW p \in Pid, Busy(p),
         NEW q \in Processor, proc' = [proc EXCEPT ![p] = q],
         \/ q = Reaped /\ ~proc[p].mine
         \/ q.st # "free" /\ q.mine = proc[p].mine /\ q.stamp = proc[p].stamp,
         pc' = pc, ppid' = ppid, fn' = fn, config' = config, stray' = stray
  PROVE  PidInv'
<1>1. proc'[p] = q /\ \A r \in Pid \ {p} : proc'[r] = proc[r]
  BY DEF TypeInv, TypeOK
<1>2. \A r \in Pid : Busy(r)' => Busy(r)
  BY <1>1 DEF Busy
<1>3. pc \notin {"down", "open"} /\ ppid # 0 =>
        /\ config.processor
        /\ Busy(ppid)' /\ proc'[ppid].mine /\ proc'[ppid].stamp = fn
  <2> SUFFICES ASSUME pc \notin {"down", "open"}, ppid # 0
      PROVE  /\ config.processor
             /\ Busy(ppid)' /\ proc'[ppid].mine /\ proc'[ppid].stamp = fn
    OBVIOUS
  <2>1. config.processor /\ Busy(ppid) /\ proc[ppid].mine /\ proc[ppid].stamp = fn
    BY DEF PidInv
  <2>2. ppid \in Pid
    BY DEF TypeInv, TypeOK
  <2> QED
    BY <1>1, <2>1, <2>2 DEF Busy
<1> QED
  BY <1>2, <1>3 DEF PidInv

LEMMA PidOver ==
  ASSUME TypeInv, PidInv, NEW p \in Pid, Busy(p), NEW how \in Ended,
         proc' = [proc EXCEPT ![p] = Over(proc[p], how)],
         pc' = pc, ppid' = ppid, fn' = fn, config' = config, stray' = stray
  PROVE  PidInv'
<1>1. proc[p] \in Processor
  BY DEF TypeInv, TypeOK
<1>2. Over(proc[p], how) \in Processor
  BY <1>1, ProcessorFacts
<1>3. CASE proc[p].mine
  <2>1. Over(proc[p], how).st # "free" /\ Over(proc[p], how).mine = proc[p].mine
        /\ Over(proc[p], how).stamp = proc[p].stamp
    BY <1>1, <1>3, BusyFacts DEF Ended
  <2> QED
    BY <1>2, <2>1, PidProcessor
<1>4. CASE ~proc[p].mine
  <2>1. Over(proc[p], how) = Reaped
    BY <1>1, <1>4, BusyFacts
  <2> QED
    BY <1>2, <1>4, <2>1, PidProcessor
<1> QED
  BY <1>3, <1>4

LEMMA PidEnvironment ==
  ASSUME TypeInv, PidInv,
         \/ Kill \/ Power
         \/ \E p \in Pid : Begin(p) \/ EndWell(p) \/ \E how \in Ended : EndBadly(p, how)
  PROVE  PidInv'
<1>0. proc \in [Pid -> Processor]
  BY DEF TypeInv, TypeOK
<1>1. CASE Kill \/ Power
  <2>1. \A p \in Pid : Busy(p)' => Busy(p)
    BY <1>0, <1>1, BusyFacts DEF Kill, Power, Busy
  <2>2. pc' = "down" /\ stray' = stray
    BY <1>1 DEF Kill, Power
  <2> QED
    BY <2>1, <2>2 DEF PidInv, Alone, Finishing
<1>2. ASSUME NEW p \in Pid, Begin(p) PROVE PidInv'
  <2>1. pc' = pc /\ ppid' = ppid /\ fn' = fn /\ config' = config /\ stray' = stray
        /\ proc[p].st = "forked"
    BY <1>2 DEF Begin, mem, aux
  <2>2. CASE N(proc[p].stamp, "u") \in DOMAIN old
    <3> DEFINE q == [proc[p] EXCEPT !.st = "running", !.read = state, !.fd5 = "newstate",
                                    !.data = old[N(proc[p].stamp, "u")].data]
    <3>1. old[N(proc[p].stamp, "u")].data \in Seq(Nat) /\ state \in Seq(Nat)
      BY <2>2 DEF TypeInv, TypeOK, SoundDir, Sound, File
    <3>2. q \in Processor /\ q.st = "running" /\ q.mine = proc[p].mine /\ q.stamp = proc[p].stamp
      BY <1>0, <3>1 DEF Processor
    <3>3. proc' = [proc EXCEPT ![p] = q]
      BY <1>2, <2>2 DEF Begin
    <3> HIDE DEF q
    <3> QED
      BY <2>1, <3>2, <3>3, PidProcessor DEF Busy
  <2>3. CASE N(proc[p].stamp, "u") \notin DOMAIN old
    <3>1. proc' = [proc EXCEPT ![p] = Over(proc[p], "fail")]
      BY <1>2, <2>3 DEF Begin
    <3> QED
      BY <2>1, <3>1, PidOver DEF Busy, Ended
  <2> QED
    BY <2>2, <2>3
<1>3. ASSUME NEW p \in Pid, NEW how \in Ended, proc[p].st = "running",
             proc' = [proc EXCEPT ![p] = Over(proc[p], how)],
             pc' = pc, ppid' = ppid, fn' = fn, config' = config, stray' = stray
      PROVE PidInv'
  BY <1>3, PidOver DEF Busy
<1>4. ASSUME NEW p \in Pid, EndWell(p) PROVE PidInv'
  BY <1>3, <1>4 DEF EndWell, Ended, mem, aux
<1>5. ASSUME NEW p \in Pid, NEW how \in Ended, EndBadly(p, how) PROVE PidInv'
  BY <1>3, <1>5 DEF EndBadly, mem, aux
<1> QED
  BY <1>1, <1>2, <1>4, <1>5

LEMMA PidStep == TypeInv /\ PidInv /\ [Next]_vars => PidInv'
<1>1. ASSUME PidInv, UNCHANGED vars PROVE PidInv'
  BY <1>1 DEF PidInv, vars, Busy
<1> QED
  BY <1>1, PidOpening, PidWriting, PidRotation, PidStopping, PidSignals,
     PidEnvironment DEF Next, Step, Request, Environment

-----------------------------------------------------------------------------
(* The exit. *)

\* When svlogd has left its loop it has waited for its processor, and the
\* file current is synced and marked: ppid is 0 only when there is no
\* processor that svlogd has not lost track of.
LEMMA ExitStep ==
  TypeInv /\ PidInv /\ [Next]_vars =>
    [pc = "exit" /\ pc' = "down" /\ crashes' = crashes =>
       /\ current'.x /\ current'.synced = Len(current'.data)
       /\ ~stray => \A p \in Pid : proc'[p].st = "free"]_vars
<1> SUFFICES ASSUME TypeInv, PidInv, Next, pc = "exit", pc' = "down", crashes' = crashes
             PROVE  /\ current'.x /\ current'.synced = Len(current'.data)
                    /\ ~stray => \A p \in Pid : proc'[p].st = "free"
  BY DEF vars
<1>1. Exit
  <2>1. ~(Kill \/ Power)
    <3>1. crashes \in Nat
      BY LogdirAssumption DEF TypeInv, TypeOK
    <3> QED
      BY <3>1 DEF Kill, Power
  <2>2. Step \/ Request
    <3>1. ~(\E p \in Pid : Begin(p) \/ EndWell(p) \/ \E how \in Ended : EndBadly(p, how))
      BY DEF Begin, EndWell, EndBadly
    <3>2. ~(Fill \/ Free)
      BY DEF Fill, Free
    <3> QED
      BY <2>1, <3>1, <3>2 DEF Next, Environment
  <2>3. ~Request
    BY DEF Request, Start, Alarm, Hup, Term, Flush
  <2>4. Step
    BY <2>2, <2>3
  <2> QED
    BY <2>4 DEF Step, OpenFails, Open, SetAside, PruneAside, AppendCurrent,
       RotateFirst, Write, NoSpace, RotateWaits, RotateNothing, Sync, Rename,
       Create, RotateEnds, Wait, Retry, RenameOutput, UnlinkInput, RenameState,
       ExitWaits, Child
<1>2. current'.x /\ current'.synced = Len(current'.data)
  <2>1. current' = [current EXCEPT !.synced = Len(current.data), !.x = TRUE]
    BY <1>1 DEF Exit, Safe
  <2> QED
    BY <2>1 DEF TypeInv, TypeOK, File
<1>3. ASSUME ~stray, NEW p \in Pid PROVE proc'[p].st = "free"
  <2>1. ~Busy(p)
    BY <1>1, <1>3, LogdirAssumption DEF Exit, PidInv
  <2>2. proc'[p] = Orphan(proc[p])
    BY <1>1 DEF Exit
  <2> QED
    BY <2>1, <2>2, BusyFacts DEF TypeInv, TypeOK, Busy
<1> QED
  BY <1>2, <1>3

\* man/svlogd.8: on TERM svlogd waits for its processors; it leaves none
\* behind but those it has lost track of, and current closed and synced.
THEOREM ExitIsClean == Spec => ExitClean
<1> QED
  BY TypeInit, TypeStep, PidInit, PidStep, ExitStep, PTL DEF Spec, ExitClean

-----------------------------------------------------------------------------
(* The file current. *)

\* What current is where: open and not marked while svlogd may write to it,
\* synced and marked when it is closed in good order, and no larger than
\* ld->size says.
CurrentInv ==
  /\ ~here => current.data = <<>>
  /\ current.whole
  /\ current.x => current.synced = Len(current.data)
  /\ pc \in {"ready", "pwrite", "rotate", "start", "wait", "stopped", "unlink",
             "state", "exit"} => here /\ ~current.x
  /\ pc = "rename" => here /\ current.x /\ current.data # <<>> /\ fn = written
  /\ pc = "append" /\ here => current.x \/ current.data = <<>>
  /\ pc = "aside" => Unsafe /\ size = 0
  /\ pc \in {"prune", "create", "start"} => current.data = <<>> /\ ~current.x
  /\ pc \notin {"down", "open", "aside", "create"} => size = Len(current.data)

\* The data of files.
LEMMA CurrentFacts ==
  ASSUME TypeInv
  PROVE  /\ current \in File /\ current.data \in Seq(Nat) /\ Len(current.data) \in Nat
         /\ current.x \in BOOLEAN /\ current.whole \in BOOLEAN
         /\ current.synced \in 0..Len(current.data)
         /\ current.data # <<>> => Len(current.data) > 0
         /\ size \in Nat /\ written \in Nat /\ fn \in Nat
<1>1. Sound(current)
  BY DEF TypeInv
<1>2. /\ current \in File /\ current.data \in Seq(Nat) /\ Len(current.data) \in Nat
      /\ current.synced \in 0..Len(current.data)
  BY <1>1, FileFacts DEF Sound
<1>3. current.data # <<>> => Len(current.data) > 0
  BY <1>2, EmptySeq
<1>4. size \in Nat /\ written \in Nat /\ fn \in Nat
  BY LogdirAssumption DEF TypeInv, TypeOK
<1> QED
  BY <1>2, <1>3, <1>4 DEF File

LEMMA EmptyFacts == Empty.data = <<>> /\ Empty.whole /\ ~Empty.x /\ Len(Empty.data) = 0
  BY NoData DEF Empty

\* What current is when it is closed.
LEMMA SafeFacts ==
  ASSUME NEW f \in File
  PROVE  /\ Safe(f).data = f.data /\ Safe(f).synced = Len(f.data)
         /\ Safe(f).x /\ Safe(f).whole = f.whole
  BY DEF Safe, File

LEMMA CurrentInit == Init => CurrentInv
  BY EmptyFacts DEF Init, CurrentInv, Unsafe

LEMMA CurrentOpening ==
  ASSUME TypeInv, CurrentInv,
         Start \/ OpenFails \/ Open \/ SetAside \/ PruneAside \/ AppendCurrent
  PROVE  CurrentInv'
<1> USE DEF CurrentInv, Unsafe, aux, files, logs, mem
<1>1. CASE Start
  BY <1>1 DEF Start
<1>2. CASE OpenFails
  BY <1>2 DEF OpenFails
<1>3. CASE Open
  <2>1. pc' = IF Unsafe THEN "aside" ELSE "append"
    BY <1>3 DEF Open
  <2>2. size' = IF here /\ ~Unsafe THEN Len(current.data) ELSE 0
    BY <1>3 DEF Open
  <2>3. here' = here /\ current' = current
    BY <1>3 DEF Open
  <2>4. CASE Unsafe
    BY <2>1, <2>2, <2>3, <2>4
  <2>5. CASE ~Unsafe
    <3>1. size' = Len(current.data)
      BY <2>2, <2>5, NoData
    <3> QED
      BY <2>1, <2>3, <2>5, <3>1
  <2> QED
    BY <2>4, <2>5
<1>4. CASE SetAside
  BY <1>4, EmptyFacts DEF SetAside
<1>5. CASE PruneAside
  BY <1>5 DEF PruneAside
<1>6. CASE AppendCurrent
  <2>1. /\ current'.data = current.data /\ ~current'.x /\ current'.whole = current.whole
    BY <1>6, CurrentFacts DEF AppendCurrent, File
  <2>2. here' /\ pc' = "ready" /\ size' = size /\ pc = "append"
    BY <1>6 DEF AppendCurrent
  <2> QED
    BY <2>1, <2>2
<1> QED
  BY <1>1, <1>2, <1>3, <1>4, <1>5, <1>6

\* What Write does to current.
LEMMA WriteFacts ==
  ASSUME TypeInv, Write
  PROVE  \E i \in 1..2 :
           LET e == [k \in 1..i |-> written + k]
           IN  /\ e \in Seq(Nat) /\ Len(e) = i /\ i \in 1..todo
               /\ current'.data = current.data \o e
               /\ current'.data \in Seq(Nat)
               /\ Len(current'.data) = Len(current.data) + i
               /\ current'.synced = current.synced /\ current'.x = current.x
               /\ current'.whole = current.whole
               /\ written' = written + i /\ size' = size + i
<1>1. PICK i \in 1..todo :
        /\ current' = [current EXCEPT !.data = @ \o [k \in 1..i |-> written + k]]
        /\ written' = written + i /\ size' = size + i
  BY DEF Write
<1> DEFINE e == [k \in 1..i |-> written + k]
<1>2. i \in 1..2 /\ todo \in 0..2 /\ written \in Nat
  BY <1>1, LogdirAssumption DEF TypeInv, TypeOK
<1>3. e \in Seq(Nat) /\ Len(e) = i
  <2>1. e \in [1..i -> Nat] /\ i \in Nat /\ DOMAIN e = 1..i
    BY <1>2
  <2>2. e \in Seq(Nat)
    BY <2>1, SeqDef
  <2> QED
    BY <2>1, <2>2, LenProperties
<1>4. current' = [current EXCEPT !.data = current.data \o e]
  BY <1>1, CurrentFacts DEF File
<1> HIDE DEF e
<1>5. /\ current'.data = current.data \o e
      /\ current'.synced = current.synced /\ current'.x = current.x
      /\ current'.whole = current.whole
  BY <1>4, CurrentFacts DEF File
<1>6. current.data \o e \in Seq(Nat) /\ Len(current.data \o e) = Len(current.data) + Len(e)
  BY <1>3, CurrentFacts, ConcatProperties
<1> QED
  BY <1>1, <1>2, <1>3, <1>5, <1>6 DEF e

LEMMA CurrentWriting ==
  ASSUME TypeInv, CurrentInv, (\E n \in 1..2 : Flush(n)) \/ RotateFirst \/ Write \/ NoSpace
  PROVE  CurrentInv'
<1> USE DEF CurrentInv, Unsafe, aux, files, logs, mem
<1>1. CASE \E n \in 1..2 : Flush(n)
  BY <1>1 DEF Flush
<1>2. CASE RotateFirst
  BY <1>2 DEF RotateFirst
<1>3. CASE Write
  <2>1. PICK i \in 1..2 :
          /\ Len(current'.data) = Len(current.data) + i /\ size' = size + i
          /\ current'.x = current.x /\ current'.whole = current.whole
    BY <1>3, WriteFacts
  <2>2. pc = "pwrite" /\ pc' \in {"rotate", "ready", "pwrite"} /\ here' = here
    BY <1>3 DEF Write
  <2>3. here /\ ~current.x /\ current.whole /\ size = Len(current.data)
    BY <2>2
  <2>4. size' = Len(current'.data)
    BY <2>1, <2>3
  <2> QED
    BY <2>1, <2>2, <2>3, <2>4
<1>4. CASE NoSpace
  BY <1>4 DEF NoSpace
<1> QED
  BY <1>1, <1>2, <1>3, <1>4

LEMMA CurrentRotation ==
  ASSUME TypeInv, CurrentInv,
         RotateWaits \/ RotateNothing \/ Sync \/ Rename \/ Create \/ RotateEnds
  PROVE  CurrentInv'
<1> USE DEF CurrentInv, Unsafe, aux, files, logs, mem
<1>0. back \in {"ready", "pwrite"}
  BY DEF TypeInv, TypeOK
<1>1. CASE RotateWaits
  BY <1>1 DEF RotateWaits
<1>2. CASE RotateNothing
  BY <1>0, <1>2 DEF RotateNothing
<1>3. CASE Sync
  <2>1. current' = Safe(current) /\ current \in File
    BY <1>3, CurrentFacts DEF Sync
  <2>2. /\ current'.data = current.data /\ current'.synced = Len(current.data)
        /\ current'.x /\ current'.whole = current.whole
    BY <2>1, SafeFacts
  <2>3. pc = "rotate" /\ pc' = "rename" /\ here' = here /\ size' = size /\ size > 0
        /\ fn' = written /\ written' = written
    BY <1>3 DEF Sync, Now
  <2>4. current.data # <<>>
    BY <2>3, NoData
  <2> QED
    BY <2>2, <2>3, <2>4
<1>4. CASE Rename
  BY <1>4, EmptyFacts DEF Rename
<1>5. CASE Create
  BY <1>5, NoData DEF Create
<1>6. CASE RotateEnds
  BY <1>0, <1>6 DEF RotateEnds
<1> QED
  BY <1>1, <1>2, <1>3, <1>4, <1>5, <1>6

LEMMA CurrentStopping ==
  ASSUME TypeInv, CurrentInv,
         \/ Wait \/ Retry \/ RenameOutput \/ UnlinkInput \/ RenameState
         \/ \E p \in Pid : Child(p)
  PROVE  CurrentInv'
<1> USE DEF CurrentInv, Unsafe, aux, files, logs, mem
<1>0. ret \in {"ready", "rotate", "exit"}
  BY DEF TypeInv, TypeOK
<1>1. CASE Wait
  BY <1>1 DEF Wait
<1>2. CASE Retry
  BY <1>0, <1>2 DEF Retry
<1>3. CASE RenameOutput
  BY <1>3 DEF RenameOutput
<1>4. CASE UnlinkInput
  BY <1>4 DEF UnlinkInput
<1>5. CASE RenameState
  BY <1>0, <1>5 DEF RenameState
<1>6. ASSUME NEW p \in Pid, Child(p) PROVE CurrentInv'
  <2>1. pc = "ready" /\ pc' \in {"ready", "stopped"} /\ here' = here
        /\ current' = current /\ size' = size
    BY <1>6 DEF Child
  <2> QED
    BY <2>1
<1> QED
  BY <1>1, <1>2, <1>3, <1>4, <1>5, <1>6

LEMMA CurrentSignals ==
  ASSUME TypeInv, CurrentInv, Alarm \/ Hup \/ Term \/ ExitWaits \/ Exit \/ Fill \/ Free
  PROVE  CurrentInv'
<1> USE DEF CurrentInv, Unsafe, aux, files, logs, mem
<1>1. CASE Alarm
  BY <1>1 DEF Alarm
<1>2. CASE Hup \/ Exit
  <2>1. current' = Safe(current) /\ current \in File
    BY <1>2, CurrentFacts DEF Hup, Exit
  <2>2. /\ current'.data = current.data /\ current'.synced = Len(current.data)
        /\ current'.x /\ current'.whole = current.whole
    BY <2>1, SafeFacts
  <2>3. pc' \in {"open", "down"} /\ here' = here
    BY <1>2 DEF Hup, Exit
  <2> QED
    BY <2>2, <2>3
<1>3. CASE Term
  BY <1>3 DEF Term
<1>4. CASE ExitWaits
  BY <1>4 DEF ExitWaits
<1>5. CASE Fill \/ Free
  BY <1>5 DEF Fill, Free
<1> QED
  BY <1>1, <1>2, <1>3, <1>4, <1>5

\* What the loss of power does to a file.
LEMMA TornFacts ==
  ASSUME NEW f, Sound(f), NEW n \in f.synced..Len(f.data)
  PROVE  /\ Torn(f, n).data = SubSeq(f.data, 1, n)
         /\ Torn(f, n).data \in Seq(Nat) /\ Len(Torn(f, n).data) = n
         /\ Torn(f, n).synced = f.synced /\ Torn(f, n).x = f.x
         /\ Torn(f, n).whole = f.whole
<1>1. f \in File /\ n \in 0..Len(f.data) /\ f.data \in Seq(Nat)
  BY FileFacts DEF Sound
<1>2. SubSeq(f.data, 1, n) \in Seq(Nat) /\ Len(SubSeq(f.data, 1, n)) = n
  BY <1>1, Prefix
<1>3. Torn(f, n) = [f EXCEPT !.data = SubSeq(f.data, 1, n)]
  BY DEF Torn
<1> QED
  BY <1>1, <1>2, <1>3 DEF File

LEMMA CurrentEnvironment ==
  ASSUME TypeInv, CurrentInv,
         \/ Kill \/ Power
         \/ \E p \in Pid : Begin(p) \/ EndWell(p) \/ \E how \in Ended : EndBadly(p, how)
  PROVE  CurrentInv'
<1>1. CASE Kill
  BY <1>1 DEF Kill, CurrentInv, Unsafe, aux, files, logs, mem
<1>2. CASE Power
  <2>1. PICK n \in current.synced..Len(current.data) : current' = Torn(current, n)
    BY <1>2 DEF Power
  <2>2. Sound(current)
    BY DEF TypeInv
  <2>3. /\ current'.data \in Seq(Nat) /\ Len(current'.data) = n
        /\ current'.synced = current.synced /\ current'.x = current.x
        /\ current'.whole = current.whole
    BY <2>1, <2>2, TornFacts
  <2>4. pc' = "down" /\ here' = here
    BY <1>2 DEF Power
  <2>5. ~here => current'.data = <<>>
    <3> SUFFICES ASSUME ~here PROVE current'.data = <<>>
      OBVIOUS
    <3>1. Len(current.data) = 0
      BY NoData DEF CurrentInv
    <3>2. n = 0
      BY <3>1, CurrentFacts
    <3> QED
      BY <2>3, <3>2, EmptySeq
  <2>6. current.x => n = Len(current.data)
    BY CurrentFacts DEF CurrentInv
  <2> QED
    BY <2>3, <2>4, <2>5, <2>6 DEF CurrentInv
<1>3. ASSUME NEW p \in Pid,
             Begin(p) \/ EndWell(p) \/ \E how \in Ended : EndBadly(p, how)
      PROVE  CurrentInv'
  <2>1. /\ pc' = pc /\ here' = here /\ current' = current /\ size' = size /\ fn' = fn
        /\ written' = written
    BY <1>3 DEF Begin, EndWell, EndBadly, mem, aux, files, logs
  <2> QED
    BY <2>1 DEF CurrentInv, Unsafe
<1> QED
  BY <1>1, <1>2, <1>3

LEMMA CurrentStep == TypeInv /\ CurrentInv /\ [Next]_vars => CurrentInv'
<1>1. ASSUME CurrentInv, UNCHANGED vars PROVE CurrentInv'
  BY <1>1 DEF CurrentInv, vars, Unsafe
<1> QED
  BY <1>1, CurrentOpening, CurrentWriting, CurrentRotation, CurrentStopping,
     CurrentSignals, CurrentEnvironment DEF Next, Step, Request, Environment

-----------------------------------------------------------------------------
(* The order of the logs. *)

\* The data d may be in a log of the time k among those that S names: it was
\* written by then, and after each earlier log was closed.
Follows(d, k, S) ==
  /\ Run(d)
  /\ \A j \in Range(d) : j <= k /\ \A f \in S : f.stamp < k => f.stamp < j

DirOrder(F) == \A f \in DOMAIN F : Follows(F[f].data, f.stamp, DOMAIN F)

\* Each log, and what each processor reads, follows the logs before it, and
\* current follows them all. It ends with what was written last, but for a
\* current that lost its end, which Open does not append to.
OrderInv ==
  /\ fn <= written
  /\ \A f \in DOMAIN old : f.stamp <= written
  /\ DirOrder(old)
  /\ \A p \in Pid :
       proc[p].stamp <= written /\ Follows(proc[p].data, proc[p].stamp, DOMAIN old)
  /\ Run(current.data)
  /\ \A j \in Range(current.data) :
       /\ 0 < j /\ j <= written
       /\ \A f \in DOMAIN old : f.stamp < j
       /\ \A p \in Pid : proc[p].stamp < j
       /\ pc \in Finishing => fn < j
  /\ current.data # <<>> =>
       \/ current.data[Len(current.data)] = written
       \/ pc \in {"down", "open", "aside"} /\ ~current.x

LEMMA NameFacts ==
  \A k, e : N(k, e).stamp = k /\ N(k, e).ext = e
  BY DEF N

\* The units of a sequence of data.
LEMMA RangeFacts ==
  ASSUME NEW d \in Seq(Nat)
  PROVE  /\ Range(d) = {d[k] : k \in 1..Len(d)} /\ Range(d) \subseteq Nat
         /\ Len(d) \in Nat
<1>1. DOMAIN d = 1..Len(d) /\ Len(d) \in Nat /\ d \in [1..Len(d) -> Nat]
  BY LenProperties
<1> QED
  BY <1>1 DEF Range

LEMMA RunNothing == Run(<<>>) /\ Range(<<>>) = {}
<1>1. Range(<<>>) = {}
  BY NoData DEF Range
<1>2. Run(<<>>)
  BY NoData DEF Run
<1> QED
  BY <1>1, <1>2

LEMMA FollowsNothing == \A k, S : Follows(<<>>, k, S)
  BY RunNothing DEF Follows

\* A part of a file has part of its units, without a gap.
LEMMA RunPrefix ==
  ASSUME NEW d \in Seq(Nat), NEW n \in 0..Len(d)
  PROVE  /\ Range(SubSeq(d, 1, n)) \subseteq Range(d)
         /\ Run(d) => Run(SubSeq(d, 1, n))
<1>1. /\ SubSeq(d, 1, n) \in Seq(Nat) /\ Len(SubSeq(d, 1, n)) = n
      /\ \A k \in 1..n : SubSeq(d, 1, n)[k] = d[k]
  BY Prefix
<1>2. Len(d) \in Nat /\ n \in Nat /\ n <= Len(d)
  BY LenProperties
<1>3. Range(SubSeq(d, 1, n)) \subseteq Range(d)
  <2>1. Range(SubSeq(d, 1, n)) = {SubSeq(d, 1, n)[k] : k \in 1..n}
    BY <1>1, RangeFacts
  <2>2. Range(d) = {d[k] : k \in 1..Len(d)}
    BY RangeFacts
  <2> QED
    BY <1>1, <1>2, <2>1, <2>2
<1>4. ASSUME Run(d) PROVE Run(SubSeq(d, 1, n))
  BY <1>1, <1>2, <1>4 DEF Run
<1> QED
  BY <1>3, <1>4

\* Writing the next units to what ends with the last.
LEMMA RunExtended ==
  ASSUME NEW d \in Seq(Nat), Run(d), NEW w \in Nat, d # <<>> => d[Len(d)] = w,
         NEW i \in 1..2, NEW e \in Seq(Nat), Len(e) = i,
         \A k \in 1..i : e[k] = w + k
  PROVE  /\ Run(d \o e) /\ (d \o e)[Len(d \o e)] = w + i
         /\ \A j \in Range(d \o e) : j \in Range(d) \/ (w < j /\ j <= w + i)
<1>1. /\ d \o e \in Seq(Nat) /\ Len(d \o e) = Len(d) + i
      /\ \A k \in 1..Len(d) + i : (d \o e)[k] = IF k <= Len(d) THEN d[k] ELSE e[k - Len(d)]
  BY ConcatProperties
<1>2. Len(d) \in Nat /\ (d # <<>> <=> Len(d) > 0)
  BY LenProperties, EmptySeq
<1>3. (d \o e)[Len(d) + i] = w + i
  BY <1>1, <1>2
<1>4. ASSUME NEW k \in 1..Len(d) + i - 1 PROVE (d \o e)[k + 1] = (d \o e)[k] + 1
  <2>1. CASE k < Len(d)
    <3>1. (d \o e)[k] = d[k] /\ (d \o e)[k + 1] = d[k + 1]
      BY <1>1, <1>2, <2>1
    <3> QED
      BY <1>2, <2>1, <3>1 DEF Run
  <2>2. CASE k = Len(d)
    <3>0. Len(d) > 0 /\ k \in 1..Len(d) + i /\ k <= Len(d)
      BY <1>2, <2>2
    <3>1. (d \o e)[k] = d[Len(d)] /\ d[Len(d)] = w
      <4>1. (d \o e)[k] = d[k]
        BY <1>1, <3>0
      <4> QED
        BY <1>2, <2>2, <3>0, <4>1
    <3>2. k + 1 \in 1..Len(d) + i /\ ~(k + 1 <= Len(d)) /\ k + 1 - Len(d) = 1
      BY <1>2, <2>2
    <3>3. (d \o e)[k + 1] = e[1] /\ e[1] = w + 1
      BY <1>1, <3>2
    <3> QED
      BY <3>1, <3>3
  <2>3. CASE k > Len(d)
    <3>1. (d \o e)[k] = e[k - Len(d)] /\ (d \o e)[k + 1] = e[k - Len(d) + 1]
      BY <1>1, <1>2, <2>3
    <3>2. k - Len(d) \in 1..i /\ k - Len(d) + 1 \in 1..i
      BY <1>2, <2>3
    <3> QED
      BY <3>1, <3>2
  <2> QED
    BY <1>2, <2>1, <2>2, <2>3
<1>5. ASSUME NEW k \in 1..Len(d) + i
      PROVE  (d \o e)[k] \in Range(d) \/ (w < (d \o e)[k] /\ (d \o e)[k] <= w + i)
  <2>1. CASE k <= Len(d)
    BY <1>1, <1>2, <2>1, RangeFacts
  <2>2. CASE k > Len(d)
    <3>1. k - Len(d) \in 1..i
      BY <1>2, <2>2
    <3>2. (d \o e)[k] = e[k - Len(d)]
      BY <1>1, <1>2, <2>2
    <3>3. e[k - Len(d)] = w + (k - Len(d))
      BY <3>1
    <3> QED
      BY <3>1, <3>2, <3>3
  <2> QED
    BY <1>2, <2>1, <2>2
<1>6. Run(d \o e)
  BY <1>1, <1>4 DEF Run
<1>7. Range(d \o e) = {(d \o e)[k] : k \in 1..Len(d) + i}
  BY <1>1, RangeFacts
<1> QED
  BY <1>1, <1>3, <1>5, <1>6, <1>7

\* Fewer logs, and one more of a time that is known or late, do not change
\* what follows.
LEMMA FollowsFewer ==
  ASSUME NEW d, NEW k, NEW S, NEW T, Follows(d, k, S),
         \A f \in T : \E g \in S : g.stamp = f.stamp
  PROVE  Follows(d, k, T)
<1>1. ASSUME NEW j \in Range(d), NEW f \in T, f.stamp < k PROVE f.stamp < j
  <2>1. PICK g \in S : g.stamp = f.stamp
    OBVIOUS
  <2> QED
    BY <1>1, <2>1 DEF Follows
<1> QED
  BY <1>1 DEF Follows

LEMMA FollowsLater ==
  ASSUME NEW d, NEW k \in Nat, NEW S, NEW n, n.stamp \in Nat, k <= n.stamp, Follows(d, k, S)
  PROVE  Follows(d, k, S \cup {n})
  BY DEF Follows

\* The order of a directory in which some logs are gone, have a new name of
\* the same time, or lost their end.
LEMMA OrderWithout ==
  ASSUME NEW F, DirOrder(F), NEW S
  PROVE  /\ DirOrder(Without(F, S)) /\ DOMAIN Without(F, S) \subseteq DOMAIN F
         /\ \A f \in DOMAIN Without(F, S) : Without(F, S)[f] = F[f]
<1>1. DOMAIN Without(F, S) \subseteq DOMAIN F
  BY DEF Without
<1>2. \A f \in DOMAIN Without(F, S) : Without(F, S)[f] = F[f]
  BY DEF Without
<1>3. ASSUME NEW f \in DOMAIN Without(F, S)
      PROVE  Follows(Without(F, S)[f].data, f.stamp, DOMAIN Without(F, S))
  <2>1. Follows(F[f].data, f.stamp, DOMAIN F)
    BY <1>1 DEF DirOrder
  <2> QED
    BY <1>1, <1>2, <2>1, FollowsFewer
<1> QED
  BY <1>1, <1>2, <1>3 DEF DirOrder

LEMMA OrderWith ==
  ASSUME NEW F, DirOrder(F), NEW n, NEW c, Follows(c.data, n.stamp, DOMAIN F),
         \E g \in DOMAIN F : g.stamp = n.stamp
  PROVE  DirOrder(With(F, n, c))
<1>1. DOMAIN With(F, n, c) = DOMAIN F \cup {n}
  BY DEF With
<1>2. \A f \in DOMAIN With(F, n, c) : \E g \in DOMAIN F : g.stamp = f.stamp
  BY <1>1
<1>3. ASSUME NEW f \in DOMAIN With(F, n, c)
      PROVE  Follows(With(F, n, c)[f].data, f.stamp, DOMAIN F)
  BY <1>1 DEF With, DirOrder
<1> QED
  BY <1>2, <1>3, FollowsFewer DEF DirOrder

LEMMA OrderNew ==
  ASSUME NEW F, DirOrder(F), NEW n, NEW c, n.stamp \in Nat,
         Follows(c.data, n.stamp, DOMAIN F),
         \A f \in DOMAIN F : f.stamp \in Nat /\ f.stamp <= n.stamp
  PROVE  DirOrder(With(F, n, c))
<1>1. DOMAIN With(F, n, c) = DOMAIN F \cup {n}
  BY DEF With
<1>2. ASSUME NEW f \in DOMAIN With(F, n, c)
      PROVE  /\ Follows(With(F, n, c)[f].data, f.stamp, DOMAIN F)
             /\ f.stamp \in Nat /\ f.stamp <= n.stamp
  BY <1>1 DEF With, DirOrder
<1>3. \A f \in DOMAIN With(F, n, c) :
        Follows(With(F, n, c)[f].data, f.stamp, DOMAIN F \cup {n})
  BY <1>2, FollowsLater
<1> QED
  BY <1>1, <1>3 DEF DirOrder

LEMMA OrderTorn ==
  ASSUME NEW F, SoundDir(F), DirOrder(F), NEW G, DOMAIN G = DOMAIN F,
         \A f \in DOMAIN F :
            \E n \in F[f].synced..Len(F[f].data) : G[f] = Torn(F[f], n)
  PROVE  DirOrder(G)
<1> SUFFICES ASSUME NEW f \in DOMAIN F PROVE Follows(G[f].data, f.stamp, DOMAIN F)
  BY DEF DirOrder
<1>1. Follows(F[f].data, f.stamp, DOMAIN F) /\ Sound(F[f])
  BY DEF DirOrder, SoundDir
<1>2. PICK n \in F[f].synced..Len(F[f].data) : G[f] = Torn(F[f], n)
  OBVIOUS
<1>3. n \in 0..Len(F[f].data) /\ F[f].data \in Seq(Nat)
  BY <1>1, FileFacts
<1>4. G[f].data = SubSeq(F[f].data, 1, n)
  BY <1>1, <1>2, TornFacts
<1> QED
  BY <1>1, <1>3, <1>4, RunPrefix DEF Follows

LEMMA OrderInit == Init => OrderInv
<1> SUFFICES ASSUME Init PROVE OrderInv
  OBVIOUS
<1>1. DOMAIN old = {} /\ DirOrder(old)
  BY DEF Init, DirOrder
<1>2. current.data = <<>> /\ Run(current.data) /\ Range(current.data) = {}
  BY EmptyFacts, RunNothing DEF Init
<1>3. \A p \in Pid : proc[p].stamp = 0 /\ proc[p].data = <<>>
  BY DEF Init, Reaped
<1>4. fn = 0 /\ written = 0
  BY DEF Init
<1> QED
  BY <1>1, <1>2, <1>3, <1>4, FollowsNothing DEF OrderInv

\* The types that the order needs.
LEMMA OrderTypes ==
  ASSUME TypeInv
  PROVE  /\ written \in Nat /\ fn \in Nat
         /\ \A f \in DOMAIN old : f \in Name /\ f.stamp \in Nat /\ Sound(old[f])
                                 /\ old[f].data \in Seq(Nat)
         /\ \A p \in Pid : proc[p].stamp \in Nat /\ proc[p].data \in Seq(Nat)
         /\ Range(current.data) \subseteq Nat
<1>1. written \in Nat /\ fn \in Nat
  BY LogdirAssumption DEF TypeInv, TypeOK
<1>2. ASSUME NEW f \in DOMAIN old
      PROVE  f \in Name /\ f.stamp \in Nat /\ Sound(old[f]) /\ old[f].data \in Seq(Nat)
  BY FileFacts DEF TypeInv, SoundDir, Name
<1>3. \A p \in Pid : proc[p].stamp \in Nat /\ proc[p].data \in Seq(Nat)
  BY DEF TypeInv, TypeOK, Processor
<1>4. Range(current.data) \subseteq Nat
  BY CurrentFacts, RangeFacts
<1> QED
  BY <1>1, <1>2, <1>3, <1>4

\* A step that writes nothing to current, brings no time into the directory,
\* and starts no processor.
LEMMA OrderKept ==
  ASSUME TypeInv, OrderInv,
         current'.data = current.data, written' = written, fn' = fn,
         DirOrder(old'), \A f \in DOMAIN old' : \E g \in DOMAIN old : g.stamp = f.stamp,
         \A p \in Pid : \/ proc'[p] = Reaped
                        \/ /\ proc'[p].stamp = proc[p].stamp
                           /\ proc'[p].data = proc[p].data
                        \/ /\ proc'[p].stamp = proc[p].stamp
                           /\ Follows(proc'[p].data, proc'[p].stamp, DOMAIN old),
         pc' \in Finishing => pc \in Finishing,
         pc \in {"down", "open", "aside"} /\ ~current.x =>
           \/ pc' \in {"down", "open", "aside"} /\ ~current'.x
           \/ current.data = <<>>
  PROVE  OrderInv'
<1>1. \A f \in DOMAIN old' : f.stamp <= written
  BY DEF OrderInv
<1>2. Reaped.stamp = 0 /\ Reaped.data = <<>>
  BY DEF Reaped
<1>3. ASSUME NEW p \in Pid
      PROVE  /\ proc'[p].stamp <= written /\ Follows(proc'[p].data, proc'[p].stamp, DOMAIN old')
             /\ \A j \in Range(current.data) : proc'[p].stamp < j
  <2>1. CASE proc'[p] = Reaped
    BY <1>2, <2>1, FollowsNothing, OrderTypes DEF OrderInv
  <2>2. ASSUME proc'[p].stamp = proc[p].stamp,
               Follows(proc'[p].data, proc'[p].stamp, DOMAIN old)
        PROVE  /\ proc'[p].stamp <= written
               /\ Follows(proc'[p].data, proc'[p].stamp, DOMAIN old')
               /\ \A j \in Range(current.data) : proc'[p].stamp < j
    <3>1. Follows(proc'[p].data, proc'[p].stamp, DOMAIN old')
      BY <2>2, FollowsFewer
    <3> QED
      BY <2>2, <3>1 DEF OrderInv
  <2>3. \/ proc'[p] = Reaped
        \/ /\ proc'[p].stamp = proc[p].stamp
           /\ Follows(proc'[p].data, proc'[p].stamp, DOMAIN old)
    BY DEF OrderInv
  <2> QED
    BY <2>1, <2>2, <2>3
<1>4. ASSUME NEW j \in Range(current.data)
      PROVE  /\ 0 < j /\ j <= written /\ \A f \in DOMAIN old' : f.stamp < j
             /\ pc' \in Finishing => fn < j
  BY DEF OrderInv
<1>5. current.data # <<>> =>
         \/ current.data[Len(current.data)] = written
         \/ pc' \in {"down", "open", "aside"} /\ ~current'.x
  BY DEF OrderInv
<1>6. Run(current.data) /\ fn <= written
  BY DEF OrderInv
<1> QED
  BY <1>1, <1>3, <1>4, <1>5, <1>6 DEF OrderInv

\* A step that leaves the logs and the processors alone.
LEMMA OrderQuiet ==
  ASSUME TypeInv, OrderInv, old' = old,
         current'.data = current.data, written' = written, fn' = fn,
         \A p \in Pid : proc'[p] = proc[p] \/ proc'[p] = Reaped
                        \/ (proc'[p].stamp = proc[p].stamp /\ proc'[p].data = proc[p].data),
         pc' \in Finishing => pc \in Finishing,
         pc \in {"down", "open", "aside"} /\ ~current.x =>
           \/ pc' \in {"down", "open", "aside"} /\ ~current'.x
           \/ current.data = <<>>
  PROVE  OrderInv'
  BY OrderKept DEF OrderInv

LEMMA OrderOpening ==
  ASSUME TypeInv, CurrentInv, OrderInv, Start \/ OpenFails \/ Open \/ PruneAside \/ AppendCurrent
  PROVE  OrderInv'
<1> USE DEF Finishing, aux, files, logs, mem
<1>1. CASE Start
  BY <1>1, OrderQuiet DEF Start
<1>2. CASE OpenFails
  <2>1. \A p \in Pid : \/ proc'[p] = Reaped
                       \/ proc'[p].stamp = proc[p].stamp /\ proc'[p].data = proc[p].data
    BY <1>2 DEF OpenFails, Orphan, TypeInv, TypeOK, Processor
  <2> QED
    BY <1>2, <2>1, OrderQuiet DEF OpenFails
<1>3. CASE Open
  <2>1. ~current.x /\ current.data # <<>> => here /\ pc' = "aside"
    BY <1>3 DEF Open, Unsafe, CurrentInv
  <2> QED
    BY <1>3, <2>1, OrderQuiet DEF Open
<1>4. CASE PruneAside
  <2>1. DirOrder(old') /\ DOMAIN old' \subseteq DOMAIN old
    BY <1>4, OrderWithout DEF PruneAside, RmOldest, OrderInv
  <2> QED
    BY <1>4, <2>1, OrderKept DEF PruneAside
<1>5. CASE AppendCurrent
  <2>1. current'.data = current.data
    BY <1>5, CurrentFacts DEF AppendCurrent, File
  <2> QED
    BY <1>5, <2>1, OrderQuiet DEF AppendCurrent
<1> QED
  BY <1>1, <1>2, <1>3, <1>4, <1>5

\* current becomes a log of this time.
LEMMA OrderClosed ==
  ASSUME TypeInv, OrderInv, NEW e,
         old' = With(old, N(written, e), current), current' = Empty,
         written' = written, fn' = written, proc' = proc
  PROVE  OrderInv'
<1>1. \A f \in DOMAIN old : f.stamp \in Nat /\ f.stamp <= written
  BY OrderTypes DEF OrderInv
<1>2. Follows(current.data, written, DOMAIN old)
  BY DEF OrderInv, Follows
<1>3. DirOrder(old')
  BY <1>1, <1>2, NameFacts, OrderNew, OrderTypes DEF OrderInv
<1>4. DOMAIN old' = DOMAIN old \cup {N(written, e)}
  BY DEF With
<1>5. \A f \in DOMAIN old' : f.stamp <= written
  BY <1>1, <1>4, NameFacts, OrderTypes
<1>6. ASSUME NEW p \in Pid
      PROVE  proc[p].stamp <= written /\ Follows(proc[p].data, proc[p].stamp, DOMAIN old')
  <2>1. proc[p].stamp \in Nat /\ proc[p].stamp <= written
        /\ Follows(proc[p].data, proc[p].stamp, DOMAIN old)
    BY OrderTypes DEF OrderInv
  <2>2. N(written, e).stamp = written /\ written \in Nat
    BY NameFacts, OrderTypes
  <2>3. Follows(proc[p].data, proc[p].stamp, DOMAIN old \cup {N(written, e)})
    BY <2>1, <2>2, FollowsLater
  <2> QED
    BY <1>4, <2>1, <2>3
<1>7. current'.data = <<>> /\ Run(current'.data) /\ Range(current'.data) = {}
  BY EmptyFacts, RunNothing
<1> QED
  BY <1>3, <1>5, <1>6, <1>7, OrderTypes DEF OrderInv

LEMMA OrderWriting ==
  ASSUME TypeInv, CurrentInv, OrderInv,
         (\E n \in 1..2 : Flush(n)) \/ RotateFirst \/ Write \/ NoSpace
  PROVE  OrderInv'
<1>1. CASE \E n \in 1..2 : Flush(n)
  BY <1>1, OrderQuiet DEF Flush, Finishing, aux, files, logs, mem
<1>2. CASE RotateFirst
  BY <1>2, OrderQuiet DEF RotateFirst, Finishing, aux, files, logs, mem
<1>3. CASE Write
  <2>1. PICK i \in 1..2 :
          LET e == [k \in 1..i |-> written + k]
          IN  /\ e \in Seq(Nat) /\ Len(e) = i
              /\ current'.data = current.data \o e
              /\ written' = written + i
    BY <1>3, WriteFacts
  <2> DEFINE e == [k \in 1..i |-> written + k]
  <2>2. \A k \in 1..i : e[k] = written + k
    OBVIOUS
  <2>3. e \in Seq(Nat) /\ Len(e) = i /\ current'.data = current.data \o e
    BY <2>1
  <2>4. pc = "pwrite" /\ pc' \in {"rotate", "ready", "pwrite"} /\ old' = old /\ proc' = proc
        /\ fn' = fn
    BY <1>3 DEF Write
  <2>5. current.data # <<>> => current.data[Len(current.data)] = written
    BY <2>4 DEF OrderInv
  <2> HIDE DEF e
  <2>6. Run(current.data) /\ current.data \in Seq(Nat) /\ written \in Nat
    BY CurrentFacts DEF OrderInv
  <2>7. /\ Run(current.data \o e)
        /\ (current.data \o e)[Len(current.data \o e)] = written + i
        /\ \A j \in Range(current.data \o e) :
             j \in Range(current.data) \/ (written < j /\ j <= written + i)
    BY <2>2, <2>3, <2>5, <2>6, RunExtended
  <2>8. ASSUME NEW j \in Range(current'.data)
        PROVE  /\ 0 < j /\ j <= written'
               /\ \A f \in DOMAIN old : f.stamp < j
               /\ \A p \in Pid : proc[p].stamp < j
    <3>1. CASE j \in Range(current.data)
      <4>1. j \in Nat /\ 0 < j /\ j <= written
        BY <3>1, OrderTypes DEF OrderInv
      <4> QED
        BY <2>1, <2>6, <3>1, <4>1 DEF OrderInv
    <3>2. CASE written < j /\ j <= written + i
      <4>1. j \in Nat
        <5>1. current'.data \in Seq(Nat)
          BY <2>3, <2>6, ConcatProperties
        <5> QED
          BY <5>1, RangeFacts
      <4>2. /\ \A f \in DOMAIN old : f.stamp \in Nat /\ f.stamp <= written
            /\ \A p \in Pid : proc[p].stamp \in Nat /\ proc[p].stamp <= written
        BY OrderTypes DEF OrderInv
      <4> QED
        BY <2>1, <2>6, <3>2, <4>1, <4>2
    <3> QED
      BY <2>3, <2>7, <3>1, <3>2
  <2>9. fn' <= written' /\ (\A f \in DOMAIN old' : f.stamp <= written')
        /\ \A p \in Pid : proc'[p].stamp <= written'
    <3>1. fn \in Nat /\ fn <= written
          /\ (\A f \in DOMAIN old : f.stamp \in Nat /\ f.stamp <= written)
          /\ \A p \in Pid : proc[p].stamp \in Nat /\ proc[p].stamp <= written
      BY OrderTypes DEF OrderInv
    <3> QED
      BY <2>1, <2>4, <2>6, <3>1
  <2>10. DirOrder(old') /\ \A p \in Pid : Follows(proc'[p].data, proc'[p].stamp, DOMAIN old')
    BY <2>4 DEF OrderInv
  <2>11. current'.data[Len(current'.data)] = written' /\ Run(current'.data)
    BY <2>1, <2>3, <2>7
  <2>12. pc' \notin Finishing
    BY <2>4 DEF Finishing
  <2> QED
    BY <2>4, <2>8, <2>9, <2>10, <2>11, <2>12 DEF OrderInv
<1>4. CASE NoSpace
  <2>1. DirOrder(old') /\ DOMAIN old' \subseteq DOMAIN old
    BY <1>4, OrderWithout DEF NoSpace, OrderInv
  <2> QED
    BY <1>4, <2>1, OrderKept DEF NoSpace, aux, mem
<1> QED
  BY <1>1, <1>2, <1>3, <1>4

\* A processor is started for the log of a time before all of current.
LEMMA OrderStarted ==
  ASSUME TypeInv, OrderInv, ProcessorStart, \A j \in Range(current.data) : fn < j,
         DirOrder(old'), DOMAIN old' \subseteq DOMAIN old, current' = current,
         written' = written, fn' = fn, pc' \notin Finishing,
         pc \notin {"down", "open", "aside"}
  PROVE  OrderInv'
<1>1. \A p \in Pid : \/ proc'[p] = proc[p]
                     \/ proc'[p].stamp = fn /\ proc'[p].data = <<>>
  <2>1. CASE config.processor
    <3> DEFINE q == [Reaped EXCEPT !.st = "forked", !.stamp = fn, !.mine = TRUE]
    <3>1. PICK p \in Pid : proc' = [proc EXCEPT ![p] = q]
      BY <2>1 DEF ProcessorStart
    <3>2. q.stamp = fn /\ q.data = <<>>
      BY ForkedFacts, OrderTypes
    <3> HIDE DEF q
    <3> QED
      BY <3>1, <3>2 DEF TypeInv, TypeOK
  <2>2. CASE ~config.processor
    BY <2>2 DEF ProcessorStart
  <2> QED
    BY <2>1, <2>2
<1>2. ASSUME NEW p \in Pid
      PROVE  /\ proc'[p].stamp <= written /\ Follows(proc'[p].data, proc'[p].stamp, DOMAIN old')
             /\ \A j \in Range(current.data) : proc'[p].stamp < j
  <2>1. CASE proc'[p] = proc[p]
    BY <2>1, FollowsFewer DEF OrderInv
  <2>2. CASE proc'[p].stamp = fn /\ proc'[p].data = <<>>
    BY <2>2, FollowsNothing DEF OrderInv
  <2> QED
    BY <1>1, <2>1, <2>2
<1> QED
  BY <1>2 DEF OrderInv

LEMMA OrderRotation ==
  ASSUME TypeInv, PidInv, CurrentInv, OrderInv,
         \/ SetAside \/ RotateWaits \/ RotateNothing \/ Sync \/ Rename \/ Create
         \/ RotateEnds
  PROVE  OrderInv'
<1>0. back \in {"ready", "pwrite"}
  BY DEF TypeInv, TypeOK
<1>1. CASE RotateWaits
  BY <1>1, OrderQuiet DEF RotateWaits, Finishing, aux, files, logs, mem
<1>2. CASE RotateNothing
  BY <1>0, <1>2, OrderTypes DEF RotateNothing, OrderInv, Finishing, aux, files, logs, mem, Now
<1>3. CASE Sync
  <2>1. current'.data = current.data
    BY <1>3, CurrentFacts, SafeFacts DEF Sync
  <2>2. fn' = written /\ pc = "rotate" /\ pc' = "rename" /\ old' = old /\ proc' = proc
        /\ written' = written
    BY <1>3 DEF Sync, Now, aux
  <2> QED
    BY <2>1, <2>2, OrderTypes DEF OrderInv, Finishing
<1>4. CASE Rename
  <2>1. fn = written
    BY <1>4 DEF Rename, CurrentInv
  <2> QED
    BY <1>4, <2>1, OrderClosed DEF Rename, SavedName, aux, mem
<1>5. CASE Create
  <2>1. DirOrder(old') /\ DOMAIN old' \subseteq DOMAIN old
    BY <1>5, OrderWithout DEF Create, RmOldest, OrderInv
  <2> QED
    BY <1>5, <2>1, OrderKept DEF Create, Finishing
<1>6. CASE RotateEnds
  <2>1. pc = "start" /\ current.data = <<>> /\ Range(current.data) = {}
    BY <1>6, RunNothing DEF RotateEnds, CurrentInv
  <2>2. DirOrder(old') /\ DOMAIN old' \subseteq DOMAIN old
    BY <1>6 DEF RotateEnds, OrderInv, files, logs
  <2> QED
    BY <1>0, <1>6, <2>1, <2>2, OrderStarted DEF RotateEnds, Finishing, aux, files, logs
<1>7. CASE SetAside
  BY <1>7, OrderClosed DEF SetAside, Now, aux
<1> QED
  BY <1>1, <1>2, <1>3, <1>4, <1>5, <1>6, <1>7

LEMMA OrderStopping ==
  ASSUME TypeInv, PidInv, CurrentInv, OrderInv,
         \/ Wait \/ Retry \/ RenameOutput \/ UnlinkInput \/ RenameState
         \/ \E p \in Pid : Child(p)
  PROVE  OrderInv'
<1>0. ret \in {"ready", "rotate", "exit"} /\ ppid \in Pid \cup {0}
  BY DEF TypeInv, TypeOK
\* The processor that is waited for was started for the log @fn.
<1>1. ASSUME NEW p \in Pid, p = ppid, pc \in {"ready", "wait"}, Reap(p), pc' = "stopped",
             old' = old, current' = current, fn' = fn, written' = written
      PROVE  OrderInv'
  <2>1. proc[p].stamp = fn
    BY <1>1, LogdirAssumption DEF PidInv
  <2>2. \A j \in Range(current.data) : fn < j
    BY <2>1 DEF OrderInv
  <2>3. \A q \in Pid : proc'[q] = proc[q] \/ proc'[q] = Reaped
    BY <1>1 DEF Reap, TypeInv, TypeOK
  <2>4. Reaped.stamp = 0 /\ Reaped.data = <<>>
    BY DEF Reaped
  <2>5. \A q \in Pid : /\ proc'[q].stamp <= written
                       /\ Follows(proc'[q].data, proc'[q].stamp, DOMAIN old)
                       /\ \A j \in Range(current.data) : proc'[q].stamp < j
    BY <2>3, <2>4, FollowsNothing, OrderTypes DEF OrderInv
  <2>6. current.data # <<>> => current.data[Len(current.data)] = written
    BY <1>1 DEF OrderInv
  <2> QED
    BY <1>1, <2>2, <2>5, <2>6 DEF OrderInv
<1>2. CASE Wait
  <2>1. ppid \in Pid
    BY <1>0, <1>2 DEF Wait, PidInv
  <2> QED
    BY <1>1, <1>2, <2>1 DEF Wait, aux, files, logs
<1>3. CASE Retry
  <2>1. DirOrder(old') /\ DOMAIN old' \subseteq DOMAIN old
    BY <1>3, OrderWithout DEF Retry, OrderInv
  <2>2. pc = "stopped" /\ \A j \in Range(current.data) : fn < j
    BY <1>3 DEF Retry, OrderInv, Finishing
  <2> QED
    BY <1>0, <1>3, <2>1, <2>2, OrderStarted DEF Retry, Finishing, aux
<1>4. CASE RenameOutput
  <2> DEFINE t == N(fn, "t")
             F == Without(old, {t})
             c == [old[t] EXCEPT !.x = TRUE]
  <2>1. t \in DOMAIN old /\ t.stamp = fn /\ old' = With(F, N(fn, "s"), c)
    BY <1>4, NameFacts DEF RenameOutput
  <2>2. c.data = old[t].data
    BY <2>1, OrderTypes DEF Sound, File
  <2>3. Follows(old[t].data, fn, DOMAIN old)
    BY <2>1 DEF OrderInv, DirOrder
  <2> HIDE DEF c, t
  <2>4. DirOrder(F) /\ DOMAIN F \subseteq DOMAIN old
    BY OrderWithout DEF OrderInv
  <2>5. \A f \in DOMAIN F : Follows(F[f].data, f.stamp, DOMAIN old)
    BY DEF OrderInv, DirOrder, Without
  <2>6. DOMAIN old' = DOMAIN F \cup {N(fn, "s")}
        /\ \A f \in DOMAIN old' : old'[f] = IF f = N(fn, "s") THEN c ELSE F[f]
    BY <2>1 DEF With
  <2>0. N(fn, "s").stamp = fn
    BY NameFacts
  <2>7. \A f \in DOMAIN old' : \E g \in DOMAIN old : g.stamp = f.stamp
    BY <2>0, <2>1, <2>4, <2>6
  <2>8. \A f \in DOMAIN old' : Follows(old'[f].data, f.stamp, DOMAIN old)
    BY <2>0, <2>2, <2>3, <2>5, <2>6
  <2>9. DirOrder(old')
    BY <2>7, <2>8, FollowsFewer DEF DirOrder
  <2>10. current' = current /\ written' = written /\ fn' = fn /\ proc' = proc
         /\ pc = "stopped" /\ pc' = "unlink"
    BY <1>4 DEF RenameOutput, mem, aux
  <2> QED
    BY <2>7, <2>9, <2>10, OrderKept DEF Finishing
<1>5. CASE UnlinkInput
  <2>1. DirOrder(old') /\ DOMAIN old' \subseteq DOMAIN old
    BY <1>5, OrderWithout DEF UnlinkInput, OrderInv
  <2> QED
    BY <1>5, <2>1, OrderKept DEF UnlinkInput, Finishing, mem, aux
<1>6. CASE RenameState
  <2>1. \A p \in Pid : proc'[p].stamp = proc[p].stamp /\ proc'[p].data = proc[p].data
    BY <1>6 DEF RenameState, TypeInv, TypeOK, Processor
  <2> QED
    BY <1>0, <1>6, <2>1, OrderQuiet DEF RenameState, Finishing, mem, aux, logs
<1>7. ASSUME NEW p \in Pid, Child(p) PROVE OrderInv'
  <2>1. CASE p = ppid
    BY <1>1, <1>7, <2>1 DEF Child, aux, files, logs
  <2>2. CASE p # ppid
    <3>1. \A q \in Pid : proc'[q] = proc[q] \/ proc'[q] = Reaped
      BY <1>7 DEF Child, Reap, TypeInv, TypeOK
    <3> QED
      BY <1>7, <2>2, <3>1, OrderQuiet DEF Child, aux, files, logs
  <2> QED
    BY <2>1, <2>2
<1> QED
  BY <1>2, <1>3, <1>4, <1>5, <1>6, <1>7

LEMMA OrderSignals ==
  ASSUME TypeInv, CurrentInv, OrderInv,
         Alarm \/ Hup \/ Term \/ ExitWaits \/ Exit \/ Fill \/ Free
  PROVE  OrderInv'
<1> USE DEF Finishing, aux, files, logs, mem
<1>1. CASE Alarm
  BY <1>1, OrderQuiet DEF Alarm
<1>2. CASE Hup
  <2>1. current'.data = current.data
    BY <1>2, CurrentFacts, SafeFacts DEF Hup
  <2> QED
    BY <1>2, <2>1, OrderQuiet DEF Hup
<1>3. CASE Term
  BY <1>3, OrderQuiet DEF Term
<1>4. CASE ExitWaits
  BY <1>4, OrderQuiet DEF ExitWaits
<1>5. CASE Exit
  <2>1. current'.data = current.data
    BY <1>5, CurrentFacts, SafeFacts DEF Exit
  <2>2. \A p \in Pid : \/ proc'[p] = Reaped
                       \/ proc'[p].stamp = proc[p].stamp /\ proc'[p].data = proc[p].data
    BY <1>5 DEF Exit, Orphan, TypeInv, TypeOK, Processor
  <2> QED
    BY <1>5, <2>1, <2>2, OrderQuiet DEF Exit
<1>6. CASE Fill \/ Free
  BY <1>6, OrderQuiet DEF Fill, Free
<1> QED
  BY <1>1, <1>2, <1>3, <1>4, <1>5, <1>6

\* What a processor that ends keeps.
LEMMA OverData ==
  ASSUME NEW q \in Processor, NEW how \in Ended
  PROVE  Over(q, how) = Reaped \/ (Over(q, how).stamp = q.stamp /\ Over(q, how).data = q.data)
  BY BusyFacts

LEMMA OrderProcessors ==
  ASSUME TypeInv, OrderInv, NEW p \in Pid,
         Begin(p) \/ EndWell(p) \/ \E how \in Ended : EndBadly(p, how)
  PROVE  OrderInv'
<1>0. proc \in [Pid -> Processor] /\ proc[p] \in Processor
  BY DEF TypeInv, TypeOK
<1>1. pc' = pc /\ current' = current /\ written' = written /\ fn' = fn
  BY DEF Begin, EndWell, EndBadly, mem, aux, files, logs
<1>2. ASSUME NEW how \in Ended, proc' = [proc EXCEPT ![p] = Over(proc[p], how)]
      PROVE  \A q \in Pid : \/ proc'[q] = Reaped
                            \/ proc'[q].stamp = proc[q].stamp /\ proc'[q].data = proc[q].data
  <2>1. proc'[p] = Over(proc[p], how) /\ \A q \in Pid \ {p} : proc'[q] = proc[q]
    BY <1>0, <1>2
  <2>2. \/ Over(proc[p], how) = Reaped
        \/ /\ Over(proc[p], how).stamp = proc[p].stamp
           /\ Over(proc[p], how).data = proc[p].data
    BY <1>0, OverData
  <2> QED
    BY <2>1, <2>2
<1>3. CASE Begin(p)
  <2> DEFINE u == N(proc[p].stamp, "u")
             t == N(proc[p].stamp, "t")
             c == [Empty EXCEPT !.whole = FALSE]
  <2>1. CASE u \in DOMAIN old
    <3> DEFINE q == [proc[p] EXCEPT !.st = "running", !.read = state, !.fd5 = "newstate",
                                    !.data = old[u].data]
    <3>1. old' = With(old, t, c) /\ proc' = [proc EXCEPT ![p] = q]
      BY <1>3, <2>1 DEF Begin
    <3>2. q.stamp = proc[p].stamp /\ q.data = old[u].data
      BY <1>0 DEF Processor
    <3>3. u.stamp = proc[p].stamp /\ t.stamp = proc[p].stamp
      BY NameFacts
    <3>4. c.data = <<>>
      BY EmptySound
    <3> HIDE DEF u, t, c, q
    <3>5. Follows(old[u].data, proc[p].stamp, DOMAIN old)
      BY <2>1, <3>3 DEF OrderInv, DirOrder
    <3>6. DirOrder(old')
      BY <2>1, <3>1, <3>3, <3>4, FollowsNothing, OrderWith DEF OrderInv
    <3>7. DOMAIN old' = DOMAIN old \cup {t}
      BY <3>1 DEF With
    <3>8. \A f \in DOMAIN old' : \E g \in DOMAIN old : g.stamp = f.stamp
      BY <2>1, <3>3, <3>7
    <3>9. proc'[p] = q /\ \A r \in Pid \ {p} : proc'[r] = proc[r]
      BY <1>0, <3>1
    <3> QED
      BY <1>1, <3>2, <3>5, <3>6, <3>8, <3>9, OrderKept
  <2>2. CASE u \notin DOMAIN old
    <3>1. old' = old /\ proc' = [proc EXCEPT ![p] = Over(proc[p], "fail")]
      BY <1>3, <2>2 DEF Begin
    <3> QED
      BY <1>1, <1>2, <3>1, OrderQuiet DEF Ended
  <2> QED
    BY <2>1, <2>2
<1>4. CASE EndWell(p)
  <2> DEFINE t == N(proc[p].stamp, "t")
             d == proc[p].data
             c == [Empty EXCEPT !.data = d]
  <2>1. /\ old' = IF t \in DOMAIN old THEN With(old, t, c) ELSE old
        /\ proc' = [proc EXCEPT ![p] = Over(@, "ok")]
    BY <1>4 DEF EndWell
  <2>2. t.stamp = proc[p].stamp /\ c.data = proc[p].data
    BY OutputSound, NameFacts DEF TypeInv, TypeOK, Processor
  <2>3. Follows(proc[p].data, proc[p].stamp, DOMAIN old)
    BY DEF OrderInv
  <2>4. old' = With(old, t, c) => DOMAIN old' = DOMAIN old \cup {t}
    BY DEF With
  <2> HIDE DEF t, c, d
  <2>5. DirOrder(old') /\ DOMAIN old' = DOMAIN old
    <3>1. CASE t \in DOMAIN old
      BY <2>1, <2>2, <2>3, <2>4, <3>1, OrderWith DEF OrderInv
    <3>2. CASE t \notin DOMAIN old
      <4>1. old' = old
        BY <2>1, <3>2
      <4> QED
        BY <4>1 DEF OrderInv
    <3> QED
      BY <3>1, <3>2
  <2> QED
    BY <1>1, <1>2, <2>1, <2>5, OrderKept DEF Ended
<1>5. ASSUME NEW how \in Ended, EndBadly(p, how) PROVE OrderInv'
  BY <1>1, <1>2, <1>5, OrderQuiet DEF EndBadly, files, logs
<1> QED
  BY <1>3, <1>4, <1>5

LEMMA OrderCrash ==
  ASSUME TypeInv, CurrentInv, OrderInv, Kill \/ Power
  PROVE  OrderInv'
<1>1. CASE Kill
  <2>1. \A p \in Pid : \/ proc'[p] = Reaped
                       \/ proc'[p].stamp = proc[p].stamp /\ proc'[p].data = proc[p].data
    BY <1>1 DEF Kill, Orphan, TypeInv, TypeOK, Processor
  <2> QED
    BY <1>1, <2>1, OrderQuiet DEF Kill, Finishing, mem, files, logs
<1>2. CASE Power
  <2>1. PICK n \in current.synced..Len(current.data) : current' = Torn(current, n)
    BY <1>2 DEF Power
  <2>2. pc' = "down" /\ written' = written /\ fn' = fn /\ \A p \in Pid : proc'[p] = Reaped
    BY <1>2 DEF Power, mem
  <2>3. Sound(current)
    BY DEF TypeInv
  <2>4. current'.data = SubSeq(current.data, 1, n) /\ current'.x = current.x
    BY <2>1, <2>3, TornFacts
  <2>5. n \in 0..Len(current.data) /\ current.data \in Seq(Nat)
    BY <2>3, FileFacts
  <2>6. Range(current'.data) \subseteq Range(current.data) /\ Run(current'.data)
    BY <2>4, <2>5, RunPrefix DEF OrderInv
  <2>7. DOMAIN old' = DOMAIN old /\ DirOrder(old')
    <3>1. /\ DOMAIN old' = DOMAIN old
          /\ \A f \in DOMAIN old :
               \E m \in old[f].synced..Len(old[f].data) : old'[f] = Torn(old[f], m)
      BY <1>2, PowerFacts
    <3> QED
      BY <3>1, OrderTorn DEF TypeInv, OrderInv
  <2>8. current'.data # <<>> =>
          \/ current'.data[Len(current'.data)] = written
          \/ pc' \in {"down", "open", "aside"} /\ ~current'.x
    <3>1. CASE ~current.x
      BY <2>2, <2>4, <3>1
    <3>2. CASE current.x
      <4>1. n = Len(current.data)
        BY <2>5, <3>2, CurrentFacts DEF CurrentInv
      <4>2. current'.data = current.data
        BY <2>4, <2>5, <4>1, SubSeqFull
      <4> QED
        BY <3>2, <4>2 DEF OrderInv
    <3> QED
      BY <3>1, <3>2
  <2>9. Reaped.stamp = 0 /\ Reaped.data = <<>>
    BY DEF Reaped
  <2>10. \A p \in Pid : proc'[p].stamp <= written'
                       /\ Follows(proc'[p].data, proc'[p].stamp, DOMAIN old')
    BY <2>2, <2>9, FollowsNothing, OrderTypes
  <2>11. \A j \in Range(current'.data) :
           /\ 0 < j /\ j <= written' /\ \A f \in DOMAIN old' : f.stamp < j
           /\ \A p \in Pid : proc'[p].stamp < j
    BY <2>2, <2>6, <2>7, <2>9 DEF OrderInv
  <2>12. \A f \in DOMAIN old' : f.stamp <= written'
    BY <2>2, <2>7 DEF OrderInv
  <2> QED
    BY <2>2, <2>6, <2>7, <2>8, <2>10, <2>11, <2>12 DEF OrderInv, Finishing
<1> QED
  BY <1>1, <1>2

LEMMA OrderStep == TypeInv /\ PidInv /\ CurrentInv /\ OrderInv /\ [Next]_vars => OrderInv'
<1>1. ASSUME OrderInv, UNCHANGED vars PROVE OrderInv'
  BY <1>1 DEF OrderInv, vars
<1> QED
  BY <1>1, OrderOpening, OrderWriting, OrderRotation, OrderStopping,
     OrderSignals, OrderProcessors, OrderCrash DEF Next, Step, Request, Environment

\* The time in the name of a log lies between its data and those of later
\* logs, so the names are in the order of what is in the logs.
LEMMA InOrder == TypeInv /\ OrderInv => LogInOrder
<1> SUFFICES ASSUME TypeInv, OrderInv PROVE LogInOrder
  OBVIOUS
<1>1. ASSUME NEW f \in Saved(old)
      PROVE  /\ Run(old[f].data)
             /\ \A k \in Range(old[f].data) :
                  /\ \A j \in Range(current.data) : k < j
                  /\ \A g \in Saved(old) : f.stamp < g.stamp =>
                       \A j \in Range(old[g].data) : k < j
  <2>1. f \in DOMAIN old /\ Follows(old[f].data, f.stamp, DOMAIN old)
    BY DEF Saved, OrderInv, DirOrder
  <2>2. ASSUME NEW k \in Range(old[f].data), NEW j \in Range(current.data) PROVE k < j
    <3>1. k \in Nat /\ f.stamp \in Nat /\ j \in Nat
      BY <2>1, OrderTypes, RangeFacts
    <3>2. k <= f.stamp /\ f.stamp < j
      BY <2>1 DEF Follows, OrderInv
    <3> QED
      BY <3>1, <3>2
  <2>3. ASSUME NEW k \in Range(old[f].data), NEW g \in Saved(old), f.stamp < g.stamp,
               NEW j \in Range(old[g].data)
        PROVE  k < j
    <3>1. g \in DOMAIN old /\ Follows(old[g].data, g.stamp, DOMAIN old)
      BY DEF Saved, OrderInv, DirOrder
    <3>2. k \in Nat /\ f.stamp \in Nat /\ j \in Nat
      BY <2>1, <3>1, OrderTypes, RangeFacts
    <3>3. k <= f.stamp /\ f.stamp < j
      BY <2>1, <2>3, <3>1 DEF Follows
    <3> QED
      BY <3>2, <3>3
  <2> QED
    BY <2>1, <2>2, <2>3 DEF Follows
<1> QED
  BY <1>1 DEF LogInOrder, OrderInv

\* Nothing is ever appended to a current that lost its end, and the order of
\* the old logs by name is the order in which their data were written.
THEOREM LogsAreInOrder == Spec => []LogInOrder
<1> QED
  BY InOrder, TypeInit, TypeStep, PidInit, PidStep, CurrentInit, CurrentStep,
     OrderInit, OrderStep, PTL DEF Spec

-----------------------------------------------------------------------------
(* The file state. *)

Increasing(s) == \A k \in 1..Len(s) - 1 : s[k] < s[k + 1]

\* Where @fn is the time of the log that svlogd closes or whose processor it
\* is done with; where that processor has ended well or by a signal.
Later == {"rename", "create", "start"} \cup Finishing

Done == pc \in {"unlink", "state"} \/ (pc = "stopped" /\ ~failed)

\* The times that state has seen are in order, before that of any log that is
\* or will be read; newstate is empty, or has one more: that of the processor
\* that has ended. This is so until a processor is left to itself.
StateInv ==
  ~stray =>
    /\ Increasing(state)
    /\ \A k \in Range(state) :
         /\ k <= written
         /\ \A j \in Range(current.data) : k < j
         /\ N(k, "u") \notin DOMAIN old
         /\ \A p \in Pid : Busy(p) => k < proc[p].stamp
         /\ pc \in Later => k < fn
    /\ \A p \in Pid :
         /\ proc[p].st = "running" =>
              proc[p].read = state /\ proc[p].fd5 = "newstate" /\ newstate = <<>>
         /\ proc[p].st \in {"ok", "killed"} =>
              newstate \in {<<>>, Append(state, proc[p].stamp)}
    /\ Done => newstate \in {<<>>, Append(state, fn)}
    /\ pc = "state" => N(fn, "u") \notin DOMAIN old

\* A sequence with one more, later time.
LEMMA Appended ==
  ASSUME NEW s \in Seq(Nat), NEW k \in Nat, Increasing(s), \A i \in Range(s) : i < k
  PROVE  /\ Increasing(Append(s, k)) /\ Append(s, k) \in Seq(Nat)
         /\ \A i \in Range(Append(s, k)) : i \in Range(s) \/ i = k
<1>1. /\ Append(s, k) \in Seq(Nat) /\ Len(Append(s, k)) = Len(s) + 1
      /\ \A i \in 1..Len(s) : Append(s, k)[i] = s[i]
      /\ Append(s, k)[Len(s) + 1] = k
  BY AppendProperties
<1>2. Len(s) \in Nat /\ Range(s) = {s[i] : i \in 1..Len(s)}
  BY RangeFacts
<1>3. Range(Append(s, k)) = {Append(s, k)[i] : i \in 1..Len(s) + 1}
  BY <1>1, RangeFacts
<1>4. ASSUME NEW i \in 1..Len(s) PROVE Append(s, k)[i] < Append(s, k)[i + 1]
  <2>1. CASE i < Len(s)
    <3>1. Append(s, k)[i] = s[i] /\ Append(s, k)[i + 1] = s[i + 1]
      BY <1>1, <1>2, <2>1
    <3> QED
      BY <1>2, <2>1, <3>1 DEF Increasing
  <2>2. CASE i = Len(s)
    <3>1. Append(s, k)[i] = s[i] /\ Append(s, k)[i + 1] = k
      BY <1>1, <1>2, <2>2
    <3>2. s[i] \in Range(s)
      BY <1>2
    <3> QED
      BY <3>1, <3>2
  <2> QED
    BY <1>2, <2>1, <2>2
<1>5. ASSUME NEW i \in 1..Len(s) + 1
      PROVE  Append(s, k)[i] \in Range(s) \/ Append(s, k)[i] = k
  <2>1. CASE i \in 1..Len(s)
    BY <1>1, <1>2, <2>1
  <2>2. CASE i = Len(s) + 1
    BY <1>1, <2>2
  <2> QED
    BY <1>2, <2>1, <2>2
<1>6. Increasing(Append(s, k))
  BY <1>1, <1>2, <1>4 DEF Increasing
<1> QED
  BY <1>1, <1>3, <1>5, <1>6

LEMMA StateInit == Init => StateInv
<1>1. Range(<<>>) = {} /\ Increasing(<<>>)
  BY RunNothing, NoData DEF Increasing
<1> QED
  BY <1>1, BusyFacts DEF Init, StateInv, Done, Later, Finishing

\* A step that leaves state and newstate alone.
LEMMA StateKept ==
  ASSUME StateInv, ~stray' => ~stray,
         state' = state, newstate' = newstate,
         written' = written, Range(current'.data) \subseteq Range(current.data),
         \A k \in Range(state) : ~stray' /\ N(k, "u") \in DOMAIN old' => N(k, "u") \in DOMAIN old,
         \A p \in Pid : ~stray' /\ Busy(p)' =>
           \/ proc'[p] = proc[p]
           \/ /\ proc'[p].st = proc[p].st /\ proc'[p].stamp = proc[p].stamp
              /\ proc'[p].read = proc[p].read /\ proc'[p].fd5 = proc[p].fd5,
         pc' \in Later => pc \in Later /\ fn' = fn,
         Done' => Done,
         ~stray' /\ pc' = "state" => N(fn', "u") \notin DOMAIN old'
  PROVE  StateInv'
<1> SUFFICES ASSUME ~stray' PROVE StateInv'
  BY DEF StateInv
<1>1. ~stray
  OBVIOUS
<1>2. ASSUME NEW k \in Range(state)
      PROVE  /\ k <= written'
             /\ \A j \in Range(current'.data) : k < j
             /\ N(k, "u") \notin DOMAIN old'
             /\ \A p \in Pid : Busy(p)' => k < proc'[p].stamp
             /\ pc' \in Later => k < fn'
  BY <1>1 DEF StateInv, Busy
<1>3. ASSUME NEW p \in Pid
      PROVE  /\ proc'[p].st = "running" =>
                  proc'[p].read = state /\ proc'[p].fd5 = "newstate" /\ newstate = <<>>
             /\ proc'[p].st \in {"ok", "killed"} =>
                  newstate \in {<<>>, Append(state, proc'[p].stamp)}
  BY <1>1 DEF StateInv, Busy
<1>4. Done' => newstate \in {<<>>, Append(state, fn')}
  <2>1. Done' => fn' = fn
    BY DEF Done, Later, Finishing
  <2> QED
    BY <1>1, <2>1 DEF StateInv
<1> QED
  BY <1>1, <1>2, <1>3, <1>4 DEF StateInv

\* A step that adds to current.
LEMMA StateStays ==
  ASSUME StateInv, stray' = stray, state' = state, newstate' = newstate, old' = old,
         proc' = proc, pc' \notin Later, ~Done', pc' # "state",
         \A k \in Range(state) : k <= written => k <= written',
         \A k \in Range(state), j \in Range(current'.data) :
           j \in Range(current.data) \/ (k <= written => k < j)
  PROVE  StateInv'
<1>1. \A k \in Range(state), j \in Range(current'.data) : ~stray => k < j
  BY DEF StateInv
<1> QED
  BY <1>1 DEF StateInv, Busy

\* A step that only moves svlogd, to where it has no log in hand.
LEMMA StateMoves ==
  ASSUME StateInv, stray' = stray, state' = state, newstate' = newstate, written' = written,
         current' = current, old' = old, proc' = proc, pc' \notin Later
  PROVE  StateInv'
<1>1. ~Done' /\ pc' # "state"
  BY DEF Done, Later, Finishing
<1> QED
  BY <1>1, StateKept

\* The times in state are before what is in current.
LEMMA StateTypes ==
  ASSUME TypeInv
  PROVE  /\ state \in Seq(Nat) /\ newstate \in Seq(Nat) /\ Range(state) \subseteq Nat
         /\ written \in Nat /\ fn \in Nat /\ proc \in [Pid -> Processor]
<1>1. state \in Seq(Nat) /\ newstate \in Seq(Nat) /\ proc \in [Pid -> Processor]
  BY DEF TypeInv, TypeOK
<1> QED
  BY <1>1, RangeFacts, OrderTypes

LEMMA SomeUnit ==
  ASSUME TypeInv, current.data # <<>>
  PROVE  \E j \in Range(current.data) : TRUE
<1>1. 1 \in 1..Len(current.data)
  BY CurrentFacts
<1>2. Range(current.data) = {current.data[k] : k \in 1..Len(current.data)}
  BY CurrentFacts, RangeFacts
<1> QED
  BY <1>1, <1>2

LEMMA StateOpening ==
  ASSUME TypeInv, CurrentInv, OrderInv, StateInv,
         Start \/ OpenFails \/ Open \/ SetAside \/ PruneAside \/ AppendCurrent
  PROVE  StateInv'
<1> USE DEF Later, Finishing, Done
<1>1. CASE Start
  BY <1>1, StateMoves DEF Start, files, logs
<1>2. CASE OpenFails
  <2>1. \A p \in Pid : Busy(p)' =>
          /\ proc'[p].st = proc[p].st /\ proc'[p].stamp = proc[p].stamp
          /\ proc'[p].read = proc[p].read /\ proc'[p].fd5 = proc[p].fd5
    BY <1>2, BusyFacts, StateTypes DEF OpenFails, Orphan, Busy, Processor
  <2> QED
    BY <1>2, <2>1, StateKept DEF OpenFails, files, logs, aux
<1>3. CASE Open
  <2>1. /\ pc' \in {"aside", "append"} /\ (~stray' => ~stray)
        /\ state' = state /\ newstate' = newstate /\ written' = written
        /\ current' = current /\ old' = old /\ proc' = proc
    BY <1>3 DEF Open, files, logs
  <2> QED
    BY <2>1, StateKept
<1>4. CASE SetAside
  <2>1. /\ pc = "aside" /\ pc' = "prune" /\ stray' = stray /\ current' = Empty
        /\ state' = state /\ newstate' = newstate /\ written' = written /\ proc' = proc
        /\ old' = With(old, N(written, "u"), current)
    BY <1>4 DEF SetAside, Now, aux
  <2>2. Range(current'.data) = {}
    BY <2>1, EmptyFacts, RunNothing
  <2>3. PICK j : j \in Range(current.data)
    BY <2>1, SomeUnit DEF CurrentInv, Unsafe
  <2>4. j \in Nat /\ j <= written
    BY <2>3, OrderTypes DEF OrderInv
  <2>5. ASSUME ~stray, NEW k \in Range(state), N(k, "u") \in DOMAIN old'
        PROVE  N(k, "u") \in DOMAIN old
    <3>1. k < written /\ k # written
      BY <2>3, <2>4, <2>5, StateTypes DEF StateInv
    <3>2. N(k, "u") # N(written, "u")
      BY <3>1, NameFacts
    <3>3. DOMAIN old' = DOMAIN old \cup {N(written, "u")}
      BY <2>1 DEF With
    <3> QED
      BY <2>5, <3>2, <3>3
  <2> QED
    BY <2>1, <2>2, <2>5, StateKept
<1>5. CASE PruneAside
  <2>1. DOMAIN old' \subseteq DOMAIN old
    BY <1>5 DEF PruneAside, RmOldest, Without
  <2> QED
    BY <1>5, <2>1, StateKept DEF PruneAside
<1>6. CASE AppendCurrent
  <2>1. current'.data = current.data
    BY <1>6, CurrentFacts DEF AppendCurrent, File
  <2> QED
    BY <1>6, <2>1, StateKept DEF AppendCurrent, aux
<1> QED
  BY <1>1, <1>2, <1>3, <1>4, <1>5, <1>6

LEMMA StateWriting ==
  ASSUME TypeInv, CurrentInv, OrderInv, StateInv,
         (\E n \in 1..2 : Flush(n)) \/ RotateFirst \/ Write \/ NoSpace
  PROVE  StateInv'
<1> USE DEF Later, Finishing, Done
<1>1. CASE \E n \in 1..2 : Flush(n)
  BY <1>1, StateMoves DEF Flush, files, logs, aux
<1>2. CASE RotateFirst
  BY <1>2, StateMoves DEF RotateFirst, files, logs, aux
<1>3. CASE Write
  <2>1. PICK i \in 1..2 :
          LET e == [k \in 1..i |-> written + k]
          IN  /\ e \in Seq(Nat) /\ Len(e) = i
              /\ current'.data = current.data \o e
              /\ written' = written + i
    BY <1>3, WriteFacts
  <2> DEFINE e == [k \in 1..i |-> written + k]
  <2>2. \A k \in 1..i : e[k] = written + k
    OBVIOUS
  <2>3. e \in Seq(Nat) /\ Len(e) = i /\ current'.data = current.data \o e
    BY <2>1
  <2>4. pc = "pwrite" /\ pc' \in {"rotate", "ready", "pwrite"} /\ old' = old /\ proc' = proc
        /\ state' = state /\ newstate' = newstate /\ stray' = stray
    BY <1>3 DEF Write
  <2>5. current.data # <<>> => current.data[Len(current.data)] = written
    BY <2>4 DEF OrderInv
  <2> HIDE DEF e
  <2>6. Run(current.data) /\ current.data \in Seq(Nat) /\ written \in Nat
    BY CurrentFacts DEF OrderInv
  <2>7. \A j \in Range(current.data \o e) :
          j \in Range(current.data) \/ (written < j /\ j <= written + i)
    BY <2>2, <2>3, <2>5, <2>6, RunExtended
  <2>8. Range(current'.data) \subseteq Nat
    BY <2>3, <2>6, ConcatProperties, RangeFacts
  <2>9. \A k \in Range(state), j \in Range(current'.data) :
          j \in Range(current.data) \/ (k <= written => k < j)
    BY <2>3, <2>6, <2>7, <2>8, StateTypes
  <2>10. \A k \in Range(state) : k <= written => k <= written'
    BY <2>1, <2>6, StateTypes
  <2>11. pc' \notin Later /\ ~Done' /\ pc' # "state"
    BY <2>4
  <2> QED
    BY <2>4, <2>9, <2>10, <2>11, StateStays
<1>4. CASE NoSpace
  <2>1. DOMAIN old' \subseteq DOMAIN old
    BY <1>4 DEF NoSpace, Without
  <2> QED
    BY <1>4, <2>1, StateKept DEF NoSpace, mem, aux
<1> QED
  BY <1>1, <1>2, <1>3, <1>4

\* A processor is started for a log that state has not seen.
LEMMA StateStarted ==
  ASSUME TypeInv, PidInv, StateInv, ProcessorStart, ppid = 0, pc \in {"start", "stopped"},
         stray' = stray, state' = state, newstate' = newstate, written' = written,
         current' = current, DOMAIN old' \subseteq DOMAIN old, fn' = fn, pc' \notin Later
  PROVE  StateInv'
<1> SUFFICES ASSUME ~stray PROVE StateInv'
  BY DEF StateInv
<1>1. \A p \in Pid : ~Busy(p)
  BY LogdirAssumption DEF PidInv
<1>2. \A p \in Pid : Busy(p)' => proc'[p].st = "forked" /\ proc'[p].stamp = fn
  <2>1. CASE config.processor
    <3> DEFINE q == [Reaped EXCEPT !.st = "forked", !.stamp = fn, !.mine = TRUE]
    <3>1. PICK p \in Pid : proc' = [proc EXCEPT ![p] = q]
      BY <2>1 DEF ProcessorStart
    <3>2. q.st = "forked" /\ q.stamp = fn
      BY ForkedFacts, OrderTypes
    <3> HIDE DEF q
    <3>3. proc'[p] = q /\ \A r \in Pid \ {p} : proc'[r] = proc[r]
      BY <3>1, StateTypes
    <3> QED
      BY <1>1, <3>2, <3>3 DEF Busy
  <2>2. CASE ~config.processor
    BY <1>1, <2>2 DEF ProcessorStart, Busy
  <2> QED
    BY <2>1, <2>2
<1>3. ~Done' /\ pc' # "state" /\ pc \in Later
  BY DEF Done, Later, Finishing
<1>4. \A k \in Range(state) : k < fn
  BY <1>3 DEF StateInv
<1>5. ASSUME NEW p \in Pid
      PROVE  /\ proc'[p].st = "running" =>
                  proc'[p].read = state /\ proc'[p].fd5 = "newstate" /\ newstate = <<>>
             /\ proc'[p].st \in {"ok", "killed"} =>
                  newstate \in {<<>>, Append(state, proc'[p].stamp)}
  BY <1>2 DEF Busy
<1> QED
  BY <1>2, <1>3, <1>4, <1>5 DEF StateInv

LEMMA StateRotation ==
  ASSUME TypeInv, PidInv, CurrentInv, OrderInv, StateInv,
         RotateWaits \/ RotateNothing \/ Sync \/ Rename \/ Create \/ RotateEnds
  PROVE  StateInv'
<1>0. back \in {"ready", "pwrite"}
  BY DEF TypeInv, TypeOK
<1>1. CASE RotateWaits
  BY <1>1, StateMoves DEF RotateWaits, Later, Finishing, files, logs, aux
<1>2. CASE RotateNothing
  BY <1>0, <1>2, StateMoves DEF RotateNothing, Later, Finishing, files, logs, aux
<1>3. CASE Sync
  <2>1. current'.data = current.data
    BY <1>3, CurrentFacts, SafeFacts DEF Sync
  <2>2. fn' = written /\ pc = "rotate" /\ pc' = "rename" /\ old' = old /\ proc' = proc
        /\ written' = written /\ state' = state /\ newstate' = newstate /\ stray' = stray
        /\ size > 0
    BY <1>3 DEF Sync, Now, aux
  <2>3. current.data # <<>>
    BY <2>2, NoData DEF CurrentInv
  <2>4. PICK j : j \in Range(current.data)
    BY <2>3, SomeUnit
  <2>5. j \in Nat /\ j <= written
    BY <2>4, OrderTypes DEF OrderInv
  <2>6. \A k \in Range(state) : ~stray => k < written
    BY <2>4, <2>5, StateTypes DEF StateInv
  <2>7. ~Done'
    BY <2>2 DEF Done
  <2> QED
    BY <2>1, <2>2, <2>6, <2>7 DEF StateInv, Busy
<1>4. CASE Rename
  <2>1. /\ pc = "rename" /\ pc' = "create" /\ stray' = stray /\ current' = Empty
        /\ state' = state /\ newstate' = newstate /\ written' = written /\ proc' = proc
        /\ fn' = fn /\ old' = With(old, SavedName, current)
    BY <1>4 DEF Rename, mem, aux
  <2>2. Range(current'.data) = {}
    BY <2>1, EmptyFacts, RunNothing
  <2>3. ASSUME ~stray, NEW k \in Range(state), N(k, "u") \in DOMAIN old'
        PROVE  N(k, "u") \in DOMAIN old
    <3>1. k < fn /\ k # fn
      BY <2>1, <2>3, StateTypes DEF StateInv, Later
    <3>2. N(k, "u") # SavedName
      BY <3>1, NameFacts DEF SavedName
    <3>3. DOMAIN old' = DOMAIN old \cup {SavedName}
      BY <2>1 DEF With
    <3> QED
      BY <2>3, <3>2, <3>3
  <2>4. ~Done' /\ pc \in Later
    BY <2>1 DEF Done, Later
  <2> QED
    BY <2>1, <2>2, <2>3, <2>4, StateKept
<1>5. CASE Create
  <2>1. DOMAIN old' \subseteq DOMAIN old
    BY <1>5 DEF Create, RmOldest, Without
  <2> QED
    BY <1>5, <2>1, StateKept DEF Create, Done, Later, Finishing
<1>6. CASE RotateEnds
  <2>1. ppid = 0 /\ pc = "start" /\ pc' \in {"ready", "pwrite"}
    BY <1>0, <1>6 DEF RotateEnds, PidInv, Alone
  <2> QED
    BY <1>6, <2>1, StateStarted DEF RotateEnds, Later, Finishing, files, logs, aux
<1> QED
  BY <1>1, <1>2, <1>3, <1>4, <1>5, <1>6

\* svlogd reaps its processor: newstate is what that left.
LEMMA StateReaped ==
  ASSUME TypeInv, PidInv, StateInv, NEW p \in Pid, p = ppid, pc \in {"ready", "wait"}, Reap(p),
         pc' = "stopped", old' = old, current' = current, fn' = fn, written' = written,
         stray' = stray, state' = state, newstate' = newstate
  PROVE  StateInv'
<1> SUFFICES ASSUME ~stray PROVE StateInv'
  BY DEF StateInv
<1>1. proc[p].stamp = fn /\ Busy(p)
  BY LogdirAssumption DEF PidInv
<1>2. /\ proc[p].st \in Ended /\ failed' = (proc[p].st = "fail")
      /\ proc'[p] = Reaped /\ \A r \in Pid \ {p} : proc'[r] = proc[r]
  BY StateTypes DEF Reap, Failed
<1>3. \A r \in Pid : Busy(r)' => Busy(r) /\ proc'[r] = proc[r]
  BY <1>2, BusyFacts DEF Busy
<1>4. Done' => proc[p].st \in {"ok", "killed"}
  BY <1>2 DEF Done, Ended
<1>5. Done' => newstate' \in {<<>>, Append(state', fn')}
  BY <1>1, <1>4 DEF StateInv
<1>6. \A k \in Range(state) : k < fn
  BY <1>1 DEF StateInv
<1>7. ASSUME NEW r \in Pid
      PROVE  /\ proc'[r].st = "running" =>
                  proc'[r].read = state /\ proc'[r].fd5 = "newstate" /\ newstate = <<>>
             /\ proc'[r].st \in {"ok", "killed"} =>
                  newstate \in {<<>>, Append(state, proc'[r].stamp)}
  BY <1>3 DEF StateInv, Busy
<1>8. \A k \in Range(state), r \in Pid : Busy(r)' => k < proc'[r].stamp
  BY <1>3 DEF StateInv
<1> QED
  BY <1>5, <1>6, <1>7, <1>8 DEF StateInv

LEMMA StateStopping ==
  ASSUME TypeInv, PidInv, CurrentInv, OrderInv, StateInv,
         \/ Wait \/ Retry \/ RenameOutput \/ UnlinkInput \/ RenameState
         \/ \E p \in Pid : Child(p)
  PROVE  StateInv'
<1>0. ret \in {"ready", "rotate", "exit"} /\ ppid \in Pid \cup {0}
  BY DEF TypeInv, TypeOK
<1>1. CASE Wait
  <2>1. ppid \in Pid
    BY <1>0, <1>1 DEF Wait, PidInv
  <2> QED
    BY <1>1, <2>1, StateReaped DEF Wait, aux, files, logs
<1>2. CASE Retry
  <2>1. ppid = 0 /\ pc = "stopped" /\ pc' \in {"ready", "rotate", "exit"}
    BY <1>0, <1>2 DEF Retry, PidInv, Alone
  <2>2. DOMAIN old' \subseteq DOMAIN old
    BY <1>2 DEF Retry, Without
  <2> QED
    BY <1>2, <2>1, <2>2, StateStarted DEF Retry, Later, Finishing, aux
<1>3. CASE RenameOutput
  <2>1. /\ current' = current /\ written' = written /\ fn' = fn /\ proc' = proc
        /\ pc = "stopped" /\ pc' = "unlink" /\ ~failed /\ state' = state
        /\ newstate' = newstate /\ stray' = stray
    BY <1>3 DEF RenameOutput, mem, aux
  <2>2. \A f \in DOMAIN old' : f \in DOMAIN old \/ f = N(fn, "s")
    BY <1>3 DEF RenameOutput, With, Without
  <2>3. \A k : N(k, "u") # N(fn, "s")
    BY NameFacts
  <2>4. pc \in Later /\ Done
    BY <2>1 DEF Later, Finishing, Done
  <2> QED
    BY <2>1, <2>2, <2>3, <2>4, StateKept
<1>4. CASE UnlinkInput
  <2>1. /\ current' = current /\ written' = written /\ fn' = fn /\ proc' = proc
        /\ pc = "unlink" /\ pc' = "state" /\ state' = state
        /\ newstate' = newstate /\ stray' = stray /\ old' = Without(old, {N(fn, "u")})
    BY <1>4 DEF UnlinkInput, mem, aux
  <2>2. DOMAIN old' \subseteq DOMAIN old /\ N(fn, "u") \notin DOMAIN old'
    BY <2>1 DEF Without
  <2>3. pc \in Later /\ Done
    BY <2>1 DEF Later, Finishing, Done
  <2> QED
    BY <2>1, <2>2, <2>3, StateKept
<1>5. CASE RenameState
  <2> SUFFICES ASSUME ~stray PROVE StateInv'
    BY <1>5 DEF StateInv, RenameState, aux
  <2>1. /\ pc = "state" /\ pc' \in {"ready", "rotate", "exit"} /\ stray' = stray
        /\ state' = newstate /\ current' = current /\ old' = old /\ written' = written
    BY <1>0, <1>5 DEF RenameState, aux, logs
  <2>2. newstate \in {<<>>, Append(state, fn)} /\ N(fn, "u") \notin DOMAIN old
    BY <2>1 DEF StateInv, Done
  <2>3. \A k \in Range(state) : k < fn
    BY <2>1 DEF StateInv, Later, Finishing
  <2>4. Increasing(state) /\ state \in Seq(Nat) /\ fn \in Nat
    BY StateTypes DEF StateInv
  <2>5. Increasing(state') /\ \A k \in Range(state') : k \in Range(state) \/ k = fn
    <3>1. CASE newstate = <<>>
      BY <2>1, <3>1, RunNothing, NoData DEF Increasing
    <3>2. CASE newstate = Append(state, fn)
      BY <2>1, <2>3, <2>4, <3>2, Appended
    <3> QED
      BY <2>2, <3>1, <3>2
  <2>6. \A p \in Pid : proc'[p].st = "free"
    <3>1. \A p \in Pid : proc'[p].st = proc[p].st
      BY <1>5, StateTypes DEF RenameState, Processor
    <3>2. \A p \in Pid : ~Busy(p)
      BY <2>1, LogdirAssumption DEF PidInv, Alone
    <3> QED
      BY <3>1, <3>2 DEF Busy
  <2>7. fn <= written /\ \A j \in Range(current.data) : fn < j
    BY <2>1 DEF OrderInv, Finishing
  <2>8. \A k \in Range(state') :
          /\ k <= written /\ (\A j \in Range(current.data) : k < j)
          /\ N(k, "u") \notin DOMAIN old
    BY <2>2, <2>5, <2>7 DEF StateInv
  <2>9. pc' \notin Later /\ ~Done' /\ pc' # "state"
    BY <2>1 DEF Later, Finishing, Done
  <2> QED
    BY <2>1, <2>5, <2>6, <2>8, <2>9 DEF StateInv, Busy
<1>6. ASSUME NEW p \in Pid, Child(p) PROVE StateInv'
  <2>1. CASE p = ppid
    BY <1>6, <2>1, StateReaped DEF Child, aux, files, logs
  <2>2. CASE p # ppid
    <3>1. pc = "ready" /\ pc' = pc /\ stray' = stray /\ state' = state
          /\ newstate' = newstate /\ written' = written /\ current' = current /\ old' = old
      BY <1>6, <2>2 DEF Child, aux, files, logs
    <3>2. proc'[p] = Reaped /\ \A r \in Pid \ {p} : proc'[r] = proc[r]
      BY <1>6, StateTypes DEF Child, Reap
    <3>3. \A r \in Pid : Busy(r)' => proc'[r] = proc[r]
      BY <3>2, BusyFacts DEF Busy
    <3>4. pc' \notin Later /\ ~Done' /\ pc' # "state"
      BY <3>1 DEF Later, Finishing, Done
    <3> QED
      BY <3>1, <3>3, <3>4, StateKept
  <2> QED
    BY <2>1, <2>2
<1> QED
  BY <1>1, <1>2, <1>3, <1>4, <1>5, <1>6

\* StateInv reads ten variables.
LEMMA StateUnchanged ==
  ASSUME StateInv, pc' = pc, stray' = stray, state' = state, newstate' = newstate,
         written' = written, current' = current, old' = old, proc' = proc,
         fn' = fn, failed' = failed
  PROVE  StateInv'
BY DEF StateInv, Increasing, Busy, Done

LEMMA StateSignals ==
  ASSUME TypeInv, StateInv, Alarm \/ Hup \/ Term \/ ExitWaits \/ Exit \/ Fill \/ Free
  PROVE  StateInv'
<1> USE DEF Later, Finishing, Done, aux, files, logs, mem
<1>1. CASE Alarm
  BY <1>1, StateMoves DEF Alarm
<1>2. CASE Hup
  <2>1. current'.data = current.data
    BY <1>2, CurrentFacts, SafeFacts DEF Hup
  <2> QED
    BY <1>2, <2>1, StateKept DEF Hup
<1>3. CASE Term
  BY <1>3, StateMoves DEF Term
<1>4. CASE ExitWaits
  BY <1>4, StateMoves DEF ExitWaits
<1>5. CASE Exit
  <2>1. current'.data = current.data
    BY <1>5, CurrentFacts, SafeFacts DEF Exit
  <2>2. \A p \in Pid : Busy(p)' =>
          /\ proc'[p].st = proc[p].st /\ proc'[p].stamp = proc[p].stamp
          /\ proc'[p].read = proc[p].read /\ proc'[p].fd5 = proc[p].fd5
    BY <1>5, BusyFacts, StateTypes DEF Exit, Orphan, Busy, Processor
  <2> QED
    BY <1>5, <2>1, <2>2, StateKept DEF Exit
<1>6. CASE Fill \/ Free
  <2>1. /\ pc' = pc /\ stray' = stray /\ state' = state /\ newstate' = newstate
        /\ written' = written /\ current' = current /\ old' = old /\ proc' = proc
        /\ fn' = fn /\ failed' = failed
    BY <1>6 DEF Fill, Free
  <2> QED
    BY <2>1, StateUnchanged
<1> QED
  BY <1>1, <1>2, <1>3, <1>4, <1>5, <1>6

\* The only processor there is begins, or ends.
LEMMA StateAlone ==
  ASSUME TypeInv, PidInv, StateInv, NEW p \in Pid, Busy(p), NEW q,
         proc' = [proc EXCEPT ![p] = q], q.st # "free" => q.stamp = proc[p].stamp,
         q.st = "running" => q.read = state /\ q.fd5 = "newstate" /\ newstate' = <<>>,
         q.st \in {"ok", "killed"} => newstate' \in {<<>>, Append(state, q.stamp)},
         \A k : N(k, "u") \in DOMAIN old' => N(k, "u") \in DOMAIN old,
         current' = current, written' = written, stray' = stray, ~stray => state' = state,
         pc' = pc, fn' = fn
  PROVE  StateInv'
<1> SUFFICES ASSUME ~stray PROVE StateInv'
  BY DEF StateInv
<1>1. proc'[p] = q /\ \A r \in Pid \ {p} : proc'[r] = proc[r]
  BY StateTypes
<1>2. \A r \in Pid \ {p} : ~Busy(r)
  BY DEF PidInv
<1>3. pc \notin Finishing
  BY LogdirAssumption DEF PidInv, Alone, Finishing
<1>4. ~Done' /\ pc # "state"
  BY <1>3 DEF Done, Finishing
<1>5. \A k \in Range(state), r \in Pid : Busy(r)' => k < proc'[r].stamp
  BY <1>1, <1>2 DEF StateInv, Busy
<1>6. ASSUME NEW r \in Pid
      PROVE  /\ proc'[r].st = "running" =>
                  proc'[r].read = state /\ proc'[r].fd5 = "newstate" /\ newstate' = <<>>
             /\ proc'[r].st \in {"ok", "killed"} =>
                  newstate' \in {<<>>, Append(state, proc'[r].stamp)}
  BY <1>1, <1>2 DEF Busy
<1> QED
  BY <1>4, <1>5, <1>6 DEF StateInv

LEMMA StateProcessors ==
  ASSUME TypeInv, PidInv, StateInv, NEW p \in Pid,
         Begin(p) \/ EndWell(p) \/ \E how \in Ended : EndBadly(p, how)
  PROVE  StateInv'
<1>0. proc \in [Pid -> Processor] /\ proc[p] \in Processor
  BY StateTypes
<1>1. pc' = pc /\ current' = current /\ written' = written /\ fn' = fn /\ stray' = stray
  BY DEF Begin, EndWell, EndBadly, mem, aux, files, logs
<1>2. \A k, e : N(k, "u") # N(e, "t")
  BY NameFacts
<1>3. \A how \in Ended : \/ Over(proc[p], how).st = "free"
                        \/ /\ Over(proc[p], how).st = how
                           /\ Over(proc[p], how).stamp = proc[p].stamp
  BY <1>0, BusyFacts
<1>4. CASE Begin(p)
  <2>1. Busy(p) /\ state' = state
    BY <1>4 DEF Begin, Busy
  <2>2. CASE N(proc[p].stamp, "u") \in DOMAIN old
    <3> DEFINE q == [proc[p] EXCEPT !.st = "running", !.read = state, !.fd5 = "newstate",
                                    !.data = old[N(proc[p].stamp, "u")].data]
               c == [Empty EXCEPT !.whole = FALSE]
    <3>1. old' = With(old, N(proc[p].stamp, "t"), c) /\ proc' = [proc EXCEPT ![p] = q]
          /\ newstate' = <<>>
      BY <1>4, <2>2 DEF Begin
    <3>2. q.stamp = proc[p].stamp /\ q.st = "running" /\ q.read = state /\ q.fd5 = "newstate"
      BY <1>0 DEF Processor
    <3> HIDE DEF q, c
    <3>3. DOMAIN old' = DOMAIN old \cup {N(proc[p].stamp, "t")}
      BY <3>1 DEF With
    <3>4. \A k : N(k, "u") \in DOMAIN old' => N(k, "u") \in DOMAIN old
      BY <1>2, <3>3
    <3> QED
      BY <1>1, <2>1, <3>1, <3>2, <3>4, StateAlone
  <2>3. CASE N(proc[p].stamp, "u") \notin DOMAIN old
    <3>1. old' = old /\ newstate' = newstate
          /\ proc' = [proc EXCEPT ![p] = Over(proc[p], "fail")]
      BY <1>4, <2>3 DEF Begin
    <3>2. \/ Over(proc[p], "fail").st = "free"
          \/ /\ Over(proc[p], "fail").st = "fail"
             /\ Over(proc[p], "fail").stamp = proc[p].stamp
      BY <1>3 DEF Ended
    <3> QED
      BY <1>1, <2>1, <3>1, <3>2, StateAlone
  <2> QED
    BY <2>2, <2>3
<1>5. CASE EndWell(p)
  <2> DEFINE t == N(proc[p].stamp, "t")
             d == proc[p].data
             c == [Empty EXCEPT !.data = d]
  <2>1. /\ old' = IF t \in DOMAIN old THEN With(old, t, c) ELSE old
        /\ proc' = [proc EXCEPT ![p] = Over(@, "ok")]
    BY <1>5 DEF EndWell
  <2> HIDE DEF t, c, d
  <2>2. /\ newstate' = IF proc[p].fd5 = "newstate" THEN Append(proc[p].read, proc[p].stamp)
                                                  ELSE newstate
        /\ state' = IF proc[p].fd5 = "state" THEN Append(proc[p].read, proc[p].stamp) ELSE state
        /\ proc[p].st = "running"
    BY <1>5 DEF EndWell
  <2>3. DOMAIN old' = DOMAIN old
    BY <2>1 DEF With
  <2>4. \/ Over(proc[p], "ok").st = "free"
        \/ /\ Over(proc[p], "ok").st = "ok"
           /\ Over(proc[p], "ok").stamp = proc[p].stamp
    BY <1>3 DEF Ended
  <2>5. CASE ~stray
    <3>1. proc[p].read = state /\ proc[p].fd5 = "newstate"
      BY <2>2, <2>5 DEF StateInv
    <3>2. state' = state /\ newstate' = Append(state, proc[p].stamp)
      BY <2>2, <3>1
    <3> QED
      BY <1>1, <2>1, <2>2, <2>3, <2>4, <3>2, StateAlone DEF Busy
  <2>6. CASE stray
    BY <1>1, <2>6 DEF StateInv
  <2> QED
    BY <2>5, <2>6
<1>6. ASSUME NEW how \in Ended, EndBadly(p, how) PROVE StateInv'
  <2>1. /\ proc[p].st = "running" /\ how \in {"fail", "killed"}
        /\ proc' = [proc EXCEPT ![p] = Over(proc[p], how)]
        /\ old' = old /\ state' = state /\ newstate' = newstate
    BY <1>6 DEF EndBadly, files, logs
  <2>2. CASE ~stray
    <3>1. newstate' = <<>>
      BY <2>1, <2>2 DEF StateInv
    <3>2. Over(proc[p], how).st # "running"
      BY <1>3, <2>1
    <3> QED
      BY <1>1, <1>3, <2>1, <3>1, <3>2, StateAlone DEF Busy
  <2>3. CASE stray
    BY <1>1, <2>3 DEF StateInv
  <2> QED
    BY <2>2, <2>3
<1> QED
  BY <1>4, <1>5, <1>6

LEMMA StateCrash ==
  ASSUME TypeInv, StateInv, Kill \/ Power
  PROVE  StateInv'
<1>1. pc' = "down" /\ ~Done' /\ pc' # "state" /\ stray' = stray /\ written' = written
      /\ state' = state /\ newstate' = newstate /\ DOMAIN old' = DOMAIN old
  BY DEF Kill, Power, Done, files, logs
<1>2. \A p \in Pid : Busy(p)' =>
        /\ proc'[p].st = proc[p].st /\ proc'[p].stamp = proc[p].stamp
        /\ proc'[p].read = proc[p].read /\ proc'[p].fd5 = proc[p].fd5
  <2>1. CASE Kill
    BY <2>1, BusyFacts, StateTypes DEF Kill, Orphan, Busy, Processor
  <2>2. CASE Power
    BY <2>2, BusyFacts DEF Power, Busy
  <2> QED
    BY <2>1, <2>2
<1>3. Range(current'.data) \subseteq Range(current.data)
  <2>1. CASE Kill
    BY <2>1 DEF Kill, files, logs
  <2>2. CASE Power
    <3>1. PICK n \in current.synced..Len(current.data) : current' = Torn(current, n)
      BY <2>2 DEF Power
    <3>2. Sound(current)
      BY DEF TypeInv
    <3>3. current'.data = SubSeq(current.data, 1, n)
      BY <3>1, <3>2, TornFacts
    <3>4. n \in 0..Len(current.data) /\ current.data \in Seq(Nat)
      BY <3>2, FileFacts
    <3> QED
      BY <3>3, <3>4, RunPrefix
  <2> QED
    BY <2>1, <2>2
<1>4. pc' \notin Later
  BY <1>1 DEF Later, Finishing
<1> QED
  BY <1>1, <1>2, <1>3, <1>4, StateKept

LEMMA StateStep ==
  TypeInv /\ PidInv /\ CurrentInv /\ OrderInv /\ StateInv /\ [Next]_vars => StateInv'
<1>1. ASSUME StateInv, UNCHANGED vars PROVE StateInv'
  BY <1>1 DEF StateInv, vars, Busy, Done
<1> QED
  BY <1>1, StateOpening, StateWriting, StateRotation, StateStopping,
     StateSignals, StateProcessors, StateCrash DEF Next, Step, Request, Environment

\* The input of a processor is gone before state follows, so state never runs
\* ahead of the logs.
LEMMA Followed == StateInv => StateFollows
  BY DEF StateInv, StateFollows, Increasing

\* state holds each log's part once, in the order of the logs, and only after
\* the log's output, whatever crashes, failures and full disks come between,
\* until a processor is left to itself by a HUP or a crash.
THEOREM StateIsBehind == Spec => []StateFollows
<1> QED
  BY Followed, TypeInit, TypeStep, PidInit, PidStep, CurrentInit, CurrentStep,
     OrderInit, OrderStep, StateInit, StateStep, PTL DEF Spec
=============================================================================
