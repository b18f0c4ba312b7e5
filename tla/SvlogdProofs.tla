---------------------------- MODULE SvlogdProofs ----------------------------
(***************************************************************************)
(* Proofs about Svlogd: where it stands in its input, what it has written  *)
(* of it, and what it loses.                                               *)
(***************************************************************************)
EXTENDS Svlogd, PmatchProofs, FiniteSetTheorems, SequenceTheorems, TLAPS

(* The end of the input has been seen, and nothing of it is left.            *)
Ended == exitasap /\ closed /\ rd = arrived /\ p = 0

InLine == pc = "line" \/ (pc \in {"pread", "pause", "died"} /\ caller = "line")

InLong == pc = "long" \/ (pc \in {"pread", "pause", "died"} /\ caller = "long")

(* There is no newline from i to j.                                          *)
Clear(i, j) == \A k \in i..j : text[k] # NL

(* The line up to a newline just taken.                                      *)
AtNewline == first <= Taken /\ text[Taken] = NL /\ Clear(first, Taken - 1)

(* The part of a line that is in the array line has been taken, no more.     *)
AtHead == Taken = first + linelen - 1 /\ Clear(first, Taken)

EmitPos ==
  \/ AtHead /\ (Drained \/ linelen = LineMax)
  \/ AtNewline /\ linelen < LineMax /\ Taken = first + linelen

NewlinePos ==
  /\ AtNewline \/ (Ended /\ Clear(first, Taken))
  /\ linelen = LineMax \/ Taken = first + linelen
  /\ Taken >= first + linelen - 1

(* A line starts behind a newline, but for the one never begun at the end of *)
(* the input.                                                                *)
AtStart ==
  \/ first = 1 \/ text[first - 1] = NL
  \/ Ended /\ first = rd + 1 /\ ~InLong /\ pc # "newline"

(* svlogd ends on a TERM, or at the end of its input, which may lie within a *)
(* line that is not long enough yet to be written.                           *)
EndPos ==
  \/ term
  \/ Ended /\ (pc \in {"emit", "close", "gone"} =>
                 Clear(first, Taken) /\ Taken - first + 1 < LineMax)

Types ==
  /\ TypeOK
  /\ p <= rd
  /\ b \in [Dir -> Seq(0..Len(text))]
  /\ out \in [Dir -> Seq(0..Len(text))]

PosInv ==
  /\ InLine => AtHead /\ linelen < LineMax
  /\ InLong => linelen = LineMax /\ Taken >= first + linelen - 1 /\ Clear(first, Taken)
  /\ pc = "emit" => EmitPos
  /\ pc = "newline" => NewlinePos
  /\ pc \in {"close", "gone"} =>
       p = 0 /\ exitasap /\ (AtNewline \/ (Taken >= first - 1 /\ Clear(first, Taken)))
  /\ pc \in {"pread", "pause", "died"} => p = 0
  /\ rd > 0 => (linecomplete <=> text[rd] = NL)
  /\ AtStart
  /\ exitasap => EndPos

LEMMA TextIsSeq == TypeOK => text \in Seq(Char) /\ Len(text) \in Nat
<1> QED
  BY SvlogdAssumption DEF TypeOK

LEMMA InitPos == Init => Types /\ PosInv
<1> SUFFICES ASSUME Init PROVE Types /\ PosInv
  OBVIOUS
<1>1. text \in Seq(Char) /\ Len(text) \in Nat
  BY SvlogdAssumption DEF Init
<1>2. TypeOK
  <2>1. \A d \in Dir : b[d] = <<>> /\ out[d] = <<>>
    BY DEF Init
  <2>2. err \in [Dir -> Seq([from : 1..Len(text) + 1, len : 0..LineMax])]
    BY DEF Init
  <2>3. open \subseteq Dir
    BY DEF Init
  <2> QED
    <3>1. \A d \in Dir : b[d] \in Seq(0..Len(text)) /\ Len(b[d]) <= BufLen
      <4>1. <<>> \in Seq(0..Len(text)) /\ Len(<<>>) = 0
        BY EmptySeq
      <4>2. 0 <= BufLen
        BY SvlogdAssumption
      <4> QED
        BY <2>1, <4>1, <4>2
    <3>2. \A d \in Dir : out[d] \in Seq(0..Len(text))
      BY <2>1, EmptySeq
    <3>3. match \in [Dir -> {"+", "-"}]
      BY DEF Init
    <3>4. line \in [1..LineMax + 1 -> Char \cup {Nul}]
      BY DEF Init
    <3>5. /\ arrived \in 0..Len(text) /\ rd \in 0..arrived /\ p \in 0..BufLen
          /\ first \in 1..Len(text) + 1 /\ linelen \in 0..LineMax /\ want \in {1, BufLen}
      BY <1>1, SvlogdAssumption DEF Init
    <3> QED
      BY <2>2, <2>3, <3>1, <3>2, <3>3, <3>4, <3>5 DEF Init, TypeOK
<1>3. Types
  BY <1>1, <1>2 DEF Init, Types
<1>4. PosInv
  BY <1>1, SvlogdAssumption DEF Init, PosInv, InLine, InLong, AtHead, Clear, Taken, AtStart
<1> QED
  BY <1>3, <1>4

LEMMA PosStep == Types /\ PosInv /\ [Next]_vars => PosInv'
<1> SUFFICES ASSUME Types, PosInv, [Next]_vars PROVE PosInv'
  OBVIOUS
<1> USE SvlogdAssumption
<1>0. /\ rd \in Nat /\ p \in Nat /\ p <= rd /\ first \in Nat /\ linelen \in Nat
      /\ first >= 1 /\ arrived \in Nat /\ rd <= arrived /\ LineMax \in Nat /\ LineMax >= 1
      /\ linelen <= LineMax /\ want \in Nat /\ want >= 1 /\ Len(text) \in Nat
      /\ arrived <= Len(text) /\ BufLen \in Nat
      /\ pc \in {"line", "long", "pread", "pause", "emit", "newline", "close",
                 "gone", "died"}
      /\ caller \in {"line", "long"}
      /\ {exitasap, linecomplete, term, closed} \subseteq BOOLEAN
  BY TextIsSeq DEF Types, TypeOK
<1> USE DEF PosInv, InLine, InLong, AtHead, AtNewline, EmitPos, NewlinePos, Taken, AtStart,
            EndPos, Clear, Ended, Drained
<1>1. CASE Refill
  BY <1>0, <1>1 DEF Refill, stdin, flags, dirs
<1>2. CASE GetChar
  BY <1>0, <1>2 DEF GetChar, stdin, flags, dirs
<1>3. CASE GetLong
  <2>1. /\ pc = "long" /\ p > 0 /\ p' = p - 1
        /\ pc' = IF text[Taken + 1] = NL THEN "newline" ELSE "long"
        /\ UNCHANGED <<text, arrived, closed, rd, caller, first, linelen, exitasap,
                       linecomplete, term>>
    BY <1>3 DEF GetLong, stdin, flags
  <2>2. PosInv!2' /\ PosInv!4'
    BY <1>0, <2>1
  <2>3. PosInv!7' /\ PosInv!8' /\ PosInv!9'
    BY <1>0, <2>1
  <2> QED
    BY <1>0, <2>1, <2>2, <2>3
<1>4. CASE Pread
  <2>1. /\ pc = "pread" /\ p = 0
        /\ UNCHANGED <<text, arrived, closed, rd, p, caller, first, linelen, linecomplete, term>>
    BY <1>4 DEF Pread, stdin
  <2>2. CASE Stops
    <3>1. /\ exitasap /\ exitasap' /\ linecomplete
          /\ pc' = IF caller = "line" THEN "emit" ELSE "newline"
      BY <1>4, <2>2 DEF Pread, EndOfInput, Stops
    <3>2. caller = "line"
      BY <1>0, <2>1, <3>1
    <3>3. PosInv!8' /\ PosInv!9'
      BY <1>0, <2>1, <3>1, <3>2
    <3> QED
      BY <1>0, <2>1, <3>1, <3>2, <3>3
  <2>3. CASE ~Stops
    <3>1. exitasap' = exitasap /\ pc' \in {"died", "pause"}
      BY <1>4, <2>3 DEF Pread
    <3>2. PosInv!8' /\ PosInv!9'
      BY <1>0, <2>1, <3>1
    <3> QED
      BY <1>0, <2>1, <3>1, <3>2
  <2> QED
    BY <2>2, <2>3
<1>5. CASE Read
  <2>0. Available \in Nat /\ Available <= arrived - rd
    BY <1>0 DEF Available
  <2>1. /\ rd' \in Nat /\ rd' > 0 /\ p' > 0 /\ p' \in Nat /\ rd' - p' = rd - p
    <3>1. p = 0 /\ Available > 0 /\ rd' = rd + Available /\ p' = Available
      BY <1>5 DEF Read
    <3> QED
      BY <1>0, <2>0, <3>1
  <2>2. /\ pc = "pause" /\ pc' = caller /\ p = 0 /\ rd < arrived
        /\ UNCHANGED <<text, arrived, closed, caller, first, linelen, exitasap, term>>
    BY <1>0, <1>5, <2>0 DEF Read, stdin
  <2>3. PosInv!1' /\ PosInv!2'
    BY <1>0, <2>1, <2>2
  <2>4. PosInv!7' /\ PosInv!8'
    <3>1. linecomplete' <=> text'[rd'] = NL
      BY <1>5 DEF Read, stdin
    <3>2. (first = 1 \/ text[first - 1] = NL)'
      BY <1>0, <2>2
    <3> QED
      BY <3>1, <3>2
  <2>5. PosInv!9'
    <3>1. exitasap => term
      BY <1>0, <2>2
    <3> QED
      BY <2>2, <3>1
  <2> QED
    BY <1>0, <2>1, <2>2, <2>3, <2>4, <2>5
<1>6. CASE ReadNothing
  BY <1>0, <1>6 DEF ReadNothing, EndOfInput, Available, stdin, flags, dirs
<1>7. CASE Emit
  BY <1>0, <1>7 DEF Emit, stdin, flags, dirs
<1>8. CASE LeaveLoop
  <2>1. /\ pc = "emit" /\ exitasap /\ p = 0 /\ pc' = "close"
        /\ UNCHANGED <<text, arrived, closed, rd, p, caller, first, linelen, exitasap,
                       linecomplete, term>>
    BY <1>8 DEF LeaveLoop, stdin, flags
  <2>2. PosInv!5'
    BY <1>0, <2>1
  <2>3. PosInv!8'
    BY <1>0, <2>1
  <2>4. PosInv!9'
    BY <1>0, <2>1
  <2> QED
    BY <1>0, <2>1, <2>2, <2>3, <2>4
<1>9. CASE Newline
  BY <1>0, <1>9 DEF Newline, stdin, flags, dirs
<1>10. CASE Close
  BY <1>0, <1>10 DEF Close, stdin, flags, dirs
<1>11. CASE Arrive \/ Hangup
  <2>1. /\ ~closed /\ (closed' => arrived' = arrived)
        /\ UNCHANGED <<text, rd, p, pc, caller, first, linelen, exitasap, linecomplete,
                       term>>
    BY <1>11 DEF Arrive, Hangup, flags
  <2>2. PosInv!3'
    BY <1>0, <2>1
  <2>3. PosInv!4'
    BY <1>0, <2>1
  <2>4. PosInv!8' /\ PosInv!9'
    BY <1>0, <2>1
  <2> QED
    BY <1>0, <2>1, <2>2, <2>3, <2>4
<1>12. CASE \E sig \in Signals : Handle(sig)
  BY <1>0, <1>12 DEF Handle, stdin, flags, dirs
<1>13. CASE UNCHANGED vars
  BY <1>0, <1>13 DEF vars, stdin, flags, dirs
<1> QED
  BY <1>1, <1>2, <1>3, <1>4, <1>5, <1>6, <1>7, <1>8, <1>9, <1>10, <1>11, <1>12, <1>13
     DEF Next, Step

-----------------------------------------------------------------------------
(* The buffers. What a put flushes and what it leaves make up what there was *)
(* and what is put.                                                          *)

Positions == Seq(0..Len(text))

Joined(o, u, s) == o \o u \o s

LEMMA PutOne ==
  ASSUME NEW S, NEW o \in Seq(S), NEW u \in Seq(S), NEW s \in Seq(S),
         Len(u) <= BufLen, Len(s) <= BufLen
  PROVE  /\ Held(u, s) \in Seq(S) /\ Flushed(u, s) \in Seq(S)
         /\ Len(Held(u, s)) <= BufLen
         /\ Joined(o, Flushed(u, s), Held(u, s)) = Joined(o, u, s)
<1>1. u \o s \in Seq(S) /\ Len(u \o s) = Len(u) + Len(s) /\ <<>> \in Seq(S)
  BY ConcatProperties, EmptySeq
<1>2. o \o u \o s = o \o (u \o s) /\ o \o <<>> = o
  BY ConcatAssociative, ConcatEmptySeq
<1>3. CASE Len(u) + Len(s) <= BufLen
  BY <1>1, <1>2, <1>3 DEF Joined, Held, Flushed
<1>4. CASE ~(Len(u) + Len(s) <= BufLen)
  BY <1>1, <1>4 DEF Joined, Held, Flushed
<1> QED
  BY <1>3, <1>4

LEMMA PutOutput ==
  ASSUME Types, text' = text, NEW D, NEW s \in Positions, Len(s) <= BufLen, Put(D, s)
  PROVE  /\ b' \in [Dir -> Positions] /\ out' \in [Dir -> Positions]
         /\ \A d \in Dir : Len(b'[d]) <= BufLen
         /\ \A d \in Dir : Output(d)' = IF d \in D THEN Output(d) \o s ELSE Output(d)
<1>1. /\ b \in [Dir -> Positions] /\ out \in [Dir -> Positions]
      /\ \A d \in Dir : Len(b[d]) <= BufLen
  BY DEF Types, TypeOK, Positions
<1>2. /\ b' = [d \in Dir |-> IF d \in D THEN Held(b[d], s) ELSE b[d]]
      /\ out' = [d \in Dir |-> IF d \in D THEN out[d] \o Flushed(b[d], s) ELSE out[d]]
  BY DEF Put
<1>3. ASSUME NEW d \in Dir
      PROVE  /\ b'[d] \in Positions /\ out'[d] \in Positions /\ Len(b'[d]) <= BufLen
             /\ out'[d] \o b'[d] = IF d \in D THEN out[d] \o b[d] \o s ELSE out[d] \o b[d]
  <2>1. b[d] \in Positions /\ out[d] \in Positions /\ Len(b[d]) <= BufLen
    BY <1>1
  <2>2. CASE d \notin D
    BY <1>2, <2>1, <2>2
  <2>3. CASE d \in D
    <3>1. /\ Held(b[d], s) \in Positions /\ Flushed(b[d], s) \in Positions
          /\ Len(Held(b[d], s)) <= BufLen
          /\ out[d] \o Flushed(b[d], s) \o Held(b[d], s) = out[d] \o b[d] \o s
      <4>1. Joined(out[d], Flushed(b[d], s), Held(b[d], s)) = Joined(out[d], b[d], s)
        BY <2>1, PutOne DEF Positions
      <4> QED
        BY <2>1, PutOne, <4>1 DEF Positions, Joined
    <3>2. b'[d] = Held(b[d], s) /\ out'[d] = out[d] \o Flushed(b[d], s)
      BY <1>2, <2>3
    <3>3. out'[d] \in Positions
      BY <2>1, <3>1, <3>2, ConcatProperties DEF Positions
    <3> QED
      BY <2>3, <3>1, <3>2, <3>3
  <2> QED
    BY <2>2, <2>3
<1>4. b' \in [Dir -> Positions] /\ out' \in [Dir -> Positions]
  BY <1>2, <1>3
<1>5. \A d \in Dir : Output(d)' = IF d \in D THEN Output(d) \o s ELSE Output(d)
  BY <1>3 DEF Output
<1> QED
  BY <1>3, <1>4, <1>5

LEMMA FlushOutput ==
  ASSUME Types, text' = text, FlushAll
  PROVE  /\ b' \in [Dir -> Positions] /\ out' \in [Dir -> Positions]
         /\ \A d \in Dir : b'[d] = <<>> /\ Len(b'[d]) <= BufLen /\ Output(d)' = Output(d)
<1>1. b' = [d \in Dir |-> <<>>] /\ out' = [d \in Dir |-> out[d] \o b[d]]
  BY DEF FlushAll
<1>2. /\ <<>> \in Positions /\ Len(<<>>) = 0 /\ 0 <= BufLen
      /\ \A u \in Positions : u \o <<>> = u
  BY EmptySeq, ConcatEmptySeq, SvlogdAssumption DEF Positions
<1>3. \A d \in Dir : out[d] \o b[d] \in Positions
  BY ConcatProperties DEF Types, Positions
<1>4. \A d \in Dir : b'[d] = <<>> /\ out'[d] = out[d] \o b[d]
  BY <1>1
<1> QED
  BY <1>1, <1>2, <1>3, <1>4 DEF Output

(* The newline, and the flush behind it.                                     *)
LEMMA NewlineOutput ==
  ASSUME Types, Newline
  PROVE  LET nl == IF text[Taken] = NL THEN Taken ELSE 0 IN
         /\ nl \in 0..Len(text)
         /\ b' \in [Dir -> Positions] /\ out' \in [Dir -> Positions]
         /\ \A d \in Dir : Len(b'[d]) <= BufLen
         /\ \A d \in Dir : Output(d)' = IF d \in Selecting(match) THEN Output(d) \o <<nl>>
                                                              ELSE Output(d)
<1> DEFINE nl == IF text[Taken] = NL THEN Taken ELSE 0
<1> HIDE DEF nl
<1>1. nl \in 0..Len(text)
  BY TextIsSeq DEF nl, Taken, Types, TypeOK
<1>2. /\ <<>> \in Positions /\ Len(<<>>) = 0 /\ 0 <= BufLen
      /\ \A u \in Positions : u \o <<>> = u
  BY EmptySeq, ConcatEmptySeq, SvlogdAssumption DEF Positions
<1>3. /\ b' = [d \in Dir |-> IF d \in Selecting(match) THEN <<>> ELSE b[d]]
      /\ out' = [d \in Dir |-> IF d \in Selecting(match) THEN Append(out[d] \o b[d], nl)
                                                       ELSE out[d]]
  BY DEF Newline, nl
<1>4. ASSUME NEW d \in Dir
      PROVE  /\ b[d] \in Positions /\ out[d] \in Positions /\ Len(b[d]) <= BufLen
             /\ out[d] \o b[d] \in Positions
             /\ Append(out[d] \o b[d], nl) \in Positions
             /\ Append(out[d] \o b[d], nl) = out[d] \o b[d] \o <<nl>>
  <2>1. b[d] \in Positions /\ out[d] \in Positions /\ Len(b[d]) <= BufLen
    BY DEF Types, TypeOK, Positions
  <2>2. out[d] \o b[d] \in Positions
    BY <2>1, ConcatProperties DEF Positions
  <2> QED
    BY <1>1, <2>1, <2>2, AppendProperties, AppendIsConcat DEF Positions
<1>5. \A d \in Dir :
        /\ b'[d] = IF d \in Selecting(match) THEN <<>> ELSE b[d]
        /\ out'[d] = IF d \in Selecting(match) THEN out[d] \o b[d] \o <<nl>> ELSE out[d]
  BY <1>3, <1>4
<1>6. \A d \in Dir : b'[d] \in Positions /\ out'[d] \in Positions /\ Len(b'[d]) <= BufLen
  BY <1>2, <1>3, <1>4
<1>7. b' \in [Dir -> Positions] /\ out' \in [Dir -> Positions]
  BY <1>3, <1>6
<1>8. \A d \in Dir : Output(d)' = IF d \in Selecting(match) THEN Output(d) \o <<nl>>
                                                          ELSE Output(d)
  <2> SUFFICES ASSUME NEW d \in Dir
               PROVE  out'[d] \o b'[d] = IF d \in Selecting(match)
                                            THEN out[d] \o b[d] \o <<nl>>
                                            ELSE out[d] \o b[d]
    BY DEF Output
  <2>1. CASE d \in Selecting(match)
    <3>1. out'[d] = out[d] \o b[d] \o <<nl>> /\ out'[d] \in Positions /\ b'[d] = <<>>
      BY <1>5, <1>6, <2>1
    <3> QED
      BY <1>2, <2>1, <3>1
  <2>2. CASE d \notin Selecting(match)
    BY <1>5, <2>2
  <2> QED
    BY <2>1, <2>2
<1> QED
  BY <1>1, <1>6, <1>7, <1>8 DEF nl
LEMMA SameText == [Next]_vars => text' = text
<1> QED
  BY DEF Next, Step, vars, stdin, Refill, GetChar, GetLong, Pread, Read, ReadNothing, Emit,
     LeaveLoop, Newline, Close, Arrive, Hangup, Handle

(* What Emit puts: the head of the line.                                     *)
LEMMA HeadPut ==
  ASSUME Types, PosInv, pc = "emit", NEW s, s = [k \in 1..linelen |-> first + k - 1]
  PROVE  s \in Positions /\ Len(s) = linelen /\ Len(s) <= BufLen
<1>1. /\ linelen \in Nat /\ first \in Nat /\ first + linelen - 1 <= Len(text)
      /\ linelen <= BufLen /\ Len(text) \in Nat
  <2>1. Len(text) \in Nat /\ LineMax \in Nat /\ BufLen \in Nat /\ LineMax < BufLen
    BY TextIsSeq, SvlogdAssumption DEF Types
  <2>2. first + linelen - 1 <= Taken
    BY <2>1 DEF Types, TypeOK, PosInv, EmitPos, AtHead, AtNewline, Taken
  <2> QED
    BY <2>1, <2>2 DEF Types, TypeOK, Taken
<1>2. \A k \in 1..linelen : first + k - 1 \in 0..Len(text)
  BY <1>1
<1> QED
  BY <1>1, <1>2 DEF Positions

LEMMA OutputTypes ==
  ASSUME Types, PosInv, [Next]_vars
  PROVE  /\ b' \in [Dir -> Positions] /\ out' \in [Dir -> Positions]
         /\ \A d \in Dir : Len(b'[d]) <= BufLen
<1>1. CASE Pread \/ Close
  <2>1. FlushAll
    BY <1>1 DEF Pread, Close
  <2> QED
    BY <2>1, SameText, FlushOutput
<1>2. CASE GetLong
  <2>1. CASE UNCHANGED <<b, out>>
    BY <2>1 DEF Types, TypeOK, Positions
  <2>2. CASE Put(Selecting(match), <<Taken + 1>>)
    <3>1. pc = "long" /\ p > 0
      BY <1>2 DEF GetLong
    <3>2. Taken + 1 \in 0..Len(text)
      BY <3>1, TextIsSeq DEF Types, TypeOK, Taken
    <3>3. <<Taken + 1>> \in Positions /\ Len(<<Taken + 1>>) <= BufLen
      BY <3>2, SvlogdAssumption DEF Positions
    <3> QED
      BY <2>2, <3>3, SameText, PutOutput
  <2> QED
    BY <1>2, <2>1, <2>2 DEF GetLong
<1>3. CASE Emit
  <2> DEFINE s == [k \in 1..linelen |-> first + k - 1]
  <2>1. pc = "emit" /\ Put(Selecting(match'), s)
    BY <1>3 DEF Emit
  <2>2. s \in Positions /\ Len(s) <= BufLen
    BY <2>1, HeadPut
  <2> HIDE DEF s
  <2> QED
    BY <2>1, <2>2, SameText, PutOutput
<1>4. CASE Newline
  BY <1>4, NewlineOutput
<1>5. CASE UNCHANGED <<b, out>>
  BY <1>5 DEF Types, TypeOK, Positions
<1> QED
  BY <1>1, <1>2, <1>3, <1>4, <1>5
     DEF Next, Step, vars, dirs, Refill, GetChar, Read, ReadNothing, LeaveLoop, Arrive, Hangup,
         Handle

LEMMA PlaceTypes ==
  ASSUME Types, PosInv, [Next]_vars
  PROVE  /\ arrived' \in 0..Len(text) /\ rd' \in 0..arrived' /\ p' \in 0..BufLen /\ p' <= rd'
         /\ closed' \in BOOLEAN
         /\ pc' \in {"line", "long", "pread", "pause", "emit", "newline", "close", "gone",
                      "died"}
         /\ caller' \in {"line", "long"}
         /\ want' \in {1, BufLen}
         /\ first' \in 1..Len(text) + 1 /\ linelen' \in 0..LineMax
<1>1. Len(text) \in Nat /\ LineMax \in Nat /\ BufLen \in Nat
  BY TextIsSeq, SvlogdAssumption DEF Types
<1> USE DEF Types, TypeOK, Taken
<1>2. CASE Refill \/ LeaveLoop \/ Close
  BY <1>1, <1>2 DEF Refill, LeaveLoop, Close, stdin
<1>3. CASE GetChar
  BY <1>1, <1>3 DEF GetChar, stdin, PosInv, InLine, AtHead
<1>4. CASE GetLong
  BY <1>1, <1>4 DEF GetLong, stdin
<1>5. CASE Pread
  BY <1>1, <1>5 DEF Pread, EndOfInput, stdin
<1>6. CASE Read
  <2>1. Available \in Nat /\ Available <= arrived - rd /\ Available <= BufLen
    BY <1>1, SvlogdAssumption DEF Available
  <2> QED
    BY <1>1, <1>6, <2>1 DEF Read, stdin
<1>7. CASE ReadNothing
  BY <1>1, <1>7 DEF ReadNothing, EndOfInput, stdin
<1>8. CASE Emit
  BY <1>1, <1>8 DEF Emit, stdin
<1>9. CASE Newline
  BY <1>1, <1>9 DEF Newline, stdin
<1>10. CASE Arrive \/ Hangup
  <2>1. closed' \in BOOLEAN
    BY <1>10, Zenon DEF Arrive, Hangup
  <2>2. UNCHANGED <<rd, p, pc, caller, want, first, linelen>>
    BY <1>10 DEF Arrive, Hangup
  <2>3. arrived' \in 0..Len(text) /\ arrived <= arrived'
    <3>1. arrived' = arrived \/ (arrived < Len(text) /\ arrived' = arrived + 1)
      BY <1>10 DEF Arrive, Hangup
    <3> QED
      BY <1>1, <3>1
  <2> QED
    BY <1>1, <2>1, <2>2, <2>3
<1>11. CASE (\E sig \in Signals : Handle(sig)) \/ UNCHANGED vars
  BY <1>1, <1>11 DEF Handle, stdin, vars
<1> QED
  BY <1>2, <1>3, <1>4, <1>5, <1>6, <1>7, <1>8, <1>9, <1>10, <1>11
     DEF Next, Step

LEMMA DirTypes ==
  ASSUME Types, PosInv, [Next]_vars
  PROVE  /\ {exitasap, reopenasap, linecomplete, term, cut}' \subseteq BOOLEAN
         /\ open' \subseteq Dir
         /\ match' \in [Dir -> {"+", "-"}]
         /\ line' \in [1..LineMax + 1 -> Char \cup {Nul}]
         /\ err' \in [Dir -> Seq([from : 1..Len(text) + 1, len : 0..LineMax])]
<1>1. Len(text) \in Nat /\ text \in Seq(Char) /\ LineMax \in Nat
  BY TextIsSeq, SvlogdAssumption DEF Types
<1> USE DEF Types, TypeOK
<1>2. CASE Emit
  <2>1. match' \in [Dir -> {"+", "-"}]
    BY <1>2 DEF Emit, LogMatch
  <2>2. err' \in [Dir -> Seq([from : 1..Len(text) + 1, len : 0..LineMax])]
    <3> DEFINE S == [from : 1..Len(text) + 1, len : 0..LineMax]
    <3>1. [from |-> first, len |-> linelen] \in S
      OBVIOUS
    <3>2. err \in [Dir -> Seq(S)]
      OBVIOUS
    <3> HIDE DEF S
    <3>3. \A d \in Dir : Append(err[d], [from |-> first, len |-> linelen]) \in Seq(S)
      BY <3>1, <3>2, AppendProperties
    <3>4. err' = [d \in Dir |-> IF d \in open /\ LogMatchErr(d) = "e"
                             THEN Append(err[d], [from |-> first, len |-> linelen])
                             ELSE err[d]]
      BY <1>2 DEF Emit
    <3>5. err' \in [Dir -> Seq(S)]
      BY <3>2, <3>3, <3>4
    <3> QED
      BY <3>5 DEF S
  <2> QED
    BY <1>2, <2>1, <2>2 DEF Emit, flags
<1>3. CASE GetChar
  <2>1. line' \in [1..LineMax + 1 -> Char \cup {Nul}]
    <3>1. Taken + 1 \in 1..Len(text)
      BY <1>1, <1>3 DEF GetChar, Taken
    <3>2. text[Taken + 1] \in Char
      BY <1>1, <3>1, ElementOfSeq
    <3> QED
      BY <1>3, <3>2 DEF GetChar
  <2> QED
    BY <1>3, <2>1 DEF GetChar, flags, dirs
<1>4. CASE Pread
  <2>1. ~(Stops) /\ reopenasap => open' \subseteq Dir /\ match' \in [Dir -> {"+", "-"}]
                                 /\ cut' \in BOOLEAN /\ reopenasap' \in BOOLEAN
    BY <1>4 DEF Pread, Reopen
  <2>2. ~(~(Stops) /\ reopenasap) => UNCHANGED <<open, match, cut, reopenasap>>
    BY <1>4 DEF Pread
  <2>3. exitasap' \in BOOLEAN /\ UNCHANGED <<line, linecomplete, term, err>>
    BY <1>4 DEF Pread, EndOfInput
  <2> QED
    BY <2>1, <2>2, <2>3
<1>5. CASE Read
  BY <1>5 DEF Read, dirs
<1>6. CASE ReadNothing
  BY <1>6 DEF ReadNothing, EndOfInput, dirs
<1>7. CASE \E sig \in Signals : Handle(sig)
  BY <1>7 DEF Handle, dirs
<1>8. CASE Refill \/ LeaveLoop \/ Close \/ GetLong \/ Newline
  BY <1>8 DEF Refill, LeaveLoop, Close, GetLong, Newline, flags, dirs
<1>9. CASE Arrive \/ Hangup \/ UNCHANGED vars
  BY <1>9 DEF Arrive, Hangup, flags, dirs, vars
<1> QED
  BY <1>2, <1>3, <1>4, <1>5, <1>6, <1>7, <1>8, <1>9 DEF Next, Step

LEMMA TypesStep == Types /\ PosInv /\ [Next]_vars => Types'
<1> SUFFICES ASSUME Types, PosInv, [Next]_vars PROVE Types'
  OBVIOUS
<1>1. text' = text /\ text \in Texts
  BY SameText DEF Types, TypeOK
<1>2. /\ b' \in [Dir -> Seq(0..Len(text'))] /\ out' \in [Dir -> Seq(0..Len(text'))]
      /\ \A d \in Dir : Len(b'[d]) <= BufLen
  BY <1>1, OutputTypes DEF Positions
<1> QED
  BY <1>1, <1>2, PlaceTypes, DirTypes DEF Types, TypeOK

(* Every variable of svlogd keeps its type: no buffer takes more than it     *)
(* has room for, no line is longer than the array, and no character is       *)
(* taken that has not been read.                                             *)
THEOREM TypeCorrect == Spec => []TypeOK
<1>1. Types /\ PosInv /\ [Next]_vars => (Types /\ PosInv)'
  BY TypesStep, PosStep
<1>2. Types => TypeOK
  BY DEF Types
<1> QED
  BY <1>1, <1>2, InitPos, PTL DEF Spec

-----------------------------------------------------------------------------
(* The matcher. *)

LEMMA MatcherFollows == TypeOK => PmatchFits
<1> SUFFICES ASSUME TypeOK, NEW pat \in Patterns
             PROVE  LET message == SubSeq(line, 1, linelen) IN
                    /\ Described(pat, message) => Matches(pat)
                    /\ Matches(pat) => Described(pat, message) \/ PlusMeetsEnd(pat, message)
  BY DEF PmatchFits
<1> DEFINE S == Char \cup {Nul}
           message == SubSeq(line, 1, linelen)
           after == line[linelen + 1]
<1>1. message \in Seq(S)
  <2>1. LineMax \in Nat /\ linelen \in Int /\ linelen <= LineMax
    BY SvlogdAssumption DEF TypeOK
  <2>2. \A i \in 1..linelen : line[i] \in S
    BY <2>1 DEF TypeOK
  <2> HIDE DEF S
  <2> QED
    BY <2>1, <2>2, SubSeqProperties
<1>2. IsPattern(pat)
  BY SvlogdAssumption
<1> HIDE DEF message, S, after
<1>3. /\ Described(pat, message) => Pmatch(pat, message, after)
      /\ Pmatch(pat, message, after) =>
           Described(pat, message) \/ PlusMeetsEnd(pat, message)
  BY <1>1, <1>2, MatchesWhatIsDescribed
<1> QED
  BY <1>3 DEF Matches, message, after

(* Whatever the patterns and the input, and whatever earlier lines have left *)
(* in the array line, a line matches what describes it, and nothing else but *)
(* where a plus meets its end.                                               *)
THEOREM MatcherIsRight == Spec => []PmatchFits
<1> QED
  BY TypeCorrect, MatcherFollows, PTL

-----------------------------------------------------------------------------
(* What has been written. The line from first on has been given out, if only *)
(* up to the character just taken.                                           *)
Working == InLong \/ pc = "newline"

Upto == IF pc = "newline" /\ text[Taken] = NL THEN Taken - 1 ELSE Taken

Ordered(o) == \A k, l \in DOMAIN o : k < l /\ o[l] # 0 => o[k] < o[l]

Within(o, n) == \A k \in DOMAIN o : o[k] <= n

OrderInv ==
  \A d \in Dir :
    /\ Ordered(Output(d))
    /\ Within(Output(d), IF Working THEN Upto ELSE first - 1)

(* The lines of a text, so that what is said of them in one state is said in *)
(* the next.                                                                 *)
EndsIn(t) == {e \in DOMAIN t : t[e] = NL}

LineIn(t, i) == {j \in DOMAIN t : \A e \in EndsIn(t) : i <= e <=> j <= e}

HeadLenIn(t, i) ==
  Cardinality({j \in LineIn(t, i) \ EndsIn(t) : j < Min(LineIn(t, i)) + LineMax})

FitsIn(t, pat, i) ==
  Described(pat, [k \in 1..HeadLenIn(t, i) |-> t[Min(LineIn(t, i)) + k - 1]])

DecisiveIn(t, d, ops, i) ==
  LET fit == {k \in DOMAIN Inst[d] : Inst[d][k].op \in ops /\ FitsIn(t, Inst[d][k].pat, i)}
  IN  {Inst[d][k].op : k \in {k \in fit : \A l \in fit : l <= k}}

SelectedIn(t, d, i) == "-" \notin DecisiveIn(t, d, {"+", "-"}, i)
ReportedIn(t, d, i) == "e" \in DecisiveIn(t, d, {"e", "E"}, i)

BegunIn(t, i) == {k \in 1..i - 1 : k = 1 \/ k - 1 \in EndsIn(t)}

LEMMA InText ==
  /\ Ends = EndsIn(text)
  /\ \A i : /\ LineOf(i) = LineIn(text, i) /\ HeadLen(i) = HeadLenIn(text, i)
           /\ Begun(i) = BegunIn(text, i)
  /\ \A d, i : /\ Selected(d, i) <=> SelectedIn(text, d, i)
               /\ Reported(d, i) <=> ReportedIn(text, d, i)
<1>1. Ends = EndsIn(text)
  BY DEF Ends, EndsIn
<1>2. ASSUME NEW i
      PROVE  /\ LineOf(i) = LineIn(text, i) /\ HeadLen(i) = HeadLenIn(text, i)
             /\ Begun(i) = BegunIn(text, i)
  BY DEF LineOf, LineIn, HeadLen, HeadLenIn, Begun, BegunIn, Ends, EndsIn
<1>3. ASSUME NEW d, NEW ops, NEW i PROVE Decisive(d, ops, i) = DecisiveIn(text, d, ops, i)
  BY DEF Decisive, DecisiveIn, Fits, FitsIn, HeadLen, HeadLenIn, LineOf, LineIn, Ends, EndsIn
<1> QED
  BY <1>1, <1>2, <1>3 DEF Selected, SelectedIn, Reported, ReportedIn

(* The array line has what was taken of the line.                            *)
LineInv ==
  InLine \/ pc = "emit" => \A k \in 1..linelen : line[k] = text[first + k - 1]

(* A directory is selected as it is to be; a HUP within a long line may      *)
(* select more, but not less.                                                *)
MatchInv ==
  /\ Dir \ Flaky \subseteq open
  /\ \A d \in Dir : Inst[d] = <<>> => match[d] = "+"
  /\ Working => \A d \in open :
       /\ SelectedIn(text, d, first) => match[d] = "+"
       /\ match[d] = "+" /\ ~cut => SelectedIn(text, d, first)

(* All of a line that is over is there if any of it is, and all of the       *)
(* present line up to here where it is selected.                             *)
WholeIn(t, o, i, n, hup) == \A j \in LineIn(t, i) : Contains(o, j) \/ (hup /\ j > n)

WholeUpto(t, d, o, a, n, hup) ==
  \A k \in DOMAIN o : o[k] # 0 =>
    SelectedIn(t, d, o[k]) /\ (o[k] < a => WholeIn(t, o, o[k], n, hup))

WholeInv ==
  ~cut => \A d \in Dir :
    /\ WholeUpto(text, d, Output(d), first, arrived, closed)
    /\ Working =>
         IF d \in Selecting(match) THEN \A j \in first..Upto : Contains(Output(d), j)
                                  ELSE Within(Output(d), first - 1)

(* What has been given out is there, where it is selected and the directory  *)
(* is always open.                                                           *)
GivenOut == IF Working THEN Upto ELSE first - 1

LostInv ==
  \A d \in Dir \ Flaky : \A e \in 1..GivenOut :
    SelectedIn(text, d, e) => Contains(Output(d), e)

HeadsIn(t, d, heads, a) ==
  /\ \A k \in 1..Len(heads) - 1 : heads[k].from < heads[k + 1].from
  /\ \A k \in DOMAIN heads :
       ReportedIn(t, d, heads[k].from) /\ heads[k].len = HeadLenIn(t, heads[k].from)
  /\ d \notin Flaky => \A i \in BegunIn(t, a) :
       ReportedIn(t, d, i) => \E k \in DOMAIN heads : heads[k].from = i

HeadsInv ==
  \A d \in Dir :
    /\ HeadsIn(text, d, err[d], first)
    /\ \A k \in DOMAIN err[d] : err[d][k].from <= IF Working THEN first ELSE first - 1
    /\ Working /\ d \notin Flaky /\ ReportedIn(text, d, first) =>
         \E k \in DOMAIN err[d] : err[d][k].from = first

LEMMA Extended ==
  ASSUME NEW S, NEW o \in Seq(S), NEW s \in Seq(S), NEW w, w = o \o s
  PROVE  /\ w \in Seq(S) /\ Len(w) = Len(o) + Len(s)
         /\ DOMAIN w = 1..Len(w) /\ DOMAIN o = 1..Len(o) /\ DOMAIN s = 1..Len(s)
         /\ Len(o) \in Nat /\ Len(s) \in Nat
         /\ \A k \in 1..Len(o) : w[k] = o[k]
         /\ \A k \in 1..Len(w) : k > Len(o) => w[k] = s[k - Len(o)]
         /\ \A k \in 1..Len(s) : w[Len(o) + k] = s[k]
<1>1. /\ w \in Seq(S) /\ Len(w) = Len(o) + Len(s)
      /\ \A i \in 1..Len(o) + Len(s) : w[i] = IF i <= Len(o) THEN o[i] ELSE s[i - Len(o)]
  BY ConcatProperties
<1>2. Len(o) \in Nat /\ Len(s) \in Nat /\ DOMAIN w = 1..Len(w) /\ DOMAIN o = 1..Len(o)
      /\ DOMAIN s = 1..Len(s)
  BY <1>1, LenProperties
<1>3. \A k \in 1..Len(s) : w[Len(o) + k] = s[k]
  BY <1>1, <1>2
<1> QED
  BY <1>1, <1>2, <1>3

LEMMA ContainsMore ==
  ASSUME NEW S, NEW o \in Seq(S), NEW s \in Seq(S), NEW w, w = o \o s, NEW j
  PROVE  Contains(w, j) <=> Contains(o, j) \/ Contains(s, j)
<1>1. ASSUME NEW k \in 1..Len(w)
      PROVE  (\E i \in 1..Len(o) : o[i] = w[k]) \/ (\E i \in 1..Len(s) : s[i] = w[k])
  <2>1. CASE k <= Len(o)
    BY <2>1, Extended
  <2>2. CASE k > Len(o)
    <3>1. k - Len(o) \in 1..Len(s) /\ s[k - Len(o)] = w[k]
      BY <2>2, Extended
    <3> QED
      BY <3>1
  <2> QED
    BY <2>1, <2>2, Extended
<1>2. \A k \in 1..Len(o) : k \in 1..Len(w) /\ w[k] = o[k]
  BY Extended
<1>3. \A k \in 1..Len(s) : Len(o) + k \in 1..Len(w) /\ w[Len(o) + k] = s[k]
  BY Extended
<1> QED
  <2>1. Contains(w, j) => Contains(o, j) \/ Contains(s, j)
    BY <1>1 DEF Contains
  <2>2. Contains(o, j) => Contains(w, j)
    BY <1>2 DEF Contains
  <2>3. Contains(s, j) => Contains(w, j)
    BY <1>3 DEF Contains
  <2> QED
    BY <2>1, <2>2, <2>3

LEMMA OrderedMore ==
  ASSUME NEW m \in Nat, NEW o \in Seq(0..m), NEW s \in Seq(0..m), NEW w, w = o \o s,
         NEW n \in Nat, NEW n2 \in Nat, n <= n2, Ordered(o), Within(o, n),
         Ordered(s), Within(s, n2), \A k \in DOMAIN s : s[k] = 0 \/ s[k] > n
  PROVE  Ordered(w) /\ Within(w, n2)
<1>1. /\ DOMAIN w = 1..Len(o) + Len(s) /\ DOMAIN o = 1..Len(o) /\ DOMAIN s = 1..Len(s)
      /\ Len(o) \in Nat /\ Len(s) \in Nat
      /\ \A k \in 1..Len(o) : w[k] = o[k] /\ o[k] \in Nat
      /\ \A k \in 1..Len(s) : s[k] \in Nat
  BY Extended, ElementOfSeq
<1>2. \A k \in DOMAIN w : k > Len(o) => k - Len(o) \in DOMAIN s /\ w[k] = s[k - Len(o)]
  BY <1>1, Extended
<1>3. ASSUME NEW k \in DOMAIN w, NEW l \in DOMAIN w, k < l, w[l] # 0
      PROVE  w[k] < w[l]
  <2>1. CASE l <= Len(o)
    BY <1>1, <1>3, <2>1 DEF Ordered
  <2>2. CASE k <= Len(o) /\ l > Len(o)
    BY <1>1, <1>2, <1>3, <2>2 DEF Within
  <2>3. CASE k > Len(o)
    BY <1>1, <1>2, <1>3, <2>3 DEF Ordered
  <2>4. k \in Nat /\ l \in Nat /\ Len(o) \in Nat
    BY <1>1
  <2> QED
    BY <2>1, <2>2, <2>3, <2>4
<1>4. ASSUME NEW k \in DOMAIN w PROVE w[k] <= n2
  BY <1>1, <1>2 DEF Within
<1> QED
  BY <1>3, <1>4 DEF Ordered, Within

LEMMA OutputIsSeq == Types => \A d \in Dir : Output(d) \in Positions
<1> QED
  BY ConcatProperties DEF Types, Positions, Output

LEMMA EmitOutput ==
  ASSUME Types, PosInv, Emit, NEW d \in Dir,
         NEW s, s = [k \in 1..linelen |-> first + k - 1]
  PROVE  /\ s \in Positions /\ Len(s) = linelen
         /\ Output(d)' = IF d \in Selecting(match') THEN Output(d) \o s ELSE Output(d)
<1>1. pc = "emit" /\ Put(Selecting(match'), s) /\ text' = text
  BY SameText DEF Emit, Next, Step
<1>2. s \in Positions /\ Len(s) = linelen /\ Len(s) <= BufLen
  BY <1>1, HeadPut
<1> QED
  BY <1>1, <1>2, PutOutput

LEMMA LongOutput ==
  ASSUME Types, PosInv, GetLong, NEW d \in Dir
  PROVE  /\ Taken + 1 \in 1..Len(text)
         /\ Output(d)' = IF d \in Selecting(match) /\ text[Taken + 1] # NL
                           THEN Output(d) \o <<Taken + 1>> ELSE Output(d)
<1>1. pc = "long" /\ p > 0 /\ text' = text
  BY SameText DEF GetLong, Next, Step
<1>2. Taken + 1 \in 1..Len(text)
  BY <1>1, TextIsSeq DEF Types, TypeOK, Taken
<1>3. <<Taken + 1>> \in Positions /\ Len(<<Taken + 1>>) <= BufLen
  BY <1>2, SvlogdAssumption DEF Positions
<1>4. CASE text[Taken + 1] = NL
  BY <1>2, <1>4 DEF GetLong, Output
<1>5. CASE text[Taken + 1] # NL
  <2>1. Put(Selecting(match), <<Taken + 1>>)
    BY <1>5 DEF GetLong
  <2> QED
    BY <1>1, <1>2, <1>3, <1>5, <2>1, PutOutput
<1> QED
  BY <1>4, <1>5

LEMMA OtherOutput ==
  ASSUME Types, PosInv, [Next]_vars, ~Emit, ~GetLong, ~Newline, NEW d \in Dir
  PROVE  Output(d)' = Output(d)
<1>1. CASE Pread \/ Close
  <2>1. FlushAll
    BY <1>1 DEF Pread, Close
  <2> QED
    BY <2>1, SameText, FlushOutput
<1>2. CASE UNCHANGED <<b, out>>
  BY <1>2 DEF Output
<1> QED
  BY <1>1, <1>2 DEF Next, Step, vars, dirs, Refill, GetChar, Read, ReadNothing, LeaveLoop,
     Arrive, Hangup, Handle

LEMMA Numbers ==
  ASSUME Types
  PROVE  /\ Len(text) \in Nat /\ text \in Seq(Char) /\ DOMAIN text = 1..Len(text)
         /\ rd \in Nat /\ p \in Nat /\ p <= rd /\ Taken \in Nat /\ Taken <= Len(text)
         /\ rd <= arrived /\ arrived \in Nat /\ arrived <= Len(text)
         /\ first \in Nat /\ first >= 1 /\ linelen \in Nat /\ linelen <= LineMax
         /\ LineMax \in Nat /\ LineMax >= 1
<1>1. Len(text) \in Nat /\ text \in Seq(Char) /\ DOMAIN text = 1..Len(text)
  BY TextIsSeq, LenProperties DEF Types
<1> QED
  BY <1>1, SvlogdAssumption DEF Types, TypeOK, Taken

(* Where the line given out ends, action by action.                          *)
LEMMA EmitUpto ==
  ASSUME Types, PosInv, Emit
  PROVE  /\ ~Working /\ Working' /\ Upto' = first + linelen - 1 /\ first' = first
         /\ Upto' \in Nat
<1>1. /\ pc = "emit" /\ ~Drained /\ pc' = IF linelen = LineMax THEN "long" ELSE "newline"
      /\ UNCHANGED <<text, rd, p, first, linelen>>
  BY DEF Emit, stdin
<1>2. EmitPos
  BY <1>1 DEF PosInv
<1>3. CASE linelen = LineMax
  BY <1>1, <1>2, <1>3, Numbers DEF EmitPos, AtHead, AtNewline, Working, Upto, InLong, Taken
<1>4. CASE linelen # LineMax
  BY <1>1, <1>2, <1>4, Numbers DEF EmitPos, AtHead, AtNewline, Working, Upto, InLong, Taken
<1> QED
  BY <1>3, <1>4

LEMMA LongUpto ==
  ASSUME Types, PosInv, GetLong
  PROVE  /\ Working /\ Working' /\ Upto = Taken /\ first' = first
         /\ Upto' = IF text[Taken + 1] = NL THEN Taken ELSE Taken + 1
<1>1. /\ pc = "long" /\ p > 0 /\ p' = p - 1 /\ UNCHANGED <<text, rd, first>>
      /\ pc' = IF text[Taken + 1] = NL THEN "newline" ELSE "long"
  BY DEF GetLong, stdin
<1>2. Taken' = Taken + 1
  BY <1>1, Numbers DEF Taken, Types, TypeOK
<1> QED
  BY <1>1, <1>2, Numbers DEF Working, Upto, InLong

LEMMA NewlineUpto ==
  ASSUME Types, PosInv, Newline
  PROVE  /\ Working /\ ~Working' /\ first' = Taken + 1
         /\ Upto = IF text[Taken] = NL THEN Taken - 1 ELSE Taken
<1> QED
  BY DEF Newline, Working, Upto, InLong

(* Other steps leave it alone.                                               *)
LEMMA OtherUpto ==
  ASSUME Types, PosInv, [Next]_vars, ~Emit, ~GetLong, ~Newline
  PROVE  /\ first' = first
         /\ Working' <=> Working
         /\ Working' => Upto' = Upto
<1> USE DEF Working, Upto, InLong
<1>1. CASE Read
  <2>1. /\ pc = "pause" /\ p = 0 /\ pc' = caller /\ rd' - p' = rd - p
        /\ UNCHANGED <<text, first, caller>>
    <3>1. p = 0 /\ Available \in Int
      BY <1>1, Numbers, SvlogdAssumption DEF Read, PosInv, Available, Types, TypeOK
    <3> QED
      BY <1>1, <3>1, Numbers DEF Read, stdin
  <2>2. Taken' = Taken
    BY <2>1 DEF Taken
  <2> QED
    BY <2>1, <2>2 DEF Types, TypeOK
<1>2. CASE Pread \/ ReadNothing
  <2>1. /\ pc \in {"pread", "pause"} /\ UNCHANGED <<text, rd, p, first, caller>>
        /\ pc' \in {"pread", "pause", "died"} \/ pc' = IF caller = "line" THEN "emit" ELSE "newline"
    BY <1>2 DEF Pread, ReadNothing, EndOfInput, stdin
  <2>2. Taken' = Taken
    BY <2>1 DEF Taken
  <2>3. caller = "long" => text[Taken] # NL
    BY <2>1, Numbers DEF PosInv, Clear
  <2> QED
    BY <2>1, <2>2, <2>3 DEF Types, TypeOK
<1>3. CASE Refill
  BY <1>3 DEF Refill, stdin, Taken
<1>4. CASE GetChar
  BY <1>4 DEF GetChar, stdin, Taken
<1>5. CASE LeaveLoop \/ Close
  BY <1>5 DEF LeaveLoop, Close, stdin, Taken
<1>6. CASE Arrive \/ Hangup \/ UNCHANGED vars
  BY <1>6 DEF Arrive, Hangup, vars, Taken
<1>7. CASE \E sig \in Signals : Handle(sig)
  BY <1>7 DEF Handle, stdin, Taken
<1> QED
  BY <1>1, <1>2, <1>3, <1>4, <1>5, <1>6, <1>7 DEF Next, Step

LEMMA OrderStep ==
  ASSUME Types, PosInv, OrderInv, [Next]_vars
  PROVE  OrderInv'
<1> SUFFICES ASSUME NEW d \in Dir
             PROVE  /\ Ordered(Output(d)')
                    /\ Within(Output(d)', IF Working' THEN Upto' ELSE first' - 1)
  BY DEF OrderInv, Ordered, Within
<1> DEFINE m == Len(text)
           o == Output(d)
<1>1. /\ m \in Nat /\ o \in Seq(0..m) /\ Ordered(o)
      /\ Within(o, IF Working THEN Upto ELSE first - 1)
      /\ \A k \in DOMAIN o : o[k] \in Nat
  <2>1. o \in Seq(0..m)
    BY OutputIsSeq DEF Positions
  <2> QED
    BY <2>1, Numbers, LenProperties DEF OrderInv
<1>2. CASE Emit
  <2> DEFINE s == [k \in 1..linelen |-> first + k - 1]
  <2>1. /\ s \in Seq(0..m) /\ Len(s) = linelen
        /\ Output(d)' = IF d \in Selecting(match') THEN o \o s ELSE o
    BY <1>2, EmitOutput DEF Positions
  <2>2. Within(o, first - 1) /\ Upto' = first + linelen - 1 /\ Working' /\ first - 1 \in Nat
        /\ Upto' \in Nat
    BY <1>1, <1>2, EmitUpto, Numbers
  <2>3. /\ \A k \in DOMAIN s : s[k] > first - 1
        /\ Within(s, Upto') /\ Ordered(s)
    <3>1. DOMAIN s = 1..linelen /\ \A k \in 1..linelen : s[k] = first + k - 1
      OBVIOUS
    <3> HIDE DEF s
    <3> QED
      <4>1. first \in Nat /\ linelen \in Nat /\ Upto' = first + linelen - 1
        BY <2>2, Numbers
      <4>2. Ordered(s)
        BY <3>1, <4>1 DEF Ordered
      <4>3. Within(s, Upto')
        BY <3>1, <4>1 DEF Within
      <4> QED
        BY <3>1, <4>1, <4>2, <4>3
  <2>4. first - 1 <= Upto'
    BY <2>2, Numbers
  <2> HIDE DEF s, m, o
  <2>5. Ordered(o \o s) /\ Within(o \o s, Upto')
    <3> DEFINE n == first - 1
    <3>1. /\ m \in Nat /\ o \in Seq(0..m) /\ Ordered(o) /\ s \in Seq(0..m)
          /\ Ordered(s) /\ Within(s, Upto') /\ Upto' \in Nat
      BY <1>1, <2>1, <2>2, <2>3
    <3>2. /\ Within(o, n) /\ n \in Nat /\ n <= Upto'
          /\ \A k \in DOMAIN s : s[k] = 0 \/ s[k] > n
      BY <2>2, <2>3, <2>4
    <3> HIDE DEF n
    <3> QED
      BY <3>1, <3>2, OrderedMore
  <2>6. Within(o, Upto')
    BY <1>1, <2>2, <2>4 DEF Within
  <2> QED
    BY <1>1, <2>1, <2>2, <2>5, <2>6
<1>3. CASE GetLong
  <2> DEFINE s == <<Taken + 1>>
  <2>1. /\ Taken + 1 \in 1..m
        /\ Output(d)' = IF d \in Selecting(match) /\ text[Taken + 1] # NL THEN o \o s ELSE o
    BY <1>3, LongOutput
  <2>2. /\ Within(o, Taken) /\ Working' /\ Taken \in Nat /\ Upto' \in Nat /\ Taken <= Upto'
        /\ text[Taken + 1] # NL => Upto' = Taken + 1
    BY <1>1, <1>3, LongUpto, Numbers
  <2>3. s \in Seq(0..m) /\ DOMAIN s = {1} /\ s[1] = Taken + 1 /\ Ordered(s)
    BY <2>1 DEF Ordered
  <2>4. Within(o, Upto')
    BY <1>1, <2>2 DEF Within
  <2> HIDE DEF s, m, o
  <2>5. text[Taken + 1] # NL => Ordered(o \o s) /\ Within(o \o s, Upto')
    <3>1. text[Taken + 1] # NL =>
            Within(s, Upto') /\ \A k \in DOMAIN s : s[k] = 0 \/ s[k] > Taken
      BY <2>2, <2>3 DEF Within
    <3> QED
      BY <1>1, <2>1, <2>2, <2>3, <3>1, OrderedMore
  <2> QED
    BY <1>1, <2>1, <2>2, <2>4, <2>5
<1>4. CASE Newline
  <2> DEFINE nl == IF text[Taken] = NL THEN Taken ELSE 0
             s  == <<nl>>
  <2>1. /\ nl \in 0..m
        /\ Output(d)' = IF d \in Selecting(match) THEN o \o s ELSE o
    BY <1>4, NewlineOutput
  <2>2. /\ Within(o, Upto) /\ ~Working' /\ first' - 1 = Taken /\ Taken \in Nat
        /\ Upto = IF text[Taken] = NL THEN Taken - 1 ELSE Taken
    BY <1>1, <1>4, NewlineUpto, Numbers
  <2>3. text[Taken] = NL => Taken >= 1
    <3>1. pc = "newline"
      BY <1>4 DEF Newline
    <3> QED
      BY <3>1, Numbers DEF PosInv, NewlinePos, AtNewline, Clear
  <2>4. /\ Upto \in Nat /\ Upto <= Taken /\ (nl = 0 \/ nl > Upto) /\ nl <= Taken
    BY <2>2, <2>3
  <2>5. s \in Seq(0..m) /\ DOMAIN s = {1} /\ s[1] = nl /\ Ordered(s)
    BY <2>1 DEF Ordered
  <2>6. Within(o, Taken)
    BY <1>1, <2>2, <2>4 DEF Within
  <2> HIDE DEF s, m, o, nl
  <2>7. Ordered(o \o s) /\ Within(o \o s, Taken)
    <3>1. Within(s, Taken) /\ \A k \in DOMAIN s : s[k] = 0 \/ s[k] > Upto
      BY <2>2, <2>4, <2>5 DEF Within
    <3> QED
      <4>1. /\ m \in Nat /\ o \in Seq(0..m) /\ Ordered(o) /\ Within(o, Upto)
            /\ Upto \in Nat /\ Taken \in Nat /\ Upto <= Taken
            /\ s \in Seq(0..m) /\ Ordered(s)
        BY <1>1, <2>2, <2>4, <2>5
      <4> QED
        BY <3>1, <4>1, OrderedMore
  <2> QED
    BY <1>1, <2>1, <2>2, <2>6, <2>7
<1>5. CASE ~Emit /\ ~GetLong /\ ~Newline
  <2>1. Output(d)' = o
    BY <1>5, OtherOutput
  <2>2. /\ first' = first /\ (Working' <=> Working) /\ (Working' => Upto' = Upto)
    BY <1>5, OtherUpto
  <2> QED
    BY <1>1, <2>1, <2>2
<1> QED
  BY <1>2, <1>3, <1>4, <1>5

-----------------------------------------------------------------------------
(* Lines.                                                                    *)

(* Two positions with no newline between them are in the same line.          *)
LEMMA SameLine ==
  ASSUME NEW i \in Nat, NEW j \in Nat, i <= j, Clear(i, j - 1), text \in Seq(Char)
  PROVE  /\ LineOf(j) = LineOf(i) /\ HeadLen(j) = HeadLen(i)
         /\ \A d : (Selected(d, j) <=> Selected(d, i)) /\ (Reported(d, j) <=> Reported(d, i))
<1>1. \A e \in Ends : i <= e <=> j <= e
  <2> SUFFICES ASSUME NEW e \in Ends PROVE i <= e <=> j <= e
    OBVIOUS
  <2>1. e \in Nat /\ text[e] = NL
    BY LenProperties DEF Ends
  <2> QED
    BY <2>1 DEF Clear
<1>2. LineOf(j) = LineOf(i)
  BY <1>1 DEF LineOf
<1>3. HeadLen(j) = HeadLen(i) /\ \A pat : Fits(pat, j) <=> Fits(pat, i)
  BY <1>2 DEF HeadLen, Fits
<1>4. \A d, ops : Decisive(d, ops, j) = Decisive(d, ops, i)
  BY <1>3 DEF Decisive
<1> QED
  BY <1>2, <1>3, <1>4 DEF Selected, Reported

Starts(a) == a \in DOMAIN text /\ (a = 1 \/ text[a - 1] = NL)

(* The line that starts at a.                                                *)
LEMMA LineFrom ==
  ASSUME NEW a, Starts(a), text \in Seq(Char)
  PROVE  /\ a \in LineOf(a) /\ \A j \in LineOf(a) : j \in Nat /\ j >= a
         /\ Min(LineOf(a)) = a
         /\ \A z \in DOMAIN text : a <= z /\ Clear(a, z - 1) => z \in LineOf(a)
         /\ \A z \in DOMAIN text : a <= z /\ Clear(a, z - 1) /\ text[z] = NL =>
              \A j \in LineOf(a) : j <= z
<1>1. DOMAIN text = 1..Len(text) /\ Len(text) \in Nat /\ a \in Nat /\ a >= 1
  BY LenProperties DEF Starts
<1>2. a \in LineOf(a)
  BY DEF LineOf, Starts
<1>3. ASSUME NEW j \in LineOf(a) PROVE j \in Nat /\ j >= a
  <2>1. j \in 1..Len(text) /\ \A e \in Ends : a <= e <=> j <= e
    BY <1>1 DEF LineOf
  <2>2. CASE a = 1
    BY <2>1, <2>2
  <2>3. CASE a > 1
    <3>1. a - 1 \in Ends
      BY <1>1, <2>3 DEF Starts, Ends
    <3>2. ~(j <= a - 1)
      BY <1>1, <2>1, <3>1
    <3> QED
      BY <1>1, <2>1, <3>2
  <2> QED
    BY <1>1, <2>2, <2>3
<1>4. Min(LineOf(a)) = a
  <2>1. \A x \in LineOf(a) : (\A y \in LineOf(a) : x <= y) => x = a
    BY <1>1, <1>2, <1>3
  <2> QED
    BY <1>1, <1>2, <1>3, <2>1 DEF Min
<1>5. ASSUME NEW z \in DOMAIN text, a <= z, Clear(a, z - 1) PROVE z \in LineOf(a)
  BY <1>1, <1>5 DEF LineOf, Ends, Clear
<1>6. ASSUME NEW z \in DOMAIN text, a <= z, text[z] = NL, NEW j \in LineOf(a) PROVE j <= z
  BY <1>6 DEF LineOf, Ends
<1> QED
  BY <1>2, <1>3, <1>4, <1>5, <1>6

LEMMA IntervalSize == ASSUME NEW i \in Int, NEW n \in Nat PROVE Cardinality(i..i + n - 1) = n
<1>1. \A j \in Int : Cardinality(i..j) = IF i > j THEN 0 ELSE j - i + 1
  BY FS_Interval
<1> QED
  BY <1>1

(* Its head, which is shorter than linemax only if a newline ends it.        *)
LEMMA HeadFrom ==
  ASSUME NEW a, Starts(a), text \in Seq(Char), NEW n \in Nat, n <= LineMax, LineMax \in Nat,
         LineMax >= 1, Clear(a, a + n - 1), a + n - 1 <= Len(text),
         n = LineMax \/ (a + n <= Len(text) /\ text[a + n] = NL)
  PROVE  HeadLen(a) = n
<1>1. DOMAIN text = 1..Len(text) /\ Len(text) \in Nat /\ a \in Nat /\ a >= 1
  BY LenProperties DEF Starts
<1> DEFINE H == {j \in LineOf(a) \ Ends : j < a + LineMax}
<1>2. ASSUME NEW j \in H PROVE j \in a..a + n - 1
  <2>1. j \in LineOf(a) /\ j \in Nat /\ j >= a /\ j < a + LineMax /\ j \notin Ends
    BY LineFrom
  <2>2. CASE n = LineMax
    BY <1>1, <2>1, <2>2
  <2>3. CASE a + n <= Len(text) /\ text[a + n] = NL
    <3>1. a + n \in DOMAIN text /\ a <= a + n /\ a + n \in Ends
      BY <1>1, <2>3 DEF Ends
    <3>2. j <= a + n
      BY <1>1, <2>1, <3>1 DEF LineOf
    <3>3. j # a + n
      BY <2>1, <3>1
    <3> QED
      BY <1>1, <2>1, <3>2, <3>3
  <2> QED
    BY <2>2, <2>3
<1>3. ASSUME NEW j \in a..a + n - 1 PROVE j \in H
  <2>1. j \in DOMAIN text /\ a <= j /\ j < a + LineMax /\ text[j] # NL
    BY <1>1 DEF Clear
  <2>2. Clear(a, j - 1)
    BY <1>1 DEF Clear
  <2>3. j \in LineOf(a)
    BY <2>1, <2>2, LineFrom
  <2> QED
    BY <2>1, <2>3 DEF Ends
<1>4. H = a..a + n - 1
  BY <1>2, <1>3
<1>5. Cardinality(a..a + n - 1) = n
  BY <1>1, IntervalSize
<1> QED
  BY <1>4, <1>5, LineFrom DEF HeadLen

-----------------------------------------------------------------------------
(* The line in the array, and what the patterns find in it.                  *)

LEMMA LineStep == Types /\ PosInv /\ LineInv /\ [Next]_vars => LineInv'
<1> SUFFICES ASSUME Types, PosInv, LineInv, [Next]_vars PROVE LineInv'
  OBVIOUS
<1> USE DEF InLine
<1>1. CASE GetChar
  <2>1. /\ pc = "line" /\ p > 0 /\ pc' \in {"emit", "line"} /\ UNCHANGED <<text, first>>
        /\ linelen' = IF text[Taken + 1] = NL THEN linelen ELSE linelen + 1
        /\ line' = IF text[Taken + 1] = NL THEN line
                     ELSE [line EXCEPT ![linelen + 1] = text[Taken + 1]]
    BY <1>1 DEF GetChar, stdin
  <2>2. /\ linelen < LineMax /\ Taken = first + linelen - 1
        /\ \A k \in 1..linelen : line[k] = text[first + k - 1]
    BY <2>1 DEF PosInv, AtHead, LineInv
  <2>3. line \in [1..LineMax + 1 -> Char \cup {Nul}]
    BY DEF Types, TypeOK
  <2>4. \A k \in 1..linelen' : line'[k] = text[first + k - 1]
    <3>1. CASE text[Taken + 1] = NL
      BY <2>1, <2>2, <3>1
    <3>2. CASE text[Taken + 1] # NL
      <4>1. linelen + 1 \in 1..LineMax + 1 /\ first + (linelen + 1) - 1 = Taken + 1
        BY <2>2, Numbers
      <4>2. line'[linelen + 1] = text[Taken + 1] /\ linelen' = linelen + 1
        BY <2>1, <2>3, <3>2, <4>1
      <4>3. \A k \in 1..linelen : line'[k] = line[k]
        BY <2>1, <2>3, <3>2, <4>1, Numbers
      <4>4. ASSUME NEW k \in 1..linelen' PROVE k \in 1..linelen \/ k = linelen + 1
        BY <4>2, Numbers
      <4> QED
        BY <2>2, <4>1, <4>2, <4>3, <4>4
    <3> QED
      BY <3>1, <3>2
  <2> QED
    BY <2>1, <2>4 DEF LineInv
<1>2. CASE Newline
  <2>1. linelen' = 0
    BY <1>2 DEF Newline
  <2> QED
    BY <2>1 DEF LineInv
<1>3. CASE Refill \/ GetLong \/ LeaveLoop \/ Close \/ Emit
  BY <1>3 DEF Refill, GetLong, LeaveLoop, Close, Emit, stdin, LineInv
<1>4. CASE Pread \/ ReadNothing
  <2>1. /\ pc \in {"pread", "pause"} /\ UNCHANGED <<text, first, line, linelen, caller>>
        /\ pc' \in {"pread", "pause", "died"} \/ pc' = IF caller = "line" THEN "emit" ELSE "newline"
    BY <1>4 DEF Pread, ReadNothing, EndOfInput, stdin
  <2> QED
    BY <2>1 DEF LineInv
<1>5. CASE Read
  <2>1. pc = "pause" /\ pc' = caller /\ UNCHANGED <<text, first, line, linelen, caller>>
    BY <1>5 DEF Read, stdin
  <2> QED
    BY <2>1 DEF LineInv, Types, TypeOK
<1>6. CASE \E sig \in Signals : Handle(sig)
  BY <1>6 DEF Handle, stdin, LineInv
<1>7. CASE Arrive \/ Hangup \/ UNCHANGED vars
  BY <1>7 DEF Arrive, Hangup, vars, LineInv
<1> QED
  BY <1>1, <1>2, <1>3, <1>4, <1>5, <1>6, <1>7 DEF Next, Step

(* What Emit gives out.                                                      *)
LEMMA EmitLine ==
  ASSUME Types, PosInv, LineInv, Emit
  PROVE  /\ Starts(first) /\ HeadLen(first) = linelen
         /\ first + linelen - 1 <= Len(text) /\ Clear(first, first + linelen - 1)
         /\ \A k \in 1..linelen : line[k] = text[first + k - 1]
<1>1. pc = "emit" /\ ~Drained
  BY DEF Emit
<1>2. /\ EmitPos /\ AtStart
      /\ \A k \in 1..linelen : line[k] = text[first + k - 1]
  BY <1>1 DEF PosInv, LineInv
<1>3. first = 1 \/ text[first - 1] = NL
  BY <1>1, <1>2 DEF AtStart, Ended, Drained
<1>4. /\ Clear(first, first + linelen - 1) /\ first + linelen - 1 <= Len(text)
      /\ linelen = LineMax \/ (first + linelen <= Len(text) /\ text[first + linelen] = NL)
      /\ first \in DOMAIN text
  <2>1. CASE AtHead /\ linelen = LineMax
    BY <2>1, Numbers DEF AtHead
  <2>2. CASE AtNewline /\ linelen < LineMax /\ Taken = first + linelen
    BY <2>2, Numbers DEF AtNewline
  <2> QED
    BY <1>1, <1>2, <2>1, <2>2 DEF EmitPos
<1>5. Starts(first)
  BY <1>3, <1>4 DEF Starts
<1> QED
  BY <1>2, <1>4, <1>5, HeadFrom, Numbers

LEMMA EmitMatches ==
  ASSUME MatchedAsDescribed, Types, PosInv, LineInv, Emit,
         NEW d \in Dir, NEW k \in DOMAIN Inst[d]
  PROVE  Matches(Inst[d][k].pat) <=> Fits(Inst[d][k].pat, first)
<1> DEFINE pat == Inst[d][k].pat
           message == SubSeq(line, 1, linelen)
           after == line[linelen + 1]
           S == Char \ {NL}
<1>1. \A i \in 1..linelen : line[i] = text[first + i - 1] /\ line[i] \in S
  <2> SUFFICES ASSUME NEW i \in 1..linelen
               PROVE  line[i] = text[first + i - 1] /\ line[i] \in S
    OBVIOUS
  <2>1. first + i - 1 \in 1..Len(text) /\ first + i - 1 \in first..first + linelen - 1
    BY EmitLine, Numbers
  <2>2. text[first + i - 1] \in Char
    BY <2>1, ElementOfSeq, Numbers
  <2>3. text[first + i - 1] # NL
    BY <2>1, EmitLine DEF Clear
  <2>4. line[i] = text[first + i - 1]
    BY EmitLine
  <2> QED
    BY <2>2, <2>3, <2>4
<1>2. /\ message \in Seq(S) /\ Len(message) = linelen
      /\ \A i \in 1..linelen : message[i] = line[i]
  <2>1. linelen \in Int /\ 1 \in Int
    BY Numbers
  <2>2. /\ message \in Seq(S) /\ Len(message) = IF 1 <= linelen THEN linelen - 1 + 1 ELSE 0
        /\ \A i \in 1..linelen - 1 + 1 : message[i] = line[1 + i - 1]
    <3> HIDE DEF S
    <3> QED
      BY <1>1, <2>1, SubSeqProperties
  <2> QED
    BY <2>1, <2>2, Numbers
<1> HIDE DEF message, S
<1>3. message \in [1..linelen -> S]
  BY <1>2, LenProperties
<1>4. message = [i \in 1..linelen |-> text[first + i - 1]]
  BY <1>1, <1>2, <1>3
<1>5. after \in Char \cup {Nul}
  <2>1. linelen + 1 \in 1..LineMax + 1
    BY Numbers
  <2> QED
    BY <2>1 DEF Types, TypeOK
<1> HIDE DEF after
<1>6. Pmatch(pat, message, after) <=> Described(pat, message)
  <2>1. linelen \in 0..LineMax
    BY DEF Types, TypeOK
  <2>2. message \in UNION {[1..n -> Char \ {NL}] : n \in 0..LineMax}
    BY <1>3, <2>1 DEF S
  <2> HIDE DEF pat
  <2>3. \A mm \in UNION {[1..n -> Char \ {NL}] : n \in 0..LineMax} :
          \A aa \in Char \cup {Nul} : Pmatch(pat, mm, aa) <=> Described(pat, mm)
    BY DEF MatchedAsDescribed, pat
  <2> QED
    BY <1>5, <2>2, <2>3
<1>7. Fits(pat, first) <=> Described(pat, message)
  <2>1. HeadLen(first) = linelen /\ Min(LineOf(first)) = first
    BY EmitLine, LineFrom, Numbers
  <2> QED
    BY <1>4, <2>1 DEF Fits
<1> QED
  BY <1>6, <1>7 DEF Matches, message, after

LEMMA EmitSelects ==
  ASSUME MatchedAsDescribed, Types, PosInv, LineInv, Emit, NEW d \in Dir
  PROVE  /\ LogMatch(d) = "+" <=> Selected(d, first)
         /\ LogMatchErr(d) = "e" <=> Reported(d, first)
<1>1. \A k \in DOMAIN Inst[d] : Matches(Inst[d][k].pat) <=> Fits(Inst[d][k].pat, first)
  BY EmitMatches
<1>2. ASSUME NEW ops PROVE LastMatch(d, ops) = Decisive(d, ops, first)
  <2> DEFINE hits == {k \in DOMAIN Inst[d] : Inst[d][k].op \in ops /\ Matches(Inst[d][k].pat)}
             fit  == {k \in DOMAIN Inst[d] : Inst[d][k].op \in ops
                                              /\ Fits(Inst[d][k].pat, first)}
  <2>1. hits = fit
    BY <1>1
  <2>2. LastMatch(d, ops) = {Inst[d][k].op : k \in {k \in hits : \A l \in hits : l <= k}}
    BY DEF LastMatch
  <2>3. Decisive(d, ops, first) = {Inst[d][k].op : k \in {k \in fit : \A l \in fit : l <= k}}
    BY DEF Decisive
  <2> HIDE DEF hits, fit
  <2> QED
    BY <2>1, <2>2, <2>3
<1> QED
  BY <1>2 DEF LogMatch, LogMatchErr, Selected, Reported

LEMMA InitOut == Init => OrderInv /\ LineInv /\ MatchInv /\ WholeInv /\ LostInv /\ HeadsInv
<1> SUFFICES ASSUME Init
             PROVE  OrderInv /\ LineInv /\ MatchInv /\ WholeInv /\ LostInv /\ HeadsInv
  OBVIOUS
<1>1. ~Working
  BY DEF Init, Working, InLong
<1>2. \A d \in Dir : Output(d) = <<>> /\ err[d] = <<>>
  <2>1. <<>> \o <<>> = <<>>
    BY EmptySeq, ConcatEmptySeq
  <2> QED
    BY <2>1 DEF Init, Output
<1>3. DOMAIN <<>> = {} /\ Len(<<>>) = 0
  OBVIOUS
<1>4. first = 1 /\ linelen = 0 /\ text \in Seq(Char)
  BY SvlogdAssumption DEF Init
<1>5. OrderInv
  BY <1>1, <1>2, <1>3 DEF OrderInv, Ordered, Within
<1>6. LineInv
  BY <1>4 DEF LineInv
<1>7. MatchInv
  BY <1>1 DEF Init, MatchInv
<1>8. WholeInv
  BY <1>1, <1>2, <1>3 DEF WholeInv, WholeUpto
<1>9. LostInv
  <2>1. 1..GivenOut = {}
    BY <1>1, <1>4 DEF GivenOut
  <2> QED
    BY <2>1 DEF LostInv
<1>10. HeadsInv
  <2>1. BegunIn(text, first) = {}
    BY <1>4 DEF BegunIn
  <2> QED
    BY <1>1, <1>2, <1>3, <2>1 DEF HeadsInv, HeadsIn
<1> QED
  BY <1>5, <1>6, <1>7, <1>8, <1>9, <1>10

(* A directory that Emit selects is to have the line, and the other way      *)
(* round.                                                                    *)
LEMMA EmitChooses ==
  ASSUME MatchedAsDescribed, Types, PosInv, LineInv, MatchInv, Emit, NEW d \in open
  PROVE  /\ match'[d] = "+" <=> SelectedIn(text, d, first)
         /\ d \in Dir /\ (Inst[d] = <<>> => match'[d] = "+")
<1>1. d \in Dir /\ match \in [Dir -> {"+", "-"}]
  BY DEF Types, TypeOK
<1>2. match' = [x \in Dir |-> IF x \in open /\ Inst[x] # <<>> THEN LogMatch(x) ELSE match[x]]
  BY DEF Emit
<1>3. CASE Inst[d] = <<>>
  <2>1. match'[d] = "+"
    BY <1>1, <1>2, <1>3 DEF MatchInv
  <2>2. DOMAIN Inst[d] = {}
    BY <1>3
  <2>3. SelectedIn(text, d, first)
    BY <2>2 DEF SelectedIn, DecisiveIn
  <2> QED
    BY <1>1, <2>1, <2>3
<1>4. CASE Inst[d] # <<>>
  BY <1>1, <1>2, <1>4, EmitSelects, InText
<1> QED
  BY <1>3, <1>4

LEMMA MatchStep ==
  ASSUME MatchedAsDescribed, Types, PosInv, LineInv, MatchInv, [Next]_vars
  PROVE  MatchInv'
<1>1. text' = text
  BY SameText
<1>2. CASE Emit
  <2>1. /\ match' = [d \in Dir |-> IF d \in open /\ Inst[d] # <<>> THEN LogMatch(d)
                                                                   ELSE match[d]]
        /\ open' = open
    BY <1>2 DEF Emit
  <2>2. first' = first
    BY <1>2, EmitUpto
  <2>3. \A d \in Dir : Inst[d] = <<>> => match'[d] = "+"
    BY <2>1 DEF MatchInv
  <2>4. \A d \in open : match'[d] = "+" <=> SelectedIn(text, d, first)
    BY <1>2, EmitChooses
  <2> QED
    BY <1>1, <2>1, <2>2, <2>3, <2>4 DEF MatchInv
<1>3. CASE Pread
  <2>1. first' = first /\ (Working' <=> Working)
    BY <1>3, OtherUpto DEF Pread, Emit, GetLong, Newline
  <2>2. CASE UNCHANGED <<open, match, cut>>
    BY <1>1, <2>1, <2>2 DEF MatchInv
  <2>3. CASE Reopen
    <3>1. PICK failing \in SUBSET Flaky :
            /\ open' = Dir \ failing
            /\ match' = [d \in Dir |-> IF d \in failing THEN match[d] ELSE "+"]
            /\ cut' = (cut \/ caller = "long")
      BY <2>3 DEF Reopen
    <3>2. Working => caller = "long"
      BY <1>3 DEF Working, InLong, Pread
    <3>3. \A d \in open' : match'[d] = "+"
      BY <3>1
    <3>4. \A d \in Dir : Inst[d] = <<>> => match'[d] = "+"
      BY <3>1 DEF MatchInv
    <3> QED
      BY <2>1, <3>1, <3>2, <3>3, <3>4 DEF MatchInv
  <2> QED
    BY <1>3, <2>2, <2>3 DEF Pread
<1>4. CASE Newline
  BY <1>4, NewlineUpto DEF Newline, MatchInv
<1>5. CASE GetLong
  <2>1. first' = first /\ Working /\ UNCHANGED <<open, match, cut>>
    BY <1>5, LongUpto DEF GetLong, flags
  <2> QED
    BY <1>1, <2>1 DEF MatchInv
<1>6. CASE ~Emit /\ ~Pread /\ ~Newline /\ ~GetLong
  <2>1. UNCHANGED <<open, match, cut>>
    BY <1>6 DEF Next, Step, vars, flags, dirs, Refill, GetChar, Read, ReadNothing, LeaveLoop,
       Close, Arrive, Hangup, Handle
  <2>2. first' = first /\ (Working' <=> Working)
    BY <1>6, OtherUpto
  <2> QED
    BY <1>1, <2>1, <2>2 DEF MatchInv
<1> QED
  BY <1>2, <1>3, <1>4, <1>5, <1>6

(* The line given out, when a further character of it is taken and when it   *)
(* is over.                                                                  *)
LEMMA LongLine ==
  ASSUME Types, PosInv, GetLong, NEW d
  PROVE  /\ SelectedIn(text, d, Taken + 1) <=> SelectedIn(text, d, first)
         /\ first <= Taken + 1
<1>1. Clear(first, Taken) /\ first <= Taken + 1 /\ Taken \in Nat
  <2>1. InLong
    BY DEF GetLong, InLong
  <2> QED
    BY <2>1, Numbers DEF PosInv
<1> QED
  <2> DEFINE j == Taken + 1
  <2>1. first \in Nat /\ j \in Nat /\ first <= j /\ Clear(first, j - 1) /\ text \in Seq(Char)
    BY <1>1, Numbers
  <2> HIDE DEF j
  <2>2. Selected(d, j) <=> Selected(d, first)
    BY <2>1, SameLine
  <2> QED
    BY <2>1, <2>2, InText DEF j

LEMMA NewlineLine ==
  ASSUME Types, PosInv, Newline
  PROVE  /\ first <= Taken
         /\ \A i \in first..Taken :
              /\ LineIn(text, i) = LineIn(text, first)
              /\ \A d : SelectedIn(text, d, i) <=> SelectedIn(text, d, first)
         /\ \A j \in LineIn(text, first) :
              j \in first..Upto \/ (text[Taken] = NL /\ j = Taken) \/ (closed /\ j > arrived)
         /\ \A i \in first..Upto : text[i] # NL
         /\ Starts(first)
<1>1. pc = "newline"
  BY DEF Newline
<1>2. NewlinePos /\ AtStart
  BY <1>1 DEF PosInv
<1>3. first <= Taken /\ Clear(first, Taken - 1) /\ Clear(first, Upto)
  BY <1>1, <1>2, Numbers DEF NewlinePos, AtNewline, Clear, Upto
<1>4. Starts(first)
  BY <1>1, <1>2, <1>3, Numbers DEF AtStart, Starts
<1>5. ASSUME NEW i \in first..Taken
      PROVE  /\ LineIn(text, i) = LineIn(text, first)
             /\ \A d : SelectedIn(text, d, i) <=> SelectedIn(text, d, first)
  <2>1. i \in Nat /\ first \in Nat /\ first <= i /\ text \in Seq(Char)
    BY Numbers
  <2>2. Clear(first, i - 1)
    BY <1>3, <2>1, Numbers DEF Clear
  <2> QED
    BY <2>1, <2>2, SameLine, InText
<1>6. ASSUME NEW j \in LineIn(text, first)
      PROVE  j \in first..Upto \/ (text[Taken] = NL /\ j = Taken) \/ (closed /\ j > arrived)
  <2>1. j \in Nat /\ j >= first
    BY <1>4, LineFrom, InText, Numbers
  <2>2. CASE text[Taken] = NL
    <3>1. Taken \in DOMAIN text
      BY <1>3, Numbers
    <3>2. j <= Taken
      BY <1>3, <1>4, <2>2, <3>1, LineFrom, InText, Numbers
    <3>3. Upto = Taken - 1
      BY <1>1, <2>2 DEF Upto
    <3> QED
      BY <2>1, <2>2, <3>2, <3>3, Numbers
  <2>3. CASE text[Taken] # NL
    <3>1. closed /\ rd = arrived /\ p = 0 /\ Upto = Taken
      BY <1>2, <2>3 DEF NewlinePos, AtNewline, Ended, Upto
    <3>2. Upto = arrived
      BY <3>1, Numbers DEF Taken
    <3> QED
      BY <2>1, <3>1, <3>2, Numbers
  <2> QED
    BY <2>2, <2>3
<1> QED
  BY <1>3, <1>4, <1>5, <1>6, Numbers DEF Clear

LEMMA Hanging ==
  ASSUME Types, [Next]_vars
  PROVE  closed \in BOOLEAN /\ closed' \in BOOLEAN /\ (closed => closed' /\ arrived' = arrived)
<1>1. closed \in BOOLEAN
  BY DEF Types, TypeOK
<1>2. CASE Arrive \/ Hangup
  BY <1>1, <1>2 DEF Arrive, Hangup
<1>3. CASE UNCHANGED <<closed, arrived>>
  BY <1>1, <1>3
<1> QED
  BY <1>2, <1>3 DEF Next, Step, vars, stdin, Refill, GetChar, GetLong, Pread, Read, ReadNothing,
     Emit, LeaveLoop, Newline, Close, Handle

LEMMA StillWhole ==
  ASSUME Types, [Next]_vars, NEW d, NEW o, NEW a, WholeUpto(text, d, o, a, arrived, closed)
  PROVE  WholeUpto(text', d, o, a, arrived', closed')
<1> QED
  BY SameText, Hanging DEF WholeUpto, WholeIn

(* What is put after it are positions of a line to be selected, which is not *)
(* over yet.                                                                 *)
LEMMA WholeUptoMore ==
  ASSUME NEW o \in Positions, NEW s \in Positions, NEW d, NEW a,
         WholeUpto(text, d, o, a, arrived, closed),
         \A k \in DOMAIN s : SelectedIn(text, d, s[k]) /\ ~(s[k] < a)
  PROVE  WholeUpto(text, d, o \o s, a, arrived, closed)
<1> DEFINE w == o \o s
<1> SUFFICES ASSUME NEW k \in DOMAIN w, w[k] # 0
             PROVE  /\ SelectedIn(text, d, w[k])
                    /\ w[k] < a => WholeIn(text, w, w[k], arrived, closed)
  BY DEF WholeUpto
<1>1. /\ DOMAIN w = 1..Len(w) /\ Len(o) \in Nat /\ DOMAIN o = 1..Len(o)
      /\ \A x \in 1..Len(o) : w[x] = o[x]
      /\ \A x \in 1..Len(w) : x > Len(o) => x - Len(o) \in DOMAIN s /\ w[x] = s[x - Len(o)]
  BY Extended DEF Positions
<1>2. \A j : Contains(o, j) => Contains(w, j)
  BY ContainsMore DEF Positions
<1> HIDE DEF w
<1>3. CASE k <= Len(o)
  <2>1. k \in DOMAIN o /\ w[k] = o[k]
    BY <1>1, <1>3
  <2> QED
    BY <1>2, <2>1 DEF WholeUpto, WholeIn
<1>4. CASE k > Len(o)
  BY <1>1, <1>4
<1> QED
  BY <1>1, <1>3, <1>4

LEMMA EmitWhole ==
  ASSUME MatchedAsDescribed, Types, PosInv, LineInv, OrderInv, MatchInv, WholeInv, Emit, ~cut,
         NEW d \in Dir
  PROVE  /\ WholeUpto(text', d, Output(d)', first', arrived', closed')
         /\ IF d \in Selecting(match)' THEN \A j \in first'..Upto' : Contains(Output(d)', j)
                                       ELSE Within(Output(d)', first' - 1)
<1> DEFINE o == Output(d)
           s == [k \in 1..linelen |-> first + k - 1]
<1>1. /\ o \in Positions /\ s \in Positions /\ Len(s) = linelen
      /\ Output(d)' = IF d \in Selecting(match') THEN o \o s ELSE o
  BY OutputIsSeq, EmitOutput
<1>2. /\ text' = text /\ first' = first /\ ~Working /\ Upto' = first + linelen - 1
      /\ UNCHANGED <<open, arrived, closed>>
  BY EmitUpto DEF Emit, stdin
<1>3. Within(o, first - 1) /\ WholeUpto(text, d, o, first, arrived, closed)
  BY <1>2 DEF OrderInv, WholeInv
<1>4. Selecting(match)' = Selecting(match')
  BY <1>2 DEF Selecting
<1>5. CASE d \notin Selecting(match')
  BY <1>1, <1>2, <1>3, <1>4, <1>5
<1>6. CASE d \in Selecting(match')
  <2>1. SelectedIn(text, d, first)
    BY <1>6, EmitChooses DEF Selecting
  <2>2. \A k \in DOMAIN s : s[k] = first + k - 1 /\ k \in 1..linelen
    OBVIOUS
  <2>3. ASSUME NEW k \in DOMAIN s PROVE SelectedIn(text, d, s[k]) /\ ~(s[k] < first)
    <3> DEFINE j == first + k - 1
    <3>1. j \in Nat /\ first \in Nat /\ first <= j /\ text \in Seq(Char) /\ j <= first + linelen - 1
      BY <2>2, Numbers
    <3>2. Clear(first, j - 1)
      BY <3>1, EmitLine, Numbers DEF Clear
    <3> HIDE DEF j
    <3>3. Selected(d, j) <=> Selected(d, first)
      BY <3>1, <3>2, SameLine
    <3> QED
      BY <2>1, <2>2, <3>1, <3>3, InText DEF j
  <2>4. ASSUME NEW j \in first..first + linelen - 1 PROVE Contains(s, j)
    <3>1. j - first + 1 \in 1..Len(s) /\ s[j - first + 1] = j
      BY <1>1, Numbers
    <3> QED
      BY <3>1 DEF Contains
  <2> HIDE DEF s, o
  <2>5. WholeUpto(text, d, o \o s, first, arrived, closed)
    BY <1>1, <1>3, <2>3, WholeUptoMore
  <2>6. \A j \in first..first + linelen - 1 : Contains(o \o s, j)
    BY <1>1, <2>4, ContainsMore DEF Positions
  <2> QED
    BY <1>1, <1>2, <1>4, <1>6, <2>5, <2>6
<1> QED
  BY <1>5, <1>6

LEMMA LongWhole ==
  ASSUME Types, PosInv, MatchInv, WholeInv, GetLong, ~cut, NEW d \in Dir
  PROVE  /\ WholeUpto(text', d, Output(d)', first', arrived', closed')
         /\ IF d \in Selecting(match)' THEN \A j \in first'..Upto' : Contains(Output(d)', j)
                                       ELSE Within(Output(d)', first' - 1)
<1> DEFINE o == Output(d)
           s == <<Taken + 1>>
<1>1. /\ o \in Positions /\ s \in Positions
      /\ Output(d)' = IF d \in Selecting(match) /\ text[Taken + 1] # NL THEN o \o s ELSE o
  BY OutputIsSeq, LongOutput DEF Positions
<1>2. /\ text' = text /\ first' = first /\ Working /\ Upto = Taken
      /\ Upto' = IF text[Taken + 1] = NL THEN Taken ELSE Taken + 1
      /\ UNCHANGED <<open, match, arrived, closed>>
  BY LongUpto DEF GetLong, stdin
<1>3. /\ WholeUpto(text, d, o, first, arrived, closed)
      /\ IF d \in Selecting(match) THEN \A j \in first..Upto : Contains(o, j)
                                   ELSE Within(o, first - 1)
  BY <1>2 DEF WholeInv
<1>4. Selecting(match)' = Selecting(match)
  BY <1>2 DEF Selecting
<1>5. CASE d \notin Selecting(match) \/ text[Taken + 1] = NL
  BY <1>1, <1>2, <1>3, <1>4, <1>5
<1>6. CASE d \in Selecting(match) /\ text[Taken + 1] # NL
  <2>1. SelectedIn(text, d, Taken + 1) /\ ~(Taken + 1 < first)
    <3>1. SelectedIn(text, d, first)
      BY <1>2, <1>6 DEF MatchInv, Selecting
    <3> QED
      BY <3>1, LongLine, Numbers
  <2>2. DOMAIN s = {1} /\ s[1] = Taken + 1 /\ Contains(s, Taken + 1)
    BY DEF Contains
  <2> HIDE DEF s, o
  <2>3. WholeUpto(text, d, o \o s, first, arrived, closed)
    BY <1>1, <1>3, <2>1, <2>2, WholeUptoMore
  <2>4. ASSUME NEW j \in first..Taken + 1 PROVE Contains(o \o s, j)
    <3>1. Contains(o, j) \/ Contains(s, j)
      BY <1>2, <1>3, <1>6, <2>2, Numbers
    <3> QED
      BY <1>1, <3>1, ContainsMore DEF Positions
  <2> QED
    BY <1>1, <1>2, <1>4, <1>6, <2>3, <2>4
<1> QED
  BY <1>5, <1>6

LEMMA NewlineWhole ==
  ASSUME Types, PosInv, OrderInv, MatchInv, WholeInv, Newline, ~cut, NEW d \in Dir
  PROVE  WholeUpto(text', d, Output(d)', first', arrived', closed')
<1> DEFINE o == Output(d)
           nl == IF text[Taken] = NL THEN Taken ELSE 0
           s == <<nl>>
<1>1. /\ o \in Positions /\ s \in Positions
      /\ Output(d)' = IF d \in Selecting(match) THEN o \o s ELSE o
  BY OutputIsSeq, NewlineOutput DEF Positions
<1>2. /\ text' = text /\ first' = Taken + 1 /\ Working
      /\ UNCHANGED <<arrived, closed>>
  BY NewlineUpto DEF Newline, stdin
<1>3. /\ WholeUpto(text, d, o, first, arrived, closed)
      /\ IF d \in Selecting(match) THEN \A j \in first..Upto : Contains(o, j)
                                   ELSE Within(o, first - 1)
      /\ Within(o, Upto) /\ Upto \in Nat /\ Upto <= Taken
  <2>1. Upto = IF text[Taken] = NL THEN Taken - 1 ELSE Taken
    BY NewlineUpto
  <2>2. first <= Taken
    BY NewlineLine
  <2> QED
    BY <1>2, <2>1, <2>2, Numbers DEF WholeInv, OrderInv
<1>4. \A k \in DOMAIN o : o[k] \in Nat
  BY <1>1, ElementOfSeq, LenProperties DEF Positions
<1>5. CASE d \notin Selecting(match)
  <2>1. \A k \in DOMAIN o : o[k] < first
    BY <1>3, <1>4, <1>5, Numbers DEF Within
  <2>2. WholeUpto(text, d, o, Taken + 1, arrived, closed)
    BY <1>3, <2>1 DEF WholeUpto
  <2> QED
    BY <1>1, <1>2, <1>5, <2>2
<1>6. CASE d \in Selecting(match)
  <2>1. SelectedIn(text, d, first)
    BY <1>2, <1>6 DEF MatchInv, Selecting
  <2>2. DOMAIN s = {1} /\ s[1] = nl /\ Contains(s, nl)
    BY DEF Contains
  <2> HIDE DEF s, o
  <2>3. \A j : Contains(o \o s, j) <=> Contains(o, j) \/ Contains(s, j)
    BY <1>1, ContainsMore DEF Positions
  <2>4. WholeIn(text, o \o s, first, arrived, closed)
    <3> SUFFICES ASSUME NEW j \in LineIn(text, first)
                 PROVE  Contains(o \o s, j) \/ (closed /\ j > arrived)
      BY DEF WholeIn
    <3>1. CASE j \in first..Upto
      BY <1>3, <1>6, <2>3, <3>1
    <3>2. CASE text[Taken] = NL /\ j = Taken
      BY <2>2, <2>3, <3>2
    <3> QED
      BY <3>1, <3>2, NewlineLine
  <2>5. ASSUME NEW i \in first..Taken
        PROVE  SelectedIn(text, d, i) /\ WholeIn(text, o \o s, i, arrived, closed)
    BY <2>1, <2>4, NewlineLine DEF WholeIn
  <2>6. WholeUpto(text, d, o \o s, Taken + 1, arrived, closed)
    <3> SUFFICES ASSUME NEW k \in DOMAIN (o \o s), (o \o s)[k] # 0
                 PROVE  /\ SelectedIn(text, d, (o \o s)[k])
                        /\ WholeIn(text, o \o s, (o \o s)[k], arrived, closed)
      BY DEF WholeUpto
    <3> DEFINE w == o \o s
    <3>1. /\ DOMAIN w = 1..Len(o) + Len(s) /\ Len(o) \in Nat /\ Len(s) = 1
          /\ DOMAIN o = 1..Len(o)
          /\ k <= Len(o) => w[k] = o[k]
          /\ k > Len(o) => w[k] = nl
      <4>1. /\ DOMAIN w = 1..Len(w) /\ Len(w) = Len(o) + Len(s) /\ Len(o) \in Nat
            /\ DOMAIN o = 1..Len(o)
            /\ \A x \in 1..Len(o) : w[x] = o[x]
            /\ \A x \in 1..Len(w) : x > Len(o) => w[x] = s[x - Len(o)]
        BY <1>1, Extended DEF Positions
      <4>2. Len(s) = 1
        BY DEF s
      <4>3. k \in DOMAIN w
        OBVIOUS
      <4> HIDE DEF w
      <4> QED
        BY <2>2, <4>1, <4>2, <4>3
    <3>2. CASE k <= Len(o)
      <4>1. k \in DOMAIN o /\ w[k] = o[k] /\ o[k] \in Nat /\ o[k] <= Taken
        BY <1>3, <1>4, <3>1, <3>2, Numbers DEF Within
      <4>2. CASE o[k] < first
        <5>1. SelectedIn(text, d, o[k]) /\ WholeIn(text, o, o[k], arrived, closed)
          BY <1>3, <4>1, <4>2 DEF WholeUpto
        <5> QED
          BY <2>3, <4>1, <5>1 DEF WholeIn
      <4>3. CASE o[k] >= first
        <5>1. o[k] \in first..Taken
          BY <4>1, <4>3, Numbers
        <5> QED
          BY <2>5, <4>1, <5>1
      <4> QED
        BY <4>1, <4>2, <4>3, Numbers
    <3>3. CASE k > Len(o)
      <4>1. w[k] = Taken
        BY <3>1, <3>3
      <4>2. Taken \in first..Taken
        BY NewlineLine, Numbers
      <4> QED
        BY <2>5, <4>1, <4>2
    <3> QED
      BY <3>1, <3>2, <3>3
  <2> QED
    BY <1>1, <1>2, <1>6, <2>6
<1> QED
  BY <1>5, <1>6

LEMMA WholeStep ==
  ASSUME MatchedAsDescribed, Types, PosInv, LineInv, OrderInv, MatchInv, WholeInv, [Next]_vars
  PROVE  WholeInv'
<1> SUFFICES ASSUME ~cut', NEW d \in Dir
             PROVE  /\ WholeUpto(text', d, Output(d)', first', arrived', closed')
                    /\ Working' =>
                         IF d \in Selecting(match)'
                           THEN \A j \in first'..Upto' : Contains(Output(d)', j)
                           ELSE Within(Output(d)', first' - 1)
  BY DEF WholeInv, Within
<1>1. ~cut
  BY DEF Next, Step, vars, flags, Refill, GetChar, GetLong, Pread, Reopen, Read, ReadNothing,
     Emit, LeaveLoop, Newline, Close, Arrive, Hangup, Handle
<1>2. CASE Emit
  BY <1>1, <1>2, EmitWhole
<1>3. CASE GetLong
  BY <1>1, <1>3, LongWhole
<1>4. CASE Newline
  BY <1>1, <1>4, NewlineWhole, NewlineUpto
<1>5. CASE ~Emit /\ ~GetLong /\ ~Newline
  <2>1. /\ Output(d)' = Output(d) /\ first' = first /\ (Working' <=> Working)
        /\ Working' => Upto' = Upto
    BY <1>5, OtherOutput, OtherUpto
  <2>2. WholeUpto(text', d, Output(d), first, arrived', closed')
    BY <1>1, StillWhole DEF WholeInv
  <2>3. Working => UNCHANGED <<open, match>>
    <3>1. CASE Pread
      <4>1. ~cut' /\ Reopen => caller = "line"
        BY DEF Reopen, Types, TypeOK
      <4>2. Working => caller = "long"
        BY <3>1 DEF Working, InLong, Pread
      <4> QED
        BY <3>1, <4>1, <4>2 DEF Pread
    <3> QED
      BY <1>5, <3>1 DEF Next, Step, vars, flags, dirs, Refill, GetChar, Read, ReadNothing, LeaveLoop,
         Close, Arrive, Hangup, Handle
  <2>4. Working => Selecting(match)' = Selecting(match)
    BY <2>3 DEF Selecting
  <2> QED
    BY <1>1, <2>1, <2>2, <2>4 DEF WholeInv
<1> QED
  BY <1>2, <1>3, <1>4, <1>5

(* No step takes anything back.                                              *)
LEMMA OutputGrows ==
  ASSUME Types, PosInv, [Next]_vars, NEW d \in Dir, NEW j, Contains(Output(d), j)
  PROVE  Contains(Output(d)', j)
<1>1. Output(d) \in Positions
  BY OutputIsSeq
<1>2. ASSUME NEW s \in Positions PROVE Contains(Output(d) \o s, j)
  BY <1>1, ContainsMore DEF Positions
<1>3. CASE Emit
  <2> DEFINE s == [k \in 1..linelen |-> first + k - 1]
  <2>1. /\ s \in Positions
        /\ Output(d)' = IF d \in Selecting(match') THEN Output(d) \o s ELSE Output(d)
    BY <1>3, EmitOutput
  <2> QED
    BY <1>2, <2>1
<1>4. CASE GetLong
  <2>1. <<Taken + 1>> \in Positions
    BY <1>4, LongOutput DEF Positions
  <2> QED
    BY <1>2, <1>4, <2>1, LongOutput
<1>5. CASE Newline
  <2> DEFINE nl == IF text[Taken] = NL THEN Taken ELSE 0
  <2>1. /\ nl \in 0..Len(text)
        /\ Output(d)' = IF d \in Selecting(match) THEN Output(d) \o <<nl>> ELSE Output(d)
    BY <1>5, NewlineOutput
  <2> HIDE DEF nl
  <2>2. <<nl>> \in Positions
    BY <2>1 DEF Positions
  <2> QED
    BY <1>2, <2>1, <2>2
<1>6. CASE ~Emit /\ ~GetLong /\ ~Newline
  BY <1>6, OtherOutput
<1> QED
  BY <1>3, <1>4, <1>5, <1>6

LEMMA GivenOutNumbers == Types /\ PosInv => GivenOut \in Int
<1> SUFFICES ASSUME Types, PosInv PROVE GivenOut \in Int
  OBVIOUS
<1>1. Upto \in Int
  BY Numbers DEF Upto
<1> QED
  BY <1>1, Numbers DEF GivenOut

LEMMA LostStep ==
  ASSUME MatchedAsDescribed, Types, PosInv, LineInv, MatchInv, LostInv, [Next]_vars
  PROVE  LostInv'
<1> SUFFICES ASSUME NEW d \in Dir \ Flaky, NEW e \in 1..GivenOut',
                    SelectedIn(text, d, e)
             PROVE  Contains(Output(d)', e)
  BY SameText DEF LostInv
<1> DEFINE o == Output(d)
<1>1. d \in Dir /\ o \in Positions /\ GivenOut \in Int /\ e \in Int /\ e >= 1 /\ d \in open
  BY OutputIsSeq, GivenOutNumbers DEF MatchInv
<1>2. CASE e <= GivenOut
  BY <1>1, <1>2, OutputGrows DEF LostInv
<1>3. CASE Emit /\ e > GivenOut
  <2> DEFINE s == [k \in 1..linelen |-> first + k - 1]
  <2>1. /\ s \in Positions /\ Len(s) = linelen
        /\ Output(d)' = IF d \in Selecting(match') THEN o \o s ELSE o
    BY <1>1, <1>3, EmitOutput
  <2>2. e \in Nat /\ first <= e /\ e <= first + linelen - 1
    BY <1>1, <1>3, EmitUpto, Numbers DEF GivenOut
  <2>3. Clear(first, e - 1)
    BY <1>3, <2>2, EmitLine, Numbers DEF Clear
  <2>4. Selected(d, e) <=> Selected(d, first)
    BY <2>2, <2>3, SameLine, Numbers
  <2>5. match'[d] = "+"
    BY <1>1, <1>3, <2>4, EmitChooses, InText
  <2>6. open' = open
    BY <1>3 DEF Emit
  <2>7. d \in Selecting(match')
    BY <1>1, <2>5, <2>6 DEF Selecting
  <2>8. e - first + 1 \in 1..linelen /\ s[e - first + 1] = e
    BY <2>2, Numbers
  <2>9. Contains(s, e)
    BY <2>1, <2>8 DEF Contains
  <2> HIDE DEF s, o
  <2> QED
    BY <1>1, <2>1, <2>7, <2>9, ContainsMore DEF Positions
<1>4. CASE GetLong /\ e > GivenOut
  <2>1. e = Taken + 1 /\ text[Taken + 1] # NL /\ Working
    BY <1>1, <1>4, LongUpto, Numbers DEF GivenOut
  <2>2. SelectedIn(text, d, first)
    BY <1>4, <2>1, LongLine
  <2>3. d \in Selecting(match)
    BY <1>1, <2>1, <2>2 DEF MatchInv, Selecting
  <2>4. Taken + 1 \in 1..Len(text) /\ Output(d)' = o \o <<Taken + 1>>
    BY <1>1, <1>4, <2>1, <2>3, LongOutput
  <2> DEFINE s == <<Taken + 1>>
  <2>5. s \in Positions /\ Contains(s, Taken + 1)
    BY <2>4 DEF Positions, Contains
  <2>6. s \in Positions /\ Contains(s, e) /\ Output(d)' = o \o s
    BY <2>1, <2>4, <2>5
  <2> HIDE DEF o, s
  <2> QED
    BY <1>1, <2>6, ContainsMore DEF Positions
<1>5. CASE Newline /\ e > GivenOut
  <2>1. e = Taken /\ text[Taken] = NL /\ Working /\ first <= Taken
    BY <1>1, <1>5, NewlineUpto, NewlineLine, Numbers DEF GivenOut
  <2>2. SelectedIn(text, d, first)
    BY <1>5, <2>1, NewlineLine, Numbers
  <2>3. d \in Selecting(match)
    BY <1>1, <2>1, <2>2 DEF MatchInv, Selecting
  <2>4. Output(d)' = o \o <<Taken>>
    BY <1>1, <1>5, <2>1, <2>3, NewlineOutput
  <2>5. <<Taken>> \in Positions /\ Contains(<<Taken>>, Taken)
    BY <2>1, Numbers DEF Positions, Contains
  <2> HIDE DEF o
  <2> QED
    BY <1>1, <2>1, <2>4, <2>5, ContainsMore DEF Positions
<1>6. CASE ~Emit /\ ~GetLong /\ ~Newline
  BY <1>1, <1>2, <1>6, OtherUpto DEF GivenOut
<1> QED
  BY <1>1, <1>2, <1>3, <1>4, <1>5, <1>6

(* What is on standard error grows by heads of lines only.                   *)
LEMMA HeadsMore ==
  ASSUME NEW S, NEW heads \in Seq(S), NEW h \in S, NEW t, NEW d, NEW a,
         HeadsIn(t, d, heads, a), ReportedIn(t, d, h.from), h.len = HeadLenIn(t, h.from),
         \A k \in DOMAIN heads : heads[k].from < h.from
  PROVE  /\ HeadsIn(t, d, Append(heads, h), a)
         /\ \A k \in DOMAIN Append(heads, h) :
              (k \in DOMAIN heads /\ Append(heads, h)[k] = heads[k]) \/ Append(heads, h)[k] = h
         /\ \E k \in DOMAIN Append(heads, h) : Append(heads, h)[k] = h
<1> DEFINE w == Append(heads, h)
           n == Len(heads)
<1>1. /\ n \in Nat /\ DOMAIN heads = 1..n /\ DOMAIN w = 1..n + 1 /\ Len(w) = n + 1
      /\ \A k \in 1..n : w[k] = heads[k]
      /\ w[n + 1] = h
  BY AppendProperties, LenProperties
<1> HIDE DEF w, n
<1>2. \A k \in 1..Len(w) - 1 : w[k].from < w[k + 1].from
  <2> SUFFICES ASSUME NEW k \in 1..n PROVE w[k].from < w[k + 1].from
    BY <1>1
  <2>1. CASE k = n
    BY <1>1, <2>1
  <2>2. CASE k < n
    <3>1. k \in 1..Len(heads) - 1 /\ k + 1 \in 1..n /\ k \in 1..n
      BY <1>1, <2>2 DEF n
    <3> QED
      BY <1>1, <3>1 DEF HeadsIn
  <2> QED
    BY <1>1, <2>1, <2>2
<1>3. \A k \in DOMAIN w : (k \in DOMAIN heads /\ w[k] = heads[k]) \/ w[k] = h
  BY <1>1
<1>4. n + 1 \in DOMAIN w /\ \A k \in DOMAIN heads : k \in DOMAIN w /\ w[k] = heads[k]
  BY <1>1
<1>5. \A k \in DOMAIN w : ReportedIn(t, d, w[k].from) /\ w[k].len = HeadLenIn(t, w[k].from)
  BY <1>3 DEF HeadsIn
<1>6. d \notin Flaky => \A i \in BegunIn(t, a) :
        ReportedIn(t, d, i) => \E k \in DOMAIN w : w[k].from = i
  BY <1>4 DEF HeadsIn
<1>7. HeadsIn(t, d, w, a)
  BY <1>2, <1>5, <1>6 DEF HeadsIn
<1> QED
  BY <1>1, <1>3, <1>4, <1>7 DEF w

LEMMA HeadsStep ==
  ASSUME MatchedAsDescribed, Types, PosInv, LineInv, MatchInv, HeadsInv, [Next]_vars
  PROVE  HeadsInv'
<1> SUFFICES ASSUME NEW d \in Dir
             PROVE  /\ HeadsIn(text, d, err'[d], first')
                    /\ \A k \in DOMAIN err'[d] :
                         err'[d][k].from <= IF Working' THEN first' ELSE first' - 1
                    /\ Working' /\ d \notin Flaky /\ ReportedIn(text, d, first') =>
                         \E k \in DOMAIN err'[d] : err'[d][k].from = first'
  BY SameText DEF HeadsInv
<1> DEFINE S == [from : 1..Len(text) + 1, len : 0..LineMax]
<1>1. /\ err \in [Dir -> Seq(S)] /\ err[d] \in Seq(S)
      /\ \A k \in DOMAIN err[d] : err[d][k].from \in Nat
  <2>1. err \in [Dir -> Seq(S)] /\ err[d] \in Seq(S)
    BY DEF Types, TypeOK
  <2>2. \A h \in S : h.from \in Nat
    <3>1. \A x \in 1..Len(text) + 1 : x \in Nat
      BY Numbers
    <3> QED
      BY <3>1
  <2> HIDE DEF S
  <2>3. \A k \in DOMAIN err[d] : err[d][k] \in S
    BY <2>1, ElementOfSeq, LenProperties
  <2> QED
    BY <2>1, <2>2, <2>3
<1>2. first \in Nat /\ Taken \in Nat
  BY Numbers
<1>3. CASE Emit
  <2> DEFINE h == [from |-> first, len |-> linelen]
  <2>1. /\ err' = [x \in Dir |-> IF x \in open /\ LogMatchErr(x) = "e" THEN Append(err[x], h)
                                                                        ELSE err[x]]
        /\ first' = first /\ Working' /\ ~Working
    BY <1>3, EmitUpto DEF Emit
  <2>2. LogMatchErr(d) = "e" <=> ReportedIn(text, d, first)
    BY <1>3, EmitSelects, InText
  <2>3. /\ HeadsIn(text, d, err[d], first)
        /\ \A k \in DOMAIN err[d] : err[d][k].from < first
    <3>1. /\ HeadsIn(text, d, err[d], first)
          /\ \A k \in DOMAIN err[d] : err[d][k].from <= first - 1
      BY <2>1 DEF HeadsInv
    <3>2. ASSUME NEW k \in DOMAIN err[d] PROVE err[d][k].from < first
      <4>1. err[d][k].from \in Nat /\ err[d][k].from <= first - 1
        BY <1>1, <3>1
      <4> QED
        BY <1>2, <4>1
    <3> QED
      BY <3>1, <3>2
  <2>4. CASE d \in open /\ LogMatchErr(d) = "e"
    <3>1. /\ h \in S /\ h.from = first /\ h.len = HeadLenIn(text, first)
          /\ ReportedIn(text, d, first)
      BY <1>3, <2>2, <2>4, EmitLine, InText DEF Types, TypeOK
    <3>2. err'[d] = Append(err[d], h)
      BY <2>1, <2>4
    <3> HIDE DEF S, h
    <3>3. /\ ReportedIn(text, d, h.from) /\ h.len = HeadLenIn(text, h.from)
          /\ \A k \in DOMAIN err[d] : err[d][k].from < h.from
      BY <2>3, <3>1
    <3> DEFINE w == Append(err[d], h)
    <3>4. /\ HeadsIn(text, d, w, first)
          /\ \A k \in DOMAIN w : (k \in DOMAIN err[d] /\ w[k] = err[d][k]) \/ w[k] = h
          /\ \E k \in DOMAIN w : w[k] = h
      BY <1>1, <2>3, <3>1, <3>3, HeadsMore
    <3>5. ASSUME NEW k \in DOMAIN w PROVE w[k].from <= first
      <4>1. CASE k \in DOMAIN err[d] /\ w[k] = err[d][k]
        <5>1. w[k].from \in Nat /\ w[k].from < first
          BY <1>1, <2>3, <4>1
        <5> QED
          BY <1>2, <5>1
      <4>2. CASE w[k] = h
        BY <1>2, <3>1, <4>2
      <4> QED
        BY <3>4, <4>1, <4>2
    <3>6. w = err'[d]
      BY <3>2
    <3> HIDE DEF w
    <3> QED
      BY <2>1, <3>1, <3>4, <3>5, <3>6
  <2>5. CASE ~(d \in open /\ LogMatchErr(d) = "e")
    <3>1. err'[d] = err[d] /\ (d \notin Flaky => ~ReportedIn(text, d, first))
      BY <2>1, <2>2, <2>5 DEF MatchInv
    <3>2. \A k \in DOMAIN err[d] : err[d][k].from <= first
      <4>1. ASSUME NEW k \in DOMAIN err[d] PROVE err[d][k].from <= first
        <5>1. err[d][k].from \in Nat /\ err[d][k].from < first
          BY <1>1, <2>3
        <5> QED
          BY <1>2, <5>1
      <4> QED
        BY <4>1
    <3> QED
      BY <2>1, <2>3, <3>1, <3>2
  <2> QED
    BY <2>4, <2>5
<1>4. CASE Newline
  <2>1. err' = err /\ first' = Taken + 1 /\ Working /\ ~Working' /\ first <= Taken
    BY <1>4, NewlineUpto, NewlineLine DEF Newline
  <2>2. \A k \in DOMAIN err[d] : err[d][k].from <= Taken + 1 - 1
    <3>1. ASSUME NEW k \in DOMAIN err[d] PROVE err[d][k].from <= Taken + 1 - 1
      <4>1. err[d][k].from \in Nat /\ err[d][k].from <= first
        BY <1>1, <2>1 DEF HeadsInv
      <4> QED
        BY <1>2, <2>1, <4>1
    <3> QED
      BY <3>1
  <2>3. ASSUME NEW i \in BegunIn(text, Taken + 1) PROVE i \in BegunIn(text, first) \/ i = first
    <3>1. i \in 1..Taken /\ (i = 1 \/ (i - 1 \in EndsIn(text)))
      BY Numbers DEF BegunIn
    <3>2. CASE i < first
      BY <3>1, <3>2, Numbers DEF BegunIn
    <3>3. CASE i > first
      <4>1. i - 1 \in first..Upto
        BY <1>4, <3>1, <3>3, NewlineUpto, Numbers
      <4>2. text[i - 1] # NL
        BY <1>4, <4>1, NewlineLine
      <4> QED
        BY <3>1, <3>3, <4>2, Numbers DEF EndsIn
    <3> QED
      BY <3>1, <3>2, <3>3, Numbers
  <2>4. HeadsIn(text, d, err[d], Taken + 1)
    BY <2>1, <2>3 DEF HeadsInv, HeadsIn
  <2>5. HeadsIn(text, d, err'[d], first')
    BY <2>1, <2>4
  <2>6. \A k \in DOMAIN err'[d] : err'[d][k].from <= IF Working' THEN first' ELSE first' - 1
    <3>1. (IF Working' THEN first' ELSE first' - 1) = Taken + 1 - 1
      <4>1. first' - 1 = Taken + 1 - 1
        BY <1>2, <2>1
      <4>2. (IF Working' THEN first' ELSE first' - 1) = first' - 1
        BY <2>1, Zenon
      <4> QED
        BY <4>1, <4>2, Zenon
    <3>2. \A k \in DOMAIN err'[d] : err'[d][k].from <= Taken + 1 - 1
      BY <2>1, <2>2
    <3> QED
      BY <3>1, <3>2
  <2> HIDE DEF S
  <2> QED
    BY <2>1, <2>5, <2>6
<1>5. CASE ~Emit /\ ~Newline
  <2>1. err' = err
    BY <1>5 DEF Next, Step, vars, dirs, Refill, GetChar, GetLong, Pread, Read, ReadNothing,
       LeaveLoop, Close, Arrive, Hangup, Handle
  <2>2. first' = first /\ (Working' <=> Working)
    BY <1>5, LongUpto, OtherUpto
  <2> QED
    BY <2>1, <2>2 DEF HeadsInv
<1> QED
  BY <1>3, <1>4, <1>5

-----------------------------------------------------------------------------
(* What follows.                                                             *)
LEMMA Invariants ==
  ASSUME MatchedAsDescribed
  PROVE  Spec => [](/\ Types /\ PosInv /\ LineInv /\ OrderInv /\ MatchInv
                    /\ WholeInv /\ LostInv /\ HeadsInv)
<1>1. Init => /\ Types /\ PosInv /\ LineInv /\ OrderInv /\ MatchInv
              /\ WholeInv /\ LostInv /\ HeadsInv
  BY InitPos, InitOut
<1>2. /\ Types /\ PosInv /\ LineInv /\ OrderInv /\ MatchInv /\ WholeInv /\ LostInv /\ HeadsInv
      /\ [Next]_vars
      => (/\ Types /\ PosInv /\ LineInv /\ OrderInv /\ MatchInv
          /\ WholeInv /\ LostInv /\ HeadsInv)'
  BY TypesStep, PosStep, LineStep, OrderStep, MatchStep, WholeStep, LostStep, HeadsStep
<1> QED
  BY <1>1, <1>2, PTL DEF Spec

LEMMA WholeFollows == Types /\ OrderInv /\ WholeInv /\ HeadsInv => WholeLines
<1> SUFFICES ASSUME Types, OrderInv, WholeInv, HeadsInv, NEW d \in Dir
             PROVE  /\ HeadsReported(d)
                    /\ ~cut => LET o == Output(d) IN
                         /\ \A k, l \in DOMAIN o : k < l /\ o[l] # 0 => o[k] < o[l]
                         /\ \A k \in DOMAIN o : o[k] # 0 =>
                              /\ Selected(d, o[k])
                              /\ o[k] >= first
                                   \/ \A j \in LineOf(o[k]) : j > arrived \/ Contains(o, j)
  BY DEF WholeLines
<1>1. HeadsReported(d)
  BY InText DEF HeadsInv, HeadsIn, HeadsReported
<1>2. ASSUME ~cut, NEW k \in DOMAIN Output(d), Output(d)[k] # 0
      PROVE  /\ Selected(d, Output(d)[k])
             /\ Output(d)[k] >= first
                  \/ \A j \in LineOf(Output(d)[k]) : j > arrived \/ Contains(Output(d), j)
  <2>1. Output(d)[k] \in Nat
    BY OutputIsSeq, ElementOfSeq, LenProperties DEF Positions
  <2>2. /\ SelectedIn(text, d, Output(d)[k])
        /\ Output(d)[k] < first => WholeIn(text, Output(d), Output(d)[k], arrived, closed)
    BY <1>2 DEF WholeInv, WholeUpto
  <2> QED
    BY <2>1, <2>2, InText, Numbers DEF WholeIn
<1> QED
  BY <1>1, <1>2 DEF OrderInv, Ordered

(* Whatever the input, however it comes in pieces and signals with it, each  *)
(* directory gets the lines selected for it, whole, once and in order (until *)
(* a HUP is served within a long line), and standard error the heads of      *)
(* those it is to get.                                                       *)
THEOREM LinesAreWhole == ASSUME MatchedAsDescribed PROVE Spec => []WholeLines
<1> QED
  BY Invariants, WholeFollows, PTL

(* The buffers are empty when the directories are closed, and stay so.       *)
FlushedInv == pc = "gone" => \A d \in Dir : b[d] = <<>>

LEMMA FlushedStep == Types /\ FlushedInv /\ [Next]_vars => FlushedInv'
<1> SUFFICES ASSUME Types, FlushedInv, [Next]_vars, pc' = "gone", NEW d \in Dir
             PROVE  b'[d] = <<>>
  BY DEF FlushedInv
<1>1. CASE Close
  BY <1>1 DEF Close, FlushAll
<1>2. CASE pc = "gone" /\ b' = b
  BY <1>2 DEF FlushedInv
<1>3. Close \/ (pc = "gone" /\ b' = b)
  <2>1. CASE Step
    <3>1. ~(Refill \/ GetChar \/ GetLong \/ Pread \/ Read \/ ReadNothing \/ Emit \/ LeaveLoop
            \/ Newline)
      BY DEF Types, TypeOK, Refill, GetChar, GetLong, Pread, Read, ReadNothing, Emit, LeaveLoop,
         Newline, EndOfInput
    <3> QED
      BY <2>1, <3>1 DEF Step
  <2>2. CASE ~Step
    BY <2>2 DEF Next, vars, dirs, Arrive, Hangup, Handle
  <2> QED
    BY <2>1, <2>2
<1> QED
  BY <1>1, <1>2, <1>3

(* What was taken and not given out are characters of the last line read; at *)
(* the end of the input they are fewer than linemax and no newline.          *)
LEMMA OnlyLastFollows == Types /\ PosInv /\ FlushedInv /\ LostInv => OnlyLastLost
<1> SUFFICES ASSUME Types, PosInv, FlushedInv, LostInv, pc = "gone", NEW j \in Lost
             PROVE  /\ LineOf(j) = LineOf(rd)
                    /\ term \/ (text[rd] # NL /\ rd - Min(LineOf(rd)) + 1 < LineMax)
  BY DEF OnlyLastLost
<1>1. j \in Nat /\ j >= 1 /\ j <= rd
  BY Numbers DEF Lost
<1>2. first <= j
  <2>1. PICK d \in Dir \ Flaky : Selected(d, j) /\ ~Contains(out[d], j)
    BY DEF Lost
  <2>2. Output(d) = out[d]
    <3>1. b[d] = <<>> /\ out[d] \in Seq(0..Len(text))
      BY <2>1 DEF FlushedInv, Types
    <3> QED
      BY <3>1, ConcatEmptySeq DEF Output
  <2>3. GivenOut = first - 1
    BY DEF GivenOut, Working, InLong
  <2>4. j \notin 1..first - 1
    BY <2>1, <2>2, <2>3, InText DEF LostInv
  <2> QED
    BY <1>1, <2>4, Numbers
<1>3. p = 0 /\ Taken = rd /\ exitasap
  BY Numbers DEF PosInv, Taken
<1>4. Clear(first, rd - 1)
  BY <1>1, <1>2, <1>3, Numbers DEF PosInv, AtNewline, Clear
<1>5. Starts(first)
  <2>1. first <= rd /\ rd <= Len(text)
    BY <1>1, <1>2, Numbers
  <2>2. first = 1 \/ text[first - 1] = NL
    BY <2>1, Numbers DEF PosInv, AtStart
  <2> QED
    BY <2>1, <2>2, Numbers DEF Starts
<1>6. LineOf(j) = LineOf(first) /\ LineOf(rd) = LineOf(first)
  <2>1. Clear(first, j - 1)
    BY <1>1, <1>2, <1>4, Numbers DEF Clear
  <2> QED
    BY <1>1, <1>2, <1>4, <2>1, SameLine, Numbers
<1>7. Min(LineOf(rd)) = first
  BY <1>5, <1>6, LineFrom, Numbers
<1>8. ~term => text[rd] # NL /\ rd - first + 1 < LineMax
  BY <1>1, <1>2, <1>3, Numbers DEF PosInv, EndPos, Clear
<1> QED
  BY <1>6, <1>7, <1>8

(* Whatever the input, however it comes in pieces and signals with it, no    *)
(* directory that stays open misses a character read but of the last line,   *)
(* and those only on a TERM, or at the end of an input that ends within a    *)
(* line shorter than linemax.                                                *)
THEOREM OnlyLastIsLost == ASSUME MatchedAsDescribed PROVE Spec => []OnlyLastLost
<1>1. Init => FlushedInv
  BY DEF Init, FlushedInv
<1>2. Types /\ FlushedInv /\ [Next]_vars => FlushedInv'
  BY FlushedStep
<1> QED
  BY <1>1, <1>2, Invariants, OnlyLastFollows, PTL DEF Spec

-----------------------------------------------------------------------------
(* Configurations without a plus. *)

NoPlus == \A d \in Dir : \A k \in DOMAIN Inst[d] :
            \A i \in DOMAIN Inst[d][k].pat : Inst[d][k].pat[i] # "+"

LEMMA NoPlusDescribed == NoPlus => MatchedAsDescribed
<1> SUFFICES ASSUME NoPlus, NEW d \in Dir, NEW k \in DOMAIN Inst[d],
                    NEW n \in 0..LineMax, NEW message \in [1..n -> Char \ {NL}],
                    NEW after \in Char \cup {Nul}
             PROVE  Pmatch(Inst[d][k].pat, message, after)
                      <=> Described(Inst[d][k].pat, message)
  BY DEF MatchedAsDescribed
<1> DEFINE S == Char \ {NL}
           pat == Inst[d][k].pat
<1>1. message \in Seq(S)
  <2>1. n \in Nat
    BY SvlogdAssumption
  <2> HIDE DEF S
  <2>2. message \in [1..n -> S]
    BY DEF S
  <2> QED
    BY <2>1, <2>2, SeqDef
<1>2. IsPattern(pat) /\ \A i \in DOMAIN pat : pat[i] # "+"
  BY SvlogdAssumption DEF NoPlus
<1> HIDE DEF pat, S
<1>3. Pmatch(pat, message, after) <=> Described(pat, message)
  BY <1>1, <1>2, PlainPatternsAreExact
<1> QED
  BY <1>3 DEF pat

(* Without a plus in the patterns of the instructions svlogd does what its   *)
(* manual page says of the lines it is given: each directory gets those      *)
(* selected for it, whole, once and in order (until a HUP is served within a *)
(* long line), and none is lost but the last one read, on a TERM or when it  *)
(* has no end and is shorter than linemax.                                   *)
THEOREM PlainLinesAreKept ==
  ASSUME NoPlus
  PROVE  Spec => [](WholeLines /\ OnlyLastLost)
<1>1. MatchedAsDescribed
  BY NoPlusDescribed
<1>2. Spec => []WholeLines
  BY <1>1, LinesAreWhole
<1>3. Spec => []OnlyLastLost
  BY <1>1, OnlyLastIsLost
<1> QED
  BY <1>2, <1>3, PTL
=============================================================================
