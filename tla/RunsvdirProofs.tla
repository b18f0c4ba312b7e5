--------------------------- MODULE RunsvdirProofs ---------------------------
(***************************************************************************)
(* Proofs about Runsvdir, for all sets of services, directories and pids,  *)
(* any number of entries and any bound on the modification times.          *)
(***************************************************************************)
EXTENDS Runsvdir, SequenceTheorems, TLAPS

-----------------------------------------------------------------------------
(* The list of entries. *)

\* A function on 1..n is a sequence.
LEMMA FunctionSeq ==
  ASSUME NEW S, NEW n \in Nat, NEW f \in [1..n -> S]
  PROVE  f \in Seq(S) /\ Len(f) = n /\ DOMAIN f = 1..n
  BY SeqDef

\* The entries are indexed from 1.
LEMMA Entries ==
  ASSUME TypeOK
  PROVE  /\ Len(sv) \in Nat /\ DOMAIN sv = 1..Len(sv)
         /\ \A j \in 1..Len(sv) : sv[j] \in Entry
         /\ sv \in [1..Len(sv) -> Entry]
  BY LenProperties DEF TypeOK

\* Collect clears the pid of what it has reaped, and nothing else.
LEMMA ClearEntryList ==
  ASSUME TypeOK, NEW p \in Pid
  PROVE  /\ ClearEntry(p) \in Seq(Entry) /\ Len(ClearEntry(p)) = Len(sv)
         /\ \A j \in 1..Len(sv) :
              /\ ClearEntry(p)[j].ino = sv[j].ino
              /\ ClearEntry(p)[j].isgone = sv[j].isgone
              /\ ClearEntry(p)[j].pid = IF sv[j].pid = p THEN 0 ELSE sv[j].pid
<1>1. \A j \in 1..Len(sv) : [sv[j] EXCEPT !.pid = 0] \in Entry
  BY Entries DEF Entry
<1>2. ClearEntry(p) \in [1..Len(sv) -> Entry]
  BY <1>1, Entries DEF ClearEntry
<1>3. \A j \in 1..Len(sv) :
        /\ ClearEntry(p)[j].ino = sv[j].ino
        /\ ClearEntry(p)[j].isgone = sv[j].isgone
        /\ ClearEntry(p)[j].pid = IF sv[j].pid = p THEN 0 ELSE sv[j].pid
  BY Entries DEF ClearEntry, Entry
<1> QED
  BY <1>2, <1>3, Entries, FunctionSeq

\* At the beginning of a scan every entry is taken to be gone.
LEMMA OpendirList ==
  ASSUME TypeOK, Opendir
  PROVE  /\ sv' \in Seq(Entry) /\ Len(sv') = Len(sv)
         /\ \A j \in 1..Len(sv) :
              sv'[j].ino = sv[j].ino /\ sv'[j].pid = sv[j].pid /\ sv'[j].isgone
<1>1. \A j \in 1..Len(sv) : [sv[j] EXCEPT !.isgone = TRUE] \in Entry
  BY Entries DEF Entry
<1>2. sv' \in [1..Len(sv) -> Entry]
  BY <1>1, Entries DEF Opendir
<1>3. \A j \in 1..Len(sv) :
        sv'[j].ino = sv[j].ino /\ sv'[j].pid = sv[j].pid /\ sv'[j].isgone
  BY Entries DEF Opendir, Entry
<1> QED
  BY <1>2, <1>3, Entries, FunctionSeq

\* runsv() gives the entry it is called for a pid that was free, or none.
LEMMA StartRunsvList ==
  ASSUME TypeOK, NEW t \in Seq(Entry), NEW j \in 1..Len(t), StartRunsv(t, j)
  PROVE  /\ sv' \in Seq(Entry) /\ Len(sv') = Len(t)
         /\ \A k \in 1..Len(t) :
              /\ sv'[k].ino = t[k].ino /\ sv'[k].isgone = t[k].isgone
              /\ k # j => sv'[k].pid = t[k].pid
         /\ \/ \E p \in Free :
                 /\ sv'[j].pid = p
                 /\ proc' = [proc EXCEPT ![p] =
                       [st |-> "forked", ino |-> t[j].ino, from |-> cwd,
                        term |-> FALSE]]
                 /\ UNCHANGED missed
            \/ sv' = t /\ UNCHANGED proc /\ missed'
<1>1. CASE \E p \in Free :
             /\ proc' = [proc EXCEPT ![p] = [st |-> "forked", ino |-> t[j].ino,
                                             from |-> cwd, term |-> FALSE]]
             /\ sv' = [t EXCEPT ![j].pid = p]
             /\ UNCHANGED <<errno, missed>>
  <2>1. PICK p \in Free :
          /\ proc' = [proc EXCEPT ![p] = [st |-> "forked", ino |-> t[j].ino,
                                          from |-> cwd, term |-> FALSE]]
          /\ sv' = [t EXCEPT ![j].pid = p]
          /\ UNCHANGED missed
    BY <1>1
  <2> DEFINE e == [t[j] EXCEPT !.pid = p]
  <2>2. t[j] \in Entry
    BY ElementOfSeq
  <2>3. e \in Entry /\ e.pid = p /\ e.ino = t[j].ino /\ e.isgone = t[j].isgone
    BY <2>2 DEF Entry, Free
  <2>4. sv' = [t EXCEPT ![j] = e]
    BY <2>1
  <2> HIDE DEF e
  <2>5. /\ sv' \in Seq(Entry) /\ Len(sv') = Len(t)
        /\ \A k \in 1..Len(t) : sv'[k] = IF k = j THEN e ELSE t[k]
    BY <2>3, <2>4, ExceptSeq
  <2> QED
    BY <2>1, <2>3, <2>5
<1>2. CASE sv' = t /\ UNCHANGED proc /\ missed'
  BY <1>2
<1> QED
  BY <1>1, <1>2 DEF StartRunsv

\* An entry that readdir returns again is not gone, and gets a runsv if it has
\* none.
LEMMA EntryKnownList ==
  ASSUME TypeOK, NEW e \in Service, EntryKnown(e)
  PROVE  /\ sv' \in Seq(Entry) /\ Len(sv') = Len(sv) /\ UNCHANGED check
         /\ \A k \in 1..Len(sv) : sv'[k].ino = sv[k].ino
         /\ \E j \in 1..Len(sv) :
              /\ sv[j].ino = e /\ ~sv'[j].isgone
              /\ \A k \in 1..Len(sv) : k # j =>
                   sv'[k].isgone = sv[k].isgone /\ sv'[k].pid = sv[k].pid
              /\ \/ sv[j].pid # 0 /\ sv'[j].pid = sv[j].pid
                      /\ UNCHANGED <<proc, missed>>
                 \/ \E p \in Free :
                      /\ sv'[j].pid = p
                      /\ proc' = [proc EXCEPT ![p] =
                            [st |-> "forked", ino |-> e, from |-> cwd,
                             term |-> FALSE]]
                      /\ UNCHANGED missed
                 \/ sv'[j].pid = 0 /\ UNCHANGED proc /\ missed'
<1>1. PICK j \in DOMAIN sv :
        LET t == [sv EXCEPT ![j].isgone = FALSE]
        IN /\ sv[j].ino = e
           /\ IF sv[j].pid = 0 THEN StartRunsv(t, j)
              ELSE sv' = t /\ UNCHANGED <<proc, errno, missed>>
           /\ UNCHANGED check
  BY DEF EntryKnown
<1> DEFINE f == [sv[j] EXCEPT !.isgone = FALSE]
           t == [sv EXCEPT ![j].isgone = FALSE]
<1>2. j \in 1..Len(sv) /\ sv[j] \in Entry /\ sv \in Seq(Entry)
  BY <1>1, Entries DEF TypeOK
<1>3. f \in Entry /\ f.pid = sv[j].pid /\ f.ino = e /\ ~f.isgone
  BY <1>1, <1>2 DEF Entry
<1>4. t = [sv EXCEPT ![j] = f]
  OBVIOUS
<1>5. IF sv[j].pid = 0 THEN StartRunsv(t, j)
      ELSE sv' = t /\ UNCHANGED <<proc, errno, missed>>
  BY <1>1
<1> HIDE DEF f, t
<1>6. /\ t \in Seq(Entry) /\ Len(t) = Len(sv)
      /\ \A k \in 1..Len(sv) : t[k] = IF k = j THEN f ELSE sv[k]
  BY <1>2, <1>3, <1>4, ExceptSeq
<1>7. CASE sv[j].pid = 0
  <2>1. /\ sv' \in Seq(Entry) /\ Len(sv') = Len(t)
        /\ \A k \in 1..Len(t) :
             /\ sv'[k].ino = t[k].ino /\ sv'[k].isgone = t[k].isgone
             /\ k # j => sv'[k].pid = t[k].pid
        /\ \/ \E p \in Free :
                /\ sv'[j].pid = p
                /\ proc' = [proc EXCEPT ![p] =
                      [st |-> "forked", ino |-> t[j].ino, from |-> cwd,
                       term |-> FALSE]]
                /\ UNCHANGED missed
           \/ sv' = t /\ UNCHANGED proc /\ missed'
    BY <1>2, <1>6, <1>5, <1>7, StartRunsvList
  <2>2. t[j].ino = e /\ t[j].pid = 0 /\ ~t[j].isgone
    BY <1>2, <1>3, <1>6, <1>7
  <2>3. \A k \in 1..Len(sv) : /\ sv'[k].ino = sv[k].ino
                              /\ k # j => /\ sv'[k].isgone = sv[k].isgone
                                          /\ sv'[k].pid = sv[k].pid
    BY <1>1, <1>6, <2>1, <2>2
  <2>4. \/ \E p \in Free :
             /\ sv'[j].pid = p
             /\ proc' = [proc EXCEPT ![p] = [st |-> "forked", ino |-> e,
                                             from |-> cwd, term |-> FALSE]]
             /\ UNCHANGED missed
        \/ sv'[j].pid = 0 /\ UNCHANGED proc /\ missed'
    BY <2>1, <2>2
  <2>5. sv' \in Seq(Entry) /\ Len(sv') = Len(sv) /\ ~sv'[j].isgone
    BY <1>2, <1>6, <2>1, <2>2
  <2> QED
    BY <1>1, <1>2, <2>3, <2>4, <2>5
<1>8. CASE sv[j].pid # 0
  <2>1. sv' = t /\ UNCHANGED <<proc, missed>>
    BY <1>5, <1>8
  <2> QED
    BY <1>1, <1>2, <1>3, <1>6, <1>8, <2>1
<1> QED
  BY <1>7, <1>8

\* A new entry goes to the end of the list.
LEMMA EntryNewList ==
  ASSUME TypeOK, NEW e \in Service, EntryNew(e)
  PROVE  /\ sv' \in Seq(Entry) /\ Len(sv') = Len(sv) + 1 /\ check'
         /\ Len(sv') <= MAXSERVICES
         /\ \A k \in 1..Len(sv) : /\ sv[k].ino # e
                                  /\ sv'[k].ino = sv[k].ino
                                  /\ sv'[k].isgone = sv[k].isgone
                                  /\ sv'[k].pid = sv[k].pid
         /\ LET j == Len(sv) + 1
            IN /\ sv'[j].ino = e /\ ~sv'[j].isgone
               /\ \/ \E p \in Free :
                       /\ sv'[j].pid = p
                       /\ proc' = [proc EXCEPT ![p] =
                             [st |-> "forked", ino |-> e, from |-> cwd,
                              term |-> FALSE]]
                       /\ UNCHANGED missed
                  \/ sv'[j].pid = 0 /\ UNCHANGED proc /\ missed'
<1> DEFINE f == [ino |-> e, pid |-> 0, isgone |-> FALSE]
           t == Append(sv, f)
           j == Len(sv) + 1
<1>1. f \in Entry /\ f.ino = e /\ f.pid = 0 /\ ~f.isgone
  BY DEF Entry
<1> HIDE DEF f
<1>2. sv \in Seq(Entry) /\ Len(sv) \in Nat
  BY Entries DEF TypeOK
<1>3. /\ t \in Seq(Entry) /\ Len(t) = j /\ t[j] = f
      /\ \A k \in 1..Len(sv) : t[k] = sv[k]
  BY <1>1, <1>2, AppendProperties
<1>4. StartRunsv(t, j) /\ check' /\ Len(sv) < MAXSERVICES
      /\ \A k \in 1..Len(sv) : sv[k].ino # e
  BY Entries DEF EntryNew, Inos, Room, f
<1> HIDE DEF t
<1>5. j \in 1..Len(t) /\ \A k \in 1..Len(sv) : k \in 1..Len(t) /\ k # j
  BY <1>2, <1>3
<1>6. /\ sv' \in Seq(Entry) /\ Len(sv') = Len(t)
      /\ \A k \in 1..Len(t) :
           /\ sv'[k].ino = t[k].ino /\ sv'[k].isgone = t[k].isgone
           /\ k # j => sv'[k].pid = t[k].pid
      /\ \/ \E p \in Free :
              /\ sv'[j].pid = p
              /\ proc' = [proc EXCEPT ![p] =
                    [st |-> "forked", ino |-> t[j].ino, from |-> cwd,
                     term |-> FALSE]]
              /\ UNCHANGED missed
         \/ sv' = t /\ UNCHANGED proc /\ missed'
  BY <1>3, <1>4, <1>5, StartRunsvList
<1>7. Len(sv') <= MAXSERVICES
  BY <1>2, <1>3, <1>4, <1>6, RunsvdirAssumption
<1>8. \/ \E p \in Free :
           /\ sv'[j].pid = p
           /\ proc' = [proc EXCEPT ![p] = [st |-> "forked", ino |-> e,
                                           from |-> cwd, term |-> FALSE]]
           /\ UNCHANGED missed
      \/ sv'[j].pid = 0 /\ UNCHANGED proc /\ missed'
  BY <1>1, <1>3, <1>6
<1> QED
  BY <1>1, <1>3, <1>4, <1>5, <1>6, <1>7, <1>8

\* The sweep moves the last entry to the place of one that is gone.
LEMMA SweepList ==
  ASSUME TypeOK, i \in 1..Len(sv)
  PROVE  LET t == SubSeq([sv EXCEPT ![i] = sv[Len(sv)]], 1, Len(sv) - 1)
         IN /\ t \in Seq(Entry) /\ Len(t) = Len(sv) - 1
            /\ \A k \in 1..Len(sv) - 1 :
                 t[k] = IF k = i THEN sv[Len(sv)] ELSE sv[k]
<1> DEFINE u == [sv EXCEPT ![i] = sv[Len(sv)]]
<1>1. sv \in Seq(Entry) /\ Len(sv) \in Nat /\ Len(sv) \in 1..Len(sv)
      /\ sv[Len(sv)] \in Entry
  BY Entries DEF TypeOK
<1>2. /\ u \in Seq(Entry) /\ Len(u) = Len(sv)
      /\ \A k \in 1..Len(sv) : u[k] = IF k = i THEN sv[Len(sv)] ELSE sv[k]
  BY <1>1, ExceptSeq
<1> HIDE DEF u
<1>3. \A k \in 1..Len(sv) - 1 : u[k] \in Entry
  BY <1>1, <1>2, Entries
<1> DEFINE n == Len(sv) - 1
<1>4. n \in Nat /\ n \in Int /\ 1 \in Int
  BY <1>1
<1> HIDE DEF n
<1>5. /\ SubSeq(u, 1, n) \in Seq(Entry)
      /\ Len(SubSeq(u, 1, n)) = IF 1 <= n THEN n - 1 + 1 ELSE 0
      /\ \A k \in 1..n - 1 + 1 : SubSeq(u, 1, n)[k] = u[1 + k - 1]
  BY <1>3, <1>4, SubSeqProperties DEF n
<1>6. \A k \in 1..n : k \in 1..n - 1 + 1 /\ 1 + k - 1 = k
  BY <1>4
<1>7. Len(SubSeq(u, 1, n)) = n /\ \A k \in 1..n : SubSeq(u, 1, n)[k] = u[k]
  BY <1>4, <1>5, <1>6
<1>8. \A k \in 1..n : k \in 1..Len(sv)
  BY <1>1 DEF n
<1> QED
  BY <1>2, <1>5, <1>7, <1>8 DEF u, n

-----------------------------------------------------------------------------
(* The type invariant, which takes that a scan is always of a directory and  *)
(* that the sweep begins with the first entry.                               *)

Scanning == pc \in {"opendir", "read", "sweep"}

TypeInv ==
  /\ TypeOK
  /\ Scanning => cwd \in Dir
  /\ pc = "sweep" => i # 0

LEMMA InitTypeInv == Init => TypeInv
<1> SUFFICES ASSUME Init PROVE TypeInv
  OBVIOUS
<1>1. sv \in Seq(Entry) /\ Len(sv) <= MAXSERVICES
  BY RunsvdirAssumption DEF Init
<1>2. Reaped \in Child /\ Nothing \in Stat
  BY RunsvdirAssumption DEF Reaped, Child, Nothing, Stat
<1>3. seen \in [dir : Dir \cup {None}, time : 0..MaxTime]
  BY RunsvdirAssumption DEF Init
<1>4. mtime \in [Dir -> 0..MaxTime]
  BY RunsvdirAssumption DEF Init
<1>5. proc \in [Pid -> Child] /\ s \in Stat
  BY <1>2 DEF Init
<1>6. pc = "collect" /\ i \in Nat /\ exitsoon \in 0..2 /\ unread \subseteq Service
  BY DEF Init
<1>7. check \in BOOLEAN /\ errno \in BOOLEAN /\ missed \in BOOLEAN /\ absent \subseteq Service
  BY DEF Init
<1>8. /\ cwd \in Dir \cup {None} /\ current \in Dir \cup {None}
      /\ next \in Dir \cup {None} /\ previous \in Dir \cup {None}
  BY DEF Init
<1>9. content \in [Dir -> SUBSET Service] /\ fresh \in [Dir -> BOOLEAN]
  BY DEF Init
<1> QED
  BY <1>1, <1>3, <1>4, <1>5, <1>6, <1>7, <1>8, <1>9 DEF TypeInv, TypeOK, Scanning

\* Signalling children keeps what they are.
LEMMA TermChildren ==
  ASSUME TypeOK, NEW pids, proc' = Term(pids)
  PROVE  /\ proc' \in [Pid -> Child]
         /\ \A p \in Pid : /\ proc'[p].st = proc[p].st
                           /\ proc'[p].ino = proc[p].ino
                           /\ p \notin pids => proc'[p] = proc[p]
<1>1. \A p \in Pid : proc[p] \in Child
  BY DEF TypeOK
<1>2. \A p \in Pid :
        /\ [proc[p] EXCEPT !.term = TRUE] \in Child
        /\ [proc[p] EXCEPT !.term = TRUE].st = proc[p].st
        /\ [proc[p] EXCEPT !.term = TRUE].ino = proc[p].ino
  BY <1>1 DEF Child
<1> QED
  BY <1>1, <1>2 DEF Term

\* A child that was just forked.
LEMMA ForkedChild ==
  ASSUME TypeInv, Scanning, NEW p \in Pid, NEW e \in Service,
         proc' = [proc EXCEPT ![p] = [st |-> "forked", ino |-> e, from |-> cwd,
                                      term |-> FALSE]]
  PROVE  proc' \in [Pid -> Child]
<1>1. [st |-> "forked", ino |-> e, from |-> cwd, term |-> FALSE] \in Child
  BY DEF TypeInv, Child
<1> QED
  BY <1>1 DEF TypeInv, TypeOK

LEMMA ReaddirType ==
  ASSUME TypeInv, NEW e \in Service, Readdir(e)
  PROVE  TypeInv'
<1> USE DEF TypeInv, main, disk, links
<1>1. unread' \subseteq Service /\ pc = "read" /\ Scanning /\ errno' \in BOOLEAN
  BY DEF Readdir, TypeOK, Scanning, EntryGone, EntryKnown, EntryNew, TooMany,
         StartRunsv
<1>2. /\ sv' \in Seq(Entry) /\ Len(sv') <= MAXSERVICES
      /\ proc' \in [Pid -> Child]
      /\ check' \in BOOLEAN /\ missed' \in BOOLEAN
  <2>1. CASE EntryGone(e)
    BY <2>1 DEF EntryGone, TypeOK
  <2>2. CASE EntryKnown(e)
    <3>1. /\ sv' \in Seq(Entry) /\ Len(sv') = Len(sv) /\ check' = check
          /\ \/ UNCHANGED <<proc, missed>>
             \/ \E p \in Free :
                  /\ proc' = [proc EXCEPT ![p] = [st |-> "forked", ino |-> e,
                                                  from |-> cwd, term |-> FALSE]]
                  /\ UNCHANGED missed
             \/ UNCHANGED proc /\ missed'
      BY <2>2, EntryKnownList
    <3>2. missed' \in BOOLEAN
      BY <2>2 DEF EntryKnown, StartRunsv, TypeOK
    <3> QED
      BY <1>1, <3>1, <3>2, ForkedChild DEF TypeOK, Free
  <2>3. CASE EntryNew(e)
    <3>1. /\ sv' \in Seq(Entry) /\ Len(sv') <= MAXSERVICES
          /\ \/ \E p \in Free :
                  /\ proc' = [proc EXCEPT ![p] = [st |-> "forked", ino |-> e,
                                                  from |-> cwd, term |-> FALSE]]
             \/ UNCHANGED proc
      BY <2>3, EntryNewList
    <3>2. missed' \in BOOLEAN /\ check' \in BOOLEAN
      BY <2>3 DEF EntryNew, StartRunsv, TypeOK
    <3> QED
      BY <1>1, <3>1, <3>2, ForkedChild DEF TypeOK, Free
  <2>4. CASE TooMany(e)
    BY <2>4 DEF TooMany, TypeOK
  <2> QED
    BY <2>1, <2>2, <2>3, <2>4 DEF Readdir
<1>3. UNCHANGED <<pc, i, seen, s, cwd, absent, exitsoon, disk>>
  BY DEF Readdir
<1> QED
  BY <1>1, <1>2, <1>3 DEF TypeOK, Scanning

LEMMA StepType == TypeInv /\ Step => TypeInv'
<1> SUFFICES ASSUME TypeInv, Step PROVE TypeInv'
  OBVIOUS
<1> USE DEF TypeInv, Scanning, main, disk, links
<1>1. ASSUME NEW p \in Pid, Collect(p) PROVE TypeInv'
  <2>1. Reaped \in Child
    BY DEF Reaped, Child
  <2>2. sv' \in Seq(Entry) /\ Len(sv') = Len(sv)
    BY <1>1, ClearEntryList DEF Collect
  <2>3. proc' \in [Pid -> Child] /\ check' \in BOOLEAN
    BY <1>1, <2>1 DEF Collect, GoneCheck, TypeOK
  <2> QED
    BY <1>1, <2>2, <2>3 DEF Collect, TypeOK
<1>2. CASE Collected \/ SkipStat \/ Pause \/ ExitTerm
  BY <1>2 DEF Collected, SkipStat, Pause, ExitTerm, TypeOK
<1>3. CASE DoStat
  <2>1. /\ Nothing \in Stat /\ current \in Dir
        /\ mtime[current] \in 0..MaxTime /\ fresh[current] \in BOOLEAN
    BY <1>3, RunsvdirAssumption DEF DoStat, Stat, Nothing, TypeOK
  <2>2. [dir |-> current, time |-> mtime[current], fresh |-> fresh[current]] \in Stat
    BY <2>1 DEF Stat
  <2>3. s' \in Stat /\ pc' \in {"chdir", "pause"}
    BY <1>3, <2>1, <2>2 DEF DoStat
  <2> QED
    BY <1>3, <2>3 DEF DoStat, TypeOK
<1>4. CASE ChdirFails \/ Chdir
  <2>1. Nothing \in Stat /\ s.dir \in Dir \cup {None} /\ s.time \in 0..MaxTime
    BY RunsvdirAssumption DEF Nothing, Stat, TypeOK
  <2>2. CASE ChdirFails
    BY <2>1, <2>2 DEF ChdirFails, TypeOK
  <2>3. CASE Chdir
    <3>1. /\ seen' \in [dir : Dir \cup {None}, time : 0..MaxTime]
          /\ fresh' \in [Dir -> BOOLEAN]
      BY <2>1, <2>3 DEF Chdir, Sleep, TypeOK
    <3>2. cwd' \in Dir
      BY <2>3 DEF Chdir, TypeOK
    <3> QED
      BY <2>1, <2>3, <3>1, <3>2 DEF Chdir, TypeOK
  <2> QED
    BY <1>4, <2>2, <2>3
<1>5. CASE OpendirFails
  BY <1>5 DEF OpendirFails, TypeOK
<1>6. CASE Opendir
  <2>1. sv' \in Seq(Entry) /\ Len(sv') = Len(sv)
    BY <1>6, OpendirList
  <2>2. unread' \subseteq Service
    BY <1>6 DEF Opendir, TypeOK
  <2> QED
    BY <1>6, <2>1, <2>2 DEF Opendir, TypeOK
<1>7. ASSUME NEW e \in Service, Readdir(e) PROVE TypeInv'
  BY <1>7, ReaddirType
<1>8. CASE ReaddirFails \/ ReaddirEnds \/ SweepEnds
  <2>1. 0 \in Nat /\ 1 \in Nat /\ 0 # 1
    OBVIOUS
  <2>2. CASE ReaddirFails
    BY <2>2 DEF ReaddirFails, TypeOK
  <2>3. CASE ReaddirEnds
    BY <2>1, <2>3 DEF ReaddirEnds, TypeOK
  <2>4. CASE SweepEnds
    BY <2>1, <2>4 DEF SweepEnds, TypeOK
  <2> QED
    BY <1>8, <2>2, <2>3, <2>4
<1>9. CASE Sweep
  <2>1. i \in 1..Len(sv) /\ Len(sv) \in Nat
    BY <1>9, Entries DEF Sweep, TypeOK
  <2>2. proc' \in [Pid -> Child]
    BY <1>9, TermChildren DEF Sweep, TypeOK
  <2>3. sv' \in Seq(Entry) /\ Len(sv') <= MAXSERVICES
    <3>1. CASE sv[i].isgone
      <4>1. sv' = SubSeq([sv EXCEPT ![i] = sv[Len(sv)]], 1, Len(sv) - 1)
        BY <1>9, <3>1 DEF Sweep
      <4> QED
        BY <2>1, <4>1, SweepList, RunsvdirAssumption DEF TypeOK
    <3>2. CASE ~sv[i].isgone
      BY <1>9, <3>2 DEF Sweep, TypeOK
    <3> QED
      BY <3>1, <3>2
  <2>4. check' \in BOOLEAN
    BY <1>9 DEF Sweep, TypeOK
  <2>5. i' \in Nat /\ i' # 0
    BY <1>9, <2>1 DEF Sweep
  <2> QED
    BY <1>9, <2>2, <2>3, <2>4, <2>5 DEF Sweep, TypeOK
<1>10. CASE ExitHangup
  BY <1>10, TermChildren DEF ExitHangup, TypeOK
<1> QED
  BY <1>1, <1>2, <1>3, <1>4, <1>5, <1>6, <1>7, <1>8, <1>9, <1>10 DEF Step

LEMMA EnvironmentType == TypeInv /\ Environment => TypeInv'
<1> SUFFICES ASSUME TypeInv, Environment PROVE TypeInv'
  OBVIOUS
<1> USE DEF TypeInv, Scanning, main, disk, links
<1>1. ASSUME NEW p \in Pid, Exec(p) \/ RunsvExits(p) PROVE TypeInv'
  <2>1. \A st \in {"live", "zombie"} :
          /\ [proc[p] EXCEPT !.st = st] \in Child
          /\ [proc[p] EXCEPT !.st = st, !.from = None] \in Child
    BY DEF TypeOK, Child
  <2>2. proc' \in [Pid -> Child]
    BY <1>1, <2>1 DEF Exec, RunsvExits, TypeOK
  <2> QED
    BY <1>1, <2>2 DEF Exec, RunsvExits, TypeOK
<1>2. ASSUME NEW k \in Signals, Signal(k) PROVE TypeInv'
  BY <1>2, RunsvdirAssumption DEF Signal, TypeOK
<1>3. ASSUME NEW d \in Dir, Touch(d)
      PROVE  mtime' \in [Dir -> 0..MaxTime] /\ fresh' \in [Dir -> BOOLEAN]
  BY <1>3, RunsvdirAssumption DEF Touch, TypeOK
<1>4. ASSUME NEW d \in Dir, NEW e \in Service, Link(d, e) \/ Unlink(d, e)
      PROVE  TypeInv'
  <2>1. mtime' \in [Dir -> 0..MaxTime] /\ fresh' \in [Dir -> BOOLEAN]
    BY <1>3, <1>4 DEF Link, Unlink
  <2>2. content' \in [Dir -> SUBSET Service] /\ unread' \subseteq Service
    BY <1>4 DEF Link, Unlink, TypeOK
  <2> QED
    BY <1>4, <2>1, <2>2 DEF Link, Unlink, TypeOK
<1>5. CASE Tick
  BY <1>5 DEF Tick, TypeOK
<1>6. CASE (\E d \in Dir : MoveAway(d)) \/ MoveIn \/ MoveBack
  BY <1>6 DEF MoveAway, MoveIn, MoveBack, TypeOK
<1> QED
  BY <1>1, <1>2, <1>4, <1>5, <1>6 DEF Environment

LEMMA NextType == TypeInv /\ [Next]_vars => TypeInv'
<1>1. CASE UNCHANGED vars
  BY <1>1 DEF vars, TypeInv, TypeOK, Scanning, main, disk, links
<1> QED
  BY <1>1, StepType, EnvironmentType DEF Next

(* Every variable of runsvdir keeps its type; in particular svnum never      *)
(* passes MAXSERVICES, and the sweep, which moves entries while it counts,   *)
(* never reads past the end of the list.                                     *)
THEOREM TypeCorrect == Spec => []TypeOK
<1>1. Init => TypeInv
  BY InitTypeInv
<1>2. TypeInv /\ [Next]_vars => TypeInv'
  BY NextType
<1>3. TypeInv => TypeOK
  BY DEF TypeInv
<1> QED
  BY <1>1, <1>2, <1>3, PTL DEF Spec

LEMMA TypeInvHolds == Spec => []TypeInv
  BY InitTypeInv, NextType, PTL DEF Spec
-----------------------------------------------------------------------------
(* Each entry is a service of its own and its pid that of a child of its own. *)

Forks(p, e) ==
  proc' = [proc EXCEPT ![p] = [st |-> "forked", ino |-> e, from |-> cwd,
                               term |-> FALSE]]

\* A child that is forked is none of those the entries have.
LEMMA Forked ==
  ASSUME TypeInv, EntriesTrue, NEW p \in Free, NEW e \in Service, Forks(p, e)
  PROVE  /\ p \in Pid /\ p # 0
         /\ proc'[p].st # "free" /\ proc'[p].ino = e
         /\ \A j \in 1..Len(sv) :
              sv[j].pid # 0 => /\ proc'[sv[j].pid].st # "free"
                               /\ proc'[sv[j].pid].ino = sv[j].ino
<1>1. p \in Pid /\ p # 0 /\ proc[p].st = "free" /\ proc \in [Pid -> Child]
  BY RunsvdirAssumption DEF Free, TypeInv, TypeOK
<1>2. \A j \in 1..Len(sv) : sv[j] \in Entry
  BY Entries DEF TypeInv
<1>3. \A j \in 1..Len(sv) :
        sv[j].pid # 0 => /\ sv[j].pid \in Pid /\ sv[j].pid # p
                         /\ proc[sv[j].pid].st # "free"
                         /\ proc[sv[j].pid].ino = sv[j].ino
  BY <1>1, <1>2, Entries DEF EntriesTrue, TypeInv, Entry
<1> QED
  BY <1>1, <1>3 DEF Forks

\* The entries stay true while their services stay, a pid that is not cleared
\* stays or is that of a child for the service.
LEMMA EntriesKept ==
  ASSUME TypeInv, EntriesTrue, sv' \in Seq(Entry), Len(sv') = Len(sv),
         \A k \in 1..Len(sv) : sv'[k].ino = sv[k].ino,
         \A k \in 1..Len(sv) : sv'[k].pid # 0 =>
           proc'[sv'[k].pid].st # "free" /\ proc'[sv'[k].pid].ino = sv[k].ino
  PROVE  EntriesTrue'
<1>1. DOMAIN sv = 1..Len(sv) /\ DOMAIN sv' = 1..Len(sv)
  BY Entries, LenProperties DEF TypeInv
<1> QED
  BY <1>1 DEF EntriesTrue

LEMMA ReaddirEntries ==
  ASSUME TypeInv, EntriesTrue, NEW e \in Service, Readdir(e)
  PROVE  EntriesTrue'
<1>1. TypeOK /\ Len(sv) \in Nat /\ DOMAIN sv = 1..Len(sv)
  BY Entries DEF TypeInv
<1>2. \A k \in 1..Len(sv) : sv[k].pid # 0 => /\ proc[sv[k].pid].st # "free"
                                             /\ proc[sv[k].pid].ino = sv[k].ino
  BY <1>1 DEF EntriesTrue
<1>3. CASE EntryGone(e) \/ TooMany(e)
  BY <1>3 DEF EntryGone, TooMany, EntriesTrue
<1>4. CASE EntryKnown(e)
  <2>1. /\ sv' \in Seq(Entry) /\ Len(sv') = Len(sv)
        /\ \A k \in 1..Len(sv) : sv'[k].ino = sv[k].ino
    BY <1>1, <1>4, EntryKnownList
  <2>2. PICK j \in 1..Len(sv) :
          /\ sv[j].ino = e
          /\ \A k \in 1..Len(sv) : k # j => sv'[k].pid = sv[k].pid
          /\ \/ sv'[j].pid = sv[j].pid /\ UNCHANGED proc
             \/ \E p \in Free :
                  /\ sv'[j].pid = p
                  /\ proc' = [proc EXCEPT ![p] =
                        [st |-> "forked", ino |-> e, from |-> cwd,
                         term |-> FALSE]]
             \/ sv'[j].pid = 0 /\ UNCHANGED proc
    BY <1>1, <1>4, EntryKnownList
  <2>3. CASE UNCHANGED proc /\ (sv'[j].pid = sv[j].pid \/ sv'[j].pid = 0)
    <3>1. \A k \in 1..Len(sv) : sv'[k].pid # 0 => sv'[k].pid = sv[k].pid
      BY <2>2, <2>3
    <3> QED
      BY <1>2, <2>1, <2>3, <3>1, EntriesKept
  <2>4. ASSUME NEW p \in Free, sv'[j].pid = p,
               proc' = [proc EXCEPT ![p] = [st |-> "forked", ino |-> e,
                                            from |-> cwd, term |-> FALSE]]
        PROVE  EntriesTrue'
    <3>1. /\ proc'[p].st # "free" /\ proc'[p].ino = e
          /\ \A k \in 1..Len(sv) : sv[k].pid # 0 =>
               proc'[sv[k].pid].st # "free" /\ proc'[sv[k].pid].ino = sv[k].ino
      <4>1. Forks(p, e)
        BY <2>4 DEF Forks
      <4> QED
        BY <4>1, Forked
    <3>2. ASSUME NEW k \in 1..Len(sv), sv'[k].pid # 0
          PROVE  /\ proc'[sv'[k].pid].st # "free"
                 /\ proc'[sv'[k].pid].ino = sv[k].ino
      <4>1. CASE k = j
        BY <2>2, <2>4, <3>1, <4>1
      <4>2. CASE k # j
        <5>1. sv'[k].pid = sv[k].pid
          BY <2>2, <4>2
        <5> QED
          BY <3>1, <3>2, <5>1
      <4> QED
        BY <4>1, <4>2
    <3> QED
      BY <2>1, <3>2, EntriesKept
  <2> QED
    BY <2>2, <2>3, <2>4
<1>5. CASE EntryNew(e)
  <2> DEFINE n == Len(sv) + 1
  <2>1. /\ sv' \in Seq(Entry) /\ Len(sv') = n
        /\ \A k \in 1..Len(sv) : /\ sv[k].ino # e
                                 /\ sv'[k].ino = sv[k].ino
                                 /\ sv'[k].pid = sv[k].pid
        /\ sv'[n].ino = e
        /\ \/ \E p \in Free :
                /\ sv'[n].pid = p
                /\ proc' = [proc EXCEPT ![p] = [st |-> "forked", ino |-> e,
                                                from |-> cwd, term |-> FALSE]]
           \/ sv'[n].pid = 0 /\ UNCHANGED proc
    BY <1>1, <1>5, EntryNewList
  <2>2. DOMAIN sv' = 1..n /\ \A k \in 1..n : k \in 1..Len(sv) \/ k = n
    BY <1>1, <2>1, LenProperties
  <2> HIDE DEF n
  <2>3. \A j, k \in 1..n : sv'[j].ino = sv'[k].ino => j = k
    BY <1>1, <2>1, <2>2 DEF EntriesTrue
  <2>4. \A k \in 1..n : sv'[k].pid # 0 =>
          /\ proc'[sv'[k].pid].st # "free"
          /\ proc'[sv'[k].pid].ino = sv'[k].ino
    <3>1. CASE sv'[n].pid = 0 /\ UNCHANGED proc
      BY <1>2, <2>1, <2>2, <3>1
    <3>2. ASSUME NEW p \in Free, sv'[n].pid = p,
                 proc' = [proc EXCEPT ![p] = [st |-> "forked", ino |-> e,
                                              from |-> cwd, term |-> FALSE]]
          PROVE  \A k \in 1..n : sv'[k].pid # 0 =>
                   /\ proc'[sv'[k].pid].st # "free"
                   /\ proc'[sv'[k].pid].ino = sv'[k].ino
      <4>1. /\ proc'[p].st # "free" /\ proc'[p].ino = e
            /\ \A k \in 1..Len(sv) : sv[k].pid # 0 =>
                 proc'[sv[k].pid].st # "free" /\ proc'[sv[k].pid].ino = sv[k].ino
        <5>1. Forks(p, e)
          BY <3>2 DEF Forks
        <5> QED
          BY <5>1, Forked
      <4> QED
        BY <2>1, <2>2, <3>2, <4>1
    <3> QED
      BY <2>1, <3>1, <3>2
  <2> QED
    BY <2>2, <2>3, <2>4 DEF EntriesTrue
<1> QED
  BY <1>3, <1>4, <1>5 DEF Readdir

LEMMA SweepEntries ==
  ASSUME TypeInv, EntriesTrue, Sweep
  PROVE  EntriesTrue'
<1>1. TypeOK /\ Len(sv) \in Nat /\ DOMAIN sv = 1..Len(sv) /\ i \in 1..Len(sv)
      /\ \A j \in 1..Len(sv) : sv[j] \in Entry
  BY Entries DEF Sweep, TypeInv, TypeOK
<1>2. CASE ~sv[i].isgone
  BY <1>2 DEF Sweep, EntriesTrue
<1>3. CASE sv[i].isgone
  <2> DEFINE n == Len(sv) - 1
  <2>1. /\ sv' \in Seq(Entry) /\ Len(sv') = n
        /\ \A k \in 1..n : sv'[k] = IF k = i THEN sv[Len(sv)] ELSE sv[k]
    BY <1>1, <1>3, SweepList DEF Sweep
  <2>2. /\ DOMAIN sv' = 1..n /\ Len(sv) \in 1..Len(sv)
        /\ \A k \in 1..n : k \in 1..Len(sv) /\ k # Len(sv)
    BY <1>1, <2>1, LenProperties
  <2> HIDE DEF n
  <2>3. \A p \in Pid : proc'[p].st = proc[p].st /\ proc'[p].ino = proc[p].ino
    BY <1>1, <1>3, TermChildren DEF Sweep
  <2>4. \A j, k \in 1..n : sv'[j].ino = sv'[k].ino => j = k
    BY <1>1, <2>1, <2>2 DEF EntriesTrue
  <2>5. \A k \in 1..Len(sv) : sv[k].pid # 0 =>
          /\ proc'[sv[k].pid].st # "free" /\ proc'[sv[k].pid].ino = sv[k].ino
    BY <1>1, <2>3 DEF EntriesTrue, Entry
  <2>6. \A k \in 1..n : sv'[k].pid # 0 =>
          /\ proc'[sv'[k].pid].st # "free" /\ proc'[sv'[k].pid].ino = sv'[k].ino
    <3>1. ASSUME NEW k \in 1..n
          PROVE  \E m \in 1..Len(sv) : sv'[k] = sv[m]
      BY <2>1, <2>2
    <3> QED
      BY <2>5, <3>1
  <2> QED
    BY <2>2, <2>4, <2>6 DEF EntriesTrue
<1> QED
  BY <1>2, <1>3

LEMMA EntriesNext == TypeInv /\ EntriesTrue /\ [Next]_vars => EntriesTrue'
<1> SUFFICES ASSUME TypeInv, EntriesTrue, [Next]_vars PROVE EntriesTrue'
  OBVIOUS
<1> USE DEF main, disk, links
<1>1. /\ TypeOK /\ Len(sv) \in Nat /\ DOMAIN sv = 1..Len(sv)
      /\ \A j \in 1..Len(sv) : sv[j] \in Entry
      /\ proc \in [Pid -> Child] /\ sv \in Seq(Entry)
  BY Entries DEF TypeInv, TypeOK
<1>2. \A k \in 1..Len(sv) :
        sv[k].pid # 0 => /\ sv[k].pid \in Pid /\ proc[sv[k].pid].st # "free"
                         /\ proc[sv[k].pid].ino = sv[k].ino
  BY <1>1 DEF EntriesTrue, Entry
<1>3. CASE UNCHANGED <<sv, proc>>
  BY <1>3 DEF EntriesTrue
<1>4. ASSUME NEW p \in Pid, Collect(p) PROVE EntriesTrue'
  <2>1. /\ sv' \in Seq(Entry) /\ Len(sv') = Len(sv)
        /\ \A k \in 1..Len(sv) :
             /\ sv'[k].ino = sv[k].ino
             /\ sv'[k].pid # 0 => sv'[k].pid = sv[k].pid /\ sv[k].pid # p
    BY <1>1, <1>4, ClearEntryList DEF Collect
  <2>2. \A q \in Pid : q # p => proc'[q] = proc[q]
    BY <1>1, <1>4 DEF Collect
  <2> QED
    BY <1>2, <2>1, <2>2, EntriesKept
<1>5. CASE Opendir
  <2>1. /\ sv' \in Seq(Entry) /\ Len(sv') = Len(sv)
        /\ \A k \in 1..Len(sv) : sv'[k].ino = sv[k].ino /\ sv'[k].pid = sv[k].pid
    BY <1>1, <1>5, OpendirList
  <2>2. UNCHANGED proc
    BY <1>5 DEF Opendir
  <2> QED
    BY <1>2, <2>1, <2>2, EntriesKept
<1>6. ASSUME NEW e \in Service, Readdir(e) PROVE EntriesTrue'
  BY <1>6, ReaddirEntries
<1>7. CASE Sweep
  BY <1>7, SweepEntries
<1>8. CASE ExitHangup
  <2>1. \A p \in Pid : proc'[p].st = proc[p].st /\ proc'[p].ino = proc[p].ino
    BY <1>1, <1>8, TermChildren DEF ExitHangup
  <2>2. UNCHANGED sv
    BY <1>8 DEF ExitHangup
  <2> QED
    BY <1>1, <1>2, <2>1, <2>2, EntriesKept
<1>9. ASSUME NEW p \in Pid, Exec(p) \/ RunsvExits(p) PROVE EntriesTrue'
  <2>1. /\ proc[p].st # "free" /\ proc'[p].st # "free" /\ proc'[p].ino = proc[p].ino
        /\ \A q \in Pid : q # p => proc'[q] = proc[q]
    BY <1>1, <1>9 DEF Exec, RunsvExits, Child
  <2>2. UNCHANGED sv
    BY <1>9 DEF Exec, RunsvExits
  <2> QED
    BY <1>1, <1>2, <2>1, <2>2, EntriesKept
<1>10. CASE \/ Collected \/ SkipStat \/ DoStat \/ ChdirFails \/ Chdir
            \/ OpendirFails \/ ReaddirFails \/ ReaddirEnds \/ SweepEnds
            \/ Pause \/ ExitTerm
  BY <1>3, <1>10 DEF Collected, SkipStat, DoStat, ChdirFails, Chdir, OpendirFails,
       ReaddirFails, ReaddirEnds, SweepEnds, Pause, ExitTerm
<1>11. CASE \/ \E k \in Signals : Signal(k)
            \/ \E d \in Dir, e \in Service : Link(d, e) \/ Unlink(d, e)
            \/ Tick
            \/ \E d \in Dir : MoveAway(d)
            \/ MoveIn \/ MoveBack
  BY <1>3, <1>11 DEF Signal, Link, Unlink, Tick, MoveAway, MoveIn, MoveBack
<1>12. CASE UNCHANGED vars
  BY <1>3, <1>12 DEF vars
<1> QED
  BY <1>4, <1>5, <1>6, <1>7, <1>8, <1>9, <1>10, <1>11, <1>12
  DEF Next, Step, Environment

(* No runsv is started twice for a service, and the pid of an entry is that  *)
(* of a child not yet reaped that was started for it, whatever the order in  *)
(* which children end, entries are moved by the sweep and pids come again.   *)
THEOREM EntriesAreTrue == Spec => []EntriesTrue
<1>1. Init => EntriesTrue
  BY DEF Init, EntriesTrue
<1>2. TypeInv /\ EntriesTrue /\ [Next]_vars => EntriesTrue'
  BY EntriesNext
<1> QED
  BY <1>1, <1>2, TypeInvHolds, PTL DEF Spec

-----------------------------------------------------------------------------
(* Who gets a TERM. An entry that is taken to be gone is of a service that   *)
(* readdir may yet return, or that was not there at some time of the scan;   *)
(* for readdir returns all that stays, and what is returned is not gone.     *)

GoneInv ==
  /\ pc \in {"read", "sweep"} => Service \ content[cwd] \subseteq absent
  /\ pc = "read" =>
       \A j \in DOMAIN sv : sv[j].isgone => sv[j].ino \in unread \cup absent
  /\ pc = "sweep" => \A j \in DOMAIN sv : sv[j].isgone => sv[j].ino \in absent

LEMMA GoneNext == TypeInv /\ EntriesTrue /\ GoneInv /\ [Next]_vars => GoneInv'
<1> SUFFICES ASSUME TypeInv, EntriesTrue, GoneInv, [Next]_vars PROVE GoneInv'
  OBVIOUS
<1> USE DEF main, disk, links
<1>1. /\ TypeOK /\ Len(sv) \in Nat /\ DOMAIN sv = 1..Len(sv) /\ sv \in Seq(Entry)
      /\ \A j \in 1..Len(sv) : sv[j] \in Entry
      /\ content \in [Dir -> SUBSET Service] /\ absent \subseteq Service
      /\ Scanning => cwd \in Dir
  BY Entries DEF TypeInv, TypeOK
<1>2. CASE UNCHANGED <<pc, sv, cwd, unread, absent, content>>
  BY <1>2 DEF GoneInv
<1>3. CASE pc' \notin {"read", "sweep"}
  BY <1>3 DEF GoneInv
<1>4. CASE Opendir
  <2>1. /\ DOMAIN sv' = 1..Len(sv)
        /\ \A j \in 1..Len(sv) : sv'[j].ino = sv[j].ino /\ sv[j].ino \in Service
    BY <1>1, <1>4, OpendirList, LenProperties DEF Entry
  <2>2. /\ pc' = "read" /\ unread' = content[cwd] /\ absent' = Service \ content[cwd]
        /\ UNCHANGED <<cwd, content>>
    BY <1>4 DEF Opendir
  <2> QED
    BY <2>1, <2>2 DEF GoneInv
<1>5. ASSUME NEW e \in Service, Readdir(e) PROVE GoneInv'
  <2>1. /\ pc = "read" /\ pc' = "read" /\ unread' = unread \ {e}
        /\ UNCHANGED <<cwd, absent, content>>
    BY <1>5 DEF Readdir
  <2>2. SUFFICES ASSUME NEW j \in DOMAIN sv', sv'[j].isgone
                 PROVE  sv'[j].ino \in unread' \cup absent
    BY <2>1 DEF GoneInv
  <2>3. \A k \in 1..Len(sv) : sv[k].isgone => sv[k].ino \in unread \cup absent
    BY <1>1, <2>1 DEF GoneInv
  <2>4. CASE EntryGone(e)
    <3>1. e \in absent /\ UNCHANGED sv
      BY <2>1, <2>4 DEF EntryGone, GoneInv
    <3> QED
      BY <1>1, <2>1, <2>2, <2>3, <3>1
  <2>5. CASE EntryKnown(e)
    <3>1. PICK k \in 1..Len(sv) :
            /\ sv[k].ino = e /\ ~sv'[k].isgone
            /\ \A m \in 1..Len(sv) : m # k => sv'[m].isgone = sv[m].isgone
      BY <1>1, <2>5, EntryKnownList
    <3>2. j \in 1..Len(sv) /\ sv'[j].ino = sv[j].ino
      BY <1>1, <2>2, <2>5, EntryKnownList, LenProperties
    <3>3. j # k /\ sv[j].isgone
      BY <2>2, <3>1, <3>2
    <3>4. sv[j].ino # e
      BY <1>1, <3>1, <3>2, <3>3 DEF EntriesTrue
    <3> QED
      BY <2>1, <2>3, <3>2, <3>3, <3>4
  <2>6. CASE EntryNew(e)
    <3> DEFINE n == Len(sv) + 1
    <3>1. /\ sv' \in Seq(Entry) /\ Len(sv') = n /\ ~sv'[n].isgone
          /\ \A k \in 1..Len(sv) : /\ sv[k].ino # e /\ sv'[k].ino = sv[k].ino
                                   /\ sv'[k].isgone = sv[k].isgone
      BY <1>1, <2>6, EntryNewList
    <3>2. j \in 1..Len(sv) \/ j = n
      BY <1>1, <2>2, <3>1, LenProperties
    <3> QED
      BY <2>1, <2>2, <2>3, <3>1, <3>2
  <2>7. CASE TooMany(e)
    <3>1. UNCHANGED sv /\ \A k \in 1..Len(sv) : sv[k].ino # e
      BY <1>1, <2>7 DEF TooMany, Inos
    <3> QED
      BY <1>1, <2>1, <2>2, <2>3, <3>1
  <2> QED
    BY <1>5, <2>4, <2>5, <2>6, <2>7 DEF Readdir
<1>6. CASE ReaddirEnds
  BY <1>6 DEF ReaddirEnds, GoneInv
<1>7. CASE Sweep
  <2>1. /\ pc = "sweep" /\ pc' = "sweep" /\ i \in 1..Len(sv)
        /\ UNCHANGED <<cwd, absent, content>>
    BY <1>1, <1>7 DEF Sweep, TypeInv, TypeOK
  <2>2. CASE sv[i].isgone
    <3> DEFINE n == Len(sv) - 1
    <3>1. /\ sv' \in Seq(Entry) /\ Len(sv') = n
          /\ \A k \in 1..n : sv'[k] = IF k = i THEN sv[Len(sv)] ELSE sv[k]
      BY <1>1, <1>7, <2>1, <2>2, SweepList DEF Sweep
    <3>2. DOMAIN sv' = 1..n
      BY <3>1, LenProperties
    <3>3. Len(sv) \in 1..Len(sv) /\ \A k \in 1..n : k \in 1..Len(sv)
      BY <1>1, <2>1
    <3> HIDE DEF n
    <3>4. \A k \in 1..n : \E m \in 1..Len(sv) : sv'[k] = sv[m]
      BY <3>1, <3>3
    <3> QED
      BY <1>1, <2>1, <3>2, <3>4 DEF GoneInv
  <2>3. CASE ~sv[i].isgone
    BY <1>7, <2>1, <2>3 DEF Sweep, GoneInv
  <2> QED
    BY <2>2, <2>3
<1>8. ASSUME NEW d \in Dir, NEW e \in Service, Link(d, e) PROVE GoneInv'
  <2>1. /\ content' = [content EXCEPT ![d] = @ \cup {e}]
        /\ unread \subseteq unread' /\ UNCHANGED <<pc, sv, cwd, absent>>
    BY <1>8 DEF Link
  <2>2. Scanning => content[cwd] \subseteq content'[cwd]
    BY <1>1, <2>1
  <2> QED
    BY <2>1, <2>2 DEF GoneInv, Scanning
<1>9. ASSUME NEW d \in Dir, NEW e \in Service, Unlink(d, e) PROVE GoneInv'
  <2>1. /\ content' = [content EXCEPT ![d] = @ \ {e}]
        /\ absent' = IF pc \in {"read", "sweep"} /\ cwd = d THEN absent \cup {e}
                                                           ELSE absent
        /\ UNCHANGED <<pc, sv, cwd, unread>>
    BY <1>9 DEF Unlink
  <2>2. pc \in {"read", "sweep"} =>
          content[cwd] \ content'[cwd] \subseteq absent' /\ absent \subseteq absent'
    BY <1>1, <2>1
  <2> QED
    BY <2>1, <2>2 DEF GoneInv
<1>10. CASE \/ \E p \in Pid : Collect(p) \/ Exec(p) \/ RunsvExits(p)
            \/ Collected \/ SkipStat \/ DoStat \/ ChdirFails \/ Chdir
            \/ OpendirFails \/ ReaddirFails \/ SweepEnds
            \/ Pause \/ ExitTerm \/ ExitHangup
  BY <1>2, <1>3, <1>10 DEF Collect, Exec, RunsvExits, Collected, SkipStat, DoStat,
     ChdirFails, Chdir, OpendirFails, ReaddirFails, SweepEnds, Pause, ExitTerm,
     ExitHangup
<1>11. CASE \/ \E k \in Signals : Signal(k)
            \/ Tick
            \/ \E d \in Dir : MoveAway(d)
            \/ MoveIn \/ MoveBack
  BY <1>2, <1>11 DEF Signal, Tick, MoveAway, MoveIn, MoveBack
<1>12. CASE UNCHANGED vars
  BY <1>2, <1>12 DEF vars
<1> QED
  BY <1>4, <1>5, <1>6, <1>7, <1>8, <1>9, <1>10, <1>11, <1>12
  DEF Next, Step, Environment

SparesAll ==
  \A p \in Pid :
    proc[p].st = "live" /\ ~proc[p].term /\ proc'[p].term =>
      \/ proc[p].ino \in absent
      \/ pc' = "exited" /\ exitsoon = 2

LEMMA SparesNext == TypeInv /\ EntriesTrue /\ GoneInv /\ [Next]_vars => SparesAll
<1> SUFFICES ASSUME TypeInv, EntriesTrue, GoneInv, [Next]_vars,
                    NEW p \in Pid, proc[p].st = "live", ~proc[p].term,
                    proc'[p].term
             PROVE  \/ proc[p].ino \in absent
                    \/ pc' = "exited" /\ exitsoon = 2
  BY DEF SparesAll
<1> USE DEF main, disk, links
<1>1. /\ TypeOK /\ Len(sv) \in Nat /\ DOMAIN sv = 1..Len(sv)
      /\ proc \in [Pid -> Child] /\ p # 0
  BY Entries, RunsvdirAssumption DEF TypeInv, TypeOK
<1>2. proc'[p].term # proc[p].term
  OBVIOUS
<1>3. CASE UNCHANGED proc
  BY <1>2, <1>3
<1>4. ASSUME NEW q \in Pid, Collect(q) PROVE FALSE
  BY <1>1, <1>2, <1>4 DEF Collect, Reaped
<1>5. ASSUME NEW e \in Service, Readdir(e) PROVE FALSE
  <2>1. \/ UNCHANGED proc
        \/ \E q \in Free : proc' = [proc EXCEPT ![q] =
              [st |-> "forked", ino |-> e, from |-> cwd, term |-> FALSE]]
    BY <1>1, <1>5, EntryKnownList, EntryNewList
    DEF Readdir, EntryGone, TooMany
  <2> QED
    BY <1>1, <1>2, <2>1 DEF Free
<1>6. CASE Sweep
  <2>1. /\ i \in 1..Len(sv) /\ sv[i].isgone /\ proc' = Term({sv[i].pid})
        /\ pc = "sweep"
    BY <1>1, <1>3, <1>6 DEF Sweep, TypeInv, TypeOK
  <2>2. p = sv[i].pid
    <3>1. p \notin {sv[i].pid} => proc'[p] = proc[p]
      BY <1>1, <2>1, TermChildren
    <3> QED
      BY <1>2, <3>1
  <2>3. sv[i].ino \in absent
    BY <1>1, <2>1 DEF GoneInv
  <2>4. proc[p].ino = sv[i].ino
    BY <1>1, <2>1, <2>2 DEF EntriesTrue
  <2> QED
    BY <2>3, <2>4
<1>7. CASE ExitHangup
  BY <1>7 DEF ExitHangup
<1>8. ASSUME NEW q \in Pid, Exec(q) \/ RunsvExits(q) PROVE FALSE
  BY <1>1, <1>2, <1>8 DEF Exec, RunsvExits, Child
<1>9. CASE \/ Collected \/ SkipStat \/ DoStat \/ ChdirFails \/ Chdir
           \/ OpendirFails \/ Opendir \/ ReaddirFails \/ ReaddirEnds
           \/ SweepEnds \/ Pause \/ ExitTerm
  BY <1>3, <1>9 DEF Collected, SkipStat, DoStat, ChdirFails, Chdir, OpendirFails,
       Opendir, ReaddirFails, ReaddirEnds, SweepEnds, Pause, ExitTerm
<1>10. CASE \/ \E k \in Signals : Signal(k)
            \/ \E d \in Dir, e \in Service : Link(d, e) \/ Unlink(d, e)
            \/ Tick
            \/ \E d \in Dir : MoveAway(d)
            \/ MoveIn \/ MoveBack
  BY <1>3, <1>10 DEF Signal, Link, Unlink, Tick, MoveAway, MoveIn, MoveBack
<1>11. CASE UNCHANGED vars
  BY <1>3, <1>11 DEF vars
<1> QED
  BY <1>4, <1>5, <1>6, <1>7, <1>8, <1>9, <1>10, <1>11
  DEF Next, Step, Environment

(* A scan tells no service to end whose subdirectory was in the directory    *)
(* from its beginning to the kill: a runsv gets a TERM only when its         *)
(* subdirectory was not there at some time of the scan, or on a HUP.         *)
THEOREM OthersAreSpared == Spec => SparesOthers
<1>1. Init => GoneInv
  BY DEF Init, GoneInv
<1>2. TypeInv /\ EntriesTrue /\ GoneInv /\ [Next]_vars => GoneInv'
  BY GoneNext
<1>3. TypeInv /\ EntriesTrue /\ GoneInv /\ [Next]_vars => [SparesAll]_vars
  BY SparesNext
<1>4. TypeInv /\ EntriesTrue /\ GoneInv /\ [Next]_vars =>
        [\A p \in Pid :
           proc[p].st = "live" /\ ~proc[p].term /\ proc'[p].term =>
             \/ proc[p].ino \in absent
             \/ pc' = "exited" /\ exitsoon = 2]_vars
  BY <1>3 DEF SparesAll
<1> QED
  BY <1>1, <1>2, <1>4, TypeInvHolds, EntriesAreTrue, PTL DEF Spec, SparesOthers
-----------------------------------------------------------------------------
(* Every entry has its runsv when no scan is due. During a scan the entries  *)
(* it has found have theirs, and the sweep has left none that it has not     *)
(* found before the entry it is at, unless the directory is to be scanned    *)
(* again anyway.                                                             *)

StartedInv ==
  /\ pc \in {"read", "sweep"} /\ ~missed =>
       \A j \in DOMAIN sv : ~sv[j].isgone => sv[j].pid # 0
  /\ pc = "sweep" /\ ~check => \A j \in DOMAIN sv : j < i => ~sv[j].isgone
  /\ ~Scanning /\ ~check /\ ~missed => \A j \in DOMAIN sv : sv[j].pid # 0

(* What a directory is taken to hold. *)

\* The directory that was scanned last has its time still.
Unchanged == seen.dir \in Dir /\ mtime[seen.dir] = seen.time

\* A time that was noted is not ahead, and when it is still that of the
\* directory the present second is a later one.
TimesInv ==
  /\ seen.dir \in Dir => /\ seen.time <= mtime[seen.dir]
                         /\ Unchanged => ~fresh[seen.dir]
  /\ s.dir \in Dir => /\ s.time <= mtime[s.dir]
                      /\ s.time = mtime[s.dir] /\ ~s.fresh => ~fresh[s.dir]

\* The directory that stat told of is the one that chdir leads to.
LinksInv ==
  /\ next # None => current = None
  /\ pc = "chdir" => /\ s.dir \in Dir
                     /\ current = s.dir \/ (current = None /\ previous = s.dir)
  /\ Scanning => cwd = seen.dir

\* Every subdirectory of the directory scanned that is not among es has an entry
\* that was found, if there is room, and only those have.
FoundBut(es) ==
  /\ \A j \in DOMAIN sv : ~sv[j].isgone => sv[j].ino \in content[seen.dir]
  /\ \A e \in content[seen.dir] \ es :
       \/ Len(sv) = MAXSERVICES
       \/ \E j \in DOMAIN sv : sv[j].ino = e /\ ~sv[j].isgone

FoundInv ==
  Unchanged /\ ~check =>
    /\ pc = "read" => unread \subseteq content[seen.dir] /\ FoundBut(unread)
    /\ pc = "sweep" => FoundBut({})
    /\ ~Scanning /\ ~missed =>
         /\ Inos \subseteq content[seen.dir]
         /\ Inos = content[seen.dir] \/ Len(sv) = MAXSERVICES

LEMMA StartedNext == TypeInv /\ StartedInv /\ [Next]_vars => StartedInv'
<1> SUFFICES ASSUME TypeInv, StartedInv, [Next]_vars PROVE StartedInv'
  OBVIOUS
<1> USE DEF main, disk, links
<1>1. TypeOK /\ Len(sv) \in Nat /\ DOMAIN sv = 1..Len(sv) /\ sv \in Seq(Entry)
  BY Entries DEF TypeInv, TypeOK
<1>2. CASE UNCHANGED <<pc, sv, i, check, missed>>
  BY <1>2 DEF StartedInv, Scanning
<1>3. ASSUME NEW p \in Pid, Collect(p) PROVE StartedInv'
  <2>1. /\ DOMAIN sv' = 1..Len(sv)
        /\ \A j \in 1..Len(sv) :
             sv'[j].pid = IF sv[j].pid = p THEN 0 ELSE sv[j].pid
    BY <1>1, <1>3, ClearEntryList, LenProperties DEF Collect
  <2>2. /\ pc = "collect" /\ pc' = "collect" /\ UNCHANGED missed
        /\ ~check' => ~check /\ \A j \in 1..Len(sv) : sv[j].pid # p
    BY <1>1, <1>3 DEF Collect, GoneCheck
  <2> QED
    BY <1>1, <2>1, <2>2 DEF StartedInv, Scanning
<1>4. CASE Collected \/ SkipStat \/ DoStat \/ ChdirFails \/ Pause \/ ExitTerm \/ ExitHangup
  <2>1. UNCHANGED <<sv, check, missed>> /\ ~Scanning /\ ~Scanning'
    BY <1>4 DEF Collected, SkipStat, DoStat, ChdirFails, Pause, ExitTerm, ExitHangup,
         Scanning
  <2> QED
    BY <2>1 DEF StartedInv, Scanning
<1>5. CASE Chdir \/ OpendirFails
  BY <1>5 DEF Chdir, OpendirFails, StartedInv, Scanning
<1>6. CASE Opendir
  <2>1. DOMAIN sv' = 1..Len(sv) /\ \A j \in 1..Len(sv) : sv'[j].isgone
    BY <1>1, <1>6, OpendirList, LenProperties
  <2>2. pc' = "read"
    BY <1>6 DEF Opendir
  <2> QED
    BY <2>1, <2>2 DEF StartedInv, Scanning
<1>7. ASSUME NEW e \in Service, Readdir(e) PROVE StartedInv'
  <2>1. pc = "read" /\ pc' = "read"
    BY <1>7 DEF Readdir
  <2>2. SUFFICES ASSUME ~missed', NEW j \in DOMAIN sv', ~sv'[j].isgone
                 PROVE  sv'[j].pid # 0
    BY <2>1 DEF StartedInv, Scanning
  <2>3. ~missed => \A k \in 1..Len(sv) : ~sv[k].isgone => sv[k].pid # 0
    BY <1>1, <2>1 DEF StartedInv
  <2>4. CASE EntryGone(e) \/ TooMany(e)
    BY <1>1, <2>2, <2>3, <2>4 DEF EntryGone, TooMany
  <2>5. CASE EntryKnown(e)
    <3>1. PICK k \in 1..Len(sv) :
            /\ \A m \in 1..Len(sv) : m # k =>
                 sv'[m].isgone = sv[m].isgone /\ sv'[m].pid = sv[m].pid
            /\ \/ sv[k].pid # 0 /\ sv'[k].pid = sv[k].pid /\ UNCHANGED missed
               \/ \E p \in Free : sv'[k].pid = p /\ UNCHANGED missed
               \/ missed'
      BY <1>1, <2>5, EntryKnownList
    <3>2. \A p \in Free : p # 0
      BY RunsvdirAssumption DEF Free
    <3>3. j \in 1..Len(sv)
      BY <1>1, <2>2, <2>5, EntryKnownList, LenProperties
    <3> QED
      BY <2>2, <2>3, <3>1, <3>2, <3>3
  <2>6. CASE EntryNew(e)
    <3> DEFINE n == Len(sv) + 1
    <3>1. /\ sv' \in Seq(Entry) /\ Len(sv') = n
          /\ \A k \in 1..Len(sv) : /\ sv'[k].isgone = sv[k].isgone
                                   /\ sv'[k].pid = sv[k].pid
          /\ \/ \E p \in Free : sv'[n].pid = p /\ UNCHANGED missed
             \/ missed'
      BY <1>1, <2>6, EntryNewList
    <3>2. \A p \in Free : p # 0
      BY RunsvdirAssumption DEF Free
    <3>3. j \in 1..Len(sv) \/ j = n
      BY <1>1, <2>2, <3>1, LenProperties
    <3> QED
      BY <2>2, <2>3, <3>1, <3>2, <3>3
  <2> QED
    BY <1>7, <2>4, <2>5, <2>6 DEF Readdir
<1>8. CASE ReaddirFails
  BY <1>8 DEF ReaddirFails, StartedInv, Scanning
<1>9. CASE ReaddirEnds
  <2>1. \A j \in 1..Len(sv) : ~(j < 1)
    BY <1>1
  <2>2. pc = "read" /\ pc' = "sweep" /\ i' = 1 /\ UNCHANGED <<sv, missed>>
    BY <1>9 DEF ReaddirEnds
  <2> QED
    BY <1>1, <2>1, <2>2 DEF StartedInv, Scanning
<1>10. CASE Sweep
  <2>1. /\ pc = "sweep" /\ pc' = "sweep" /\ UNCHANGED missed
        /\ i \in 1..Len(sv) /\ i' = i + 1
    BY <1>1, <1>10 DEF Sweep, TypeInv, TypeOK
  <2>2. CASE sv[i].isgone
    <3> DEFINE n == Len(sv) - 1
    <3>1. /\ sv' \in Seq(Entry) /\ Len(sv') = n
          /\ \A k \in 1..n : sv'[k] = IF k = i THEN sv[Len(sv)] ELSE sv[k]
      BY <1>1, <1>10, <2>1, <2>2, SweepList DEF Sweep
    <3>2. DOMAIN sv' = 1..n /\ check'
      BY <1>10, <2>2, <3>1, LenProperties DEF Sweep
    <3>3. Len(sv) \in 1..Len(sv) /\ \A k \in 1..n : k \in 1..Len(sv)
      BY <1>1, <2>1
    <3> HIDE DEF n
    <3>4. \A k \in 1..n : \E m \in 1..Len(sv) : sv'[k] = sv[m]
      BY <3>1, <3>3
    <3> QED
      BY <1>1, <2>1, <3>2, <3>4 DEF StartedInv, Scanning
  <2>3. CASE ~sv[i].isgone
    <3>1. UNCHANGED <<sv, check>>
      BY <1>10, <2>3 DEF Sweep
    <3>2. \A j \in 1..Len(sv) : j < i' => j < i \/ j = i
      BY <2>1
    <3> QED
      BY <1>1, <2>1, <2>3, <3>1, <3>2 DEF StartedInv, Scanning
  <2> QED
    BY <2>2, <2>3
<1>11. CASE SweepEnds
  <2>1. /\ pc = "sweep" /\ pc' = "pause" /\ UNCHANGED <<sv, check, missed>>
        /\ i > Len(sv) /\ i \in Nat
    BY <1>1, <1>11 DEF SweepEnds, TypeOK
  <2>2. \A j \in 1..Len(sv) : j < i
    BY <1>1, <2>1
  <2> QED
    BY <1>1, <2>1, <2>2 DEF StartedInv, Scanning
<1>12. CASE Environment
  BY <1>2, <1>12 DEF Environment, Exec, RunsvExits, Signal, Link, Unlink, Tick,
       MoveAway, MoveIn, MoveBack
<1>13. CASE UNCHANGED vars
  BY <1>2, <1>13 DEF vars
<1> QED
  BY <1>3, <1>4, <1>5, <1>6, <1>7, <1>8, <1>9, <1>10, <1>11, <1>12, <1>13
  DEF Next, Step

(* Unless an opendir or a fork failed in the last scan, every entry has its  *)
(* runsv whenever runsvdir waits and sees no reason to scan: a runsv that    *)
(* ended or an entry the sweep moved always calls for another scan.          *)
THEOREM AllAreStarted == Spec => []AllStarted
<1>1. Init => StartedInv
  BY DEF Init, StartedInv, Scanning
<1>2. TypeInv /\ StartedInv /\ [Next]_vars => StartedInv'
  BY StartedNext
<1>3. StartedInv => AllStarted
  BY DEF StartedInv, AllStarted, Restarted, Settled, Scanning
<1> QED
  BY <1>1, <1>2, <1>3, TypeInvHolds, PTL DEF Spec

LEMMA TimesNext == TypeInv /\ TimesInv /\ [Next]_vars => TimesInv'
<1> SUFFICES ASSUME TypeInv, TimesInv, [Next]_vars PROVE TimesInv'
  OBVIOUS
<1> USE DEF main, disk, links
<1>1. /\ TypeOK /\ s \in Stat /\ mtime \in [Dir -> 0..MaxTime] /\ MaxTime \in Nat
      /\ fresh \in [Dir -> BOOLEAN] /\ seen.time \in 0..MaxTime /\ s.time \in 0..MaxTime
  BY RunsvdirAssumption DEF TypeInv, TypeOK, Stat
<1>2. CASE UNCHANGED <<s, seen, mtime, fresh>>
  BY <1>2 DEF TimesInv, Unchanged
<1>3. Nothing.dir \notin Dir
  BY RunsvdirAssumption DEF Nothing
<1>4. CASE DoStat
  <2>1. UNCHANGED <<seen, mtime, fresh>>
    BY <1>4 DEF DoStat
  <2>2. CASE s' = Nothing
    BY <1>3, <2>1, <2>2 DEF TimesInv, Unchanged
  <2>3. CASE s' = [dir |-> current, time |-> mtime[current], fresh |-> fresh[current]]
    <3>1. s'.dir = current /\ s'.time = mtime[current] /\ s'.fresh = fresh[current]
      BY <2>3
    <3>2. current \in Dir => mtime[current] <= mtime[current]
      BY <1>1
    <3> QED
      BY <2>1, <3>1, <3>2 DEF TimesInv, Unchanged
  <2> QED
    BY <1>4, <2>2, <2>3 DEF DoStat
<1>5. CASE ChdirFails
  BY <1>3, <1>5 DEF ChdirFails, TimesInv, Unchanged
<1>6. CASE Chdir
  <2>1. /\ s' = Nothing /\ UNCHANGED mtime
        /\ seen'.dir = s.dir /\ seen'.time = s.time
    BY <1>6 DEF Chdir
  <2>2. s.dir \in Dir /\ s.time = mtime[s.dir] => ~fresh'[s.dir]
    BY <1>1, <1>6 DEF Chdir, Sleep, TimesInv
  <2> QED
    BY <1>3, <2>1, <2>2 DEF TimesInv, Unchanged
<1>7. ASSUME NEW d \in Dir, Touch(d), UNCHANGED <<seen, s>> PROVE TimesInv'
  <2>1. \A e \in Dir : /\ mtime[e] \in 0..MaxTime /\ mtime'[e] \in 0..MaxTime
                       /\ mtime[e] <= mtime'[e]
                       /\ mtime'[e] = mtime[e] => fresh'[e] = fresh[e]
    <3>1. /\ mtime'[d] = IF fresh[d] THEN mtime[d] ELSE mtime[d] + 1
          /\ fresh[d] \/ mtime[d] < MaxTime
          /\ fresh'[d] = TRUE
          /\ \A e \in Dir : e # d => mtime'[e] = mtime[e] /\ fresh'[e] = fresh[e]
      BY <1>1, <1>7 DEF Touch
    <3>2. \A e \in Dir : mtime[e] \in 0..MaxTime /\ fresh[e] \in BOOLEAN
      BY <1>1
    <3>3. CASE fresh[d]
      <4>1. fresh'[d] = fresh[d]
        BY <1>7, <3>1, <3>2, <3>3, Zenon
      <4> QED
        <5>1. \A e \in Dir : mtime'[e] = mtime[e] /\ fresh'[e] = fresh[e]
          BY <3>1, <3>3, <4>1, Zenon
        <5>2. \A e \in Dir : mtime[e] \in 0..MaxTime /\ mtime[e] <= mtime[e]
          BY <1>1, <3>2
        <5> QED
          BY <5>1, <5>2
    <3>4. CASE ~fresh[d]
      BY <1>1, <3>1, <3>2, <3>4
    <3> QED
      BY <3>3, <3>4
  <2>2. \A e \in Dir, t \in 0..MaxTime :
          t <= mtime[e] => t <= mtime'[e] /\ (t = mtime'[e] => t = mtime[e])
    BY <1>1, <2>1
  <2>3. \A e \in Dir, t \in 0..MaxTime :
          t <= mtime[e] /\ t = mtime'[e] => fresh'[e] = fresh[e]
    BY <2>1, <2>2
  <2> QED
    BY <1>1, <1>7, <2>2, <2>3 DEF TimesInv, Unchanged
<1>8. CASE Tick
  BY <1>1, <1>8 DEF Tick, TimesInv, Unchanged
<1>9. CASE Step
  BY <1>2, <1>4, <1>5, <1>6, <1>9
  DEF Step, Collect, Collected, SkipStat, OpendirFails, Opendir, Readdir,
      ReaddirFails, ReaddirEnds, Sweep, SweepEnds, Pause, ExitTerm, ExitHangup
<1>10. CASE Environment
  BY <1>2, <1>7, <1>8, <1>10
  DEF Environment, Exec, RunsvExits, Signal, Link, Unlink, MoveAway, MoveIn, MoveBack
<1>11. CASE UNCHANGED vars
  BY <1>2, <1>11 DEF vars
<1> QED
  BY <1>9, <1>10, <1>11 DEF Next
LEMMA LinksNext ==
  ASSUME "switch" \notin Faults
  PROVE  TypeInv /\ LinksInv /\ [Next]_vars => LinksInv'
<1> SUFFICES ASSUME TypeInv, LinksInv, [Next]_vars PROVE LinksInv'
  OBVIOUS
<1> USE DEF main, disk, links
<1>1. TypeOK /\ None \notin Dir
  BY RunsvdirAssumption DEF TypeInv
<1>2. CASE UNCHANGED <<pc, seen, s, cwd, links>>
  BY <1>2 DEF LinksInv, Scanning
<1>3. CASE DoStat
  <2>1. UNCHANGED <<next, current, previous>> /\ current \in Dir /\ pc = "stat"
    BY <1>1, <1>3 DEF DoStat, TypeOK
  <2>2. \/ pc' = "chdir" /\ s'.dir = current
        \/ pc' = "pause"
    BY <1>3 DEF DoStat
  <2> QED
    BY <2>1, <2>2 DEF LinksInv, Scanning
<1>4. CASE Chdir
  <2>1. current = s.dir
    BY <1>4 DEF Chdir, LinksInv
  <2> QED
    BY <1>4, <2>1 DEF Chdir, LinksInv, Scanning
<1>5. CASE \/ Collected \/ SkipStat \/ ChdirFails \/ OpendirFails \/ ReaddirFails
           \/ SweepEnds \/ Pause \/ ExitTerm \/ ExitHangup
  <2>1. UNCHANGED links /\ ~Scanning' /\ pc' # "chdir"
    BY <1>5 DEF Collected, SkipStat, ChdirFails, OpendirFails, ReaddirFails,
         SweepEnds, Pause, ExitTerm, ExitHangup, Scanning
  <2> QED
    BY <2>1 DEF LinksInv, Scanning
<1>6. CASE Opendir \/ ReaddirEnds
  BY <1>6 DEF Opendir, ReaddirEnds, LinksInv, Scanning
<1>7. ASSUME NEW d \in Dir, MoveAway(d) PROVE LinksInv'
  BY <1>1, <1>7 DEF MoveAway, LinksInv, Scanning
<1>8. CASE MoveIn
  BY <1>8 DEF MoveIn, LinksInv, Scanning
<1>9. CASE MoveBack
  BY <1>1, <1>9 DEF MoveBack, LinksInv, Scanning
<1>10. CASE Step
  BY <1>2, <1>3, <1>4, <1>5, <1>6, <1>10 DEF Step, Collect, Readdir, Sweep
<1>11. CASE Environment
  BY <1>2, <1>7, <1>8, <1>9, <1>11
  DEF Environment, Exec, RunsvExits, Signal, Link, Unlink, Tick
<1>12. CASE UNCHANGED vars
  BY <1>2, <1>12 DEF vars
<1> QED
  BY <1>10, <1>11, <1>12 DEF Next

\* What others do to a directory that was scanned does not go unnoticed.
LEMMA ChangeNoticed ==
  ASSUME TypeInv, TimesInv, NEW d \in Dir, Touch(d), UNCHANGED seen, Unchanged'
  PROVE  Unchanged /\ seen.dir # d
<1>1. /\ mtime \in [Dir -> 0..MaxTime] /\ MaxTime \in Nat /\ seen.time \in 0..MaxTime
      /\ seen.dir \in Dir /\ seen.time = mtime'[seen.dir]
  BY RunsvdirAssumption DEF TypeInv, TypeOK, Unchanged
<1>2. mtime[d] \in 0..MaxTime /\ mtime[seen.dir] \in 0..MaxTime
  BY <1>1
<1>3. CASE seen.dir # d
  <2>1. mtime'[seen.dir] = mtime[seen.dir]
    BY <1>1, <1>3 DEF Touch
  <2> QED
    BY <1>1, <1>3, <2>1 DEF Unchanged
<1>4. CASE seen.dir = d
  <2>1. CASE fresh[d]
    <3>1. mtime'[d] = mtime[d]
      BY <1>1, <2>1 DEF Touch
    <3> QED
      BY <1>1, <1>4, <2>1, <3>1 DEF TimesInv, Unchanged
  <2>2. CASE ~fresh[d]
    <3>1. mtime'[d] = mtime[d] + 1
      BY <1>1, <2>2 DEF Touch
    <3>2. seen.time <= mtime[d]
      BY <1>4 DEF TimesInv
    <3> QED
      BY <1>1, <1>2, <1>4, <3>1, <3>2
  <2> QED
    BY <2>1, <2>2
<1> QED
  BY <1>3, <1>4

LEMMA ReaddirFound ==
  ASSUME TypeInv, LinksInv, FoundInv, NEW e \in Service, Readdir(e)
  PROVE  FoundInv'
<1>1. /\ TypeOK /\ Len(sv) \in Nat /\ DOMAIN sv = 1..Len(sv) /\ MAXSERVICES \in Nat
      /\ cwd = seen.dir /\ pc = "read" /\ pc' = "read"
      /\ UNCHANGED <<seen, content, mtime>>
      /\ e \in unread /\ unread' = unread \ {e}
  BY Entries, RunsvdirAssumption
  DEF TypeInv, Readdir, LinksInv, Scanning, disk
<1>2. CASE check'
  BY <1>1, <1>2 DEF FoundInv
<1>3. CASE Unchanged' /\ ~check'
  <2>1. ~EntryNew(e)
    BY <1>3 DEF EntryNew
  <2>2. UNCHANGED check
    <3>1. EntryGone(e) \/ EntryKnown(e) \/ TooMany(e)
      BY <2>1 DEF Readdir
    <3> QED
      BY <3>1 DEF EntryGone, EntryKnown, TooMany
  <2>3. /\ Unchanged /\ unread \subseteq content[seen.dir] /\ FoundBut(unread)
    BY <1>1, <1>3, <2>2 DEF FoundInv, Unchanged
  <2>4. SUFFICES FoundBut(unread \ {e})'
    <3>1. unread' \subseteq content'[seen'.dir]
      BY <1>1, <2>3
    <3>2. FoundBut(unread \ {e})' => FoundBut(unread)'
      BY <1>1 DEF FoundBut
    <3> QED
      BY <1>1, <2>4, <3>1, <3>2 DEF FoundInv, Scanning
  <2>5. CASE EntryGone(e)
    BY <1>1, <2>3, <2>5 DEF EntryGone
  <2>6. CASE EntryKnown(e)
    <3>1. /\ sv' \in Seq(Entry) /\ Len(sv') = Len(sv)
          /\ \A k \in 1..Len(sv) : sv'[k].ino = sv[k].ino
      BY <1>1, <2>6, EntryKnownList
    <3>2. PICK j \in 1..Len(sv) :
            /\ sv[j].ino = e /\ ~sv'[j].isgone
            /\ \A k \in 1..Len(sv) : k # j => sv'[k].isgone = sv[k].isgone
      BY <1>1, <2>6, EntryKnownList
    <3>3. DOMAIN sv' = 1..Len(sv)
      BY <3>1, LenProperties
    <3>4. \A k \in 1..Len(sv) : ~sv'[k].isgone => sv'[k].ino \in content[seen.dir]
      BY <1>1, <2>3, <3>1, <3>2 DEF FoundBut
    <3>5. \A k \in 1..Len(sv) : ~sv[k].isgone => ~sv'[k].isgone
      BY <3>2
    <3>6. ASSUME NEW f \in content[seen.dir], f \notin unread' \ {e}
          PROVE  \/ Len(sv') = MAXSERVICES
                 \/ \E k \in 1..Len(sv) : sv'[k].ino = f /\ ~sv'[k].isgone
      BY <1>1, <2>3, <3>1, <3>2, <3>5, <3>6 DEF FoundBut
    <3> QED
      BY <1>1, <3>3, <3>4, <3>6 DEF FoundBut
  <2>7. CASE TooMany(e)
    <3>1. UNCHANGED sv /\ Len(sv) = MAXSERVICES
      BY <1>1, <2>7 DEF TooMany, Room, TypeOK
    <3> QED
      BY <1>1, <2>3, <3>1 DEF FoundBut
  <2> QED
    BY <2>1, <2>5, <2>6, <2>7 DEF Readdir
<1> QED
  BY <1>2, <1>3 DEF FoundInv

LEMMA FoundNext ==
  TypeInv /\ StartedInv /\ TimesInv /\ LinksInv /\ FoundInv /\ [Next]_vars => FoundInv'
<1> SUFFICES ASSUME TypeInv, StartedInv, TimesInv, LinksInv, FoundInv, [Next]_vars
             PROVE  FoundInv'
  OBVIOUS
<1> USE DEF main, disk, links
<1>1. TypeOK /\ Len(sv) \in Nat /\ DOMAIN sv = 1..Len(sv) /\ sv \in Seq(Entry)
  BY Entries DEF TypeInv, TypeOK
<1>2. CASE UNCHANGED <<pc, sv, check, seen, unread, missed, content, mtime>>
  BY <1>2 DEF FoundInv, FoundBut, Unchanged, Inos, Scanning
<1>3. ASSUME NEW p \in Pid, Collect(p) PROVE FoundInv'
  <2>1. /\ DOMAIN sv' = 1..Len(sv) /\ Len(sv') = Len(sv)
        /\ \A j \in 1..Len(sv) : sv'[j].ino = sv[j].ino
    BY <1>1, <1>3, ClearEntryList, LenProperties DEF Collect
  <2>2. /\ pc = "collect" /\ pc' = "collect" /\ (check => check')
        /\ UNCHANGED <<seen, missed, content, mtime>>
    BY <1>3 DEF Collect, GoneCheck
  <2>3. Inos' = Inos
    BY <1>1, <2>1 DEF Inos
  <2> QED
    BY <2>1, <2>2, <2>3 DEF FoundInv, Unchanged, Scanning
<1>4. CASE \/ Collected \/ SkipStat \/ DoStat \/ ChdirFails
           \/ Pause \/ ExitTerm \/ ExitHangup
  <2>1. UNCHANGED <<sv, check, missed, seen, content, mtime>> /\ ~Scanning /\ ~Scanning'
    BY <1>4 DEF Collected, SkipStat, DoStat, ChdirFails, Pause, ExitTerm, ExitHangup,
         Scanning
  <2> QED
    BY <2>1 DEF FoundInv, Unchanged, Inos, Scanning
<1>5. CASE Chdir \/ OpendirFails \/ ReaddirFails
  <2>1. pc' = "opendir" \/ (pc' = "pause" /\ (missed' \/ check'))
    BY <1>5 DEF Chdir, OpendirFails, ReaddirFails
  <2> QED
    BY <2>1 DEF FoundInv, Scanning
<1>6. CASE Opendir
  <2>1. DOMAIN sv' = 1..Len(sv) /\ \A j \in 1..Len(sv) : sv'[j].isgone
    BY <1>1, <1>6, OpendirList, LenProperties
  <2>2. pc' = "read" /\ unread' = content'[seen'.dir]
    BY <1>6 DEF Opendir, LinksInv, Scanning
  <2> QED
    BY <2>1, <2>2 DEF FoundInv, FoundBut, Scanning
<1>7. ASSUME NEW e \in Service, Readdir(e) PROVE FoundInv'
  BY <1>7, ReaddirFound
<1>8. CASE ReaddirEnds
  BY <1>8 DEF ReaddirEnds, FoundInv, FoundBut, Unchanged, Scanning
<1>9. CASE Sweep
  <2>1. pc = "sweep" /\ UNCHANGED <<pc, seen, unread, missed, content, mtime>>
    BY <1>9 DEF Sweep
  <2>2. CASE check'
    BY <2>2 DEF FoundInv
  <2>3. CASE UNCHANGED <<sv, check>>
    BY <1>2, <2>1, <2>3
  <2> QED
    BY <1>9, <2>2, <2>3 DEF Sweep
<1>10. CASE SweepEnds
  <2>1. /\ pc = "sweep" /\ pc' = "pause" /\ i > Len(sv) /\ i \in Nat
        /\ UNCHANGED <<sv, check, missed, seen, content, mtime>>
    BY <1>1, <1>10 DEF SweepEnds, TypeOK
  <2>2. \A j \in 1..Len(sv) : j < i
    BY <1>1, <2>1
  <2>3. ~check => \A j \in 1..Len(sv) : ~sv[j].isgone
    BY <1>1, <2>1, <2>2 DEF StartedInv
  <2>4. ASSUME Unchanged, ~check
        PROVE  /\ Inos \subseteq content[seen.dir]
               /\ Inos = content[seen.dir] \/ Len(sv) = MAXSERVICES
    <3>1. FoundBut({})
      BY <2>1, <2>4 DEF FoundInv
    <3> QED
      BY <1>1, <2>3, <2>4, <3>1 DEF FoundBut, Inos
  <2> QED
    BY <2>1, <2>4 DEF FoundInv, Unchanged, Inos, Scanning
<1>11. ASSUME NEW d \in Dir, NEW e \in Service, Link(d, e) \/ Unlink(d, e)
       PROVE  FoundInv'
  <2>1. Touch(d) /\ UNCHANGED <<pc, sv, check, seen, missed>>
    BY <1>11 DEF Link, Unlink
  <2>2. CASE ~Unchanged'
    BY <2>2 DEF FoundInv
  <2>3. CASE Unchanged'
    <3>1. Unchanged /\ seen.dir # d /\ seen.dir \in Dir
      BY <2>1, <2>3, ChangeNoticed DEF Unchanged
    <3>2. content'[seen.dir] = content[seen.dir]
      BY <1>1, <1>11, <3>1 DEF Link, Unlink, TypeOK
    <3>3. pc = "read" => UNCHANGED unread
      BY <1>11, <3>1 DEF Link, Unlink, LinksInv, Scanning
    <3> QED
      BY <2>1, <3>1, <3>2, <3>3 DEF FoundInv, FoundBut, Inos, Scanning
  <2> QED
    BY <2>2, <2>3
<1>12. CASE Environment
  BY <1>2, <1>11, <1>12
  DEF Environment, Exec, RunsvExits, Signal, Tick, MoveAway, MoveIn, MoveBack
<1>13. CASE UNCHANGED vars
  BY <1>2, <1>13 DEF vars
<1> QED
  BY <1>3, <1>4, <1>5, <1>6, <1>7, <1>8, <1>9, <1>10, <1>12, <1>13 DEF Next, Step

(* No change of a services directory is missed, as long as it is not switched *)
(* between the stat and the chdir of one pass: when runsvdir waits and sees   *)
(* no reason to scan its entries are the subdirectories that are there, as    *)
(* far as there is room, unless opendir or a fork failed in the last scan.    *)
THEOREM ChangesAreSeen ==
  ASSUME "switch" \notin Faults
  PROVE  Spec => []NothingMissed
<1> DEFINE Inv == StartedInv /\ TimesInv /\ LinksInv /\ FoundInv
<1>1. Init => Inv
  BY RunsvdirAssumption
  DEF Init, StartedInv, TimesInv, LinksInv, FoundInv, Scanning, Nothing, Unchanged
<1>2. TypeInv /\ Inv /\ [Next]_vars => Inv'
  BY StartedNext, TimesNext, LinksNext, FoundNext
<1>3. TypeInv /\ Inv => NothingMissed
  BY DEF FoundInv, NothingMissed, Settled, Unchanged, Scanning, TypeInv, TypeOK
<1> QED
  BY <1>1, <1>2, <1>3, TypeInvHolds, PTL DEF Spec
=============================================================================
