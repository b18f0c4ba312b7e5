---------------------------- MODULE LogKeptProofs ----------------------------
(***************************************************************************)
(* Proof that Logdir implements Log: each step of svlogd, of a processor   *)
(* and of a crash is a step of the abstract log or leaves it as it is. And *)
(* how many logs there are at most.                                        *)
(***************************************************************************)
EXTENDS LogdirProofs

-----------------------------------------------------------------------------
(* What is in a log, and what of it is on the disk. *)

\* All of a file is on the disk.
Closed(f) == f.synced = Len(f.data)

\* The whole of a sequence, and a prefix of a prefix.
LEMMA Entire == \A d \in Seq(Nat) : SubSeq(d, 1, Len(d)) = d
<1> SUFFICES ASSUME NEW d \in Seq(Nat) PROVE SubSeq(d, 1, Len(d)) = d
  OBVIOUS
<1>1. Len(d) \in Nat /\ Len(d) \in 0..Len(d)
  BY LenProperties
<1>2. LET e == SubSeq(d, 1, Len(d)) IN
      e \in Seq(Nat) /\ Len(e) = Len(d) /\ \A k \in 1..Len(d) : e[k] = d[k]
  BY <1>1, Prefix
<1> QED
  BY <1>1, <1>2, SeqEqual

LEMMA PrefixOfPrefix ==
  ASSUME NEW d \in Seq(Nat), NEW n \in 0..Len(d), NEW m \in 0..n
  PROVE  SubSeq(SubSeq(d, 1, n), 1, m) = SubSeq(d, 1, m)
<1> DEFINE e == SubSeq(d, 1, n)
<1>1. Len(d) \in Nat /\ m \in 0..Len(d)
  BY LenProperties
<1>2. e \in Seq(Nat) /\ Len(e) = n /\ \A k \in 1..n : e[k] = d[k]
  BY Prefix
<1> HIDE DEF e
<1>3. /\ SubSeq(e, 1, m) \in Seq(Nat) /\ Len(SubSeq(e, 1, m)) = m
      /\ \A k \in 1..m : SubSeq(e, 1, m)[k] = e[k]
  BY <1>2, Prefix
<1>4. /\ SubSeq(d, 1, m) \in Seq(Nat) /\ Len(SubSeq(d, 1, m)) = m
      /\ \A k \in 1..m : SubSeq(d, 1, m)[k] = d[k]
  BY <1>1, Prefix
<1>5. \A k \in 1..m : SubSeq(e, 1, m)[k] = SubSeq(d, 1, m)[k]
  BY <1>1, <1>2, <1>3, <1>4
<1> QED
  BY <1>3, <1>4, <1>5, SeqEqual DEF e

\* What is on the disk of a file.
LEMMA OnDiskFacts ==
  ASSUME NEW f, Sound(f)
  PROVE  /\ OnDisk(f).data = SubSeq(f.data, 1, f.synced)
         /\ OnDisk(f).whole = f.whole
         /\ Range(OnDisk(f).data) \subseteq Range(f.data)
         /\ Closed(f) => OnDisk(f).data = f.data
<1>1. /\ f.data \in Seq(Nat) /\ Len(f.data) \in Nat /\ f.synced \in 0..Len(f.data)
      /\ f.synced \in f.synced..Len(f.data)
  BY FileFacts
<1>2. OnDisk(f).data = SubSeq(f.data, 1, f.synced) /\ OnDisk(f).whole = f.whole
  BY <1>1, TornFacts DEF OnDisk
<1>3. Range(OnDisk(f).data) \subseteq Range(f.data)
  BY <1>1, <1>2, RunPrefix
<1>4. Closed(f) => OnDisk(f).data = f.data
  BY <1>1, <1>2, Entire DEF Closed
<1> QED
  BY <1>2, <1>3, <1>4

\* What a file that loses its unsynced part, or more of it, has on the disk.
LEMMA OnDiskTorn ==
  ASSUME NEW f, Sound(f), NEW n \in f.synced..Len(f.data)
  PROVE  /\ OnDisk(Torn(f, n)).data = OnDisk(f).data
         /\ OnDisk(Torn(f, n)).whole = f.whole
         /\ Range(Torn(f, n).data) \subseteq Range(f.data)
         /\ Torn(f, n).whole = f.whole
         /\ Closed(f) => Torn(f, n).data = f.data /\ Closed(Torn(f, n))
<1>1. /\ f.data \in Seq(Nat) /\ Len(f.data) \in Nat /\ f.synced \in 0..Len(f.data)
      /\ n \in 0..Len(f.data) /\ f.synced <= n
  BY FileFacts
<1>2. /\ Torn(f, n).data = SubSeq(f.data, 1, n) /\ Torn(f, n).data \in Seq(Nat)
      /\ Len(Torn(f, n).data) = n /\ Torn(f, n).synced = f.synced
      /\ Torn(f, n).whole = f.whole
  BY TornFacts
<1>3. Sound(Torn(f, n))
  BY FileFacts
<1>4. OnDisk(Torn(f, n)).data = SubSeq(SubSeq(f.data, 1, n), 1, f.synced)
      /\ OnDisk(Torn(f, n)).whole = f.whole
  BY <1>2, <1>3, OnDiskFacts
<1>5. SubSeq(SubSeq(f.data, 1, n), 1, f.synced) = SubSeq(f.data, 1, f.synced)
  BY <1>1, PrefixOfPrefix
<1>6. OnDisk(f).data = SubSeq(f.data, 1, f.synced)
  BY OnDiskFacts
<1>7. Range(Torn(f, n).data) \subseteq Range(f.data)
  BY <1>1, <1>2, RunPrefix
<1>8. ASSUME Closed(f) PROVE Torn(f, n).data = f.data /\ Closed(Torn(f, n))
  <2>1. n = Len(f.data)
    BY <1>1, <1>8 DEF Closed
  <2>2. Torn(f, n).data = f.data
    BY <1>1, <1>2, <2>1, Entire
  <2> QED
    BY <1>2, <1>8, <2>2 DEF Closed
<1> QED
  BY <1>2, <1>4, <1>5, <1>6, <1>7, <1>8

\* Of a file that grows no more is on the disk than before.
LEMMA PrefixOfConcat ==
  ASSUME NEW d \in Seq(Nat), NEW e \in Seq(Nat), NEW n \in 0..Len(d)
  PROVE  SubSeq(d \o e, 1, n) = SubSeq(d, 1, n)
<1>1. Len(d) \in Nat /\ Len(e) \in Nat /\ n \in Nat
  BY LenProperties
<1>2. /\ d \o e \in Seq(Nat) /\ Len(d \o e) = Len(d) + Len(e)
      /\ \A k \in 1..n : (d \o e)[k] = d[k]
  BY <1>1, ConcatProperties
<1> DEFINE c == d \o e
<1>3. c \in Seq(Nat) /\ n \in 0..Len(c) /\ \A k \in 1..n : c[k] = d[k]
  BY <1>1, <1>2
<1> HIDE DEF c
<1>4. /\ SubSeq(c, 1, n) \in Seq(Nat) /\ Len(SubSeq(c, 1, n)) = n
      /\ \A k \in 1..n : SubSeq(c, 1, n)[k] = c[k]
  BY <1>3, Prefix
<1>5. /\ SubSeq(d, 1, n) \in Seq(Nat) /\ Len(SubSeq(d, 1, n)) = n
      /\ \A k \in 1..n : SubSeq(d, 1, n)[k] = d[k]
  BY Prefix
<1> QED
  BY <1>1, <1>3, <1>4, <1>5, SeqEqual DEF c

\* Names.
LEMMA SavedFacts ==
  ASSUME NEW F, DOMAIN F \subseteq Name
  PROVE  /\ \A f \in Saved(F) : f \in DOMAIN F /\ f \in Name /\ f.stamp \in Nat
                                /\ f.ext \in {"s", "u"}
         /\ \A f \in DOMAIN F : f \in Saved(F) <=> f.ext # "t"
  BY DEF Saved, Name

LEMMA InKept ==
  \A k : k \in Kept <=> \/ here /\ k \in Range(current.data)
                        \/ \E f \in Saved(old) : old[f].whole /\ k \in Range(old[f].data)
  BY DEF Kept, Held, Saved

LEMMA HeldOnDisk ==
  ASSUME NEW h, NEW c, NEW F, SoundDir(F)
  PROVE  \A k : k \in Held(h, OnDisk(c), [f \in DOMAIN F |-> OnDisk(F[f])]) <=>
           \/ h /\ k \in Range(OnDisk(c).data)
           \/ \E f \in Saved(F) : F[f].whole /\ k \in Range(OnDisk(F[f]).data)
<1> DEFINE G == [f \in DOMAIN F |-> OnDisk(F[f])]
<1>1. \A f \in DOMAIN F : G[f] = OnDisk(F[f]) /\ G[f].whole = F[f].whole
  BY OnDiskFacts DEF SoundDir
<1>2. DOMAIN G = DOMAIN F /\ Saved(G) = Saved(F) /\ \A f \in Saved(F) : f \in DOMAIN F
  BY DEF Saved
<1> HIDE DEF G
<1>3. \A k : k \in Held(h, OnDisk(c), G) <=>
         \/ h /\ k \in Range(OnDisk(c).data)
         \/ \E f \in Saved(G) : G[f].whole /\ k \in Range(G[f].data)
  BY DEF Held
<1>4. \A k : k \in Held(h, OnDisk(c), G) <=>
         \/ h /\ k \in Range(OnDisk(c).data)
         \/ \E f \in Saved(F) : F[f].whole /\ k \in Range(OnDisk(F[f]).data)
  BY <1>1, <1>2, <1>3
<1> QED
  BY <1>4 DEF G

LEMMA InDisk ==
  ASSUME TypeInv
  PROVE  \A k : k \in Disk <=>
           \/ here /\ k \in Range(OnDisk(current).data)
           \/ \E f \in Saved(old) : old[f].whole /\ k \in Range(OnDisk(old[f]).data)
  BY HeldOnDisk DEF Disk, TypeInv

LEMMA InDiskNext ==
  ASSUME TypeInv'
  PROVE  \A k : k \in Disk' <=>
           \/ here' /\ k \in Range(OnDisk(current').data)
           \/ \E f \in Saved(old') : old'[f].whole /\ k \in Range(OnDisk(old'[f]).data)
  BY HeldOnDisk DEF Disk, TypeInv

-----------------------------------------------------------------------------
(* The oldest file. *)

LEMMA Least ==
  ASSUME NEW T, T \subseteq Nat, T # {}
  PROVE  \E x \in T : \A y \in T : x <= y
<1>1. PICK x \in T : \A y \in T : ~ (<<y, x>> \in OpToRel(<, Nat))
  BY NatLessThanWellFounded, WFMin
<1>2. \A y \in T : ~ (y < x)
  <2> SUFFICES ASSUME NEW y \in T, y < x PROVE FALSE
    OBVIOUS
  <2>1. x \in Nat /\ y \in Nat
    BY <1>1
  <2>2. <<y, x>> \in OpToRel(<, Nat)
    BY <2>1, Zenon DEF OpToRel
  <2> QED
    BY <1>1, <2>2
<1>3. x \in Nat /\ \A y \in T : y \in Nat
  BY <1>1
<1>4. \A y \in T : x <= y
  BY <1>2, <1>3
<1> QED
  BY <1>1, <1>4

Age(f) == 3 * f.stamp + Rank(f.ext)

LEMMA AgeFacts ==
  /\ \A f \in Name : Age(f) \in Nat
  /\ \A f, g \in Name : Age(f) <= Age(g) => f = g \/ Before(f, g)
<1>1. \A f \in Name : f.stamp \in Nat /\ Rank(f.ext) \in 1..3
  BY DEF Name, Rank
<1>2. \A f, g \in Name : f.stamp = g.stamp /\ Rank(f.ext) = Rank(g.ext) => f = g
  BY DEF Name, Rank
<1>3. \A f \in Name : Age(f) \in Nat
  BY <1>1 DEF Age
<1>4. ASSUME NEW f \in Name, NEW g \in Name, Age(f) <= Age(g) PROVE f = g \/ Before(f, g)
  <2> DEFINE a == f.stamp
             b == g.stamp
             c == Rank(f.ext)
             d == Rank(g.ext)
  <2>1. a \in Nat /\ b \in Nat /\ c \in 1..3 /\ d \in 1..3 /\ 3 * a + c <= 3 * b + d
    BY <1>1, <1>4 DEF Age
  <2> HIDE DEF a, b, c, d
  <2>2. a < b \/ (a = b /\ c < d) \/ (a = b /\ c = d)
    BY <2>1
  <2> QED
    BY <1>2, <2>2 DEF a, b, c, d, Before
<1> QED
  BY <1>3, <1>4

LEMMA OldestFacts ==
  ASSUME NEW S, S \subseteq Name, S # {}
  PROVE  Oldest(S) \in S /\ \A g \in S \ {Oldest(S)} : Before(Oldest(S), g)
<1> DEFINE T == {Age(f) : f \in S}
<1>1. T \subseteq Nat /\ T # {}
  BY AgeFacts
<1>2. PICK x \in T : \A y \in T : x <= y
  BY <1>1, Least
<1>3. PICK f \in S : \A g \in S : Age(f) <= Age(g)
  BY <1>2
<1>4. \A g \in S \ {f} : Before(f, g)
  BY <1>3, AgeFacts
<1>5. \E m \in S : \A g \in S \ {m} : Before(m, g)
  BY <1>4
<1> QED
  BY <1>5 DEF Oldest

-----------------------------------------------------------------------------
(* What is deleted. *)

\* All files but the output of processors are whole. The output of one may be
\* there in two places, or its end be lost: its input, when it is still there,
\* holds all of it, and is on the disk.
FilesKept ==
  /\ \A f \in Saved(old) : old[f].whole
  /\ \A f \in Saved(old) : f.ext = "s" /\ N(f.stamp, "u") \in DOMAIN old =>
       /\ Closed(old[N(f.stamp, "u")])
       /\ Range(old[f].data) \subseteq Range(old[N(f.stamp, "u")].data)

\* So of two files of the same time one is the input of the other.
LEMMA Twins ==
  ASSUME TypeInv, NEW f \in Saved(old), NEW g \in Saved(old), f.stamp = g.stamp, f # g
  PROVE  \/ f.ext = "s" /\ g = N(f.stamp, "u") /\ Before(f, g)
         \/ g.ext = "s" /\ f = N(g.stamp, "u") /\ Before(g, f)
<1>1. f \in Name /\ g \in Name /\ f.ext \in {"s", "u"} /\ g.ext \in {"s", "u"}
  BY SavedFacts DEF TypeInv, SoundDir
<1>2. f = N(f.stamp, f.ext) /\ g = N(g.stamp, g.ext)
  BY <1>1 DEF Name, N
<1>3. f.ext # g.ext
  BY <1>2
<1>4. f.stamp \in Nat
  BY <1>1 DEF Name
<1> QED
  BY <1>1, <1>2, <1>3, <1>4 DEF Before, Rank

LEMMA OlderTwin ==
  ASSUME TypeInv, FilesKept, NEW f \in Saved(old), NEW g \in Saved(old),
         f.stamp = g.stamp, Before(f, g)
  PROVE  Closed(old[g]) /\ Range(old[f].data) \subseteq Range(old[g].data)
<1>1. f \in Name /\ g \in Name /\ f.stamp \in Nat /\ g \in DOMAIN old
  BY SavedFacts DEF TypeInv, SoundDir
<1>2. f # g /\ ~Before(g, f)
  BY <1>1 DEF Before, Name, Rank
<1>3. f.ext = "s" /\ g = N(f.stamp, "u")
  BY <1>2, Twins
<1> QED
  BY <1>1, <1>3 DEF FilesKept

\* A unit that is in one output, and not on the disk, is nowhere else.
LEMMA OutputAlone ==
  ASSUME TypeInv, OrderInv, FilesKept, NEW f \in Saved(old), f.ext = "s",
         NEW k \in Range(old[f].data), k \notin Disk
  PROVE  /\ k \notin Range(current.data)
         /\ \A g \in Saved(old) : k \in Range(old[g].data) => g = f
<1>1. \A g \in Saved(old) : /\ g \in DOMAIN old /\ g.stamp \in Nat /\ Sound(old[g])
                            /\ Range(old[g].data) \subseteq Nat
                            /\ \A j \in Range(old[g].data) :
                                 j <= g.stamp /\ \A h \in Saved(old) : h.stamp < g.stamp => h.stamp < j
  <2> TAKE g \in Saved(old)
  <2>1. /\ g \in DOMAIN old /\ g.stamp \in Nat /\ Sound(old[g])
        /\ Range(old[g].data) \subseteq Nat
    BY OrderTypes, RangeFacts DEF Saved
  <2>2. Follows(old[g].data, g.stamp, DOMAIN old)
    BY <2>1 DEF OrderInv, DirOrder
  <2> QED
    BY <2>1, <2>2 DEF Follows, Saved
<1>2. \A j \in Range(current.data) : j \in Nat /\ \A h \in Saved(old) : h.stamp < j
  BY OrderTypes DEF OrderInv, Saved
<1>3. k \notin Range(current.data)
  BY <1>1, <1>2
<1>4. ASSUME NEW g \in Saved(old), k \in Range(old[g].data), g # f PROVE FALSE
  <2>1. f.stamp = g.stamp
    BY <1>1, <1>4
  <2>2. CASE g = N(f.stamp, "u")
    <3>1. Closed(old[g]) /\ Sound(old[g]) /\ old[g].whole
      BY <1>1, <1>4, <2>2 DEF FilesKept
    <3>2. k \in Range(OnDisk(old[g]).data)
      BY <1>4, <3>1, OnDiskFacts
    <3> QED
      BY <1>4, <3>1, <3>2, InDisk
  <2>3. CASE g.ext = "s" /\ f = N(g.stamp, "u")
    BY <2>3, NameFacts
  <2> QED
    BY <1>4, <2>1, <2>2, <2>3, Twins
<1> QED
  BY <1>3, <1>4

LEMMA InOutput ==
  \A k : k \in Output <=> /\ k \notin Disk
                          /\ \E f \in Saved(old) : f.ext = "s" /\ k \in Range(old[f].data)
  BY DEF Output, Saved

LEMMA InOutputNext ==
  \A k : k \in Output' <=> /\ k \notin Disk'
                           /\ \E f \in Saved(old') : f.ext = "s" /\ k \in Range(old'[f].data)
  BY DEF Output, Saved

\* Of the old logs D has none but g, the oldest.
OldestAtMost(D, g) ==
  \A f \in Saved(old) : f \in D => f = g /\ \A h \in Saved(old) : h = g \/ Before(g, h)

\* The oldest file is deleted, perhaps, and output of processors.
LEMMA Forgotten ==
  ASSUME TypeInv, OrderInv, FilesKept, NEW g, NEW D, old' = Without(old, D),
         OldestAtMost(D, g), TypeInv', current' = current, here' = here \/ current.data = <<>>
  PROVE  /\ Kept' \subseteq Kept
         /\ \A k \in Kept \ Kept', j \in Kept' : k < j
         /\ Disk' = Disk \cap Kept' /\ Output' = Output \cap Kept'
<1> USE DEF OldestAtMost
<1>1. /\ Saved(old') = Saved(old) \ D /\ \A f \in Saved(old) \ D : old'[f] = old[f]
  BY DEF Saved, Without
<1>2. \A f \in Saved(old) : /\ f \in DOMAIN old /\ f \in Name /\ f.stamp \in Nat
                            /\ Sound(old[f]) /\ Range(old[f].data) \subseteq Nat
                            /\ \A k \in Range(old[f].data) :
                                 k <= f.stamp /\ \A h \in Saved(old) : h.stamp < f.stamp => h.stamp < k
  <2> TAKE f \in Saved(old)
  <2>1. /\ f \in DOMAIN old /\ f \in Name /\ f.stamp \in Nat /\ Sound(old[f])
        /\ Range(old[f].data) \subseteq Nat
    BY OrderTypes, RangeFacts DEF Saved
  <2>2. Follows(old[f].data, f.stamp, DOMAIN old)
    BY <2>1 DEF OrderInv, DirOrder
  <2> QED
    BY <2>1, <2>2 DEF Follows, Saved
<1>3. \A k \in Range(current.data) : k \in Nat /\ \A h \in Saved(old) : h.stamp < k
  BY OrderTypes DEF OrderInv, Saved
<1>4. current.data = <<>> => Range(current.data) = {} /\ Range(OnDisk(current).data) = {}
  <2>1. Sound(current)
    BY DEF TypeInv
  <2>2. Range(OnDisk(current).data) \subseteq Range(current.data)
    BY <2>1, OnDiskFacts
  <2>3. current.data = <<>> => Range(current.data) = {}
    BY RunNothing
  <2> QED
    BY <2>2, <2>3
<1>5. \A k : k \in Kept' <=> \/ here /\ k \in Range(current.data)
                             \/ \E f \in Saved(old) \ D : k \in Range(old[f].data)
  <2>1. \A k : k \in Kept' <=> \/ here' /\ k \in Range(current'.data)
                               \/ \E f \in Saved(old') : old'[f].whole /\ k \in Range(old'[f].data)
    BY DEF Kept, Held, Saved
  <2> QED
    BY <1>1, <1>4, <2>1 DEF FilesKept
<1>6. \A k : k \in Kept <=> \/ here /\ k \in Range(current.data)
                            \/ \E f \in Saved(old) : k \in Range(old[f].data)
  BY InKept DEF FilesKept
<1>7. \A k : k \in Disk <=> \/ here /\ k \in Range(OnDisk(current).data)
                            \/ \E f \in Saved(old) : k \in Range(OnDisk(old[f]).data)
  BY InDisk DEF FilesKept
<1>8. \A k : k \in Disk' <=> \/ here /\ k \in Range(OnDisk(current).data)
                             \/ \E f \in Saved(old) \ D : k \in Range(OnDisk(old[f]).data)
  <2>1. \A k : k \in Disk' <=>
           \/ here' /\ k \in Range(OnDisk(current').data)
           \/ \E f \in Saved(old') : old'[f].whole /\ k \in Range(OnDisk(old'[f]).data)
    BY InDiskNext
  <2> QED
    BY <1>1, <1>4, <2>1 DEF FilesKept
\* A unit of a deleted file that is in another file is on the disk there.
<1>9. ASSUME NEW k, NEW f \in Saved(old) \cap D, k \in Range(old[f].data), k \in Kept'
      PROVE  k \in Disk'
  <2>1. f = g /\ k <= g.stamp /\ k \in Nat /\ g.stamp \in Nat
    BY <1>2, <1>9
  <2>2. ~ (k \in Range(current.data))
    BY <1>3, <1>9, <2>1
  <2>3. PICK h \in Saved(old) \ D : k \in Range(old[h].data)
    BY <1>5, <1>9, <2>2
  <2>4. h # g /\ Before(g, h)
    BY <1>9, <2>1, <2>3
  <2>5. ~ (g.stamp < h.stamp)
    BY <1>2, <1>9, <2>1, <2>3
  <2>6. g.stamp = h.stamp
    BY <2>4, <2>5 DEF Before
  <2>7. Closed(old[h]) /\ Sound(old[h])
    BY <1>2, <1>9, <2>1, <2>3, <2>4, <2>6, OlderTwin
  <2>8. k \in Range(OnDisk(old[h]).data)
    BY <2>3, <2>7, OnDiskFacts
  <2> QED
    BY <1>8, <2>3, <2>8
<1>10. ASSUME NEW k \in Kept, k \notin Kept', NEW j \in Kept' PROVE k < j
  <2>1. PICK f \in Saved(old) \cap D : k \in Range(old[f].data)
    BY <1>5, <1>6, <1>10
  <2>2. f = g /\ k <= g.stamp /\ k \in Nat /\ g.stamp \in Nat
    BY <1>2, <2>1
  <2>3. CASE j \in Range(current.data)
    BY <1>3, <2>1, <2>2, <2>3
  <2>4. ASSUME NEW h \in Saved(old) \ D, j \in Range(old[h].data) PROVE k < j
    <3>1. h # g /\ Before(g, h)
      BY <2>1, <2>2
    <3>2. g.stamp # h.stamp
      <4> SUFFICES ASSUME g.stamp = h.stamp PROVE FALSE
        OBVIOUS
      <4>1. Range(old[g].data) \subseteq Range(old[h].data)
        BY <2>1, <2>2, <3>1, OlderTwin
      <4> QED
        BY <1>5, <1>10, <2>1, <2>2, <2>4, <4>1
    <3>3. g.stamp < h.stamp
      BY <3>1, <3>2 DEF Before
    <3>4. g.stamp < j /\ j \in Nat
      BY <1>2, <2>1, <2>2, <2>4, <3>3
    <3> QED
      BY <2>2, <3>4
  <2> QED
    BY <1>5, <2>3, <2>4
<1>11. \A f \in Saved(old) : Range(OnDisk(old[f]).data) \subseteq Range(old[f].data)
  BY <1>2, OnDiskFacts
<1>12. Range(OnDisk(current).data) \subseteq Range(current.data)
  BY OnDiskFacts DEF TypeInv
<1>13. Kept' \subseteq Kept
  BY <1>5, <1>6
<1>14. Disk' \subseteq Disk \cap Kept'
  BY <1>5, <1>7, <1>8, <1>11, <1>12, <1>13
<1>15. ASSUME NEW k \in Disk, k \in Kept' PROVE k \in Disk'
  BY <1>7, <1>8, <1>9, <1>11, <1>15
\* Output that is not on the disk is gone from the log with its file.
<1>16. ASSUME NEW k \in Output, k \in Kept' PROVE k \in Output'
  <2>1. PICK f \in Saved(old) : f.ext = "s" /\ k \in Range(old[f].data) /\ k \notin Disk
    BY <1>16, InOutput
  <2>2. f \notin D
    BY <1>5, <1>16, <2>1, OutputAlone
  <2> QED
    BY <1>1, <1>14, <2>1, <2>2, InOutputNext
<1>17. Output' \subseteq Output \cap Kept'
  BY <1>1, <1>5, <1>15, InOutput, InOutputNext
<1> QED
  BY <1>10, <1>13, <1>14, <1>15, <1>16, <1>17

-----------------------------------------------------------------------------
(* What keeps the data of a log while a processor takes the place of its     *)
(* input by its output.                                                      *)

\* Where svlogd is between the rename of current to @fn and the start of a
\* processor for it, or done with one.
AtLog == {"create", "start"} \cup Finishing

\* Each processor has a log of its own, which is on the disk, and reads it.
InputsKept ==
  /\ \A p, q \in Pid : Busy(p) /\ Busy(q) /\ proc[p].stamp = proc[q].stamp => p = q
  /\ \A p \in Pid : proc[p].st # "killed"
  /\ \A p \in Pid : Busy(p) /\ N(proc[p].stamp, "u") \in DOMAIN old =>
       /\ Closed(old[N(proc[p].stamp, "u")])
       /\ proc[p].st \in {"running", "ok"} =>
            proc[p].data = old[N(proc[p].stamp, "u")].data

\* The output for @fn can take the place of the input, which is there.
Replaceable ==
  /\ N(fn, "u") \in DOMAIN old
  /\ N(fn, "t") \in DOMAIN old =>
       old[N(fn, "t")].whole /\ old[N(fn, "t")].data = old[N(fn, "u")].data

\* It has done so, and holds what the input does, which may be there still.
Replaced ==
  /\ N(fn, "s") \in DOMAIN old
  /\ N(fn, "u") \in DOMAIN old => old[N(fn, "s")].data = old[N(fn, "u")].data

\* No processor but svlogd's own has anything to do with @fn, and what that one
\* reads, and its output if it has ended well, are there until svlogd takes it.
RotationKept ==
  /\ pc \notin {"down", "open"} => config \in Configs
  /\ pc \in AtLog =>
       /\ \A p \in Pid : Busy(p) => proc[p].stamp # fn
       /\ N(fn, "u") \in DOMAIN old => Closed(old[N(fn, "u")])
  /\ pc \notin {"down", "open"} /\ ppid # 0 =>
       /\ proc[ppid].st \in {"running", "ok"} => N(fn, "u") \in DOMAIN old
       /\ proc[ppid].st = "ok" => Replaceable
  /\ pc = "stopped" /\ ~failed => Replaceable
  /\ pc = "unlink" => Replaced

\* No processor is ended by a signal, and on a full disk no log is deleted from
\* a directory with a processor.
NoneKilled == "killed" \notin Events
KeepsInputs == \A c \in Configs : c.processor => c.nmin >= c.nmax

\* These leave the old logs alone.
Quiet ==
  \/ Start \/ OpenFails \/ Open \/ AppendCurrent \/ (\E n \in 1..2 : Flush(n))
  \/ RotateFirst \/ Write \/ RotateWaits \/ RotateNothing \/ Sync \/ RotateEnds
  \/ Wait \/ (\E p \in Pid : Child(p)) \/ RenameState \/ Alarm \/ Hup \/ Term
  \/ ExitWaits \/ Exit \/ Kill \/ Fill \/ Free
  \/ \E p \in Pid, how \in Ended : EndBadly(p, how)

LEMMA OldQuiet == Quiet => old' = old
<1> USE DEF files, logs, mem, aux
<1>1. Start \/ OpenFails \/ Open \/ AppendCurrent \/ (\E n \in 1..2 : Flush(n)) => old' = old
  BY DEF Start, OpenFails, Open, AppendCurrent, Flush
<1>2. RotateFirst \/ Write \/ RotateWaits \/ RotateNothing \/ Sync \/ RotateEnds => old' = old
  BY DEF RotateFirst, Write, RotateWaits, RotateNothing, Sync, RotateEnds
<1>3. Wait \/ (\E p \in Pid : Child(p)) \/ RenameState \/ Alarm \/ Hup \/ Term => old' = old
  BY DEF Wait, Child, RenameState, Alarm, Hup, Term
<1>4. ExitWaits \/ Exit \/ Kill \/ Fill \/ Free => old' = old
  BY DEF ExitWaits, Exit, Kill, Fill, Free
<1>5. (\E p \in Pid, how \in Ended : EndBadly(p, how)) => old' = old
  BY DEF EndBadly
<1> QED
  BY <1>1, <1>2, <1>3, <1>4, <1>5 DEF Quiet

-----------------------------------------------------------------------------
(* The files. *)

\* A name for current that no log has.
LEMMA NewName ==
  ASSUME TypeInv, CurrentInv, OrderInv, SetAside \/ Rename
  PROVE  /\ \E e \in {"s", "u"} :
              old' = With(old, N(fn', e), current) /\ (e = "s" => Closed(current))
         /\ fn' = written /\ here /\ ~here' /\ current' = Empty /\ current.whole
         /\ \A f \in DOMAIN old : f.stamp # fn'
         /\ \A p \in Pid : proc[p].stamp # fn'
         /\ pc = "rename" => Closed(current)
<1>1. pc \in {"aside", "rename"} /\ here /\ current.data # <<>> /\ fn' = written
  BY DEF SetAside, Rename, Now, CurrentInv, Unsafe, mem
<1>2. PICK j \in Range(current.data) : TRUE
  BY <1>1, SomeUnit
<1>3. j <= written /\ j \in Nat /\ written \in Nat
  BY OrderTypes DEF OrderInv
<1>4. \A f \in DOMAIN old : f.stamp \in Nat /\ f.stamp < j
  BY OrderTypes DEF OrderInv
<1>5. \A p \in Pid : proc[p].stamp \in Nat /\ proc[p].stamp < j
  BY OrderTypes DEF OrderInv
<1>6. (\A f \in DOMAIN old : f.stamp # fn') /\ (\A p \in Pid : proc[p].stamp # fn')
  BY <1>1, <1>3, <1>4, <1>5
<1>7. ~here' /\ current' = Empty
  BY DEF SetAside, Rename
<1>8. pc = "rename" => Closed(current)
  BY DEF CurrentInv, Closed
<1>9. \E e \in {"s", "u"} :
        old' = With(old, N(fn', e), current) /\ (e = "s" => Closed(current))
  <2>1. CASE SetAside
    <3>1. old' = With(old, N(fn', "u"), current)
      BY <2>1 DEF SetAside
    <3> QED
      BY <3>1
  <2>2. CASE Rename
    <3>1. pc = "rename" /\ \E e \in {"s", "u"} : old' = With(old, N(fn', e), current)
      BY <2>2 DEF Rename, SavedName, mem
    <3> QED
      BY <1>8, <3>1
  <2> QED
    BY <2>1, <2>2
<1> QED
  BY <1>1, <1>6, <1>7, <1>8, <1>9 DEF CurrentInv

LEMMA FilesFewer ==
  ASSUME FilesKept, \A f \in Saved(old') : f \in Saved(old) /\ old'[f] = old[f]
  PROVE  FilesKept'
<1>1. \A k : N(k, "u") \in DOMAIN old' => N(k, "u") \in Saved(old')
  BY NameFacts DEF Saved
<1>2. \A k : N(k, "u") \in DOMAIN old' =>
        N(k, "u") \in DOMAIN old /\ old'[N(k, "u")] = old[N(k, "u")]
  BY <1>1 DEF Saved
<1> QED
  BY <1>2 DEF FilesKept

LEMMA FilesWithout ==
  ASSUME FilesKept, NEW S, old' = Without(old, S)
  PROVE  FilesKept'
  BY FilesFewer DEF Saved, Without

LEMMA FilesAdded ==
  ASSUME TypeInv, CurrentInv, OrderInv, FilesKept, SetAside \/ Rename
  PROVE  FilesKept'
<1>1. PICK e \in {"s", "u"} : old' = With(old, N(fn', e), current)
  BY NewName
<1>2. N(fn', e).stamp = fn' /\ N(fn', e).ext = e
  BY NameFacts
<1>3. current.whole /\ \A f \in DOMAIN old : f.stamp # fn'
  BY NewName
<1>w. /\ DOMAIN old' = DOMAIN old \cup {N(fn', e)} /\ old'[N(fn', e)] = current
      /\ \A f \in DOMAIN old : f # N(fn', e) => old'[f] = old[f]
  BY <1>1 DEF With
<1>4. Saved(old') = Saved(old) \cup {N(fn', e)}
  BY <1>2, <1>w DEF Saved
<1>5. old'[N(fn', e)] = current /\ \A f \in Saved(old) : old'[f] = old[f] /\ f.stamp # fn'
  BY <1>2, <1>3, <1>w DEF Saved
<1>6. \A f \in Saved(old') : old'[f].whole
  BY <1>3, <1>4, <1>5 DEF FilesKept
<1>7. ASSUME NEW f \in Saved(old'), f.ext = "s", N(f.stamp, "u") \in DOMAIN old'
      PROVE  /\ Closed(old'[N(f.stamp, "u")])
             /\ Range(old'[f].data) \subseteq Range(old'[N(f.stamp, "u")].data)
  <2>1. f # N(fn', e)
    <3> SUFFICES ASSUME f = N(fn', e) PROVE FALSE
      OBVIOUS
    <3>1. N(f.stamp, "u").stamp = fn' /\ N(f.stamp, "u") # N(fn', e)
      BY <1>2, <1>7, NameFacts
    <3> QED
      BY <1>3, <1>7, <1>w, <3>1
  <2>2. f \in Saved(old) /\ f.stamp # fn' /\ old'[f] = old[f]
    BY <1>4, <1>5, <2>1
  <2>3. N(f.stamp, "u") # N(fn', e)
    BY <1>2, <2>2, NameFacts
  <2> QED
    BY <1>7, <1>w, <2>2, <2>3 DEF FilesKept
<1> QED
  BY <1>6, <1>7 DEF FilesKept

\* The output of a processor takes the place of its input.
LEMMA OutputFacts ==
  ASSUME TypeInv, RotationKept, RenameOutput
  PROVE  \E c : /\ old' = With(Without(old, {N(fn, "t")}), N(fn, "s"), c)
                /\ c.whole /\ c.data = old[N(fn, "u")].data
                /\ N(fn, "u") \in DOMAIN old /\ Closed(old[N(fn, "u")])
<1>1. /\ N(fn, "t") \in DOMAIN old /\ N(fn, "u") \in DOMAIN old
      /\ old[N(fn, "t")].whole /\ old[N(fn, "t")].data = old[N(fn, "u")].data
  BY DEF RenameOutput, RotationKept, Replaceable
<1>2. old[N(fn, "t")] \in File
  BY <1>1, OrderTypes DEF Sound
<1>3. Closed(old[N(fn, "u")])
  BY <1>1 DEF RenameOutput, RotationKept, AtLog, Finishing
<1> DEFINE c == [old[N(fn, "t")] EXCEPT !.x = TRUE]
<1>4. c.data = old[N(fn, "t")].data /\ c.whole = old[N(fn, "t")].whole
  BY <1>2 DEF File
<1>5. old' = With(Without(old, {N(fn, "t")}), N(fn, "s"), c)
  BY DEF RenameOutput
<1> HIDE DEF c
<1> QED
  BY <1>1, <1>3, <1>4, <1>5

\* All files but the two are as they were.
LEMMA OutputMoves ==
  ASSUME TypeInv, RotationKept, RenameOutput
  PROVE  /\ N(fn, "s") \in Saved(old') /\ old'[N(fn, "s")].whole
         /\ N(fn, "u") \in Saved(old) /\ N(fn, "u") \in Saved(old')
         /\ old'[N(fn, "s")].data = old[N(fn, "u")].data
         /\ old'[N(fn, "u")] = old[N(fn, "u")] /\ Closed(old[N(fn, "u")])
         /\ \A f \in Saved(old') : f # N(fn, "s") => f \in Saved(old) /\ old'[f] = old[f]
         /\ \A f \in Saved(old) : f # N(fn, "s") => f \in Saved(old') /\ old'[f] = old[f]
<1>1. PICK c : /\ old' = With(Without(old, {N(fn, "t")}), N(fn, "s"), c)
               /\ c.whole /\ c.data = old[N(fn, "u")].data
               /\ N(fn, "u") \in DOMAIN old /\ Closed(old[N(fn, "u")])
  BY OutputFacts
<1> DEFINE s == N(fn, "s")
           t == N(fn, "t")
           u == N(fn, "u")
<1>2. s.ext = "s" /\ t.ext = "t" /\ u.ext = "u"
  BY NameFacts
<1> HIDE DEF s, t, u
<1>3. /\ DOMAIN old' = (DOMAIN old \ {t}) \cup {s} /\ old'[s] = c
      /\ \A f \in DOMAIN old \ {t} : f # s => old'[f] = old[f]
  BY <1>1 DEF With, Without, s, t
<1>4. u \in Saved(old) /\ u # s /\ s \in Saved(old') /\ u \in Saved(old')
  BY <1>1, <1>2, <1>3 DEF Saved, u
<1>5. /\ \A f \in Saved(old') : f # s => f \in Saved(old) /\ old'[f] = old[f]
      /\ \A f \in Saved(old) : f # s => f \in Saved(old') /\ old'[f] = old[f]
  BY <1>2, <1>3 DEF Saved
<1> QED
  BY <1>1, <1>3, <1>4, <1>5 DEF s, u

LEMMA FilesOutput ==
  ASSUME TypeInv, FilesKept, RotationKept, RenameOutput
  PROVE  FilesKept'
<1>1. /\ N(fn, "s").ext = "s" /\ N(fn, "s").stamp = fn
      /\ \A k : N(k, "u").ext = "u" /\ N(k, "u") # N(fn, "s")
  BY NameFacts
<1>2. \A k : N(k, "u") \in DOMAIN old' =>
        N(k, "u") \in DOMAIN old /\ old'[N(k, "u")] = old[N(k, "u")]
  BY <1>1, OutputMoves DEF Saved
<1>3. \A f \in Saved(old') : old'[f].whole
  BY OutputMoves DEF FilesKept
<1>4. ASSUME NEW f \in Saved(old'), f.ext = "s", N(f.stamp, "u") \in DOMAIN old'
      PROVE  /\ Closed(old'[N(f.stamp, "u")])
             /\ Range(old'[f].data) \subseteq Range(old'[N(f.stamp, "u")].data)
  <2>1. CASE f = N(fn, "s")
    BY <1>1, <2>1, OutputMoves
  <2>2. CASE f # N(fn, "s")
    BY <1>2, <1>4, <2>2, OutputMoves DEF FilesKept
  <2> QED
    BY <2>1, <2>2
<1> QED
  BY <1>3, <1>4 DEF FilesKept

\* A crash takes nothing of a file that is on the disk.
LEMMA FilesTorn ==
  ASSUME TypeInv, FilesKept, Power
  PROVE  FilesKept'
<1>1. ASSUME NEW f \in Saved(old)
      PROVE  /\ old'[f].whole = old[f].whole
             /\ Range(old'[f].data) \subseteq Range(old[f].data)
             /\ Closed(old[f]) => old'[f].data = old[f].data /\ Closed(old'[f])
  <2>1. f \in DOMAIN old /\ Sound(old[f])
    BY DEF Saved, TypeInv, SoundDir
  <2>2. PICK n \in old[f].synced..Len(old[f].data) : old'[f] = Torn(old[f], n)
    BY <2>1, PowerFacts
  <2> QED
    BY <2>1, <2>2, OnDiskTorn
<1>2. DOMAIN old' = DOMAIN old /\ Saved(old') = Saved(old)
  BY PowerFacts DEF Saved
<1>3. \A k : N(k, "u") \in DOMAIN old => N(k, "u") \in Saved(old)
  BY NameFacts DEF Saved
<1>4. \A f \in Saved(old') : old'[f].whole
  BY <1>1, <1>2 DEF FilesKept
<1>5. ASSUME NEW f \in Saved(old'), f.ext = "s", N(f.stamp, "u") \in DOMAIN old'
      PROVE  /\ Closed(old'[N(f.stamp, "u")])
             /\ Range(old'[f].data) \subseteq Range(old'[N(f.stamp, "u")].data)
  <2> DEFINE u == N(f.stamp, "u")
  <2>1. f \in Saved(old) /\ u \in Saved(old) /\ u \in DOMAIN old
    BY <1>2, <1>3, <1>5
  <2>2. Closed(old[u]) /\ Range(old[f].data) \subseteq Range(old[u].data)
    BY <1>5, <2>1 DEF FilesKept
  <2> HIDE DEF u
  <2>3. /\ old'[u].data = old[u].data /\ Closed(old'[u])
        /\ Range(old'[f].data) \subseteq Range(old[f].data)
    BY <1>1, <2>1, <2>2
  <2> QED
    BY <2>2, <2>3 DEF u
<1> QED
  BY <1>4, <1>5 DEF FilesKept

\* A processor touches nothing but its output.
LEMMA BeginFacts ==
  ASSUME NEW p \in Pid, Begin(p) \/ EndWell(p)
  PROVE  \/ old' = old
         \/ \E c : old' = With(old, N(proc[p].stamp, "t"), c)
  BY DEF Begin, EndWell

\* All files but that one are as they were.
LEMMA OthersAlone ==
  ASSUME NEW p \in Pid, Begin(p) \/ EndWell(p)
  PROVE  /\ \A f : f # N(proc[p].stamp, "t") /\ (f \in DOMAIN old \/ f \in DOMAIN old') =>
              f \in DOMAIN old' /\ f \in DOMAIN old /\ old'[f] = old[f]
         /\ \A k : N(k, "u") \in DOMAIN old' =>
              N(k, "u") \in DOMAIN old /\ old'[N(k, "u")] = old[N(k, "u")]
<1>1. \A k : N(k, "u") # N(proc[p].stamp, "t")
  BY NameFacts
<1>2. ASSUME NEW c, old' = With(old, N(proc[p].stamp, "t"), c),
             NEW f, f # N(proc[p].stamp, "t"), f \in DOMAIN old \/ f \in DOMAIN old'
      PROVE  f \in DOMAIN old' /\ f \in DOMAIN old /\ old'[f] = old[f]
  BY <1>2 DEF With
<1>3. \A f : f # N(proc[p].stamp, "t") /\ (f \in DOMAIN old \/ f \in DOMAIN old') =>
        f \in DOMAIN old' /\ f \in DOMAIN old /\ old'[f] = old[f]
  BY <1>2, BeginFacts
<1> QED
  BY <1>1, <1>3

LEMMA FilesBegin ==
  ASSUME FilesKept, NEW p \in Pid, Begin(p) \/ EndWell(p)
  PROVE  FilesKept'
<1>1. N(proc[p].stamp, "t").ext = "t"
  BY NameFacts
<1>2. \A f \in Saved(old') : f \in Saved(old) /\ old'[f] = old[f]
  BY <1>1, OthersAlone DEF Saved
<1> QED
  BY <1>2, FilesFewer

LEMMA FilesStep ==
  ASSUME TypeInv, CurrentInv, OrderInv, FilesKept, RotationKept, Next
  PROVE  FilesKept'
<1>1. CASE Quiet
  BY <1>1, OldQuiet, FilesFewer
<1>2. CASE PruneAside \/ Create
  BY <1>2, FilesWithout DEF PruneAside, Create, RmOldest
<1>3. CASE NoSpace
  BY <1>3, FilesWithout, FilesFewer DEF NoSpace
<1>4. CASE Retry \/ UnlinkInput
  BY <1>4, FilesWithout DEF Retry, UnlinkInput
<1> QED
  BY <1>1, <1>2, <1>3, <1>4, FilesAdded, FilesOutput, FilesTorn, FilesBegin
  DEF Next, Step, Request, Environment, Quiet

-----------------------------------------------------------------------------
(* The processors and their inputs. *)

\* No processor begins, and no input changes.
LEMMA InputsLike ==
  ASSUME InputsKept,
         \A p \in Pid : Busy(p)' =>
           /\ Busy(p) /\ proc'[p].stamp = proc[p].stamp /\ proc'[p].st # "killed"
           /\ proc'[p].st \in {"running", "ok"} =>
                proc[p].st \in {"running", "ok"} /\ proc'[p].data = proc[p].data,
         \A p \in Pid : Busy(p) /\ N(proc[p].stamp, "u") \in DOMAIN old' =>
           /\ N(proc[p].stamp, "u") \in DOMAIN old
           /\ old'[N(proc[p].stamp, "u")] = old[N(proc[p].stamp, "u")]
  PROVE  InputsKept'
  BY DEF InputsKept, Busy

\* The same with the processors as they were.
LEMMA InputsSame ==
  ASSUME InputsKept, proc' = proc,
         \A p \in Pid : N(proc[p].stamp, "u") \in DOMAIN old' =>
           /\ N(proc[p].stamp, "u") \in DOMAIN old
           /\ old'[N(proc[p].stamp, "u")] = old[N(proc[p].stamp, "u")]
  PROVE  InputsKept'
  BY DEF InputsKept, Busy

LEMMA InputsAdded ==
  ASSUME TypeInv, CurrentInv, OrderInv, InputsKept, SetAside \/ Rename
  PROVE  InputsKept'
<1>1. PICK e \in {"s", "u"} : old' = With(old, N(fn', e), current)
  BY NewName
<1>2. proc' = proc /\ \A p \in Pid : proc[p].stamp # fn'
  BY NewName DEF SetAside, Rename
<1>3. \A p \in Pid : N(proc[p].stamp, "u") # N(fn', e)
  BY <1>2, NameFacts
<1> QED
  BY <1>1, <1>2, <1>3, InputsSame DEF With

LEMMA InputsOutput ==
  ASSUME TypeInv, InputsKept, RotationKept, RenameOutput
  PROVE  InputsKept'
<1>1. PICK c : old' = With(Without(old, {N(fn, "t")}), N(fn, "s"), c)
  BY OutputFacts
<1>2. \A k : N(k, "u") # N(fn, "s") /\ N(k, "u") # N(fn, "t")
  BY NameFacts
<1>3. \A k : N(k, "u") \in DOMAIN old' =>
        N(k, "u") \in DOMAIN old /\ old'[N(k, "u")] = old[N(k, "u")]
  BY <1>1, <1>2 DEF With, Without
<1> QED
  BY <1>3, InputsSame DEF RenameOutput

LEMMA InputsWithout ==
  ASSUME InputsKept, NEW S, old' = Without(old, S), proc' = proc
  PROVE  InputsKept'
  BY InputsSame DEF Without

\* A processor is started for @fn.
LEMMA InputsStarted ==
  ASSUME TypeInv, InputsKept, RotationKept, ProcessorStart, pc \in AtLog, fn' = fn,
         N(fn, "u") \in DOMAIN old' => N(fn, "u") \in DOMAIN old,
         \A f \in DOMAIN old' : f \in DOMAIN old /\ old'[f] = old[f]
  PROVE  InputsKept'
<1>1. CASE config.processor
  <2> DEFINE q == [Reaped EXCEPT !.st = "forked", !.stamp = fn, !.mine = TRUE]
  <2>1. PICK p \in Pid : proc' = [proc EXCEPT ![p] = q]
    BY <1>1 DEF ProcessorStart
  <2>2. q.st = "forked" /\ q.stamp = fn
    BY ForkedFacts, OrderTypes
  <2> HIDE DEF q
  <2>3. proc'[p] = q /\ \A r \in Pid \ {p} : proc'[r] = proc[r]
    BY <2>1, StateTypes
  <2>4. \A r \in Pid : Busy(r) => proc[r].stamp # fn
    BY DEF RotationKept
  <2>5. N(fn, "u") \in DOMAIN old' => Closed(old'[N(fn, "u")])
    BY DEF RotationKept
  <2>6. \A r \in Pid : proc'[r].st # "killed"
    BY <2>2, <2>3 DEF InputsKept
  <2>7. \A r, s \in Pid : Busy(r)' /\ Busy(s)' /\ proc'[r].stamp = proc'[s].stamp => r = s
    BY <2>2, <2>3, <2>4 DEF InputsKept, Busy
  <2>8. \A r \in Pid : Busy(r)' /\ N(proc'[r].stamp, "u") \in DOMAIN old' =>
          /\ Closed(old'[N(proc'[r].stamp, "u")])
          /\ proc'[r].st \in {"running", "ok"} =>
               proc'[r].data = old'[N(proc'[r].stamp, "u")].data
    BY <2>2, <2>3, <2>5 DEF InputsKept, Busy
  <2> QED
    BY <2>6, <2>7, <2>8 DEF InputsKept
<1>2. CASE ~config.processor
  BY <1>2, InputsSame DEF ProcessorStart
<1> QED
  BY <1>1, <1>2

\* A processor is over; its input is as it was.
LEMMA InputsOver ==
  ASSUME TypeInv, InputsKept, NEW p \in Pid, NEW how \in {"ok", "fail"},
         proc' = [proc EXCEPT ![p] = Over(proc[p], how)],
         proc[p].st \in {"forked", "running"}, how = "ok" => proc[p].st = "running",
         \A k : N(k, "u") \in DOMAIN old' =>
           N(k, "u") \in DOMAIN old /\ old'[N(k, "u")] = old[N(k, "u")]
  PROVE  InputsKept'
<1>1. proc \in [Pid -> Processor] /\ proc[p] \in Processor
  BY StateTypes
<1>2. proc'[p] = Over(proc[p], how) /\ \A r \in Pid \ {p} : proc'[r] = proc[r]
  BY <1>1
<1>3. \/ proc'[p] = Reaped
      \/ proc'[p].st = how /\ proc'[p].stamp = proc[p].stamp /\ proc'[p].data = proc[p].data
  BY <1>1, <1>2, BusyFacts DEF Ended
<1>4. Busy(p)
  BY DEF Busy
<1>5. \A r \in Pid : Busy(r)' =>
        /\ Busy(r) /\ proc'[r].stamp = proc[r].stamp /\ proc'[r].st # "killed"
        /\ proc'[r].st \in {"running", "ok"} =>
             proc[r].st \in {"running", "ok"} /\ proc'[r].data = proc[r].data
  BY <1>2, <1>3, <1>4, BusyFacts DEF Busy, InputsKept
<1> QED
  BY <1>5, InputsLike

\* A processor begins.
LEMMA InputsBegin ==
  ASSUME TypeInv, InputsKept, NEW p \in Pid, Begin(p)
  PROVE  InputsKept'
<1>2. \A k : N(k, "u") \in DOMAIN old' =>
        N(k, "u") \in DOMAIN old /\ old'[N(k, "u")] = old[N(k, "u")]
  BY OthersAlone
<1>3. CASE N(proc[p].stamp, "u") \in DOMAIN old
  <2> DEFINE q == [proc[p] EXCEPT !.st = "running", !.read = state, !.fd5 = "newstate",
                                  !.data = old[N(proc[p].stamp, "u")].data]
  <2>1. proc' = [proc EXCEPT ![p] = q]
    BY <1>3 DEF Begin
  <2>2. proc[p] \in Processor /\ proc \in [Pid -> Processor]
    BY StateTypes
  <2>3. q.st = "running" /\ q.stamp = proc[p].stamp /\ q.data = old[N(proc[p].stamp, "u")].data
    BY <2>2 DEF Processor
  <2> HIDE DEF q
  <2>4. proc'[p] = q /\ \A r \in Pid \ {p} : proc'[r] = proc[r]
    BY <2>1, <2>2
  <2>5. Busy(p)
    BY DEF Begin, Busy
  <2>6. \A r \in Pid : proc'[r].st # "killed" /\ proc'[r].stamp = proc[r].stamp
    BY <2>3, <2>4 DEF InputsKept
  <2>7. \A r \in Pid : Busy(r)' => Busy(r)
    BY <2>4, <2>5 DEF Busy
  <2>8. ASSUME NEW r \in Pid, Busy(r)', N(proc'[r].stamp, "u") \in DOMAIN old'
        PROVE  /\ Closed(old'[N(proc'[r].stamp, "u")])
               /\ proc'[r].st \in {"running", "ok"} =>
                    proc'[r].data = old'[N(proc'[r].stamp, "u")].data
    <3>1. /\ N(proc[r].stamp, "u") \in DOMAIN old
          /\ old'[N(proc'[r].stamp, "u")] = old[N(proc[r].stamp, "u")]
      BY <1>2, <2>6, <2>8
    <3>2. Closed(old[N(proc[r].stamp, "u")])
      BY <2>7, <2>8, <3>1 DEF InputsKept
    <3>3. r # p /\ proc'[r].st \in {"running", "ok"} =>
            proc'[r].data = old[N(proc[r].stamp, "u")].data
      BY <2>4, <2>7, <2>8, <3>1 DEF InputsKept
    <3> QED
      BY <2>3, <2>4, <3>1, <3>2, <3>3
  <2>9. \A r, s \in Pid : Busy(r)' /\ Busy(s)' /\ proc'[r].stamp = proc'[s].stamp => r = s
    BY <2>6, <2>7 DEF InputsKept
  <2> QED
    BY <2>6, <2>8, <2>9 DEF InputsKept
<1>4. CASE N(proc[p].stamp, "u") \notin DOMAIN old
  <2>1. proc' = [proc EXCEPT ![p] = Over(proc[p], "fail")]
    BY <1>4 DEF Begin
  <2> QED
    BY <1>2, <2>1, InputsOver DEF Begin, Ended
<1> QED
  BY <1>3, <1>4

\* A processor ends.
LEMMA InputsEnd ==
  ASSUME TypeInv, InputsKept, NoneKilled, NEW p \in Pid,
         EndWell(p) \/ \E how \in Ended : EndBadly(p, how)
  PROVE  InputsKept'
<1>1. EndWell(p) \/ old' = old
  BY DEF EndBadly, files, logs
<1>2. \A k : N(k, "u") \in DOMAIN old' =>
        N(k, "u") \in DOMAIN old /\ old'[N(k, "u")] = old[N(k, "u")]
  BY <1>1, OthersAlone
<1>3. PICK how \in {"ok", "fail"} : proc' = [proc EXCEPT ![p] = Over(proc[p], how)]
                                    /\ proc[p].st = "running"
  BY DEF EndWell, EndBadly, NoneKilled, Ended
<1> QED
  BY <1>2, <1>3, InputsOver

LEMMA InputsStep ==
  ASSUME TypeInv, PidInv, CurrentInv, OrderInv, InputsKept, RotationKept, NoneKilled, Next
  PROVE  InputsKept'
<1> USE DEF files, logs, mem, aux
<1>1. CASE \/ Start \/ Open \/ AppendCurrent \/ (\E n \in 1..2 : Flush(n))
           \/ RotateFirst \/ Write \/ RotateWaits \/ RotateNothing \/ Sync
  BY <1>1, InputsSame DEF Start, Open, AppendCurrent, Flush, RotateFirst, Write,
     RotateWaits, RotateNothing, Sync
<1>2. CASE Alarm \/ Hup \/ Term \/ ExitWaits \/ Fill \/ Free
  BY <1>2, InputsSame DEF Alarm, Hup, Term, ExitWaits, Fill, Free
<1>3. CASE OpenFails \/ Exit \/ Kill
  <2>1. proc' = [p \in Pid |-> Orphan(proc[p])] /\ old' = old
    BY <1>3 DEF OpenFails, Exit, Kill
  <2>2. \A p \in Pid : Busy(p)' =>
          /\ Busy(p) /\ proc'[p].stamp = proc[p].stamp /\ proc'[p].st = proc[p].st
          /\ proc'[p].data = proc[p].data
    BY <2>1, BusyFacts, StateTypes DEF Orphan, Busy, Processor
  <2>3. \A p \in Pid : proc[p].st # "killed"
    BY DEF InputsKept
  <2> QED
    BY <2>1, <2>2, <2>3, InputsLike
<1>4. CASE PruneAside \/ Create
  BY <1>4, InputsWithout DEF PruneAside, Create, RmOldest
<1>5. CASE NoSpace
  BY <1>5, InputsWithout, InputsSame DEF NoSpace
<1>6. CASE UnlinkInput
  BY <1>6, InputsWithout DEF UnlinkInput
<1>7. CASE RotateEnds
  BY <1>7, InputsStarted DEF RotateEnds, AtLog
<1>8. CASE Retry
  BY <1>8, InputsStarted DEF Retry, AtLog, Finishing, Without
<1>9. ASSUME NEW p \in Pid, Reap(p), old' = old PROVE InputsKept'
  <2>1. proc'[p] = Reaped /\ \A r \in Pid \ {p} : proc'[r] = proc[r]
    BY <1>9, StateTypes DEF Reap
  <2>2. \A r \in Pid : Busy(r)' => proc'[r] = proc[r] /\ Busy(r)
    BY <2>1, BusyFacts DEF Busy
  <2> QED
    BY <1>9, <2>2, InputsLike DEF InputsKept
<1>10. CASE Wait \/ \E p \in Pid : Child(p)
  <2>1. Wait => ppid \in Pid
    BY DEF Wait, TypeInv, TypeOK, PidInv
  <2> QED
    BY <1>9, <1>10, <2>1 DEF Wait, Child
<1>11. CASE RenameState
  <2>1. \A p \in Pid : proc'[p].st = proc[p].st /\ proc'[p].stamp = proc[p].stamp
                       /\ proc'[p].data = proc[p].data
    BY <1>11, StateTypes DEF RenameState, Processor
  <2>2. old' = old /\ \A p \in Pid : proc[p].st # "killed"
    BY <1>11 DEF RenameState, InputsKept
  <2> QED
    BY <2>1, <2>2, InputsLike DEF Busy
<1>12. CASE Power
  <2>1. \A p \in Pid : proc'[p] = Reaped
    BY <1>12 DEF Power
  <2> QED
    BY <2>1, BusyFacts DEF InputsKept, Busy
<1> QED
  BY <1>1, <1>2, <1>3, <1>4, <1>5, <1>6, <1>7, <1>8, <1>10, <1>11, <1>12,
     InputsAdded, InputsOutput, InputsBegin, InputsEnd
  DEF Next, Step, Request, Environment

-----------------------------------------------------------------------------
(* svlogd and its own processor. *)

\* svlogd is gone, or about to open the directory.
LEMMA RotationDown ==
  ASSUME pc' \in {"down", "open"}
  PROVE  RotationKept'
  BY DEF RotationKept, AtLog, Finishing

\* svlogd has no processor.
LEMMA RotationAlone ==
  ASSUME config' \in Configs, ppid' = 0, pc' \notin AtLog
  PROVE  RotationKept'
  BY DEF RotationKept, AtLog, Finishing

\* svlogd goes on with the one it has, and leaves the logs alone.
LEMMA RotationSame ==
  ASSUME RotationKept, pc \notin {"down", "open"}, pc' \notin AtLog,
         config' = config, ppid' = ppid, fn' = fn, old' = old, proc' = proc
  PROVE  RotationKept'
  BY DEF RotationKept, AtLog, Finishing, Replaceable, Replaced

LEMMA RotationOpening ==
  ASSUME TypeInv, PidInv, RotationKept,
         Start \/ OpenFails \/ Open \/ SetAside \/ PruneAside \/ AppendCurrent
  PROVE  RotationKept'
<1> USE DEF AtLog, Finishing, mem
<1>1. CASE Start \/ OpenFails
  BY <1>1, RotationDown DEF Start, OpenFails
<1>2. CASE Open
  BY <1>2, RotationAlone DEF Open
<1>3. CASE SetAside \/ PruneAside \/ AppendCurrent
  <2>1. pc \in {"aside", "prune", "append"} /\ config' = config /\ ppid' = ppid
        /\ pc' \in {"prune", "append", "ready"}
    BY <1>3 DEF SetAside, PruneAside, AppendCurrent
  <2>2. ppid = 0 /\ config \in Configs
    BY <2>1 DEF PidInv, Alone, RotationKept
  <2> QED
    BY <2>1, <2>2, RotationAlone
<1> QED
  BY <1>1, <1>2, <1>3

LEMMA RotationWriting ==
  ASSUME TypeInv, PidInv, RotationKept, KeepsInputs,
         (\E n \in 1..2 : Flush(n)) \/ RotateFirst \/ Write \/ NoSpace
  PROVE  RotationKept'
<1> USE DEF AtLog, Finishing, mem, files, logs
<1>1. CASE \E n \in 1..2 : Flush(n)
  BY <1>1, RotationSame DEF Flush
<1>2. CASE RotateFirst
  BY <1>2, RotationSame DEF RotateFirst
<1>3. CASE Write
  BY <1>3, RotationSame DEF Write
<1>4. CASE NoSpace
  <2>1. pc = "pwrite" /\ pc' = pc /\ config' = config /\ ppid' = ppid
        /\ config.nmin < config.nmax
    BY <1>4 DEF NoSpace
  <2>2. config \in Configs
    BY <2>1 DEF RotationKept
  <2>3. config.nmin \in Nat /\ config.nmax \in Nat
    BY DEF TypeInv, TypeOK, Config
  <2>4. ~config.processor
    BY <2>1, <2>2, <2>3 DEF KeepsInputs
  <2>5. ppid = 0
    BY <2>1, <2>4 DEF PidInv
  <2> QED
    BY <2>1, <2>2, <2>5, RotationAlone
<1> QED
  BY <1>1, <1>2, <1>3, <1>4

\* The processor that is started has nothing yet.
LEMMA RotationStarted ==
  ASSUME TypeInv, PidInv, RotationKept, ProcessorStart, ppid = 0, config' = config,
         pc \notin {"down", "open"}, pc' \notin AtLog
  PROVE  RotationKept'
<1>1. config \in Configs
  BY DEF RotationKept
<1>2. CASE config.processor
  <2> DEFINE q == [Reaped EXCEPT !.st = "forked", !.stamp = fn, !.mine = TRUE]
  <2>1. PICK p \in Pid : proc' = [proc EXCEPT ![p] = q] /\ ppid' = p
    BY <1>2 DEF ProcessorStart
  <2>2. q.st = "forked"
    BY ForkedFacts, OrderTypes
  <2> HIDE DEF q
  <2>3. proc'[ppid'].st = "forked"
    BY <2>1, <2>2, StateTypes
  <2> QED
    BY <1>1, <2>3 DEF RotationKept, AtLog, Finishing
<1>3. CASE ~config.processor
  BY <1>1, <1>3, RotationAlone DEF ProcessorStart
<1> QED
  BY <1>2, <1>3

LEMMA RotationRotation ==
  ASSUME TypeInv, PidInv, CurrentInv, OrderInv, RotationKept,
         RotateWaits \/ RotateNothing \/ Sync \/ Rename \/ Create \/ RotateEnds
  PROVE  RotationKept'
<1> USE DEF AtLog, Finishing, mem, files, logs
<1>0. back \in {"ready", "pwrite"}
  BY DEF TypeInv, TypeOK
<1>1. CASE RotateWaits
  BY <1>1, RotationSame DEF RotateWaits
<1>2. CASE RotateNothing \/ Sync
  <2>1. config \in Configs
    BY <1>2 DEF RotationKept, RotateNothing, Sync
  <2> QED
    BY <1>0, <1>2, <2>1, RotationAlone DEF RotateNothing, Sync
<1>3. CASE Rename
  <2>1. PICK e \in {"s", "u"} : old' = With(old, N(fn', e), current)
    BY <1>3, NewName
  <2>2. \A f \in DOMAIN old : f.stamp # fn'
    BY <1>3, NewName
  <2>3. \A p \in Pid : proc[p].stamp # fn'
    BY <1>3, NewName
  <2>4. pc = "rename" /\ pc' = "create" /\ config' = config /\ ppid' = ppid /\ proc' = proc
    BY <1>3 DEF Rename
  <2>5. Closed(current)
    BY <1>3, <2>4, NewName
  <2>6. N(fn', "u") \in DOMAIN old' => old'[N(fn', "u")] = current
    <3>1. N(fn', "u") \notin DOMAIN old
      BY <2>2, NameFacts
    <3> QED
      BY <2>1, <3>1 DEF With
  <2>7. ppid = 0 /\ config \in Configs
    BY <2>4 DEF PidInv, Alone, RotationKept
  <2> QED
    BY <2>3, <2>4, <2>5, <2>6, <2>7 DEF RotationKept
<1>4. CASE Create
  <2>1. /\ pc = "create" /\ pc' = "start" /\ config' = config /\ ppid' = ppid
        /\ proc' = proc /\ fn' = fn
    BY <1>4 DEF Create
  <2>2. PICK S : old' = Without(old, S)
    BY <1>4 DEF Create, RmOldest
  <2>3. ppid = 0 /\ config \in Configs
    BY <2>1 DEF PidInv, Alone, RotationKept
  <2>4. N(fn, "u") \in DOMAIN old' => Closed(old'[N(fn, "u")])
    BY <2>1, <2>2 DEF RotationKept, Without
  <2>5. \A p \in Pid : Busy(p) => proc[p].stamp # fn
    BY <2>1 DEF RotationKept
  <2> QED
    BY <2>1, <2>3, <2>4, <2>5 DEF RotationKept, Busy
<1>5. CASE RotateEnds
  <2>1. ppid = 0
    BY <1>5 DEF RotateEnds, PidInv, Alone
  <2> QED
    BY <1>0, <1>5, <2>1, RotationStarted DEF RotateEnds
<1> QED
  BY <1>1, <1>2, <1>3, <1>4, <1>5

\* svlogd's own processor is reaped.
LEMMA RotationReaped ==
  ASSUME TypeInv, PidInv, InputsKept, RotationKept, pc \notin {"down", "open"}, ppid # 0,
         Reap(ppid), pc' = "stopped", ppid' = 0, config' = config, fn' = fn, old' = old
  PROVE  RotationKept'
<1>1. ppid \in Pid /\ proc \in [Pid -> Processor]
  BY DEF TypeInv, TypeOK
<1>2. Busy(ppid) /\ proc[ppid].stamp = fn /\ config \in Configs
  BY DEF PidInv, RotationKept
<1>3. proc'[ppid] = Reaped /\ \A p \in Pid \ {ppid} : proc'[p] = proc[p]
  BY <1>1 DEF Reap
<1>4. \A p \in Pid : Busy(p)' => proc'[p].stamp # fn
  BY <1>1, <1>2, <1>3, BusyFacts DEF InputsKept, Busy
<1>5. N(fn, "u") \in DOMAIN old => Closed(old[N(fn, "u")])
  BY <1>1, <1>2 DEF InputsKept
<1>6. ~failed' => proc[ppid].st = "ok"
  BY <1>1 DEF Reap, Failed, Ended, InputsKept
<1>7. ~failed' => Replaceable
  BY <1>6 DEF RotationKept
<1> QED
  BY <1>2, <1>4, <1>5, <1>7 DEF RotationKept, AtLog, Finishing, Replaceable, Replaced

LEMMA RotationStopping ==
  ASSUME TypeInv, PidInv, InputsKept, RotationKept,
         Wait \/ Retry \/ RenameOutput \/ UnlinkInput \/ RenameState
  PROVE  RotationKept'
<1> USE DEF AtLog, Finishing, mem, files, logs, aux
<1>0. ret \in {"ready", "rotate", "exit"}
  BY DEF TypeInv, TypeOK
<1>1. CASE Wait
  <2>1. ppid # 0
    BY <1>1 DEF Wait, PidInv
  <2> QED
    BY <1>1, <2>1, RotationReaped DEF Wait
<1>2. CASE Retry
  <2>1. ppid = 0
    BY <1>2 DEF Retry, PidInv, Alone
  <2> QED
    BY <1>0, <1>2, <2>1, RotationStarted DEF Retry
<1>3. CASE RenameOutput
  <2>1. PICK c : old' = With(Without(old, {N(fn, "t")}), N(fn, "s"), c)
    BY <1>3, OutputFacts
  <2>2. /\ pc = "stopped" /\ pc' = "unlink" /\ config' = config /\ ppid' = ppid
        /\ proc' = proc /\ fn' = fn
    BY <1>3 DEF RenameOutput
  <2>3. ppid = 0 /\ config \in Configs
    BY <2>2 DEF PidInv, Alone, RotationKept
  <2>4. N(fn, "u") # N(fn, "s") /\ N(fn, "u") # N(fn, "t")
    BY NameFacts
  <2>5. N(fn, "u") \in DOMAIN old' =>
          N(fn, "u") \in DOMAIN old /\ old'[N(fn, "u")] = old[N(fn, "u")]
    BY <2>1, <2>4 DEF With, Without
  <2>6. Replaced'
    BY <1>3, <2>2, OutputMoves DEF Replaced, Saved
  <2> QED
    BY <2>2, <2>3, <2>5, <2>6 DEF RotationKept, Busy
<1>4. CASE UnlinkInput
  <2>1. /\ pc = "unlink" /\ pc' = "state" /\ config' = config /\ ppid' = ppid
        /\ proc' = proc /\ fn' = fn /\ N(fn, "u") \notin DOMAIN old'
    BY <1>4 DEF UnlinkInput, Without
  <2>2. ppid = 0 /\ config \in Configs
    BY <2>1 DEF PidInv, Alone, RotationKept
  <2> QED
    BY <2>1, <2>2 DEF RotationKept, Busy
<1>5. CASE RenameState
  <2>1. config \in Configs /\ ppid = 0
    BY <1>5 DEF RenameState, RotationKept, PidInv, Alone
  <2> QED
    BY <1>0, <1>5, <2>1, RotationAlone DEF RenameState
<1> QED
  BY <1>1, <1>2, <1>3, <1>4, <1>5

LEMMA RotationChild ==
  ASSUME TypeInv, PidInv, InputsKept, RotationKept, NEW p \in Pid, Child(p)
  PROVE  RotationKept'
<1> USE DEF files, logs, aux
<1>1. CASE p = ppid
  <2>1. ppid # 0
    BY <1>1, LogdirAssumption
  <2> QED
    BY <1>1, <2>1, RotationReaped DEF Child
<1>2. CASE p # ppid
  <2>1. /\ pc = "ready" /\ pc' = pc /\ config' = config /\ ppid' = ppid
        /\ fn' = fn /\ old' = old /\ Reap(p)
    BY <1>2 DEF Child
  <2>2. ppid # 0 => proc'[ppid] = proc[ppid]
    BY <1>2, <2>1 DEF Reap, TypeInv, TypeOK
  <2> QED
    BY <2>1, <2>2 DEF RotationKept, AtLog, Finishing, Replaceable, Replaced
<1> QED
  BY <1>1, <1>2

LEMMA RotationSignals ==
  ASSUME TypeInv, RotationKept,
         Alarm \/ Hup \/ Term \/ ExitWaits \/ Exit \/ Fill \/ Free \/ Kill \/ Power
  PROVE  RotationKept'
<1> USE DEF AtLog, Finishing, mem, files, logs, aux
<1>1. CASE Alarm
  BY <1>1, RotationSame DEF Alarm
<1>2. CASE Term
  BY <1>2, RotationSame DEF Term
<1>3. CASE ExitWaits
  BY <1>3, RotationSame DEF ExitWaits
<1>4. CASE Hup \/ Exit \/ Kill \/ Power
  BY <1>4, RotationDown DEF Hup, Exit, Kill, Power
<1>5. CASE Fill \/ Free
  <2>1. /\ pc' = pc /\ config' = config /\ ppid' = ppid /\ fn' = fn /\ old' = old
        /\ proc' = proc /\ failed' = failed
    BY <1>5 DEF Fill, Free
  <2> QED
    BY <2>1 DEF RotationKept, Replaceable, Replaced, Busy
<1> QED
  BY <1>1, <1>2, <1>3, <1>4, <1>5

\* A processor that is not svlogd's own has another log.
LEMMA RotationOthers ==
  ASSUME TypeInv, PidInv, InputsKept, RotationKept, NEW p \in Pid, Busy(p),
         pc' = pc, config' = config, ppid' = ppid, fn' = fn, failed' = failed,
         \A r \in Pid \ {p} : proc'[r] = proc[r],
         Busy(p)' => proc'[p].stamp = proc[p].stamp,
         \A f : f # N(proc[p].stamp, "t") /\ (f \in DOMAIN old \/ f \in DOMAIN old') =>
           f \in DOMAIN old' /\ f \in DOMAIN old /\ old'[f] = old[f],
         pc \notin {"down", "open"} /\ ppid = p =>
           /\ proc'[p].st \in {"running", "ok"} => N(fn, "u") \in DOMAIN old
           /\ proc'[p].st = "ok" => Replaceable'
  PROVE  RotationKept'
<1>1. \A k : N(k, "u") # N(proc[p].stamp, "t") /\ N(k, "s") # N(proc[p].stamp, "t")
  BY NameFacts
<1>2. \A k : /\ N(k, "u") \in DOMAIN old' <=> N(k, "u") \in DOMAIN old
             /\ N(k, "s") \in DOMAIN old' <=> N(k, "s") \in DOMAIN old
             /\ N(k, "u") \in DOMAIN old => old'[N(k, "u")] = old[N(k, "u")]
             /\ N(k, "s") \in DOMAIN old => old'[N(k, "s")] = old[N(k, "s")]
  BY <1>1
<1>3. proc[p].stamp # fn => N(fn, "t") # N(proc[p].stamp, "t")
  BY NameFacts
<1>4. proc[p].stamp # fn /\ Replaceable => Replaceable'
  BY <1>2, <1>3 DEF Replaceable
<1>5. pc \in AtLog =>
        /\ proc[p].stamp # fn
        /\ \A r \in Pid : Busy(r)' => proc'[r].stamp # fn'
        /\ N(fn', "u") \in DOMAIN old' => Closed(old'[N(fn', "u")])
  BY <1>2 DEF RotationKept, Busy
<1>6. pc \notin {"down", "open"} /\ ppid # 0 =>
        /\ proc'[ppid].st \in {"running", "ok"} => N(fn, "u") \in DOMAIN old
        /\ proc'[ppid].st = "ok" => Replaceable'
  <2> SUFFICES ASSUME pc \notin {"down", "open"}, ppid # 0, ppid # p
               PROVE  /\ proc'[ppid].st \in {"running", "ok"} => N(fn, "u") \in DOMAIN old
                      /\ proc'[ppid].st = "ok" => Replaceable'
    OBVIOUS
  <2>1. ppid \in Pid
    BY DEF TypeInv, TypeOK
  <2>2. Busy(ppid) /\ proc[ppid].stamp = fn
    BY DEF PidInv
  <2>3. proc[p].stamp # fn
    BY <2>1, <2>2 DEF InputsKept
  <2>4. proc'[ppid] = proc[ppid]
    BY <2>1
  <2> QED
    BY <1>4, <2>3, <2>4 DEF RotationKept
<1>7. pc = "stopped" /\ ~failed => Replaceable'
  BY <1>4, <1>5 DEF RotationKept, AtLog, Finishing
<1>8. pc = "unlink" => Replaced'
  BY <1>2 DEF RotationKept, Replaced
<1>9. pc \notin {"down", "open"} => config' \in Configs
  BY DEF RotationKept
<1> QED
  BY <1>2, <1>5, <1>6, <1>7, <1>8, <1>9 DEF RotationKept

\* A processor begins.
LEMMA RotationBegin ==
  ASSUME TypeInv, PidInv, InputsKept, RotationKept, NEW p \in Pid, Begin(p)
  PROVE  RotationKept'
<1> USE DEF mem, aux
<1>1. proc \in [Pid -> Processor] /\ proc[p] \in Processor /\ Busy(p)
  BY StateTypes DEF Begin, Busy
<1>2. /\ pc' = pc /\ config' = config /\ ppid' = ppid /\ fn' = fn /\ failed' = failed
      /\ \A r \in Pid \ {p} : proc'[r] = proc[r]
  BY <1>1 DEF Begin
<1>3. CASE N(proc[p].stamp, "u") \in DOMAIN old
  <2> DEFINE q == [proc[p] EXCEPT !.st = "running", !.read = state, !.fd5 = "newstate",
                                  !.data = old[N(proc[p].stamp, "u")].data]
  <2>1. proc'[p] = q
    BY <1>1, <1>3 DEF Begin
  <2>2. q.st = "running" /\ q.stamp = proc[p].stamp
    BY <1>1 DEF Processor
  <2>3. pc \notin {"down", "open"} /\ ppid = p => N(fn, "u") \in DOMAIN old
    BY <1>3, LogdirAssumption DEF PidInv
  <2> HIDE DEF q
  <2> QED
    BY <1>1, <1>2, <2>1, <2>2, <2>3, OthersAlone, RotationOthers
<1>4. CASE N(proc[p].stamp, "u") \notin DOMAIN old
  <2>1. proc'[p] = Over(proc[p], "fail")
    BY <1>1, <1>4 DEF Begin
  <2>2. \/ proc'[p] = Reaped
        \/ proc'[p].st = "fail" /\ proc'[p].stamp = proc[p].stamp
    BY <1>1, <2>1, BusyFacts DEF Ended
  <2>3. proc'[p].st \notin {"running", "ok"} /\ (Busy(p)' => proc'[p].stamp = proc[p].stamp)
    BY <2>2, BusyFacts DEF Busy
  <2> QED
    BY <1>1, <1>2, <2>3, OthersAlone, RotationOthers
<1> QED
  BY <1>3, <1>4

\* The output is the whole log.
LEMMA RotationEndsWell ==
  ASSUME TypeInv, PidInv, InputsKept, RotationKept, NEW p \in Pid, EndWell(p)
  PROVE  RotationKept'
<1> USE DEF mem, aux
<1>1. proc \in [Pid -> Processor] /\ proc[p] \in Processor /\ Busy(p)
  BY StateTypes DEF EndWell, Busy
<1>2. /\ pc' = pc /\ config' = config /\ ppid' = ppid /\ fn' = fn /\ failed' = failed
      /\ \A r \in Pid \ {p} : proc'[r] = proc[r]
  BY <1>1 DEF EndWell
<1>3. \/ proc'[p] = Reaped
      \/ proc'[p].stamp = proc[p].stamp
  <2>1. proc'[p] = Over(proc[p], "ok")
    BY <1>1 DEF EndWell
  <2> QED
    BY <1>1, <2>1, BusyFacts DEF Ended
<1>4. Busy(p)' => proc'[p].stamp = proc[p].stamp
  BY <1>3, BusyFacts DEF Busy
<1>5. ASSUME pc \notin {"down", "open"}, ppid = p
      PROVE  N(fn, "u") \in DOMAIN old /\ Replaceable'
  <2>1. proc[p].stamp = fn /\ proc[p].st = "running"
    BY <1>5, LogdirAssumption DEF PidInv, EndWell
  <2>2. N(fn, "u") \in DOMAIN old
    BY <1>5, <2>1, LogdirAssumption DEF RotationKept
  <2>3. Closed(old[N(fn, "u")]) /\ proc[p].data = old[N(fn, "u")].data
    BY <1>1, <2>1, <2>2 DEF InputsKept
  <2>4. N(fn, "u") \in DOMAIN old' /\ old'[N(fn, "u")] = old[N(fn, "u")]
    <3>1. N(fn, "u") # N(proc[p].stamp, "t")
      BY NameFacts
    <3> QED
      BY <2>2, <3>1, OthersAlone
  <2>5. N(fn, "t") \in DOMAIN old' =>
          old'[N(fn, "t")].whole /\ old'[N(fn, "t")].data = old[N(fn, "u")].data
    <3> DEFINE c == [Empty EXCEPT !.data = proc[p].data]
    <3>1. old' = IF N(fn, "t") \in DOMAIN old THEN With(old, N(fn, "t"), c) ELSE old
      BY <2>1 DEF EndWell
    <3>2. c.whole /\ c.data = proc[p].data
      BY <1>1, OutputSound DEF Processor
    <3> HIDE DEF c
    <3>3. N(fn, "t") \in DOMAIN old' => old'[N(fn, "t")] = c
      BY <3>1 DEF With
    <3> QED
      BY <2>3, <3>2, <3>3
  <2> QED
    BY <1>2, <2>2, <2>4, <2>5 DEF Replaceable
<1> QED
  BY <1>1, <1>2, <1>4, <1>5, OthersAlone, RotationOthers

LEMMA RotationEndsBadly ==
  ASSUME TypeInv, PidInv, InputsKept, RotationKept, NoneKilled,
         NEW p \in Pid, NEW how \in Ended, EndBadly(p, how)
  PROVE  RotationKept'
<1> USE DEF mem, aux, files, logs
<1>1. proc \in [Pid -> Processor] /\ proc[p] \in Processor /\ Busy(p)
  BY StateTypes DEF EndBadly, Busy
<1>2. /\ pc' = pc /\ config' = config /\ ppid' = ppid /\ fn' = fn /\ failed' = failed
      /\ old' = old /\ \A r \in Pid \ {p} : proc'[r] = proc[r]
  BY <1>1 DEF EndBadly
<1>3. proc'[p] = Over(proc[p], "fail")
  BY <1>1 DEF EndBadly, NoneKilled
<1>4. \/ proc'[p] = Reaped
      \/ proc'[p].st = "fail" /\ proc'[p].stamp = proc[p].stamp
  BY <1>1, <1>3, BusyFacts DEF Ended
<1>5. proc'[p].st \notin {"running", "ok"} /\ (Busy(p)' => proc'[p].stamp = proc[p].stamp)
  BY <1>4, BusyFacts DEF Busy
<1> QED
  BY <1>1, <1>2, <1>5, RotationOthers

LEMMA RotationStep ==
  ASSUME TypeInv, PidInv, CurrentInv, OrderInv, InputsKept, RotationKept,
         NoneKilled, KeepsInputs, Next
  PROVE  RotationKept'
<1>1. Step => RotationKept'
  BY RotationOpening, RotationWriting, RotationRotation, RotationStopping, RotationChild,
     RotationSignals DEF Step
<1>2. Request => RotationKept'
  BY RotationOpening, RotationWriting, RotationSignals DEF Request
<1>3. Environment => RotationKept'
  BY RotationSignals, RotationBegin, RotationEndsWell, RotationEndsBadly DEF Environment
<1> QED
  BY <1>1, <1>2, <1>3 DEF Next
-----------------------------------------------------------------------------
(* Each step is one of Log, or changes nothing there. *)

\* The same is in two files, and the same of it on the disk.
Alike(f, g) == f.data = g.data /\ OnDisk(f).data = OnDisk(g).data

\* What is in the log after a step.
LEMMA InKeptNext ==
  \A k : k \in Kept' <=> \/ here' /\ k \in Range(current'.data)
                         \/ \E f \in Saved(old') : old'[f].whole /\ k \in Range(old'[f].data)
  BY DEF Kept, Held, Saved

LEMMA DiskKept ==
  ASSUME TypeInv
  PROVE  Disk \subseteq Kept
<1>1. Range(OnDisk(current).data) \subseteq Range(current.data)
  BY OnDiskFacts DEF TypeInv
<1>2. \A f \in Saved(old) : Range(OnDisk(old[f]).data) \subseteq Range(old[f].data)
  BY OnDiskFacts DEF TypeInv, SoundDir, Saved
<1> QED
  BY <1>1, <1>2, InKept, InDisk

LEMMA DiskKeptNext ==
  ASSUME TypeInv'
  PROVE  Disk' \subseteq Kept'
<1>1. Range(OnDisk(current').data) \subseteq Range(current'.data)
  BY OnDiskFacts DEF TypeInv
<1>2. \A f \in Saved(old') : Range(OnDisk(old'[f]).data) \subseteq Range(old'[f].data)
  BY OnDiskFacts DEF TypeInv, SoundDir, Saved
<1> QED
  BY <1>1, <1>2, InKeptNext, InDiskNext

\* Nothing comes to the log or leaves it if each file has one like it.
LEMMA HeldSame ==
  ASSUME TypeInv, TypeInv', FilesKept, FilesKept',
         Alike(current', current), here' = here \/ current.data = <<>>,
         \A f \in Saved(old') : \E g \in Saved(old) : Alike(old'[f], old[g]),
         \A f \in Saved(old) : \E g \in Saved(old') : Alike(old'[g], old[f])
  PROVE  Kept' = Kept /\ Disk' = Disk
<1>1. current.data = <<>> => Range(current.data) = {} /\ Range(OnDisk(current).data) = {}
  <2>1. Range(OnDisk(current).data) \subseteq Range(current.data)
    BY OnDiskFacts DEF TypeInv
  <2> QED
    BY <2>1, RunNothing
<1>2. \A k : k \in Kept <=> \/ here /\ k \in Range(current.data)
                            \/ \E f \in Saved(old) : k \in Range(old[f].data)
  BY InKept DEF FilesKept
<1>3. \A k : k \in Kept' <=> \/ here' /\ k \in Range(current'.data)
                             \/ \E f \in Saved(old') : k \in Range(old'[f].data)
  BY InKeptNext DEF FilesKept
<1>4. \A k : k \in Disk <=> \/ here /\ k \in Range(OnDisk(current).data)
                            \/ \E f \in Saved(old) : k \in Range(OnDisk(old[f]).data)
  BY InDisk DEF FilesKept
<1>5. \A k : k \in Disk' <=> \/ here' /\ k \in Range(OnDisk(current').data)
                             \/ \E f \in Saved(old') : k \in Range(OnDisk(old'[f]).data)
  BY InDiskNext DEF FilesKept
<1>6. \A k : k \in Kept' <=> k \in Kept
  BY <1>1, <1>2, <1>3 DEF Alike
<1>7. \A k : k \in Disk' <=> k \in Disk
  BY <1>1, <1>4, <1>5 DEF Alike
<1> QED
  BY <1>6, <1>7

\* The output of processors is what it was where the same files have it.
LEMMA OutputSame ==
  ASSUME Disk' = Disk, Saved(old') = Saved(old), \A f \in Saved(old) : old'[f] = old[f]
  PROVE  Output' = Output
<1>1. \A k : k \in Output' <=> k \in Output
  BY InOutput, InOutputNext
<1> QED
  BY <1>1

\* The same for a step that leaves all files but the unfinished output alone.
LEMMA HeldQuiet ==
  ASSUME TypeInv, TypeInv', FilesKept, FilesKept', here' = here, current' = current,
         \A f : f.ext # "t" /\ (f \in DOMAIN old \/ f \in DOMAIN old') =>
           f \in DOMAIN old /\ f \in DOMAIN old' /\ old'[f] = old[f]
  PROVE  Kept' = Kept /\ Disk' = Disk /\ Output' = Output
<1>1. Saved(old') = Saved(old) /\ \A f \in Saved(old) : old'[f] = old[f]
  BY DEF Saved
<1>2. \A f : Alike(f, f)
  BY DEF Alike
<1>3. /\ \A f \in Saved(old') : \E g \in Saved(old) : Alike(old'[f], old[g])
      /\ \A f \in Saved(old) : \E g \in Saved(old') : Alike(old'[g], old[f])
  BY <1>1, <1>2
<1>4. Disk' = Disk
  BY <1>1, <1>2, <1>3, HeldSame
<1> QED
  BY <1>1, <1>2, <1>3, <1>4, HeldSame, OutputSame

\* These change nothing that is in the log.
Idle ==
  \/ Start \/ OpenFails \/ Open \/ (\E n \in 1..2 : Flush(n)) \/ RotateFirst
  \/ RotateWaits \/ RotateNothing \/ RotateEnds \/ Wait \/ (\E p \in Pid : Child(p))
  \/ Retry \/ RenameState \/ Alarm \/ Term \/ ExitWaits \/ Fill \/ Free
  \/ \E p \in Pid : Begin(p) \/ EndWell(p) \/ \E how \in Ended : EndBadly(p, how)

LEMMA IdleAlone ==
  ASSUME Idle
  PROVE  here' = here /\ current' = current /\ written' = written /\ crashes' = crashes
<1> USE DEF files, logs, mem, aux
<1>1. CASE Start \/ OpenFails \/ Open \/ (\E n \in 1..2 : Flush(n)) \/ RotateFirst
  BY <1>1 DEF Start, OpenFails, Open, Flush, RotateFirst
<1>2. CASE RotateWaits \/ RotateNothing \/ RotateEnds \/ Wait \/ (\E p \in Pid : Child(p))
  BY <1>2 DEF RotateWaits, RotateNothing, RotateEnds, Wait, Child
<1>3. CASE Retry \/ RenameState \/ Alarm \/ Term \/ ExitWaits \/ Fill \/ Free
  BY <1>3 DEF Retry, RenameState, Alarm, Term, ExitWaits, Fill, Free
<1>4. CASE \E p \in Pid : Begin(p) \/ EndWell(p) \/ \E how \in Ended : EndBadly(p, how)
  BY <1>4 DEF Begin, EndWell, EndBadly
<1> QED
  BY <1>1, <1>2, <1>3, <1>4 DEF Idle

LEMMA IdleHeld ==
  ASSUME TypeInv, TypeInv', FilesKept, FilesKept', Idle
  PROVE  Kept' = Kept /\ Disk' = Disk /\ Output' = Output
<1>1. here' = here /\ current' = current
  BY IdleAlone
<1>2. CASE Quiet
  BY <1>1, <1>2, OldQuiet, HeldQuiet
<1>3. CASE Retry
  <2>1. N(fn, "t").ext = "t" /\ old' = Without(old, {N(fn, "t")})
    BY <1>3, NameFacts DEF Retry
  <2>2. \A f : f.ext # "t" /\ (f \in DOMAIN old \/ f \in DOMAIN old') =>
          f \in DOMAIN old /\ f \in DOMAIN old' /\ old'[f] = old[f]
    BY <2>1 DEF Without
  <2> QED
    BY <1>1, <2>2, HeldQuiet
<1>4. ASSUME NEW p \in Pid, Begin(p) \/ EndWell(p)
      PROVE  Kept' = Kept /\ Disk' = Disk /\ Output' = Output
  <2>1. N(proc[p].stamp, "t").ext = "t"
    BY NameFacts
  <2>2. \A f : f.ext # "t" /\ (f \in DOMAIN old \/ f \in DOMAIN old') =>
          f \in DOMAIN old /\ f \in DOMAIN old' /\ old'[f] = old[f]
    BY <1>4, <2>1, OthersAlone
  <2> QED
    BY <1>1, <2>2, HeldQuiet
<1> QED
  BY <1>2, <1>3, <1>4 DEF Idle, Quiet

\* current is opened, or created, which marks it as not closed.
LEMMA AppendHeld ==
  ASSUME TypeInv, TypeInv', CurrentInv, FilesKept, FilesKept', AppendCurrent
  PROVE  Kept' = Kept /\ Disk' = Disk /\ Output' = Output
<1>1. /\ here' /\ old' = old
      /\ current'.data = current.data /\ current'.synced = current.synced
  BY CurrentFacts DEF AppendCurrent, File
<1>2. Alike(current', current)
  <2>1. /\ OnDisk(current).data = SubSeq(current.data, 1, current.synced)
        /\ OnDisk(current').data = SubSeq(current'.data, 1, current'.synced)
    BY OnDiskFacts DEF TypeInv
  <2> QED
    BY <1>1, <2>1 DEF Alike
<1>3. here' = here \/ current.data = <<>>
  BY <1>1 DEF CurrentInv, TypeInv, TypeOK
<1>4. \A f : Alike(f, f)
  BY DEF Alike
<1>5. Kept' = Kept /\ Disk' = Disk
  BY <1>1, <1>2, <1>3, <1>4, HeldSame
<1> QED
  BY <1>1, <1>5, OutputSame

\* current becomes an old log.
LEMMA MovedHeld ==
  ASSUME TypeInv, TypeInv', CurrentInv, OrderInv, FilesKept, FilesKept', SetAside \/ Rename
  PROVE  Kept' = Kept /\ Disk' = Disk /\ Output' = Output
<1>1. PICK e \in {"s", "u"} :
        old' = With(old, N(fn', e), current) /\ (e = "s" => Closed(current))
  BY NewName
<1> DEFINE g == N(fn', e)
<1>2. /\ here /\ ~here' /\ g.ext = e /\ g.ext # "t" /\ g \notin DOMAIN old
  BY NewName, NameFacts
<1> HIDE DEF g
<1>3. /\ DOMAIN old' = DOMAIN old \cup {g} /\ old'[g] = current
      /\ \A f \in DOMAIN old : old'[f] = old[f]
  BY <1>1, <1>2 DEF With, g
<1>4. /\ Saved(old') = Saved(old) \cup {g} /\ old'[g] = current
      /\ \A f \in Saved(old) : old'[f] = old[f]
  BY <1>2, <1>3 DEF Saved
<1>5. \A k : k \in Kept' <=> k \in Kept
  BY <1>2, <1>4, InKept, InKeptNext DEF FilesKept
<1>6. \A k : k \in Disk' <=> k \in Disk
  BY <1>2, <1>4, InDisk, InDiskNext DEF FilesKept
<1>7. e = "s" => Range(current.data) \subseteq Disk
  <2> SUFFICES ASSUME e = "s" PROVE Range(current.data) \subseteq Disk
    OBVIOUS
  <2>1. OnDisk(current).data = current.data
    BY <1>1, OnDiskFacts DEF TypeInv
  <2> QED
    BY <1>2, <2>1, InDisk
<1>8. \A k : k \in Output' <=> k \in Output
  BY <1>2, <1>4, <1>6, <1>7, InOutput, InOutputNext
<1> QED
  BY <1>5, <1>6, <1>8

\* The output of a processor holds what its input does, and is not on the disk
\* but as long as that is there.
LEMMA OutputHeld ==
  ASSUME TypeInv, TypeInv', FilesKept, FilesKept', RotationKept, RenameOutput
  PROVE  Kept' = Kept /\ Disk' = Disk /\ Output' = Output
<1> DEFINE s == N(fn, "s")
           u == N(fn, "u")
<1>1. /\ s \in Saved(old') /\ u \in Saved(old) /\ u \in Saved(old')
      /\ old'[s].data = old[u].data /\ old'[u] = old[u] /\ Closed(old[u])
      /\ \A f \in Saved(old') : f # s => f \in Saved(old) /\ old'[f] = old[f]
      /\ \A f \in Saved(old) : f # s => f \in Saved(old') /\ old'[f] = old[f]
  BY OutputMoves
<1>2. here' = here /\ current' = current
  BY DEF RenameOutput
<1>3. s \in Saved(old) => Range(old[s].data) \subseteq Range(old[u].data)
  BY <1>1, NameFacts DEF FilesKept, Saved
<1> HIDE DEF s, u
<1>4. Sound(old[u]) /\ Sound(old'[s]) /\ (s \in Saved(old) => Sound(old[s]))
  BY <1>1 DEF TypeInv, SoundDir, Saved
<1>5. /\ OnDisk(old[u]).data = old[u].data
      /\ Range(OnDisk(old'[s]).data) \subseteq Range(old[u].data)
      /\ s \in Saved(old) => Range(OnDisk(old[s]).data) \subseteq Range(old[u].data)
  <2>1. s \in Saved(old) => Range(OnDisk(old[s]).data) \subseteq Range(old[s].data)
    BY <1>4, OnDiskFacts
  <2> QED
    BY <1>1, <1>3, <1>4, <2>1, OnDiskFacts
<1>6. \A k : k \in Kept' <=> k \in Kept
  BY <1>1, <1>2, <1>3, InKept, InKeptNext DEF FilesKept
<1>7. \A k : k \in Disk <=> \/ here /\ k \in Range(OnDisk(current).data)
                            \/ \E f \in Saved(old) : k \in Range(OnDisk(old[f]).data)
  BY InDisk DEF FilesKept
<1>8. \A k : k \in Disk' <=> \/ here' /\ k \in Range(OnDisk(current').data)
                             \/ \E f \in Saved(old') : k \in Range(OnDisk(old'[f]).data)
  BY InDiskNext DEF FilesKept
<1>9. \A k : k \in Disk' <=> k \in Disk
  BY <1>1, <1>2, <1>5, <1>7, <1>8
<1>10. Range(old[u].data) \subseteq Disk
  BY <1>1, <1>5, <1>7
<1>11. \A k : k \in Output' <=> k \in Output
  BY <1>1, <1>3, <1>9, <1>10, InOutput, InOutputNext
<1> QED
  BY <1>6, <1>9, <1>11

\* An input is deleted when its output is in the log; what was on the disk with
\* the one alone is in the other from now on.
LEMMA MapsProcess ==
  ASSUME TypeInv, TypeInv', FilesKept, FilesKept', RotationKept, UnlinkInput
  PROVE  /\ Disk' \subseteq Disk /\ Output' = Output \cup (Disk \ Disk')
         /\ Kept' = Kept /\ written' = written /\ crashes' = crashes
<1> DEFINE s == N(fn, "s")
           u == N(fn, "u")
<1>1. /\ s \in DOMAIN old /\ old' = Without(old, {u}) /\ here' = here /\ current' = current
      /\ u \in DOMAIN old => old[s].data = old[u].data
      /\ written' = written /\ crashes' = crashes
  BY DEF UnlinkInput, RotationKept, Replaced, aux
<1>2. s.ext = "s" /\ u.ext = "u"
  BY NameFacts
<1> HIDE DEF s, u
<1>3. DOMAIN old' = DOMAIN old \ {u} /\ \A f \in DOMAIN old' : old'[f] = old[f]
  BY <1>1 DEF Without
<1>4. /\ Saved(old') = Saved(old) \ {u} /\ \A f \in Saved(old') : old'[f] = old[f]
      /\ s \in Saved(old) /\ s \in Saved(old')
      /\ u \in Saved(old) => old[s].data = old[u].data
  BY <1>1, <1>2, <1>3 DEF Saved
<1>5. \A k : k \in Kept' <=> k \in Kept
  <2>1. \A k : k \in Kept' => k \in Kept
    BY <1>1, <1>4, InKept, InKeptNext
  <2>2. old'[s].whole
    BY <1>4 DEF FilesKept
  <2>3. ASSUME NEW k \in Kept PROVE k \in Kept'
    <3>1. CASE here /\ k \in Range(current.data)
      BY <1>1, <3>1, InKeptNext
    <3>2. ASSUME NEW f \in Saved(old), old[f].whole, k \in Range(old[f].data)
          PROVE  k \in Kept'
      <4>1. CASE f # u
        BY <1>4, <3>2, <4>1, InKeptNext
      <4>2. CASE f = u
        BY <1>4, <2>2, <3>2, <4>2, InKeptNext
      <4> QED
        BY <4>1, <4>2
    <3> QED
      BY <2>3, <3>1, <3>2, InKept
  <2> QED
    BY <2>1, <2>3
<1>6. \A k : k \in Disk' => k \in Disk
  BY <1>1, <1>4, InDisk, InDiskNext
<1>7. ASSUME NEW k \in Disk, k \notin Disk' PROVE k \in Range(old'[s].data)
  <2>1. u \in Saved(old) /\ k \in Range(OnDisk(old[u]).data)
    BY <1>1, <1>4, <1>7, InDisk, InDiskNext
  <2>2. Sound(old[u])
    BY <2>1 DEF TypeInv, SoundDir, Saved
  <2> QED
    BY <1>4, <2>1, <2>2, OnDiskFacts
<1>8. \A k : k \in Output' <=> k \in Output \/ (k \in Disk /\ k \notin Disk')
  BY <1>2, <1>4, <1>6, <1>7, InOutput, InOutputNext
<1> QED
  BY <1>1, <1>5, <1>6, <1>8

\* These change the files, but not what the log holds.
Moving == AppendCurrent \/ SetAside \/ Rename \/ RenameOutput

LEMMA MapsIdle ==
  ASSUME TypeInv, TypeInv', CurrentInv, OrderInv, FilesKept, FilesKept', RotationKept,
         Idle \/ Moving
  PROVE  /\ Kept' = Kept /\ Disk' = Disk /\ Output' = Output
         /\ written' = written /\ crashes' = crashes
<1>1. Moving => written' = written /\ crashes' = crashes
  BY DEF Moving, AppendCurrent, SetAside, Rename, RenameOutput, aux
<1>2. written' = written /\ crashes' = crashes
  BY <1>1, IdleAlone
<1>3. Kept' = Kept /\ Disk' = Disk /\ Output' = Output
  BY IdleHeld, AppendHeld, MovedHeld, OutputHeld DEF Moving
<1> QED
  BY <1>2, <1>3

\* What is written comes to current, and is not on the disk yet.
LEMMA MapsWrite ==
  ASSUME TypeInv, TypeInv', CurrentInv, Write
  PROVE  /\ written' \in Nat /\ written' > written
         /\ Kept' = Kept \cup (written + 1)..written'
         /\ Disk' = Disk /\ Output' = Output /\ crashes' = crashes
<1>1. PICK i \in 1..2 :
        LET e == [k \in 1..i |-> written + k]
        IN  /\ e \in Seq(Nat) /\ Len(e) = i /\ i \in 1..todo
            /\ current'.data = current.data \o e
            /\ current'.data \in Seq(Nat)
            /\ Len(current'.data) = Len(current.data) + i
            /\ current'.synced = current.synced /\ current'.x = current.x
            /\ current'.whole = current.whole
            /\ written' = written + i /\ size' = size + i
  BY WriteFacts
<1> DEFINE e == [k \in 1..i |-> written + k]
<1>2. e \in Seq(Nat) /\ Len(e) = i /\ \A k \in 1..i : e[k] = written + k
  BY <1>1
<1>3. current'.data = current.data \o e /\ current'.synced = current.synced
      /\ written' = written + i
  BY <1>1
<1>4. /\ current.data \in Seq(Nat) /\ Len(current.data) \in Nat
      /\ current.synced \in 0..Len(current.data) /\ written \in Nat /\ i \in 1..2
  BY CurrentFacts
<1> HIDE DEF e
<1>5. here /\ here' /\ old' = old /\ crashes' = crashes
  BY DEF Write, CurrentInv
<1>6. Range(current'.data) = Range(current.data) \cup Range(e)
  <2> DEFINE d == current.data
  <2>1. /\ d \o e \in Seq(Nat) /\ Len(d \o e) = Len(d) + i /\ d \in Seq(Nat)
        /\ \A k \in 1..Len(d) + i :
             (d \o e)[k] = IF k <= Len(d) THEN d[k] ELSE e[k - Len(d)]
    BY <1>2, <1>4, ConcatProperties
  <2>2. /\ Range(d \o e) = {(d \o e)[k] : k \in 1..Len(d \o e)}
        /\ Range(d) = {d[k] : k \in 1..Len(d)} /\ Range(e) = {e[k] : k \in 1..i}
    BY <1>2, <2>1, RangeFacts
  <2>3. Len(d) \in Nat /\ i \in Nat
    BY <1>4
  <2> HIDE DEF d
  <2>4. ASSUME NEW k \in 1..Len(d) PROVE d[k] \in Range(d \o e)
    <3>1. k \in 1..Len(d) + i /\ (d \o e)[k] = d[k]
      BY <2>1, <2>3, <2>4
    <3> QED
      BY <2>1, <2>2, <3>1
  <2>5. ASSUME NEW k \in 1..i PROVE e[k] \in Range(d \o e)
    <3>1. Len(d) + k \in 1..Len(d) + i /\ (d \o e)[Len(d) + k] = e[k]
      BY <2>1, <2>3, <2>5
    <3> QED
      BY <2>1, <2>2, <3>1
  <2>6. ASSUME NEW k \in 1..Len(d) + i PROVE (d \o e)[k] \in Range(d) \cup Range(e)
    <3>1. CASE k <= Len(d)
      BY <2>1, <2>2, <2>3, <2>6, <3>1
    <3>2. CASE ~ (k <= Len(d))
      <4>1. k - Len(d) \in 1..i /\ (d \o e)[k] = e[k - Len(d)]
        BY <2>1, <2>3, <2>6, <3>2
      <4> QED
        BY <2>2, <4>1
    <3> QED
      BY <3>1, <3>2
  <2>7. Range(d \o e) \subseteq Range(d) \cup Range(e)
    BY <2>1, <2>2, <2>6
  <2>8. Range(d) \subseteq Range(d \o e)
    BY <2>2, <2>4
  <2>9. Range(e) \subseteq Range(d \o e)
    BY <2>2, <2>5
  <2>10. Range(d \o e) = Range(d) \cup Range(e)
    BY <2>7, <2>8, <2>9
  <2> QED
    BY <1>3, <2>10 DEF d
<1>7. Range(e) = (written + 1)..written'
  <2>1. Range(e) = {e[k] : k \in 1..i}
    BY <1>2, RangeFacts
  <2>2. \A k \in 1..i : e[k] \in (written + 1)..written'
    BY <1>2, <1>3, <1>4
  <2>3. ASSUME NEW j \in (written + 1)..written' PROVE j \in Range(e)
    <3>1. j - written \in 1..i
      BY <1>3, <1>4, <2>3
    <3>2. e[j - written] = j
      BY <1>2, <1>4, <2>3, <3>1
    <3> QED
      BY <2>1, <3>1, <3>2
  <2> QED
    BY <2>1, <2>2, <2>3
<1>8. \A k : k \in Kept' <=> k \in Kept \/ k \in (written + 1)..written'
  BY <1>5, <1>6, <1>7, InKept, InKeptNext
<1>9. OnDisk(current').data = OnDisk(current).data
  <2>1. /\ OnDisk(current).data = SubSeq(current.data, 1, current.synced)
        /\ OnDisk(current').data = SubSeq(current'.data, 1, current'.synced)
    BY OnDiskFacts DEF TypeInv
  <2> QED
    BY <1>2, <1>3, <1>4, <2>1, PrefixOfConcat
<1>10. \A k : k \in Disk' <=> k \in Disk
  BY <1>5, <1>9, InDisk, InDiskNext
<1>11. written' \in Nat /\ written' > written
  BY <1>3, <1>4
<1>12. Disk' = Disk
  BY <1>10
<1>13. Output' = Output
  BY <1>5, <1>12, OutputSame
<1> QED
  BY <1>5, <1>8, <1>11, <1>12, <1>13

\* All of current comes to the disk, and nothing else changes.
LEMMA MapsSync ==
  ASSUME TypeInv, TypeInv', CurrentInv, OrderInv, FilesKept, Sync \/ Hup \/ Exit
  PROVE  /\ Disk \subseteq Disk' /\ Disk' \subseteq Kept
         /\ Kept' = Kept /\ Output' = Output /\ written' = written /\ crashes' = crashes
<1>1. /\ current' = Safe(current) /\ here' = here /\ old' = old
      /\ written' = written /\ crashes' = crashes
  BY DEF Sync, Hup, Exit, aux
<1>2. Sound(current) /\ Sound(current') /\ current \in File
  BY DEF TypeInv, Sound
<1>3. current'.data = current.data /\ Closed(current')
  BY <1>1, <1>2, SafeFacts DEF Closed
<1>4. OnDisk(current').data = current.data
  BY <1>2, <1>3, OnDiskFacts
<1>5. Range(OnDisk(current).data) \subseteq Range(current.data)
  BY <1>2, OnDiskFacts
<1>6. \A k : k \in Kept' <=> k \in Kept
  BY <1>1, <1>3, InKept, InKeptNext
<1>7. \A k : k \in Disk => k \in Disk'
  BY <1>1, <1>4, <1>5, InDisk, InDiskNext
<1>8. Kept' = Kept
  BY <1>6
<1>9. \A k : k \in Disk' => k \in Disk \/ k \in Range(current.data)
  BY <1>1, <1>4, InDisk, InDiskNext
<1>10. \A k : k \in Output => k \notin Range(current.data)
  BY InOutput, OutputAlone
<1>11. \A k : k \in Output' <=> k \in Output
  BY <1>1, <1>7, <1>9, <1>10, InOutput, InOutputNext
<1> QED
  BY <1>1, <1>7, <1>8, <1>11, DiskKeptNext

\* rmoldest, or a full disk, deletes the oldest log, and perhaps output of
\* processors with it.
LEMMA OldestGoes ==
  ASSUME TypeInv, NEW S, S \subseteq DOMAIN old, S # {}, Saved(old) \subseteq S
  PROVE  OldestAtMost({Oldest(S)}, Oldest(S))
<1>1. S \subseteq Name
  BY DEF TypeInv, SoundDir
<1> QED
  BY <1>1, OldestFacts DEF OldestAtMost

LEMMA MapsForget ==
  ASSUME TypeInv, TypeInv', CurrentInv, OrderInv, FilesKept,
         PruneAside \/ Create \/ NoSpace
  PROVE  /\ Kept' \subseteq Kept
         /\ \A k \in Kept \ Kept', j \in Kept' : k < j
         /\ Disk' = Disk \cap Kept' /\ Output' = Output \cap Kept'
         /\ written' = written /\ crashes' = crashes
<1>1. written' = written /\ crashes' = crashes /\ current' = current
  BY DEF PruneAside, Create, NoSpace, aux
<1>2. here' = here \/ current.data = <<>>
  BY DEF PruneAside, Create, NoSpace, CurrentInv
<1>3. CASE PruneAside \/ Create
  <2> DEFINE S    == Saved(old)
             gone == IF config.nmax > 0 /\ Cardinality(S) > config.nmax
                       THEN {Oldest(S)} ELSE {}
             D    == (DOMAIN old \ S) \cup gone
  <2>1. old' = Without(old, D)
    BY <1>3 DEF PruneAside, Create, RmOldest
  <2>2. \A f \in S : f \in D => f = Oldest(S) /\ S # {}
    OBVIOUS
  <2>3. S \subseteq DOMAIN old
    BY DEF Saved
  <2>4. OldestAtMost(D, Oldest(S))
    BY <2>2, <2>3, OldestGoes DEF OldestAtMost
  <2> HIDE DEF S, gone, D
  <2> QED
    BY <1>1, <1>2, <2>1, <2>4, Forgotten
<1>4. CASE NoSpace
  <2> DEFINE S == DOMAIN old
  <2>1. CASE old' = old
    <3>1. Kept' = Kept
      BY <1>1, <1>4, <2>1 DEF Kept, NoSpace
    <3>2. Disk' = Disk
      BY <1>1, <1>4, <2>1 DEF Disk, NoSpace
    <3>3. Output' = Output
      BY <2>1, <3>2 DEF Output
    <3>4. Output \subseteq Kept
      BY InOutput, InKept DEF FilesKept
    <3> QED
      BY <1>1, <3>1, <3>2, <3>3, <3>4, DiskKept
  <2>2. CASE old' = Without(old, {Oldest(S)})
    <3>1. S # {} => OldestAtMost({Oldest(S)}, Oldest(S))
      BY OldestGoes DEF Saved
    <3>2. S = {} => OldestAtMost({Oldest(S)}, Oldest(S))
      BY DEF Saved, OldestAtMost
    <3> HIDE DEF S
    <3> QED
      BY <1>1, <1>2, <2>2, <3>1, <3>2, Forgotten
  <2>3. old' = old \/ old' = Without(old, {Oldest(S)})
    BY <1>4 DEF NoSpace
  <2> QED
    BY <2>1, <2>2, <2>3
<1> QED
  BY <1>1, <1>3, <1>4

\* What is on the disk outlasts svlogd and the power.
LEMMA MapsCrash ==
  ASSUME TypeInv, TypeInv', OrderInv, FilesKept, FilesKept', Kill \/ Power
  PROVE  /\ Kept' \subseteq Kept /\ Disk \subseteq Kept' /\ Output' = Output \cap Kept'
         /\ crashes' = crashes + 1 /\ written' = written /\ Disk' = Disk
<1>1. /\ here' = here /\ crashes' = crashes + 1 /\ written' = written
  BY DEF Kill, Power, files, logs
<1>2. CASE Kill
  <2>1. current' = current /\ old' = old
    BY <1>2 DEF Kill, files, logs
  <2>2. Kept' = Kept
    BY <1>1, <2>1 DEF Kept
  <2>3. Disk' = Disk
    BY <1>1, <2>1 DEF Disk
  <2>4. Output' = Output
    BY <2>1, <2>3 DEF Output
  <2>5. Output \subseteq Kept
    BY InOutput, InKept DEF FilesKept
  <2> QED
    BY <1>1, <2>2, <2>3, <2>4, <2>5, DiskKept
<1>3. CASE Power
  <2>1. PICK n \in current.synced..Len(current.data) : current' = Torn(current, n)
    BY <1>3 DEF Power
  <2>2. /\ OnDisk(current').data = OnDisk(current).data
        /\ Range(current'.data) \subseteq Range(current.data)
    BY <2>1, OnDiskTorn DEF TypeInv
  <2>3. Saved(old') = Saved(old)
    BY <1>3, PowerFacts DEF Saved
  <2>4. ASSUME NEW f \in Saved(old)
        PROVE  /\ old'[f].whole = old[f].whole
               /\ OnDisk(old'[f]).data = OnDisk(old[f]).data
               /\ Range(old'[f].data) \subseteq Range(old[f].data)
    <3>1. f \in DOMAIN old /\ Sound(old[f])
      BY <2>4 DEF Saved, TypeInv, SoundDir
    <3>2. PICK m \in old[f].synced..Len(old[f].data) : old'[f] = Torn(old[f], m)
      BY <1>3, <3>1, PowerFacts
    <3> QED
      BY <3>1, <3>2, OnDiskTorn
  <2>5. \A k : k \in Kept' => k \in Kept
    BY <1>1, <2>2, <2>3, <2>4, InKept, InKeptNext
  <2>6. \A k : k \in Disk' <=> k \in Disk
    BY <1>1, <2>2, <2>3, <2>4, InDisk, InDiskNext
  <2>7. Disk' = Disk
    BY <2>6
\* What is left of an output is in it, and nowhere else.
  <2>8. ASSUME NEW k \in Output, k \in Kept' PROVE k \in Output'
    <3>1. PICK f \in Saved(old) : f.ext = "s" /\ k \in Range(old[f].data) /\ k \notin Disk
      BY <2>8, InOutput
    <3>2. k \notin Range(current'.data)
      BY <2>2, <3>1, OutputAlone
    <3>3. PICK g \in Saved(old') : k \in Range(old'[g].data)
      BY <2>8, <3>2, InKeptNext
    <3>4. g = f
      BY <2>3, <2>4, <3>1, <3>3, OutputAlone
    <3> QED
      BY <2>7, <3>1, <3>3, <3>4, InOutputNext
  <2>9. \A k : k \in Output' => k \in Output /\ k \in Kept'
    BY <2>3, <2>4, <2>7, InOutput, InOutputNext, InKeptNext DEF FilesKept
  <2> QED
    BY <1>1, <2>5, <2>7, <2>8, <2>9, DiskKeptNext
<1> QED
  BY <1>2, <1>3

\* The inductive invariant holds at first, as the directory is empty.
KeptInv == TypeInv /\ PidInv /\ CurrentInv /\ OrderInv /\ FilesKept /\ InputsKept /\ RotationKept

LEMMA KeptInit == Init => KeptInv /\ Kept = {} /\ Disk = {} /\ Output = {}
<1> SUFFICES ASSUME Init PROVE KeptInv /\ Kept = {} /\ Disk = {} /\ Output = {}
  OBVIOUS
<1>1. TypeInv /\ PidInv /\ CurrentInv /\ OrderInv
  BY TypeInit, PidInit, CurrentInit, OrderInit
<1>2. old = <<>> /\ ~here /\ pc = "down" /\ \A p \in Pid : proc[p] = Reaped
  BY DEF Init
<1>3. Saved(old) = {} /\ \A p \in Pid : proc[p].st = "free"
  BY <1>2, NoData, BusyFacts DEF Saved
<1>4. FilesKept
  BY <1>3 DEF FilesKept
<1>5. InputsKept
  BY <1>3 DEF InputsKept, Busy
<1>6. RotationKept
  BY <1>2 DEF RotationKept, AtLog, Finishing
<1>7. \A k : k \notin Kept /\ k \notin Disk /\ k \notin Output
  BY <1>1, <1>2, <1>3, InKept, InDisk, InOutput
<1> QED
  BY <1>1, <1>4, <1>5, <1>6, <1>7 DEF KeptInv

\* Nothing in it is about the counters alone, so a stuttering step keeps it.
LEMMA KeptStill == KeptInv /\ UNCHANGED vars => KeptInv'
<1> SUFFICES ASSUME KeptInv, UNCHANGED vars PROVE KeptInv'
  OBVIOUS
<1>1. TypeInv' /\ PidInv' /\ CurrentInv' /\ OrderInv'
  BY TypeStep, PidStep, CurrentStep, OrderStep DEF KeptInv
<1>2. /\ old' = old /\ proc' = proc /\ pc' = pc /\ fn' = fn /\ ppid' = ppid
      /\ config' = config /\ failed' = failed
  BY DEF vars
<1>3. FilesKept' /\ InputsKept'
  BY <1>2 DEF KeptInv, FilesKept, InputsKept, Busy
<1>4. RotationKept'
  BY <1>2 DEF KeptInv, RotationKept, Replaceable, Replaced, Busy
<1> QED
  BY <1>1, <1>3, <1>4 DEF KeptInv

LEMMA KeptStep ==
  NoneKilled /\ KeepsInputs /\ KeptInv /\ [Next]_vars => KeptInv'
<1> SUFFICES ASSUME NoneKilled, KeepsInputs, KeptInv, [Next]_vars PROVE KeptInv'
  OBVIOUS
<1>1. TypeInv' /\ PidInv' /\ CurrentInv' /\ OrderInv'
  BY TypeStep, PidStep, CurrentStep, OrderStep DEF KeptInv
<1>2. CASE Next
  BY <1>1, <1>2, FilesStep, InputsStep, RotationStep DEF KeptInv
<1> QED
  BY <1>2, KeptStill

LEMMA LogNext ==
  KeptInv /\ KeptInv' /\ [Next]_vars => [SafeLog!Next]_(SafeLog!vars)
<1> SUFFICES ASSUME KeptInv, KeptInv', [Next]_vars
             PROVE  [SafeLog!Next]_(SafeLog!vars)
  OBVIOUS
<1>1. CASE Idle \/ Moving
  <2>1. /\ Kept' = Kept /\ Disk' = Disk /\ Output' = Output
        /\ written' = written /\ crashes' = crashes
    BY <1>1, MapsIdle DEF KeptInv
  <2>2. UNCHANGED SafeLog!vars
    BY <2>1 DEF SafeLog!vars
  <2> QED
    BY <2>2
<1>2. CASE Write
  <2>1. /\ written' \in Nat /\ written' > written
        /\ Kept' = Kept \cup (written + 1)..written'
        /\ Disk' = Disk /\ Output' = Output /\ crashes' = crashes
    BY <1>2, MapsWrite DEF KeptInv
  <2>2. SafeLog!Append
    BY <2>1 DEF SafeLog!Append
  <2> QED
    BY <2>2 DEF SafeLog!Next
<1>3. CASE Sync \/ Hup \/ Exit
  <2>1. /\ Disk \subseteq Disk' /\ Disk' \subseteq Kept
        /\ Kept' = Kept /\ Output' = Output /\ written' = written /\ crashes' = crashes
    BY <1>3, MapsSync DEF KeptInv
  <2>2. SafeLog!Secure
    BY <2>1 DEF SafeLog!Secure
  <2> QED
    BY <2>2 DEF SafeLog!Next
<1>4. CASE PruneAside \/ Create \/ NoSpace
  <2>1. /\ Kept' \subseteq Kept
        /\ \A k \in Kept \ Kept', j \in Kept' : k < j
        /\ Disk' = Disk \cap Kept' /\ Output' = Output \cap Kept'
        /\ written' = written /\ crashes' = crashes
    BY <1>4, MapsForget DEF KeptInv
  <2>2. SafeLog!Forget
    BY <2>1 DEF SafeLog!Forget
  <2> QED
    BY <2>2 DEF SafeLog!Next
<1>5. CASE Kill \/ Power
  <2>1. /\ Kept' \subseteq Kept /\ Disk \subseteq Kept' /\ Output' = Output \cap Kept'
        /\ crashes' = crashes + 1 /\ written' = written /\ Disk' = Disk
    BY <1>5, MapsCrash DEF KeptInv
  <2>2. SafeLog!Crash
    BY <2>1 DEF SafeLog!Crash
  <2> QED
    BY <2>2 DEF SafeLog!Next
<1>6. CASE UnlinkInput
  <2>1. /\ Disk' \subseteq Disk /\ Output' = Output \cup (Disk \ Disk')
        /\ Kept' = Kept /\ written' = written /\ crashes' = crashes
    BY <1>6, MapsProcess DEF KeptInv
  <2>2. SafeLog!Process
    BY <2>1 DEF SafeLog!Process
  <2> QED
    BY <2>2 DEF SafeLog!Next
<1>7. CASE UNCHANGED vars
  BY <1>7 DEF vars, SafeLog!vars, Kept, Disk, Output, OnDisk
<1> QED
  BY <1>1, <1>2, <1>3, <1>4, <1>5, <1>6, <1>7
  DEF Next, Step, Request, Environment, Idle, Moving

(* Data that were written are in the log, in a file that holds them whole,   *)
(* through every rotation, processor and restart, until the oldest are       *)
(* deleted (svlogd.c, rotate, processorstop, rmoldest, buffer_pwrite,        *)
(* logdir_open). A crash takes nothing of what was synced, but for the logs  *)
(* whose input was unlinked (svlogd.c:210): of these it may take what was    *)
(* on the disk before, as the output of the processor was not synced. As     *)
(* long as no processor is ended by a signal, for then its unfinished output *)
(* becomes the log (svlogd.c:192), and no log that a processor reads is      *)
(* deleted for a full disk (svlogd.c:342).                                   *)
THEOREM LogdirIsLog ==
  ASSUME NoneKilled, KeepsInputs
  PROVE  Spec => LogKept
<1>1. Init => SafeLog!Init
  BY KeptInit DEF SafeLog!Init, Init
<1>2. Init => KeptInv
  BY KeptInit
<1>3. KeptInv /\ [Next]_vars => KeptInv'
  BY KeptStep
<1> QED
  BY <1>1, <1>2, <1>3, LogNext, PTL DEF Spec, LogKept, SafeLog!Safety

-----------------------------------------------------------------------------
(* How many logs there are. *)

\* One of the configurations keeps the most logs, and each limits them.
HasMost == \E c \in Configs : \A d \in Configs : d.nmax <= c.nmax
Limited == \A c \in Configs : c.nmax > 0

Most  == Max({c.nmax : c \in Configs})
Count == Cardinality(Saved(old))

\* Between a rename and what it makes room for there may be one log more.
Crowded == {"prune", "create", "unlink"}

\* The input of the processor of @fn is there, whose place the output will
\* take, or another log was deleted meanwhile and there is room for both.
RoomLeft == N(fn, "u") \in Saved(old) \/ Count < crashes + Most

OutputComes ==
  \/ pc = "start" /\ config.processor
  \/ pc = "stopped"
  \/ pc \notin {"down", "open"} /\ ppid # 0

CountInv ==
  /\ IsFiniteSet(Saved(old))
  /\ pc \notin {"down", "open"} => config \in Configs
  /\ pc \in {"rename", "create"} => fn = written
  /\ pc = "create" => SavedName \in Saved(old)
  /\ Limited =>
       /\ Count <= crashes + Most + 1
       /\ pc \notin Crowded => Count <= crashes + Most
       /\ OutputComes => RoomLeft
       /\ pc = "unlink" => N(fn, "u") \in Saved(old) \/ Count <= crashes + Most

\* A finite set of numbers has a largest one, whether or not there are as many
\* configurations.
LEMMA FiniteHasMost ==
  ASSUME Configs # {}, IsFiniteSet({c.nmax : c \in Configs})
  PROVE  HasMost
<1> DEFINE S == {c.nmax : c \in Configs}
<1>1. S \subseteq Nat /\ S # {}
  BY LogdirAssumption DEF Config
<1>2. PICK n \in Nat : ExistsBijection(1..n, S)
  <2> HIDE DEF S
  <2>1. IsFiniteSet(S)
    BY DEF S
  <2> QED
    BY <2>1, FS_NatBijection
<1>a. PICK f \in [1..n -> S] : \A s \in S : \E i \in 1..n : f[i] = s
  BY <1>2, Zenon DEF ExistsBijection, Bijection, Surjection
<1> DEFINE Largest(k, m) == \A i \in 1..k : f[i] <= f[m]
           U == {k \in 1..n : ~\E m \in 1..k : Largest(k, m)}
<1> HIDE DEF S
<1>3. U = {}
  <2> SUFFICES ASSUME U # {} PROVE FALSE
    OBVIOUS
  <2>1. PICK k \in U : \A j \in U : k <= j
    <3> HIDE DEF Largest
    <3>1. U \subseteq Nat
      OBVIOUS
    <3> HIDE DEF U
    <3> QED
      BY <3>1, Least
  <2>2. \A i \in 1..n : f[i] \in Nat
    BY <1>1
  <2>3. CASE k = 1
    <3>1. 1 \in 1..1 /\ Largest(1, 1)
      BY <2>2, <2>3
    <3> QED
      BY <2>3, <3>1
  <2>4. CASE k # 1
    <3>1. k - 1 \in 1..n /\ k \in 1..n /\ ~(k <= k - 1)
      BY <2>4
    <3>2. PICK m \in 1..k - 1 : Largest(k - 1, m)
      BY <2>1, <3>1
    <3>3. \A i \in 1..k : i = k \/ i \in 1..k - 1
      BY <3>1
    <3>4. m \in 1..k /\ k \in 1..k /\ m \in 1..n /\ f[m] \in Nat /\ f[k] \in Nat
      BY <2>2, <3>1
    <3>5. \A i \in 1..k - 1 : i \in 1..n /\ f[i] \in Nat
      BY <2>2, <3>1
    <3>6. CASE f[k] <= f[m]
      <4>1. Largest(k, m)
        BY <3>2, <3>3, <3>6
      <4> QED
        BY <3>4, <4>1
    <3>7. CASE f[m] <= f[k]
      <4>1. \A i \in 1..k - 1 : f[i] <= f[m]
        BY <3>2
      <4>2. \A i \in 1..k : f[i] <= f[k]
        <5> SUFFICES ASSUME NEW i \in 1..k PROVE f[i] <= f[k]
          OBVIOUS
        <5>1. CASE i = k
          BY <3>4, <5>1
        <5>2. CASE i \in 1..k - 1
          BY <3>4, <3>5, <3>7, <4>1, <5>2
        <5> QED
          BY <3>3, <5>1, <5>2
      <4>3. Largest(k, k)
        BY <4>2
      <4> QED
        BY <3>4, <4>3
    <3> QED
      BY <3>4, <3>6, <3>7
  <2> QED
    BY <2>3, <2>4
<1>4. n \in 1..n
  <2>1. PICK s : s \in S
    BY <1>1
  <2>2. PICK i \in 1..n : f[i] = s
    BY <1>a, <2>1
  <2> QED
    BY <1>2, <2>2
<1>5. PICK m \in 1..n : Largest(n, m)
  BY <1>3, <1>4
<1>6. f[m] \in S /\ \A s \in S : s <= f[m]
  BY <1>a, <1>5
<1> HIDE DEF Largest
<1> QED
  BY <1>6 DEF HasMost, S

LEMMA MostFacts ==
  ASSUME HasMost
  PROVE  Most \in Nat /\ \A c \in Configs : c.nmax \in Nat /\ c.nmax <= Most
<1> DEFINE S == {c.nmax : c \in Configs}
<1>1. \A c \in Configs : c.nmax \in Nat
  BY LogdirAssumption DEF Config
<1>2. \E x \in S : \A y \in S : x >= y
  BY <1>1 DEF HasMost
<1>3. Max(S) \in S /\ \A y \in S : Max(S) >= y
  BY <1>2 DEF Max
<1>4. S \subseteq Nat
  BY <1>1
<1> QED
  BY <1>1, <1>3, <1>4 DEF Most

\* What adding and deleting files does to the old logs.
LEMMA SavedWith ==
  ASSUME NEW F, NEW f, NEW c
  PROVE  Saved(With(F, f, c)) = IF f.ext = "t" THEN Saved(F) ELSE Saved(F) \cup {f}
  BY DEF Saved, With

LEMMA SavedWithout ==
  ASSUME NEW F, NEW S
  PROVE  Saved(Without(F, S)) = Saved(F) \ S
  BY DEF Saved, Without

LEMMA CountType ==
  ASSUME NEW S, IsFiniteSet(S)
  PROVE  Cardinality(S) \in Nat
  BY FS_CardinalityType

LEMMA CountMore ==
  ASSUME NEW S, IsFiniteSet(S), NEW f, NEW T, T = S \cup {f}
  PROVE  /\ Cardinality(S) \in Nat /\ IsFiniteSet(T)
         /\ Cardinality(T) <= Cardinality(S) + 1
         /\ f \in S => Cardinality(T) = Cardinality(S)
<1>1. Cardinality(S) \in Nat
  BY FS_CardinalityType
<1>2. /\ IsFiniteSet(T)
      /\ Cardinality(T) = IF f \in S THEN Cardinality(S) ELSE Cardinality(S) + 1
  BY FS_AddElement
<1> QED
  BY <1>1, <1>2

LEMMA CountFewer ==
  ASSUME NEW S, IsFiniteSet(S), NEW f, NEW T, T = S \ {f}
  PROVE  /\ Cardinality(S) \in Nat /\ IsFiniteSet(T)
         /\ Cardinality(T) = IF f \in S THEN Cardinality(S) - 1 ELSE Cardinality(S)
<1>1. Cardinality(S) \in Nat
  BY FS_CardinalityType
<1>2. /\ IsFiniteSet(T)
      /\ Cardinality(T) = IF f \in S THEN Cardinality(S) - 1 ELSE Cardinality(S)
  BY FS_RemoveElement
<1> QED
  BY <1>1, <1>2

LEMMA CountInit == HasMost /\ Init => CountInv
<1> SUFFICES ASSUME HasMost, Init PROVE CountInv
  OBVIOUS
<1>1. Saved(old) = {} /\ pc = "down" /\ crashes = 0
  BY DEF Init, Saved
<1>2. Count = 0 /\ IsFiniteSet(Saved(old))
  BY <1>1, FS_EmptySet DEF Count
<1> QED
  BY <1>1, <1>2, MostFacts DEF CountInv, OutputComes, Crowded

\* Nothing that counts has changed.
LEMMA CountStays ==
  ASSUME CountInv, Saved(old') = Saved(old),
         UNCHANGED <<pc, config, fn, ppid, written, crashes>>
  PROVE  CountInv'
  BY DEF CountInv, OutputComes, RoomLeft, Count, SavedName

\* svlogd goes on, and the logs stay.
LEMMA CountGoes ==
  ASSUME CountInv, Saved(old') = Saved(old), crashes' = crashes,
         pc \notin Crowded, pc' \notin Crowded,
         pc' \notin {"down", "open"} => config' \in Configs,
         pc' = "rename" => fn' = written',
         OutputComes' => fn' = fn /\ OutputComes
  PROVE  CountInv'
  BY DEF CountInv, RoomLeft, Count, Crowded

LEMMA CountOpening ==
  ASSUME TypeInv, PidInv, HasMost, CountInv,
         Start \/ OpenFails \/ Open \/ SetAside \/ AppendCurrent
  PROVE  CountInv'
<1>1. CASE Start \/ OpenFails \/ Open \/ AppendCurrent
  BY <1>1, CountGoes
     DEF Start, OpenFails, Open, AppendCurrent, Crowded, OutputComes, CountInv, mem, files, logs, aux
<1>2. CASE SetAside
  <2>1. Saved(old') = Saved(old) \cup {N(Now, "u")}
    BY <1>2, SavedWith, NameFacts DEF SetAside
  <2>2. pc' = "prune" /\ ppid' = 0 /\ UNCHANGED <<config, crashes, written>> /\ pc = "aside"
    BY <1>2 DEF SetAside, PidInv, Alone, aux
  <2>3. IsFiniteSet(Saved(old)) /\ (Limited => Count <= crashes + Most) /\ config \in Configs
    BY <2>2 DEF CountInv, Crowded
  <2>4. /\ Cardinality(Saved(old)) \in Nat /\ IsFiniteSet(Saved(old'))
        /\ Cardinality(Saved(old')) <= Cardinality(Saved(old)) + 1
    BY <2>1, <2>3, CountMore
  <2>5. Cardinality(Saved(old')) \in Nat /\ Most \in Nat /\ crashes \in Nat
    BY <2>4, CountType, MostFacts DEF TypeInv, TypeOK
  <2>6. Limited => Count' <= crashes' + Most + 1
    BY <2>2, <2>3, <2>4, <2>5 DEF Count
  <2> QED
    BY <2>2, <2>3, <2>4, <2>6 DEF CountInv, OutputComes, Crowded
<1> QED
  BY <1>1, <1>2

LEMMA CountWriting ==
  ASSUME TypeInv, HasMost, CountInv, Flush(1) \/ Flush(2) \/ RotateFirst \/ Write \/ NoSpace
  PROVE  CountInv'
<1>1. CASE Flush(1) \/ Flush(2) \/ RotateFirst \/ Write
  <2>1. pc' \in {"pwrite", "rotate", "ready"} /\ pc \in {"ready", "pwrite"}
    BY <1>1 DEF Flush, RotateFirst, Write
  <2>2. UNCHANGED <<old, crashes, config, fn, ppid>>
    BY <1>1 DEF Flush, RotateFirst, Write, mem, files, logs, aux
  <2> QED
    BY <2>1, <2>2, CountGoes DEF Crowded, OutputComes, CountInv
<1>2. CASE NoSpace
  <2>1. UNCHANGED <<pc, config, fn, ppid, written, crashes>> /\ pc = "pwrite"
    BY <1>2 DEF NoSpace, mem
  <2>2. CASE old' = old
    BY <2>1, <2>2, CountStays
  <2>3. CASE old' # old
    <3>1. PICK g : Saved(old') = Saved(old) \ {g}
      <4>1. old' = Without(old, {Oldest(DOMAIN old)})
        BY <1>2, <2>3 DEF NoSpace
      <4>2. Saved(old') = Saved(old) \ {Oldest(DOMAIN old)}
        BY <4>1, SavedWithout
      <4> QED
        BY <4>2
    <3>2. /\ Cardinality(Saved(old)) \in Nat /\ IsFiniteSet(Saved(old'))
          /\ Cardinality(Saved(old')) =
               IF g \in Saved(old) THEN Cardinality(Saved(old)) - 1 ELSE Cardinality(Saved(old))
      BY <3>1, CountFewer DEF CountInv
    <3>3. Most \in Nat /\ crashes \in Nat
      BY MostFacts DEF TypeInv, TypeOK
    <3>4. Limited => Count <= crashes + Most
      BY <2>1 DEF CountInv, Crowded
    <3>5. Limited => Count' <= crashes' + Most /\ Count' <= crashes' + Most + 1
      BY <2>1, <3>2, <3>3, <3>4 DEF Count
    <3>6. Limited /\ RoomLeft => RoomLeft'
      BY <2>1, <3>1, <3>2, <3>3, <3>4 DEF RoomLeft, Count
    <3>7. OutputComes' => OutputComes
      BY <2>1 DEF OutputComes
    <3> QED
      BY <2>1, <3>2, <3>5, <3>6, <3>7 DEF CountInv, Crowded
  <2> QED
    BY <2>2, <2>3
<1> QED
  BY <1>1, <1>2

\* rmoldest makes room, and does not take the youngest log for it.
LEMMA CountPruned ==
  ASSUME TypeInv, HasMost, OrderInv, IsFiniteSet(Saved(old)), config \in Configs,
         RmOldest(old)
  PROVE  /\ IsFiniteSet(Saved(old'))
         /\ Limited /\ Count <= crashes + Most + 1 =>
              /\ Cardinality(Saved(old')) <= crashes + Most
              /\ N(written, "u") \in Saved(old) =>
                   N(written, "u") \in Saved(old')
                   \/ Cardinality(Saved(old')) < crashes + Most
<1> DEFINE S == Saved(old)
           o == Oldest(S)
           gone == IF config.nmax > 0 /\ Cardinality(S) > config.nmax THEN {o} ELSE {}
<1>1. Saved(old') = S \ gone
  <2>1. old' = Without(old, (DOMAIN old \ S) \cup gone)
    BY DEF RmOldest
  <2>2. Saved(old') = S \ ((DOMAIN old \ S) \cup gone)
    BY <2>1, SavedWithout
  <2>3. S \subseteq DOMAIN old
    BY DEF Saved
  <2> QED
    BY <2>2, <2>3
<1>2. /\ Cardinality(S) \in Nat /\ Most \in Nat /\ crashes \in Nat
      /\ config.nmax \in Nat /\ config.nmax <= Most
  BY CountType, MostFacts DEF TypeInv, TypeOK
<1>3. S \subseteq Name /\ \A f \in S : f.stamp <= written /\ f.stamp \in Nat
  BY DEF Saved, TypeInv, TypeOK, OrderInv, Name
<1>4. CASE gone = {}
  <2>1. Saved(old') = S
    BY <1>1, <1>4
  <2>2. Limited => ~(Cardinality(S) > config.nmax)
    BY <1>4 DEF Limited
  <2> HIDE DEF S
  <2>3. Limited => Cardinality(S) <= crashes + Most
    BY <1>2, <2>2
  <2> QED
    BY <2>1, <2>3 DEF S
<1>5. CASE gone # {}
  <2>1. gone = {o} /\ Cardinality(S) > config.nmax /\ config.nmax > 0
    BY <1>5
  <2>2. S # {}
    BY <1>2, <2>1, FS_EmptySet
  <2>3. o \in S /\ \A g \in S \ {o} : Before(o, g)
    BY <1>3, <2>2, OldestFacts
  <2>4. Saved(old') = S \ {o}
    BY <1>1, <2>1
  <2>5. IsFiniteSet(S \ {o}) /\ Cardinality(S \ {o}) = Cardinality(S) - 1
    BY <2>3, CountFewer
  <2>6. Count = Cardinality(S)
    BY DEF Count
  <2>7. S \ {o} # {}
    BY <1>2, <2>1, <2>5, FS_EmptySet
  <2>8. o # N(written, "u")
    <3>1. PICK g \in S : g # o /\ Before(o, g)
      BY <2>3, <2>7
    <3>2. g.stamp <= written /\ g.stamp \in Nat /\ written \in Nat /\ Rank(g.ext) \in 1..3
      BY <1>3 DEF Name, Rank, TypeInv, TypeOK
    <3>3. ASSUME o = N(written, "u") PROVE FALSE
      <4>1. o.stamp = written /\ Rank(o.ext) = 3
        BY <3>3, NameFacts DEF Rank
      <4> QED
        BY <3>1, <3>2, <4>1 DEF Before
    <3> QED
      BY <3>3
  <2> HIDE DEF S, o
  <2>9. Count <= crashes + Most + 1 => Cardinality(S \ {o}) <= crashes + Most
    BY <1>2, <2>5, <2>6
  <2> QED
    BY <2>4, <2>5, <2>8, <2>9 DEF S
<1> QED
  BY <1>4, <1>5

LEMMA CountRotation ==
  ASSUME TypeInv, PidInv, OrderInv, HasMost, CountInv,
         PruneAside \/ RotateWaits \/ RotateNothing \/ Sync \/ Rename \/ Create \/ RotateEnds
  PROVE  CountInv'
<1>1. CASE RotateWaits \/ RotateNothing \/ Sync
  <2>1. back \in {"ready", "pwrite"} /\ pc = "rotate" /\ pc' \in {"wait", "rename", back}
    BY <1>1 DEF RotateWaits, RotateNothing, Sync, TypeInv, TypeOK
  <2>2. UNCHANGED <<old, crashes, config, ppid, written>>
        /\ (ppid # 0 => fn' = fn) /\ (pc' = "rename" => fn' = written)
    BY <1>1, <2>1 DEF RotateWaits, RotateNothing, Sync, mem, files, logs, aux, Now
  <2> QED
    BY <2>1, <2>2, CountGoes DEF Crowded, OutputComes, CountInv
<1>2. CASE RotateEnds
  <2>1. back \in {"ready", "pwrite"} /\ pc = "start" /\ pc' = back /\ ppid = 0
    BY <1>2 DEF RotateEnds, TypeInv, TypeOK, PidInv, Alone
  <2>2. UNCHANGED <<old, crashes, config, fn>> /\ (ppid' # 0 => config.processor)
    BY <1>2, <2>1 DEF RotateEnds, ProcessorStart, files, logs, aux
  <2> QED
    BY <2>1, <2>2, CountGoes DEF Crowded, OutputComes, CountInv
<1>3. CASE Rename
  <2>1. pc = "rename" /\ pc' = "create" /\ ppid' = 0
        /\ UNCHANGED <<config, fn, crashes, written>>
    BY <1>3 DEF Rename, PidInv, Alone, mem, aux
  <2>2. Saved(old') = Saved(old) \cup {SavedName}
    BY <1>3, SavedWith, NameFacts DEF Rename, SavedName
  <2>3. IsFiniteSet(Saved(old)) /\ (Limited => Count <= crashes + Most) /\ config \in Configs
        /\ fn = written
    BY <2>1 DEF CountInv, Crowded
  <2>4. /\ Cardinality(Saved(old)) \in Nat /\ IsFiniteSet(Saved(old'))
        /\ Cardinality(Saved(old')) <= Cardinality(Saved(old)) + 1
    BY <2>2, <2>3, CountMore
  <2>5. Cardinality(Saved(old')) \in Nat /\ Most \in Nat /\ crashes \in Nat
    BY <2>4, CountType, MostFacts DEF TypeInv, TypeOK
  <2>6. Limited => Count' <= crashes' + Most + 1
    BY <2>1, <2>3, <2>4, <2>5 DEF Count
  <2>7. SavedName' \in Saved(old')
    BY <2>1, <2>2 DEF SavedName
  <2> QED
    BY <2>1, <2>3, <2>4, <2>6, <2>7 DEF CountInv, OutputComes, Crowded
<1>4. CASE PruneAside \/ Create
  <2>1. /\ pc \in {"prune", "create"} /\ RmOldest(old) /\ ppid' = 0 /\ pc' \in {"append", "start"}
        /\ UNCHANGED <<config, fn, crashes>>
    BY <1>4 DEF PruneAside, Create, PidInv, Alone, mem
  <2>2. IsFiniteSet(Saved(old)) /\ config \in Configs
        /\ (Limited => Count <= crashes + Most + 1)
    BY <2>1 DEF CountInv
  <2>3. /\ IsFiniteSet(Saved(old'))
        /\ Limited =>
              /\ Cardinality(Saved(old')) <= crashes + Most
              /\ N(written, "u") \in Saved(old) =>
                   N(written, "u") \in Saved(old')
                   \/ Cardinality(Saved(old')) < crashes + Most
    BY <2>1, <2>2, CountPruned
  <2>4. Limited => Count' <= crashes' + Most /\ Count' <= crashes' + Most + 1
    <3>1. Cardinality(Saved(old')) \in Nat /\ Most \in Nat /\ crashes \in Nat
      BY <2>3, CountType, MostFacts DEF TypeInv, TypeOK
    <3> QED
      BY <2>1, <2>3, <3>1 DEF Count
  <2>5. Limited /\ OutputComes' => RoomLeft'
    <3>1. OutputComes' => pc = "create" /\ config.processor
      BY <1>4, <2>1 DEF OutputComes, PruneAside, Create
    <3>2. OutputComes' => fn = written /\ N(written, "u") \in Saved(old)
      BY <3>1 DEF CountInv, SavedName
    <3> QED
      BY <2>1, <2>3, <3>2 DEF RoomLeft, Count
  <2> QED
    BY <2>1, <2>2, <2>3, <2>4, <2>5 DEF CountInv, Crowded
<1> QED
  BY <1>1, <1>2, <1>3, <1>4

LEMMA CountStopping ==
  ASSUME TypeInv, PidInv, HasMost, CountInv,
         Wait \/ Retry \/ RenameOutput \/ UnlinkInput \/ RenameState
           \/ \E p \in Pid : Child(p)
  PROVE  CountInv'
<1>0. ret \in {"ready", "rotate", "exit"}
  BY DEF TypeInv, TypeOK
<1>1. CASE Wait \/ \E p \in Pid : Child(p)
  <2>1. UNCHANGED <<old, crashes, config, fn, written>>
    BY <1>1 DEF Wait, Child, files, logs, aux
  <2>2. pc \in {"wait", "ready"} /\ pc' \in {"stopped", "ready"} /\ (OutputComes' => OutputComes)
    BY <1>1, LogdirAssumption DEF Wait, Child, OutputComes, PidInv
  <2> QED
    BY <2>1, <2>2, CountGoes DEF Crowded, CountInv
<1>2. CASE Retry
  <2>1. Saved(old') = Saved(old)
    BY <1>2, SavedWithout, NameFacts DEF Retry, Saved
  <2>2. pc = "stopped" /\ pc' = ret /\ UNCHANGED <<crashes, config, fn, written>>
    BY <1>2 DEF Retry, aux
  <2> QED
    BY <1>0, <2>1, <2>2, CountGoes DEF Crowded, OutputComes, CountInv
<1>3. CASE RenameOutput
  <2>1. Saved(old') = Saved(old) \cup {N(fn, "s")}
    <3>1. Saved(Without(old, {N(fn, "t")})) = Saved(old)
      BY SavedWithout, NameFacts DEF Saved
    <3> QED
      BY <1>3, <3>1, SavedWith, NameFacts DEF RenameOutput
  <2>2. pc = "stopped" /\ pc' = "unlink" /\ ppid' = 0 /\ UNCHANGED <<crashes, config, fn, written>>
    BY <1>3 DEF RenameOutput, mem, aux, PidInv, Alone
  <2>3. /\ IsFiniteSet(Saved(old)) /\ config \in Configs
        /\ Limited => Count <= crashes + Most /\ RoomLeft
    BY <2>2 DEF CountInv, Crowded, OutputComes
  <2>4. /\ Cardinality(Saved(old)) \in Nat /\ IsFiniteSet(Saved(old'))
        /\ Cardinality(Saved(old')) <= Cardinality(Saved(old)) + 1
    BY <2>1, <2>3, CountMore
  <2>5. Cardinality(Saved(old')) \in Nat /\ Most \in Nat /\ crashes \in Nat
    BY <2>4, CountType, MostFacts DEF TypeInv, TypeOK
  <2>6. Limited => Count' <= crashes' + Most + 1
    BY <2>2, <2>3, <2>4, <2>5 DEF Count
  <2>7. Limited => N(fn, "u") \in Saved(old') \/ Count' <= crashes' + Most
    BY <2>1, <2>2, <2>3, <2>4, <2>5 DEF Count, RoomLeft
  <2> QED
    BY <2>2, <2>3, <2>4, <2>6, <2>7 DEF CountInv, OutputComes, Crowded
<1>4. CASE UnlinkInput
  <2>1. Saved(old') = Saved(old) \ {N(fn, "u")}
    BY <1>4, SavedWithout DEF UnlinkInput
  <2>2. pc = "unlink" /\ pc' = "state" /\ ppid' = 0 /\ UNCHANGED <<crashes, config, fn, written>>
    BY <1>4 DEF UnlinkInput, mem, aux, PidInv, Alone
  <2>3. /\ IsFiniteSet(Saved(old)) /\ config \in Configs
        /\ Limited => /\ Count <= crashes + Most + 1
                      /\ N(fn, "u") \in Saved(old) \/ Count <= crashes + Most
    BY <2>2 DEF CountInv
  <2>4. /\ Cardinality(Saved(old)) \in Nat /\ IsFiniteSet(Saved(old'))
        /\ Cardinality(Saved(old')) =
             IF N(fn, "u") \in Saved(old) THEN Cardinality(Saved(old)) - 1
             ELSE Cardinality(Saved(old))
    BY <2>1, <2>3, CountFewer
  <2>5. Cardinality(Saved(old')) \in Nat /\ Most \in Nat /\ crashes \in Nat
    BY <2>4, CountType, MostFacts DEF TypeInv, TypeOK
  <2>6. Limited => Count' <= crashes' + Most /\ Count' <= crashes' + Most + 1
    BY <2>2, <2>3, <2>4, <2>5 DEF Count
  <2> QED
    BY <2>2, <2>3, <2>4, <2>6 DEF CountInv, OutputComes, Crowded
<1>5. CASE RenameState
  <2>1. pc = "state" /\ pc' = ret /\ ppid' = 0 /\ UNCHANGED <<old, crashes, config, fn, written>>
    BY <1>5 DEF RenameState, mem, logs, aux, PidInv, Alone
  <2> QED
    BY <1>0, <2>1, CountGoes DEF Crowded, OutputComes, CountInv
<1> QED
  BY <1>1, <1>2, <1>3, <1>4, <1>5

LEMMA CountSignals ==
  ASSUME CountInv, Alarm \/ Hup \/ Term \/ ExitWaits \/ Exit
  PROVE  CountInv'
<1>1. UNCHANGED <<old, crashes, config, fn, ppid, written>>
  BY DEF Alarm, Hup, Term, ExitWaits, Exit, mem, files, logs, aux
<1>2. pc \in {"ready", "exit"} /\ pc' \in {"rotate", "open", "exit", "wait", "down"}
  BY DEF Alarm, Hup, Term, ExitWaits, Exit
<1> QED
  BY <1>1, <1>2, CountGoes DEF Crowded, OutputComes, CountInv

LEMMA CountEnvironment ==
  ASSUME TypeInv, HasMost, CountInv, Environment
  PROVE  CountInv'
<1>1. CASE Fill \/ Free \/ \E p \in Pid : \E how \in Ended : EndBadly(p, how)
  BY <1>1, CountStays DEF Fill, Free, EndBadly, mem, files, logs, aux
<1>2. ASSUME NEW p \in Pid, Begin(p) \/ EndWell(p) PROVE CountInv'
  <2>1. old' = old \/ \E k, c : old' = With(old, N(k, "t"), c)
    BY <1>2 DEF Begin, EndWell
  <2>2. Saved(old') = Saved(old)
    BY <2>1, SavedWith, NameFacts
  <2>3. UNCHANGED <<pc, config, fn, ppid, written, crashes>>
    BY <1>2 DEF Begin, EndWell, mem, aux
  <2> QED
    BY <2>2, <2>3, CountStays
<1>3. CASE Kill \/ Power
  <2>1. Saved(old') = Saved(old)
    BY <1>3 DEF Kill, Power, Saved, files, logs
  <2>2. pc' = "down" /\ crashes' = crashes + 1
    BY <1>3 DEF Kill, Power
  <2>3. Cardinality(Saved(old)) \in Nat /\ Most \in Nat /\ crashes \in Nat
    BY CountType, MostFacts DEF TypeInv, TypeOK, CountInv
  <2>4. Limited => Count <= crashes + Most + 1
    BY DEF CountInv
  <2>5. Limited => Count' <= crashes' + Most /\ Count' <= crashes' + Most + 1
    BY <2>1, <2>2, <2>3, <2>4 DEF Count
  <2> QED
    BY <2>1, <2>2, <2>5 DEF CountInv, OutputComes, Crowded
<1> QED
  BY <1>1, <1>2, <1>3 DEF Environment

LEMMA CountStep ==
  ASSUME HasMost
  PROVE  TypeInv /\ PidInv /\ OrderInv /\ CountInv /\ [Next]_vars => CountInv'
<1> SUFFICES ASSUME TypeInv, PidInv, OrderInv, CountInv, [Next]_vars PROVE CountInv'
  OBVIOUS
<1>1. CASE UNCHANGED vars
  BY <1>1, CountStays DEF vars
<1>2. \A n \in 1..2 : n = 1 \/ n = 2
  OBVIOUS
<1> QED
  BY <1>1, <1>2, CountOpening, CountWriting, CountRotation, CountStopping, CountSignals,
     CountEnvironment DEF Next, Step, Request

(* However often svlogd dies, at whatever step of a rotation, and whatever    *)
(* its processors leave, there are no more old logs when it is ready than its *)
(* config says and one for each crash.                                        *)
THEOREM LogsAreBounded ==
  ASSUME Configs # {}, IsFiniteSet({c.nmax : c \in Configs})
  PROVE  Spec => []OldBounded
<1> USE FiniteHasMost
<1>1. CountInv => OldBounded
  BY DEF CountInv, OldBounded, Limited, Crowded, Most, Count
<1>2. Init => TypeInv /\ PidInv /\ CurrentInv /\ OrderInv /\ CountInv
  BY TypeInit, PidInit, CurrentInit, OrderInit, CountInit
<1>3. TypeInv /\ PidInv /\ CurrentInv /\ OrderInv /\ CountInv /\ [Next]_vars
        => (TypeInv /\ PidInv /\ CurrentInv /\ OrderInv /\ CountInv)'
  BY TypeStep, PidStep, CurrentStep, OrderStep, CountStep
<1> QED
  BY <1>1, <1>2, <1>3, PTL DEF Spec
=============================================================================
