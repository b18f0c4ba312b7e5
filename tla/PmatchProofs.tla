---------------------------- MODULE PmatchProofs ----------------------------
(***************************************************************************)
(* Proofs about Pmatch: for every pattern with a meaning and every message *)
(* the matcher does what its manual page says, but where a plus meets the  *)
(* end of the message.                                                     *)
(***************************************************************************)
EXTENDS Pmatch, WellFoundedInduction, TLAPS

(* A set of numbers has a least one, from which induction follows. (The      *)
(* library states it for operators, which no prover here can instantiate.)   *)
LEMMA LeastOf == ASSUME NEW S \in SUBSET Nat, S # {} PROVE \E m \in S : \A k \in S : m <= k
<1> DEFINE R == {ss \in Nat \X Nat : ss[1] < ss[2]}
<1>1. R = OpToRel(<, Nat)
  BY Zenon DEF OpToRel
<1>2. PICK m \in S : \A k \in S : <<k, m>> \notin R
  <2>1. IsWellFoundedOn(R, Nat)
    BY <1>1, NatLessThanWellFounded, Zenon
  <2> HIDE DEF R
  <2> QED
    BY <2>1, WFMin
<1>3. \A k \in S : ~(k < m)
  BY <1>2
<1> QED
  BY <1>3

LEMMA Induction ==
  ASSUME NEW n \in Nat, NEW T, 0 \in T, \A k \in 0..n - 1 : k \in T => k + 1 \in T
  PROVE  n \in T
<1> DEFINE U == {k \in 0..n : k \notin T}
<1> SUFFICES ASSUME U # {} PROVE FALSE
  OBVIOUS
<1>1. PICK m \in U : \A k \in U : m <= k
  <2>1. U \in SUBSET Nat
    OBVIOUS
  <2> HIDE DEF U
  <2> QED
    BY <2>1, LeastOf
<1>2. m - 1 \in 0..n - 1 /\ (m - 1) + 1 = m
  OBVIOUS
<1>3. m - 1 \in T
  BY <1>1, <1>2
<1> QED
  BY <1>2, <1>3

-----------------------------------------------------------------------------
(* The recursive function in Pmatch is what its equation says.               *)
LEMMA MinIn ==
  ASSUME NEW message, Len(message) \in Nat, NEW j \in 1..Len(message) + 1, NEW c,
         NEW S, S = Found(message, j, c) \/ S = Other(message, j, c), S # {}
  PROVE  Min(S) \in S /\ \A k \in S : Min(S) <= k
<1>1. S \in SUBSET Nat
  BY DEF Found, Other
<1> QED
  BY <1>1, LeastOf DEF Min

LEMMA SameFrom ==
  ASSUME NEW pattern, Len(pattern) \in Nat, NEW message, Len(message) \in Nat, NEW after,
         NEW i \in 1..Len(pattern) + 2, NEW f, NEW g,
         \A k \in i + 1..Len(pattern) + 2 : f[k] = g[k]
  PROVE  MatchesFrom(f, pattern, message, after, i)
           = MatchesFrom(g, pattern, message, after, i)
<1>1. CASE i > Len(pattern)
  BY <1>1 DEF MatchesFrom, Nul
<1>2. CASE i <= Len(pattern)
  <2>1. f[i + 1] = g[i + 1] /\ f[i + 2] = g[i + 2]
    BY <1>2
  <2> QED
    BY <2>1 DEF MatchesFrom
<1> QED
  BY <1>1, <1>2

LEMMA PmatchIs ==
  ASSUME NEW pattern, Len(pattern) \in Nat, NEW message, Len(message) \in Nat, NEW after
  PROVE  \E f : /\ \A i \in 1..Len(pattern) + 2 :
                     f[i] = MatchesFrom(f, pattern, message, after, i)
                /\ Pmatch(pattern, message, after) <=> 1 \in f[1]
<1> DEFINE n == Len(pattern) + 2
           F(f, i) == MatchesFrom(f, pattern, message, after, i)
           T == {k \in 0..n : \E f : \A i \in n - k + 1..n : f[i] = F(f, i)}
<1>1. 0 \in T
  OBVIOUS
<1>2. ASSUME NEW k \in 0..n - 1, k \in T PROVE k + 1 \in T
  <2>1. PICK f : \A i \in n - k + 1..n : f[i] = F(f, i)
    BY <1>2
  <2> DEFINE g == [i \in 1..n |-> IF i = n - k THEN F(f, i) ELSE f[i]]
  <2>2. ASSUME NEW i \in n - k..n PROVE F(g, i) = F(f, i)
    <3>1. i \in 1..n /\ \A m \in i + 1..n : g[m] = f[m]
      OBVIOUS
    <3> HIDE DEF g
    <3> QED
      BY <3>1, SameFrom
  <2>3. \A i \in n - k..n : g[i] = F(f, i)
    <3> HIDE DEF F
    <3> QED
      BY <2>1
  <2>4. \A i \in n - (k + 1) + 1..n : g[i] = F(g, i)
    <3> HIDE DEF g, F
    <3> QED
      BY <2>2, <2>3
  <2>5. k + 1 \in 0..n
    OBVIOUS
  <2> HIDE DEF g, F
  <2> QED
    BY <2>4, <2>5
<1>3. n \in T
  <2> HIDE DEF T
  <2> QED
    BY <1>1, <1>2, Induction
<1>4. PICK f : \A i \in n - n + 1..n : f[i] = F(f, i)
  BY <1>3
<1> DEFINE g == [i \in 1..n |-> f[i]]
<1>5. ASSUME NEW i \in 1..n PROVE g[i] = F(g, i)
  <2>1. i \in n - n + 1..n /\ g[i] = f[i] /\ \A m \in i + 1..n : g[m] = f[m]
    OBVIOUS
  <2>2. f[i] = F(f, i)
    BY <1>4, <2>1
  <2> HIDE DEF g
  <2>3. F(g, i) = F(f, i)
    BY <2>1, SameFrom
  <2> QED
    BY <2>1, <2>2, <2>3
<1> DEFINE All(h) == [i \in 1..n |-> F(h, i)]
           match == CHOOSE h : h = All(h)
<1>6. g = All(g)
  <2> HIDE DEF F
  <2> QED
    BY <1>5
<1>7. match = All(match)
  <2> HIDE DEF g, All
  <2> QED
    BY <1>6, Zenon
<1>8. Pmatch(pattern, message, after) <=> 1 \in match[1]
  BY Zenon DEF Pmatch
<1>9. \A i \in 1..n : match[i] = F(match, i)
  <2> HIDE DEF match, F
  <2> QED
    BY <1>7
<1> HIDE DEF match
<1> QED
  BY <1>8, <1>9

-----------------------------------------------------------------------------
(* What is assumed of a pattern and a message: both are sequences, and no    *)
(* pattern holds a Nul.                                                      *)
Proper(pattern, message) ==
  /\ pattern = [k \in 1..Len(pattern) |-> pattern[k]] /\ Len(pattern) \in Nat
  /\ message = [k \in 1..Len(message) |-> message[k]] /\ Len(message) \in Nat
  /\ \A k \in DOMAIN pattern : pattern[k] # Nul
  /\ Regular(pattern)

(* ItemFits, of the piece of the message from a + 1 to e.                    *)
PieceFits(pattern, message, i, a, e) ==
  /\ pattern[i] = "*" /\ i < Len(pattern) =>
       \A k \in a + 1..e : message[k] # pattern[i + 1]
  /\ pattern[i] = "+" =>
       /\ a < e /\ \A k \in a + 1..e : message[k] = pattern[i + 1]
       /\ e < Len(message) => message[e + 1] # pattern[i + 1]
  /\ pattern[i] \notin Special => e = a + 1 /\ message[e] = pattern[i]

LEMMA PieceIs ==
  ASSUME NEW pattern, NEW message, Proper(pattern, message), NEW i \in Items(pattern),
         NEW a \in Nat, NEW e \in Nat, a <= e, e <= Len(message)
  PROVE  ItemFits(pattern, i, SubSeq(message, a + 1, e),
                  IF e + 1 <= Len(message) THEN message[e + 1] ELSE Nul)
           <=> PieceFits(pattern, message, i, a, e)
<1> DEFINE piece == SubSeq(message, a + 1, e)
           c == IF e + 1 <= Len(message) THEN message[e + 1] ELSE Nul
           next == IF i < Len(pattern) THEN pattern[i + 1] ELSE Nul
<1>1. /\ DOMAIN piece = 1..e - a /\ Len(piece) = e - a
      /\ \A k \in 1..e - a : k + a \in a + 1..e /\ piece[k] = message[k + a]
  <2>1. piece = [k \in 1..1 + e - (a + 1) |-> message[k + (a + 1) - 1]]
    OBVIOUS
  <2>2. 1 + e - (a + 1) = e - a /\ e - a \in Nat
    OBVIOUS
  <2>3. \A k \in 1..e - a : k + (a + 1) - 1 = k + a /\ k + a \in a + 1..e
    OBVIOUS
  <2> HIDE DEF piece
  <2>4. piece = [k \in 1..e - a |-> message[k + a]]
    BY <2>1, <2>2, <2>3
  <2>5. Len(piece) = e - a
    BY <2>2, <2>4
  <2> QED
    BY <2>3, <2>4, <2>5
<1>2. \A k \in a + 1..e : k - a \in 1..e - a /\ message[k] = piece[k - a]
  <2>1. \A k \in a + 1..e : k - a \in 1..e - a /\ (k - a) + a = k
    OBVIOUS
  <2> HIDE DEF piece
  <2> QED
    BY <1>1, <2>1
<1>3. \A d : /\ (\A k \in DOMAIN piece : piece[k] = d) <=> \A k \in a + 1..e : message[k] = d
             /\ (\A k \in DOMAIN piece : piece[k] # d) <=> \A k \in a + 1..e : message[k] # d
  <2> HIDE DEF piece
  <2> QED
    BY <1>1, <1>2
<1>4. piece # <<>> <=> a < e
  <2> HIDE DEF piece
  <2> QED
    BY <1>1
<1>5. /\ i \in 1..Len(pattern) /\ pattern[i] # Nul
      /\ i < Len(pattern) => next = pattern[i + 1] /\ next # Nul
      /\ pattern[i] = "+" => i < Len(pattern)
  BY DEF Proper, Items, Regular, Special
<1>6. pattern[i] = "+" =>
        (c # next <=> (e < Len(message) => message[e + 1] # pattern[i + 1]))
  BY <1>5
<1> SUFFICES ItemFits(pattern, i, piece, c) <=> PieceFits(pattern, message, i, a, e)
  OBVIOUS
<1> HIDE DEF piece, c
<1>7. CASE pattern[i] = "*"
  <2>1. ItemFits(pattern, i, piece, c)
          <=> (next # Nul => \A k \in DOMAIN piece : piece[k] # next)
    BY <1>7 DEF ItemFits
  <2>2. PieceFits(pattern, message, i, a, e)
          <=> (i < Len(pattern) => \A k \in a + 1..e : message[k] # pattern[i + 1])
    BY <1>7 DEF PieceFits, Special
  <2>3. i < Len(pattern) <=> next # Nul
    BY <1>5
  <2> HIDE DEF next
  <2> QED
    BY <1>3, <1>5, <2>1, <2>2, <2>3
<1>8. CASE pattern[i] = "+"
  <2>1. ItemFits(pattern, i, piece, c)
          <=> piece # <<>> /\ (\A k \in DOMAIN piece : piece[k] = next) /\ c # next
    BY <1>8 DEF ItemFits
  <2>2. PieceFits(pattern, message, i, a, e)
          <=> /\ a < e /\ \A k \in a + 1..e : message[k] = pattern[i + 1]
              /\ e < Len(message) => message[e + 1] # pattern[i + 1]
    BY <1>8 DEF PieceFits, Special
  <2> HIDE DEF next
  <2> QED
    BY <1>3, <1>4, <1>5, <1>6, <1>8, <2>1, <2>2
<1>9. CASE pattern[i] \notin Special
  <2>1. ItemFits(pattern, i, piece, c)
          <=> Len(piece) = 1 /\ (\A k \in DOMAIN piece : piece[k] = pattern[i])
    BY <1>9 DEF ItemFits, Special
  <2>2. PieceFits(pattern, message, i, a, e) <=> e = a + 1 /\ message[e] = pattern[i]
    BY <1>9 DEF PieceFits, Special
  <2>3. Len(piece) = 1 <=> e = a + 1
    BY <1>1
  <2>4. e = a + 1 => ((\A k \in a + 1..e : message[k] = pattern[i]) <=> message[e] = pattern[i])
    OBVIOUS
  <2> QED
    BY <1>3, <2>1, <2>2, <2>3, <2>4
<1> QED
  BY <1>7, <1>8, <1>9 DEF Special

(* The places of a pattern: where an item begins, and its end.               *)
Places(pattern) == Items(pattern) \cup {Len(pattern) + 1}

After(pattern, i) == IF pattern[i] = "+" THEN i + 2 ELSE i + 1

LEMMA MaxIn ==
  ASSUME NEW n \in Nat, NEW S \in SUBSET (1..n), S # {}
  PROVE  Max(S) \in S /\ \A k \in S : k <= Max(S)
<1> DEFINE T == {n - k : k \in S}
<1>1. PICK m \in T : \A k \in T : m <= k
  <2>1. T \in SUBSET Nat /\ T # {}
    <3>1. \A k \in S : n - k \in Nat
      OBVIOUS
    <3> QED
      BY <3>1
  <2> HIDE DEF T
  <2> QED
    BY <2>1, LeastOf
<1>2. PICK x \in S : m = n - x
  OBVIOUS
<1>3. \A k \in S : k <= x
  <2>1. ASSUME NEW k \in S PROVE k <= x
    <3>1. n - k \in T
      OBVIOUS
    <3>2. m <= n - k
      BY <1>1, <3>1
    <3>3. n \in Int /\ k \in Int /\ x \in Int
      OBVIOUS
    <3> HIDE DEF T
    <3> QED
      BY <1>2, <3>2, <3>3
  <2> QED
    BY <2>1
<1> QED
  BY <1>3 DEF Max

LEMMA BeforeIn ==
  ASSUME NEW pattern, NEW message, Proper(pattern, message), NEW i,
         NEW ends \in [Items(pattern) -> 0..Len(message)]
  PROVE  Before(ends, pattern, i) \in 0..Len(message)
<1> DEFINE earlier == {k \in Items(pattern) : k < i}
<1>1. Items(pattern) \subseteq 1..Len(pattern) /\ Len(pattern) \in Nat /\ Len(message) \in Nat
  BY DEF Items, Proper
<1>2. CASE earlier = {}
  BY <1>1, <1>2 DEF Before
<1>3. CASE earlier # {}
  <2>1. earlier \in SUBSET (1..Len(pattern)) /\ earlier \subseteq Items(pattern)
    BY <1>1
  <2>2. Max(earlier) \in earlier
    <3> HIDE DEF earlier
    <3> QED
      BY <1>1, <1>3, <2>1, MaxIn
  <2>3. Before(ends, pattern, i) = ends[Max(earlier)]
    BY <1>3 DEF Before
  <2> HIDE DEF earlier
  <2> QED
    BY <2>1, <2>2, <2>3
<1> QED
  BY <1>2, <1>3

LEMMA FirstPlace ==
  ASSUME NEW pattern, NEW message, Proper(pattern, message), NEW ends
  PROVE  1 \in Places(pattern) /\ Before(ends, pattern, 1) = 0
<1>1. {k \in Items(pattern) : k < 1} = {}
  BY DEF Items, Proper
<1> QED
  BY <1>1 DEF Before, Places, Items, Proper

(* The item before a place is the one whose end Before gives.                *)
LEMMA NextPlace ==
  ASSUME NEW pattern, NEW message, Proper(pattern, message), NEW i \in Items(pattern)
  PROVE  /\ i \in 1..Len(pattern) /\ After(pattern, i) \in i + 1..Len(pattern) + 1
         /\ After(pattern, i) \in Places(pattern)
         /\ {k \in Items(pattern) : k < After(pattern, i)}
              = {k \in Items(pattern) : k < i} \cup {i}
         /\ \A ends : Before(ends, pattern, After(pattern, i)) = ends[i]
<1> DEFINE next == After(pattern, i)
           earlier == {k \in Items(pattern) : k < next}
<1>1. /\ Len(pattern) \in Nat /\ Items(pattern) \subseteq 1..Len(pattern)
      /\ DOMAIN pattern = 1..Len(pattern)
  BY DEF Proper, Items
<1>2. pattern[i] = "+" => i < Len(pattern) /\ pattern[i + 1] # "+"
  BY <1>1 DEF Proper, Regular, Special
<1>3. next \in i + 1..Len(pattern) + 1
  BY <1>1, <1>2 DEF After
<1>4. next \in Places(pattern)
  <2>1. CASE next = Len(pattern) + 1
    BY <2>1 DEF Places
  <2>2. CASE next <= Len(pattern)
    <3>1. next \in 1..Len(pattern) /\ pattern[next - 1] # "+"
      BY <1>1, <1>2, <1>3, <2>2 DEF After
    <3> QED
      BY <1>1, <3>1 DEF Places, Items
  <2> QED
    BY <1>1, <1>3, <2>1, <2>2
<1>5. earlier = {k \in Items(pattern) : k < i} \cup {i}
  <2>1. ASSUME NEW k \in Items(pattern), k < next PROVE k < i \/ k = i
    <3>1. k \in 1..Len(pattern) /\ (k > 1 => pattern[k - 1] # "+")
      BY <1>1 DEF Items
    <3>2. ~(pattern[i] = "+" /\ k = i + 1)
      BY <1>1, <3>1
    <3> QED
      BY <1>1, <2>1, <3>1, <3>2 DEF After
  <2>2. \A k \in Items(pattern) : k < i => k < next
    BY <1>1, <1>3
  <2>3. i < next
    BY <1>1, <1>3
  <2> HIDE DEF next
  <2> QED
    BY <2>1, <2>2, <2>3
<1>6. Max(earlier) = i /\ earlier # {}
  <2>1. earlier \in SUBSET (1..Len(pattern)) /\ earlier # {} /\ i \in earlier
        /\ \A k \in earlier : k <= i
    BY <1>1, <1>5
  <2>2. Max(earlier) \in earlier /\ \A k \in earlier : k <= Max(earlier)
    <3> HIDE DEF earlier
    <3> QED
      BY <1>1, <2>1, MaxIn
  <2> HIDE DEF earlier
  <2>3. Max(earlier) <= i /\ i <= Max(earlier)
    BY <2>1, <2>2
  <2>4. i \in Int /\ Max(earlier) \in Int
    <3>1. Max(earlier) \in 1..Len(pattern)
      BY <2>1, <2>2
    <3>2. i \in 1..Len(pattern)
      BY <1>1
    <3> QED
      BY <1>1, <3>1, <3>2
  <2> QED
    BY <2>1, <2>3, <2>4
<1>7. \A ends : Before(ends, pattern, next) = ends[i]
  BY <1>6 DEF Before
<1> QED
  BY <1>1, <1>3, <1>4, <1>5, <1>7

(* Cuts, without its sequences.                                              *)
LEMMA CutsAre ==
  ASSUME NEW pattern, NEW message, Proper(pattern, message),
         NEW ends \in [Items(pattern) -> 0..Len(message)]
  PROVE  Cuts(ends, pattern, message) <=>
           /\ Before(ends, pattern, Len(pattern) + 1) = Len(message)
           /\ \A i \in Items(pattern) :
                /\ Before(ends, pattern, i) <= ends[i]
                /\ PieceFits(pattern, message, i, Before(ends, pattern, i), ends[i])
<1>1. ASSUME NEW i \in Items(pattern), Before(ends, pattern, i) <= ends[i]
      PROVE  ItemFits(pattern, i, SubSeq(message, Before(ends, pattern, i) + 1, ends[i]),
                      IF ends[i] + 1 <= Len(message) THEN message[ends[i] + 1] ELSE Nul)
               <=> PieceFits(pattern, message, i, Before(ends, pattern, i), ends[i])
  <2>1. /\ Before(ends, pattern, i) \in 0..Len(message) /\ ends[i] \in 0..Len(message)
        /\ Len(message) \in Nat
    BY BeforeIn DEF Proper
  <2>2. Before(ends, pattern, i) \in Nat /\ ends[i] \in Nat /\ ends[i] <= Len(message)
    BY <2>1
  <2> QED
    BY <1>1, <2>2, PieceIs
<1> QED
  BY <1>1 DEF Cuts

(* The cases of MatchesFrom.                                                 *)
LEMMA FromItem ==
  ASSUME NEW pattern, NEW message, Proper(pattern, message), NEW after, NEW f,
         NEW i \in Items(pattern), f[i] = MatchesFrom(f, pattern, message, after, i),
         NEW j \in 1..Len(message) + 1
  PROVE  /\ pattern[i] = "*" /\ i = Len(pattern) => j \in f[i]
         /\ pattern[i] = "*" /\ i < Len(pattern) =>
              (j \in f[i] <=> LET hits == Found(message, j, pattern[i + 1]) IN
                              hits # {} /\ Min(hits) \in f[i + 1])
         /\ pattern[i] = "+" =>
              (j \in f[i] <=>
                 /\ pattern[i + 1] = IF j <= Len(message) THEN message[j] ELSE after
                 /\ LET ends == Other(message, j, pattern[i + 1]) IN
                    ends = {} \/ Min(ends) \in f[i + 2])
         /\ pattern[i] \notin Special =>
              (j \in f[i] <=> /\ j <= Len(message) /\ message[j] = pattern[i]
                              /\ j + 1 \in f[i + 1])
<1>1. i \in 1..Len(pattern) /\ Len(pattern) \in Nat
  BY NextPlace DEF Proper
<1>2. pattern[i] = "+" => i < Len(pattern)
  BY <1>1 DEF Proper, Regular, Special
<1> QED
  BY <1>1, <1>2 DEF MatchesFrom, Special

LEMMA FromPlus ==
  ASSUME NEW pattern, NEW message, Proper(pattern, message), NEW after, NEW f,
         NEW i \in Items(pattern), f[i] = MatchesFrom(f, pattern, message, after, i),
         NEW j \in f[i], pattern[i] = "+"
  PROVE  /\ j <= Len(message) => message[j] = pattern[i + 1]
         /\ \/ Other(message, j, pattern[i + 1]) = {}
            \/ Min(Other(message, j, pattern[i + 1])) \in f[i + 2]
<1>1. i \in 1..Len(pattern) /\ Len(pattern) \in Nat
  BY NextPlace DEF Proper
<1>2. i < Len(pattern)
  BY <1>1 DEF Proper, Regular, Special
<1> QED
  BY <1>1, <1>2 DEF MatchesFrom

LEMMA FromEnd ==
  ASSUME NEW pattern, NEW message, Proper(pattern, message), NEW after, NEW f,
         f[Len(pattern) + 1] = MatchesFrom(f, pattern, message, after, Len(pattern) + 1)
  PROVE  \A j : j \in f[Len(pattern) + 1] <=> j = Len(message) + 1
<1>1. Len(pattern) \in Nat /\ Len(message) \in Nat /\ Len(pattern) + 1 > Len(pattern)
  BY DEF Proper
<1>2. f[Len(pattern) + 1] = {j \in 1..Len(message) + 1 : j > Len(message)}
  BY <1>1 DEF MatchesFrom, Nul
<1> QED
  BY <1>1, <1>2

(* Where the loops of a star and a plus end.                                 *)
LEMMA FoundAt ==
  ASSUME NEW message, Len(message) \in Nat, NEW j \in 1..Len(message) + 1, NEW c
  PROVE  /\ Found(message, j, c) # {} => \E h \in j..Len(message) :
              /\ Min(Found(message, j, c)) = h /\ message[h] = c
              /\ \A k \in j..h - 1 : message[k] # c
         /\ \A h \in j..Len(message) :
              message[h] = c /\ (\A k \in j..h - 1 : message[k] # c) =>
                Found(message, j, c) # {} /\ Min(Found(message, j, c)) = h
<1> DEFINE S == Found(message, j, c)
<1>1. \A k : k \in S <=> k \in j..Len(message) /\ message[k] = c
  BY DEF Found
<1>2. S # {} => Min(S) \in S /\ \A k \in S : Min(S) <= k
  BY MinIn
<1> HIDE DEF S
<1>3. S # {} => \A k \in j..Min(S) - 1 : message[k] # c
  BY <1>1, <1>2
<1>4. ASSUME NEW h \in j..Len(message), message[h] = c, \A k \in j..h - 1 : message[k] # c
      PROVE S # {} /\ Min(S) = h
  <2>1. h \in S
    BY <1>1, <1>4
  <2>2. Min(S) \in j..Len(message) /\ Min(S) <= h /\ message[Min(S)] = c
    BY <1>1, <1>2, <2>1
  <2> QED
    BY <1>4, <2>1, <2>2
<1> QED
  BY <1>1, <1>2, <1>3, <1>4 DEF S

LEMMA OtherAt ==
  ASSUME NEW message, Len(message) \in Nat, NEW j \in 1..Len(message) + 1, NEW c
  PROVE  /\ Other(message, j, c) = {} <=> \A k \in j..Len(message) : message[k] = c
         /\ Other(message, j, c) # {} => \E h \in j..Len(message) :
              /\ Min(Other(message, j, c)) = h /\ message[h] # c
              /\ \A k \in j..h - 1 : message[k] = c
         /\ \A h \in j..Len(message) :
              message[h] # c /\ (\A k \in j..h - 1 : message[k] = c) =>
                Other(message, j, c) # {} /\ Min(Other(message, j, c)) = h
<1> DEFINE S == Other(message, j, c)
<1>1. \A k : k \in S <=> k \in j..Len(message) /\ message[k] # c
  BY DEF Other
<1>2. S # {} => Min(S) \in S /\ \A k \in S : Min(S) <= k
  BY MinIn
<1> HIDE DEF S
<1>3. S # {} => \A k \in j..Min(S) - 1 : message[k] = c
  BY <1>1, <1>2
<1>4. ASSUME NEW h \in j..Len(message), message[h] # c, \A k \in j..h - 1 : message[k] = c
      PROVE S # {} /\ Min(S) = h
  <2>1. h \in S
    BY <1>1, <1>4
  <2>2. Min(S) \in j..Len(message) /\ Min(S) <= h /\ message[Min(S)] # c
    BY <1>1, <1>2, <2>1
  <2> QED
    BY <1>4, <2>1, <2>2
<1>5. S = {} <=> \A k \in j..Len(message) : message[k] = c
  BY <1>1
<1> QED
  BY <1>1, <1>2, <1>3, <1>4, <1>5 DEF S

-----------------------------------------------------------------------------
(* What a pattern describes matches: from the start of each piece on the     *)
(* message matches the pattern from that item on.                            *)
LEMMA ItemMatches ==
  ASSUME NEW pattern, NEW message, Proper(pattern, message), NEW after, NEW f,
         NEW i \in Items(pattern), f[i] = MatchesFrom(f, pattern, message, after, i),
         NEW a \in Nat, NEW e \in Nat, a <= e, e <= Len(message),
         PieceFits(pattern, message, i, a, e), e + 1 \in f[After(pattern, i)],
         After(pattern, i) <= Len(pattern) =>
           f[After(pattern, i)] =
             MatchesFrom(f, pattern, message, after, After(pattern, i)),
         i = Len(pattern) => e = Len(message)
  PROVE  a + 1 \in f[i]
<1>1. Len(message) \in Nat /\ a + 1 \in 1..Len(message) + 1
  BY DEF Proper
<1>2. i \in 1..Len(pattern) /\ Len(pattern) \in Nat
  BY NextPlace DEF Proper
<1>3. CASE pattern[i] = "*"
  <2>1. CASE i = Len(pattern)
    BY <1>1, <1>3, <2>1, FromItem
  <2>2. CASE i < Len(pattern)
    <3>1. After(pattern, i) = i + 1 /\ i + 1 \in Items(pattern) /\ pattern[i + 1] \notin Special
      <4>1. pattern[i + 1] \notin Special
        BY <1>2, <1>3, <2>2 DEF Proper, Regular, Special
      <4> QED
        BY <1>2, <1>3, <2>2, <4>1 DEF After, Items, Proper
    <3>2. e + 1 \in 1..Len(message) + 1
      BY <1>1
    <3>3. e + 1 <= Len(message) /\ message[e + 1] = pattern[i + 1]
      BY <3>1, <3>2, <1>2, <2>2, FromItem
    <3>4. \A k \in a + 1..(e + 1) - 1 : message[k] # pattern[i + 1]
      BY <1>3, <2>2 DEF PieceFits
    <3>5. e + 1 \in a + 1..Len(message)
      BY <1>1, <3>3
    <3>6. /\ Found(message, a + 1, pattern[i + 1]) # {}
          /\ Min(Found(message, a + 1, pattern[i + 1])) = e + 1
      <4> DEFINE c == pattern[i + 1]
                 j == a + 1
                 h == e + 1
      <4>1. /\ j \in 1..Len(message) + 1 /\ h \in j..Len(message) /\ message[h] = c
            /\ \A k \in j..h - 1 : message[k] # c
        BY <1>1, <3>3, <3>4, <3>5
      <4> HIDE DEF c, j, h
      <4>2. Found(message, j, c) # {} /\ Min(Found(message, j, c)) = h
        BY <1>1, <4>1, FoundAt
      <4> QED
        BY <4>2 DEF c, j, h
    <3>7. Min(Found(message, a + 1, pattern[i + 1])) \in f[i + 1]
      BY <3>1, <3>6
    <3> QED
      BY <1>1, <1>3, <2>2, <3>6, <3>7, FromItem
  <2> QED
    BY <1>2, <2>1, <2>2
<1>4. CASE pattern[i] = "+"
  <2>1. /\ a < e /\ \A k \in a + 1..e : message[k] = pattern[i + 1]
        /\ e < Len(message) => message[e + 1] # pattern[i + 1]
    BY <1>4 DEF PieceFits
  <2>2. a + 1 <= Len(message) /\ message[a + 1] = pattern[i + 1]
    BY <1>1, <2>1
  <2>3. CASE e = Len(message)
    <3>1. Other(message, a + 1, pattern[i + 1]) = {}
      BY <1>1, <2>1, <2>3, OtherAt
    <3> QED
      BY <1>1, <1>4, <2>2, <3>1, FromItem
  <2>4. CASE e < Len(message)
    <3>1. /\ e + 1 \in a + 1..Len(message)
          /\ \A k \in a + 1..(e + 1) - 1 : message[k] = pattern[i + 1]
      BY <1>1, <2>1, <2>4
    <3>2. Min(Other(message, a + 1, pattern[i + 1])) = e + 1
      BY <1>1, <2>1, <2>4, <3>1, OtherAt
    <3> QED
      BY <1>1, <1>4, <2>2, <3>2, FromItem DEF After
  <2> QED
    BY <1>1, <2>3, <2>4
<1>5. CASE pattern[i] \notin Special
  <2>1. e = a + 1 /\ message[e] = pattern[i] /\ After(pattern, i) = i + 1
    BY <1>5 DEF PieceFits, After, Special
  <2> QED
    BY <1>1, <1>5, <2>1, FromItem
<1> QED
  BY <1>3, <1>4, <1>5 DEF Special

LEMMA DescribedMatches ==
  ASSUME NEW pattern, NEW message, Proper(pattern, message), NEW after,
         Described(pattern, message)
  PROVE  Pmatch(pattern, message, after)
<1> DEFINE n == Len(pattern)
           len == Len(message)
<1>1. n \in Nat /\ len \in Nat
  BY DEF Proper
<1>2. PICK ends \in [Items(pattern) -> 0..len] : Cuts(ends, pattern, message)
  BY DEF Described
<1>3. PICK f : /\ \A i \in 1..n + 2 : f[i] = MatchesFrom(f, pattern, message, after, i)
               /\ Pmatch(pattern, message, after) <=> 1 \in f[1]
  BY <1>1, PmatchIs
<1> DEFINE B(i) == Before(ends, pattern, i)
           T == {k \in 0..n : \A i \in Places(pattern) : i >= n + 1 - k => B(i) + 1 \in f[i]}
<1>4. /\ B(n + 1) = len
      /\ \A i \in Items(pattern) :
           B(i) <= ends[i] /\ PieceFits(pattern, message, i, B(i), ends[i])
  BY <1>2, CutsAre
<1>5. Items(pattern) \subseteq 1..n
  BY DEF Items, Proper
<1>6. 0 \in T
  <2>1. \A i \in Places(pattern) : i >= n + 1 => i = n + 1
    BY <1>1, <1>5 DEF Places
  <2>2. B(n + 1) + 1 \in f[n + 1]
    <3>1. n + 1 \in 1..n + 2
      BY <1>1
    <3> QED
      BY <1>3, <1>4, <3>1, FromEnd
  <2> HIDE DEF B
  <2> QED
    BY <1>1, <2>1, <2>2
<1>7. ASSUME NEW k \in 0..n - 1, k \in T PROVE k + 1 \in T
  <2> SUFFICES ASSUME NEW i \in Places(pattern), i >= n + 1 - (k + 1)
               PROVE  B(i) + 1 \in f[i]
    BY <1>1
  <2>1. CASE i >= n + 1 - k
    BY <1>7, <2>1
  <2>2. CASE i = n - k
    <3>1. i \in Items(pattern) /\ i \in 1..n
      BY <1>1, <1>5, <2>2 DEF Places
    <3>2. /\ After(pattern, i) \in Places(pattern) /\ After(pattern, i) \in i + 1..n + 1
          /\ B(After(pattern, i)) = ends[i]
      BY <3>1, NextPlace
    <3>3. ends[i] + 1 \in f[After(pattern, i)]
      <4>1. After(pattern, i) >= n + 1 - k
        BY <1>1, <2>2, <3>2
      <4>2. B(After(pattern, i)) + 1 \in f[After(pattern, i)]
        <5> HIDE DEF B
        <5> QED
          BY <1>7, <3>2, <4>1
      <4> QED
        BY <3>2, <4>2
    <3>4. /\ B(i) \in Nat /\ ends[i] \in Nat /\ ends[i] <= len
      BY <1>1, <3>1, BeforeIn
    <3>5. i = n => ends[i] = len
      <4>1. i = n => After(pattern, i) = n + 1
        BY <1>1, <3>2
      <4> QED
        BY <1>4, <3>2, <4>1
    <3>6. i \in 1..n + 2 /\ After(pattern, i) \in 1..n + 2
      BY <1>1, <3>1, <3>2
    <3>7. /\ f[i] = MatchesFrom(f, pattern, message, after, i)
          /\ f[After(pattern, i)] = MatchesFrom(f, pattern, message, after, After(pattern, i))
      BY <1>3, <3>6
    <3>8. B(i) <= ends[i] /\ PieceFits(pattern, message, i, B(i), ends[i])
      BY <1>4, <3>1
    <3> HIDE DEF B
    <3> QED
      BY <3>1, <3>3, <3>4, <3>5, <3>7, <3>8, ItemMatches
  <2>3. i \in Int
    BY <1>1, <1>5 DEF Places
  <2> QED
    BY <1>1, <2>1, <2>2, <2>3
<1>8. n \in T
  <2> HIDE DEF T
  <2> QED
    BY <1>1, <1>6, <1>7, Induction
<1>9. 1 \in Places(pattern) /\ B(1) = 0
  BY FirstPlace
<1>10. B(1) + 1 \in f[1]
  <2> HIDE DEF B
  <2> QED
    BY <1>1, <1>8, <1>9
<1> QED
  BY <1>3, <1>9, <1>10

-----------------------------------------------------------------------------
(* What matches is described, unless a plus meets the end. The message up to *)
(* a is cut into pieces for the items before place i.                        *)
Reached(ends, pattern, message, i, a) ==
  /\ ends \in [Items(pattern) -> 0..Len(message)]
  /\ Before(ends, pattern, i) = a
  /\ \A k \in Items(pattern) : k < i =>
       /\ Before(ends, pattern, k) <= ends[k] /\ ends[k] <= a
       /\ PieceFits(pattern, message, k, Before(ends, pattern, k), ends[k])

LEMMA BeforeSame ==
  ASSUME NEW pattern, NEW message, Proper(pattern, message), NEW i, NEW f, NEW g,
         \A k \in Items(pattern) : k < i => f[k] = g[k]
  PROVE  Before(f, pattern, i) = Before(g, pattern, i)
<1> DEFINE earlier == {k \in Items(pattern) : k < i}
<1>1. CASE earlier = {}
  BY <1>1 DEF Before
<1>2. CASE earlier # {}
  <2>1. earlier \in SUBSET (1..Len(pattern)) /\ Len(pattern) \in Nat
    BY DEF Items, Proper
  <2>2. Max(earlier) \in earlier
    <3> HIDE DEF earlier
    <3> QED
      BY <1>2, <2>1, MaxIn
  <2>3. f[Max(earlier)] = g[Max(earlier)]
    BY <2>2
  <2> QED
    BY <1>2, <2>3 DEF Before
<1> QED
  BY <1>1, <1>2

LEMMA ReachedStart ==
  ASSUME NEW pattern, NEW message, Proper(pattern, message)
  PROVE  \E ends : Reached(ends, pattern, message, 1, 0)
<1> DEFINE ends == [k \in Items(pattern) |-> 0]
<1>1. Before(ends, pattern, 1) = 0
  BY FirstPlace
<1>2. \A k \in Items(pattern) : ~(k < 1)
  BY DEF Items, Proper
<1>3. ends \in [Items(pattern) -> 0..Len(message)]
  BY DEF Proper
<1> HIDE DEF ends
<1> QED
  BY <1>1, <1>2, <1>3 DEF Reached

LEMMA ReachedNext ==
  ASSUME NEW pattern, NEW message, Proper(pattern, message), NEW i \in Items(pattern),
         NEW ends, NEW a \in 0..Len(message), Reached(ends, pattern, message, i, a),
         NEW e \in a..Len(message), PieceFits(pattern, message, i, a, e)
  PROVE  \E g : Reached(g, pattern, message, After(pattern, i), e)
<1> DEFINE g == [ends EXCEPT ![i] = e]
<1>1. Len(message) \in Nat /\ a \in Nat /\ e \in Nat /\ a <= e /\ e <= Len(message)
  BY DEF Proper
<1>2. /\ ends \in [Items(pattern) -> 0..Len(message)]
      /\ Before(ends, pattern, i) = a
      /\ \A k \in Items(pattern) : k < i =>
           /\ Before(ends, pattern, k) <= ends[k] /\ ends[k] <= a
           /\ PieceFits(pattern, message, k, Before(ends, pattern, k), ends[k])
  BY DEF Reached
<1>3. /\ g \in [Items(pattern) -> 0..Len(message)]
      /\ g[i] = e /\ \A k \in Items(pattern) : k # i => g[k] = ends[k]
  BY <1>1, <1>2
<1> HIDE DEF g
<1>4. Items(pattern) \subseteq Nat
  BY DEF Items, Proper
<1>5. \A k \in Items(pattern) : k <= i => Before(g, pattern, k) = Before(ends, pattern, k)
  <2> SUFFICES ASSUME NEW k \in Items(pattern), k <= i
               PROVE  Before(g, pattern, k) = Before(ends, pattern, k)
    OBVIOUS
  <2>1. \A l \in Items(pattern) : l < k => g[l] = ends[l]
    <3>1. \A l \in Items(pattern) : l < k => l # i
      BY <1>4
    <3> QED
      BY <1>3, <3>1
  <2> QED
    BY <2>1, BeforeSame
<1>6. Before(g, pattern, After(pattern, i)) = e
  BY <1>3, NextPlace
<1>7. ASSUME NEW k \in Items(pattern), k < After(pattern, i)
      PROVE  /\ Before(g, pattern, k) <= g[k] /\ g[k] <= e
             /\ PieceFits(pattern, message, k, Before(g, pattern, k), g[k])
  <2>1. k < i \/ k = i
    BY <1>7, NextPlace
  <2>2. CASE k = i
    <3>1. Before(g, pattern, i) = a
      BY <1>2, <1>4, <1>5
    <3> QED
      BY <1>1, <1>3, <2>2, <3>1
  <2>3. CASE k < i
    <3>1. k # i /\ k <= i
      BY <1>4, <2>3
    <3>2. g[k] = ends[k] /\ Before(g, pattern, k) = Before(ends, pattern, k)
      BY <1>3, <1>5, <3>1
    <3>3. ends[k] <= a /\ ends[k] \in 0..Len(message)
      BY <1>2, <2>3
    <3>4. ends[k] <= e
      BY <1>1, <3>3
    <3> QED
      BY <1>2, <2>3, <3>2, <3>4
  <2> QED
    BY <2>1, <2>2, <2>3
<1> QED
  BY <1>3, <1>6, <1>7 DEF Reached

LEMMA ReachedEnd ==
  ASSUME NEW pattern, NEW message, Proper(pattern, message), NEW ends,
         Reached(ends, pattern, message, Len(pattern) + 1, Len(message))
  PROVE  Described(pattern, message)
<1>1. /\ ends \in [Items(pattern) -> 0..Len(message)]
      /\ Before(ends, pattern, Len(pattern) + 1) = Len(message)
      /\ \A k \in Items(pattern) : k < Len(pattern) + 1 =>
           /\ Before(ends, pattern, k) <= ends[k]
           /\ PieceFits(pattern, message, k, Before(ends, pattern, k), ends[k])
  BY DEF Reached
<1>2. \A k \in Items(pattern) : k < Len(pattern) + 1
  BY DEF Items, Proper
<1>3. Cuts(ends, pattern, message)
  BY <1>1, <1>2, CutsAre
<1> QED
  BY <1>1, <1>3 DEF Described

(* Up to a plus that is reached, the front of the pattern describes the      *)
(* front of the message.                                                     *)
LEMMA FrontDescribed ==
  ASSUME NEW pattern, NEW message, Proper(pattern, message), NEW i \in Items(pattern),
         pattern[i] = "+", NEW ends, NEW a \in 0..Len(message),
         Reached(ends, pattern, message, i, a)
  PROVE  Described(SubSeq(pattern, 1, i - 1), SubSeq(message, 1, a))
<1> DEFINE front == SubSeq(pattern, 1, i - 1)
           text == SubSeq(message, 1, a)
           cut == [k \in Items(front) |-> ends[k]]
<1>1. /\ Len(message) \in Nat /\ a \in Nat /\ a <= Len(message)
      /\ Len(pattern) \in Nat /\ i \in 1..Len(pattern)
  BY NextPlace DEF Proper
<1>2. /\ front = [k \in 1..i - 1 |-> pattern[k]] /\ Len(front) = i - 1
      /\ DOMAIN front = 1..i - 1 /\ \A k \in 1..i - 1 : front[k] = pattern[k]
  <2>1. front = [k \in 1..1 + (i - 1) - 1 |-> pattern[k + 1 - 1]]
    BY <1>1
  <2>2. 1 + (i - 1) - 1 = i - 1 /\ i - 1 \in Nat /\ \A k \in 1..i - 1 : k + 1 - 1 = k
    BY <1>1
  <2> HIDE DEF front
  <2>3. front = [k \in 1..i - 1 |-> pattern[k]]
    BY <2>1, <2>2
  <2> QED
    BY <2>2, <2>3
<1>3. /\ text = [k \in 1..a |-> message[k]] /\ Len(text) = a
      /\ \A k \in 1..a : text[k] = message[k]
  <2>1. text = [k \in 1..1 + a - 1 |-> message[k + 1 - 1]]
    OBVIOUS
  <2>2. 1 + a - 1 = a /\ \A k \in 1..a : k + 1 - 1 = k
    BY <1>1
  <2> HIDE DEF text
  <2>3. text = [k \in 1..a |-> message[k]]
    BY <2>1, <2>2
  <2> QED
    BY <1>1, <2>3
<1> HIDE DEF front, text
<1>4. Items(front) = {k \in Items(pattern) : k < i}
  <2>1. \A k : k \in 1..i - 1 => k - 1 \in 1..i - 1 \/ k = 1
    BY <1>1
  <2> QED
    BY <1>1, <1>2, <2>1 DEF Items, Proper
<1>5. Proper(front, text)
  <2>1. \A k \in 1..i - 1 : front[k] # Nul
    BY <1>1, <1>2 DEF Proper
  <2>2. ASSUME NEW k \in 1..i - 1, front[k] \in Special
        PROVE  k < i - 1 /\ front[k + 1] \notin Special
    <3>1. k \in DOMAIN pattern /\ pattern[k] \in Special /\ k # Len(pattern) /\ k \in Nat
      BY <1>1, <1>2, <2>2 DEF Proper
    <3>2. pattern[k + 1] \notin Special
      BY <3>1 DEF Proper, Regular
    <3>3. k + 1 # i
      BY <3>2 DEF Special
    <3>4. k + 1 \in 1..i - 1
      BY <1>1, <3>3
    <3> QED
      BY <1>1, <1>2, <3>2, <3>4
  <2>3. Regular(front)
    BY <1>1, <1>2, <2>2 DEF Regular
  <2> QED
    BY <1>1, <1>2, <1>3, <2>1, <2>3 DEF Proper
<1>6. /\ ends \in [Items(pattern) -> 0..Len(message)]
      /\ Before(ends, pattern, i) = a
      /\ \A k \in Items(front) :
           /\ k \in Items(pattern) /\ k \in 1..i - 1
           /\ Before(ends, pattern, k) \in Nat /\ ends[k] \in Nat
           /\ Before(ends, pattern, k) <= ends[k] /\ ends[k] <= a
           /\ PieceFits(pattern, message, k, Before(ends, pattern, k), ends[k])
  <2>1. ends \in [Items(pattern) -> 0..Len(message)] /\ Before(ends, pattern, i) = a
    BY DEF Reached
  <2>2. \A k \in Items(front) : k \in Items(pattern) /\ k < i /\ k \in 1..i - 1
    BY <1>2, <1>4 DEF Items
  <2>3. \A k \in Items(front) : Before(ends, pattern, k) \in Nat /\ ends[k] \in Nat
    BY <1>1, <2>1, <2>2, BeforeIn
  <2> QED
    BY <2>1, <2>2, <2>3 DEF Reached
<1>7. cut \in [Items(front) -> 0..Len(text)] /\ \A k \in Items(front) : cut[k] = ends[k]
  <2>1. \A k \in Items(front) : ends[k] \in 0..Len(text)
    BY <1>1, <1>3, <1>6
  <2> QED
    BY <2>1
<1> HIDE DEF cut
<1>8. \A k \in 1..i : Before(cut, front, k) = Before(ends, pattern, k)
  <2> SUFFICES ASSUME NEW k \in 1..i PROVE Before(cut, front, k) = Before(ends, pattern, k)
    OBVIOUS
  <2> DEFINE E == {l \in Items(front) : l < k}
  <2>1. E = {l \in Items(pattern) : l < k}
    <3>1. \A l \in Items(pattern) : l < k => l < i
      BY <1>1 DEF Items, Proper
    <3> QED
      BY <1>4, <3>1
  <2>2. E = {} \/ Max(E) \in Items(front)
    <3>1. E \in SUBSET (1..Len(front)) /\ Len(front) \in Nat /\ E \subseteq Items(front)
      BY <1>1, <1>2 DEF Items
    <3> HIDE DEF E
    <3> QED
      BY <3>1, MaxIn
  <2>3. /\ Before(cut, front, k) = IF E = {} THEN 0 ELSE cut[Max(E)]
        /\ Before(ends, pattern, k) = IF E = {} THEN 0 ELSE ends[Max(E)]
    BY <2>1 DEF Before
  <2> HIDE DEF E
  <2> QED
    BY <1>7, <2>2, <2>3
<1>9. ASSUME NEW k \in Items(front)
      PROVE  /\ Before(cut, front, k) <= cut[k]
             /\ PieceFits(front, text, k, Before(cut, front, k), cut[k])
  <2> DEFINE x == Before(ends, pattern, k)
             e == ends[k]
  <2>1. /\ x \in Nat /\ e \in Nat /\ x <= e /\ e <= a /\ k \in 1..i - 1
        /\ PieceFits(pattern, message, k, x, e)
    BY <1>6
  <2>2. cut[k] = e /\ Before(cut, front, k) = x
    BY <1>1, <1>7, <1>8, <2>1
  <2> HIDE DEF x, e
  <2>3. \A l \in x + 1..e : text[l] = message[l]
    BY <1>1, <1>3, <2>1
  <2>4. /\ front[k] = pattern[k]
        /\ front[k] \in Special => k < i - 1 /\ front[k + 1] = pattern[k + 1]
    <3>1. front[k] \in Special => k < i - 1
      <4>1. front[k] \in Special => k + 1 # i
        <5>1. k \in DOMAIN pattern /\ k # Len(pattern)
          BY <1>1, <2>1 DEF Proper
        <5>2. pattern[k] \in Special => pattern[k + 1] \notin Special
          BY <5>1 DEF Proper, Regular
        <5> QED
          BY <1>2, <2>1, <5>2 DEF Special
      <4> QED
        BY <1>1, <2>1, <4>1
    <3> QED
      BY <1>1, <1>2, <2>1, <3>1
  <2>5. k < Len(front) => k < Len(pattern)
    BY <1>1, <1>2, <2>1
  <2>6. PieceFits(front, text, k, x, e)
    <3>1. CASE pattern[k] = "*"
      BY <2>1, <2>3, <2>4, <2>5, <3>1 DEF PieceFits, Special
    <3>2. CASE pattern[k] = "+"
      <4>1. x < e /\ \A l \in x + 1..e : message[l] = pattern[k + 1]
        BY <2>1, <3>2 DEF PieceFits
      <4>2. e < Len(text) => text[e + 1] = message[e + 1] /\ e < Len(message)
        BY <1>1, <1>3, <2>1
      <4>3. e < Len(message) => message[e + 1] # pattern[k + 1]
        BY <2>1, <3>2 DEF PieceFits
      <4> QED
        BY <2>3, <2>4, <3>2, <4>1, <4>2, <4>3 DEF PieceFits, Special
    <3>3. CASE pattern[k] \notin Special
      <4>1. e = x + 1 /\ message[e] = pattern[k]
        BY <2>1, <3>3 DEF PieceFits
      <4>2. e \in x + 1..e
        BY <2>1, <4>1
      <4> QED
        BY <2>3, <2>4, <3>3, <4>1, <4>2 DEF PieceFits, Special
    <3> QED
      BY <3>1, <3>2, <3>3 DEF Special
  <2> QED
    BY <2>1, <2>2, <2>6
<1>10. Before(cut, front, Len(front) + 1) = Len(text)
  <2>1. Len(front) + 1 = i /\ i \in 1..i
    BY <1>1, <1>2
  <2> QED
    BY <1>3, <1>6, <1>8, <2>1
<1>11. Cuts(cut, front, text)
  BY <1>5, <1>7, <1>9, <1>10, CutsAre
<1>12. Described(front, text)
  BY <1>7, <1>11 DEF Described
<1> QED
  BY <1>12 DEF front, text

(* Where the match goes on there is a way to cut the message up to there.    *)
LEMMA MatchGoesOn ==
  ASSUME NEW pattern, NEW message, Proper(pattern, message), NEW after, NEW f,
         NEW i \in Items(pattern), f[i] = MatchesFrom(f, pattern, message, after, i),
         \A k : k \in f[Len(pattern) + 1] <=> k = Len(message) + 1,
         NEW ends, NEW a \in 0..Len(message), Reached(ends, pattern, message, i, a),
         a + 1 \in f[i], ~PlusMeetsEnd(pattern, message)
  PROVE  \E g : \E e \in 0..Len(message) :
           e + 1 \in f[After(pattern, i)] /\ Reached(g, pattern, message, After(pattern, i), e)
<1>1. Len(message) \in Nat /\ a \in Nat /\ a <= Len(message) /\ a + 1 \in 1..Len(message) + 1
  BY DEF Proper
<1>2. i \in 1..Len(pattern) /\ Len(pattern) \in Nat /\ i \in DOMAIN pattern
  BY NextPlace DEF Proper
<1> SUFFICES \E e \in a..Len(message) :
               e + 1 \in f[After(pattern, i)] /\ PieceFits(pattern, message, i, a, e)
  <2>1. PICK e \in a..Len(message) :
          e + 1 \in f[After(pattern, i)] /\ PieceFits(pattern, message, i, a, e)
    OBVIOUS
  <2>2. e \in 0..Len(message)
    BY <1>1
  <2> QED
    BY <2>1, <2>2, ReachedNext
<1>3. CASE pattern[i] = "*" /\ i = Len(pattern)
  <2>1. PieceFits(pattern, message, i, a, Len(message))
    BY <1>2, <1>3 DEF PieceFits, Special
  <2>2. After(pattern, i) = Len(pattern) + 1
    BY <1>3 DEF After
  <2>3. Len(message) \in a..Len(message)
    BY <1>1
  <2> QED
    BY <2>1, <2>2, <2>3
<1>4. CASE pattern[i] = "*" /\ i < Len(pattern)
  <2> DEFINE c == pattern[i + 1]
             hits == Found(message, a + 1, c)
  <2>1. hits # {} /\ Min(hits) \in f[i + 1]
    BY <1>1, <1>4, FromItem
  <2>2. PICK h \in a + 1..Len(message) :
          Min(hits) = h /\ \A k \in a + 1..h - 1 : message[k] # c
    <3> DEFINE j == a + 1
    <3>1. j \in 1..Len(message) + 1
      BY <1>1
    <3> HIDE DEF c, j
    <3>2. Found(message, j, c) # {} => \E h \in j..Len(message) :
            /\ Min(Found(message, j, c)) = h /\ message[h] = c
            /\ \A k \in j..h - 1 : message[k] # c
      BY <1>1, <3>1, FoundAt
    <3> QED
      BY <2>1, <3>2 DEF j
  <2>3. h - 1 \in a..Len(message) /\ (h - 1) + 1 = h
    BY <1>1, <2>2
  <2>4. PieceFits(pattern, message, i, a, h - 1)
    BY <1>4, <2>2 DEF PieceFits, Special
  <2>5. After(pattern, i) = i + 1
    BY <1>4 DEF After
  <2> HIDE DEF hits, c
  <2> QED
    BY <2>1, <2>2, <2>3, <2>4, <2>5
<1>5. CASE pattern[i] = "+"
  <2> DEFINE c == pattern[i + 1]
             others == Other(message, a + 1, c)
  <2>1. /\ a + 1 <= Len(message) => message[a + 1] = c
        /\ others = {} \/ Min(others) \in f[i + 2]
    <3> DEFINE x == a + 1
    <3>1. x \in 1..Len(message) + 1 /\ x \in f[i]
      BY <1>1
    <3> HIDE DEF x, c, others
    <3>2. /\ x <= Len(message) => message[x] = pattern[i + 1]
          /\ Other(message, x, pattern[i + 1]) = {}
             \/ Min(Other(message, x, pattern[i + 1])) \in f[i + 2]
      BY <1>5, <3>1, FromPlus
    <3> QED
      BY <3>2 DEF x, c, others
  <2>2. i < Len(pattern)
    BY <1>2, <1>5 DEF Proper, Regular, Special
  <2> DEFINE j == a + 1
  <2>3. j \in 1..Len(message) + 1
    BY <1>1
  <2>4. others # {}
    <3> SUFFICES ASSUME others = {} PROVE FALSE
      OBVIOUS
    <3>1. \A k \in j..Len(message) : message[k] = c
      <4> HIDE DEF c, j
      <4>1. Other(message, j, c) = {} <=> \A k \in j..Len(message) : message[k] = c
        BY <1>1, <2>3, OtherAt
      <4>2. Other(message, j, c) = {}
        BY DEF j
      <4> QED
        BY <4>1, <4>2
    <3>2. Described(SubSeq(pattern, 1, i - 1), SubSeq(message, 1, a))
      BY <1>5, FrontDescribed
    <3> QED
      BY <1>2, <1>5, <2>2, <3>1, <3>2 DEF PlusMeetsEnd
  <2>5. PICK h \in j..Len(message) :
          Min(others) = h /\ message[h] # c /\ \A k \in j..h - 1 : message[k] = c
    <3> HIDE DEF c, j
    <3>1. Other(message, j, c) # {} => \E h \in j..Len(message) :
            /\ Min(Other(message, j, c)) = h /\ message[h] # c
            /\ \A k \in j..h - 1 : message[k] = c
      BY <1>1, <2>3, OtherAt
    <3>2. others = Other(message, j, c)
      BY DEF j
    <3> HIDE DEF others
    <3> QED
      BY <2>4, <3>1, <3>2
  <2>6. h \in Nat /\ h <= Len(message) /\ h - 1 \in a..Len(message) /\ (h - 1) + 1 = h
    BY <1>1, <2>5
  <2>7. a < h - 1
    <3>1. h # a + 1
      BY <1>1, <2>1, <2>5, <2>6
    <3> QED
      BY <1>1, <2>5, <2>6, <3>1
  <2>8. PieceFits(pattern, message, i, a, h - 1)
    BY <1>5, <2>5, <2>6, <2>7 DEF PieceFits, Special
  <2>9. After(pattern, i) = i + 2
    BY <1>5 DEF After
  <2> HIDE DEF others, c, j
  <2> QED
    BY <2>1, <2>4, <2>5, <2>6, <2>8, <2>9
<1>6. CASE pattern[i] \notin Special
  <2>1. a + 1 <= Len(message) /\ message[a + 1] = pattern[i] /\ (a + 1) + 1 \in f[i + 1]
    BY <1>1, <1>6, FromItem
  <2>2. PieceFits(pattern, message, i, a, a + 1) /\ After(pattern, i) = i + 1
    BY <1>6, <2>1 DEF PieceFits, Special, After
  <2>3. a + 1 \in a..Len(message)
    BY <1>1, <2>1
  <2> QED
    BY <2>1, <2>2, <2>3
<1> QED
  BY <1>2, <1>3, <1>4, <1>5, <1>6 DEF Special

LEMMA MatchedDescribed ==
  ASSUME NEW pattern, NEW message, Proper(pattern, message), NEW after,
         Pmatch(pattern, message, after), ~PlusMeetsEnd(pattern, message)
  PROVE  Described(pattern, message)
<1> DEFINE n == Len(pattern)
           len == Len(message)
<1>1. n \in Nat /\ len \in Nat /\ Items(pattern) \subseteq 1..n
  BY DEF Proper, Items
<1>2. PICK f : /\ \A i \in 1..n + 2 : f[i] = MatchesFrom(f, pattern, message, after, i)
               /\ Pmatch(pattern, message, after) <=> 1 \in f[1]
  BY <1>1, PmatchIs
<1>3. \A k : k \in f[n + 1] <=> k = len + 1
  <2>1. n + 1 \in 1..n + 2
    BY <1>1
  <2> QED
    BY <1>2, <2>1, FromEnd
<1> DEFINE Leads(i) == \A ends : \A a \in 0..len :
             a + 1 \in f[i] /\ Reached(ends, pattern, message, i, a)
               => Described(pattern, message)
           T == {k \in 0..n : \A i \in Places(pattern) : i >= n + 1 - k => Leads(i)}
<1>4. Leads(n + 1)
  <2> SUFFICES ASSUME NEW a \in 0..len, NEW ends, a + 1 \in f[n + 1],
                      Reached(ends, pattern, message, n + 1, a)
               PROVE  Described(pattern, message)
    OBVIOUS
  <2>1. a = len
    BY <1>1, <1>3
  <2> QED
    BY <2>1, ReachedEnd
<1>5. ASSUME NEW i \in Items(pattern), Leads(After(pattern, i)) PROVE Leads(i)
  <2> SUFFICES ASSUME NEW a \in 0..len, NEW ends, a + 1 \in f[i],
                      Reached(ends, pattern, message, i, a)
               PROVE  Described(pattern, message)
    OBVIOUS
  <2>1. f[i] = MatchesFrom(f, pattern, message, after, i)
    <3>1. i \in 1..n + 2
      BY <1>1
    <3> QED
      BY <1>2, <3>1
  <2>2. PICK g : \E e \in 0..len :
          e + 1 \in f[After(pattern, i)] /\ Reached(g, pattern, message, After(pattern, i), e)
    BY <1>3, <2>1, MatchGoesOn
  <2>3. PICK e \in 0..len :
          e + 1 \in f[After(pattern, i)] /\ Reached(g, pattern, message, After(pattern, i), e)
    BY <2>2
  <2> QED
    BY <1>5, <2>3
<1> HIDE DEF Leads
<1>6. 0 \in T
  <2>1. \A i \in Places(pattern) : i >= n + 1 => i = n + 1
    BY <1>1 DEF Places
  <2> QED
    BY <1>1, <1>4, <2>1
<1>7. ASSUME NEW k \in 0..n - 1, k \in T PROVE k + 1 \in T
  <2> SUFFICES ASSUME NEW i \in Places(pattern), i >= n + 1 - (k + 1)
               PROVE  Leads(i)
    BY <1>1
  <2>1. CASE i >= n + 1 - k
    BY <1>7, <2>1
  <2>2. CASE i = n - k
    <3>1. i \in Items(pattern) /\ i \in 1..n
      BY <1>1, <2>2 DEF Places
    <3>2. After(pattern, i) \in Places(pattern) /\ After(pattern, i) \in i + 1..n + 1
      BY <3>1, NextPlace
    <3>3. After(pattern, i) >= n + 1 - k
      BY <1>1, <2>2, <3>2
    <3>4. Leads(After(pattern, i))
      BY <1>7, <3>2, <3>3
    <3> QED
      BY <1>5, <3>1, <3>4
  <2>3. i \in Int
    BY <1>1 DEF Places
  <2> QED
    BY <1>1, <2>1, <2>2, <2>3
<1>8. n \in T
  <2> HIDE DEF T
  <2> QED
    BY <1>1, <1>6, <1>7, Induction
<1>9. Leads(1)
  <2>1. 1 \in Places(pattern)
    BY FirstPlace
  <2> QED
    BY <1>1, <1>8, <2>1
<1>10. PICK ends : Reached(ends, pattern, message, 1, 0)
  BY ReachedStart
<1>11. 0 \in 0..len /\ 0 + 1 = 1 /\ 1 \in f[1]
  BY <1>1, <1>2
<1> QED
  BY <1>9, <1>10, <1>11 DEF Leads

-----------------------------------------------------------------------------
(* What follows.                                                             *)

LEMMA SeqIsFun ==
  ASSUME NEW S, NEW s \in Seq(S)
  PROVE  Len(s) \in Nat /\ DOMAIN s = 1..Len(s) /\ s = [k \in 1..Len(s) |-> s[k]]
<1> QED
  OBVIOUS

LEMMA PatternIsProper ==
  ASSUME NEW pattern, IsPattern(pattern), NEW S, NEW message \in Seq(S)
  PROVE  Proper(pattern, message)
<1> DEFINE C == {pattern[i] : i \in DOMAIN pattern} \ {Nul}
<1>1. pattern \in Seq(C) /\ Regular(pattern)
  BY DEF IsPattern
<1> HIDE DEF C
<1>2. \A k \in 1..Len(pattern) : pattern[k] \in C
  BY <1>1
<1>3. \A k \in 1..Len(pattern) : pattern[k] # Nul
  BY <1>2 DEF C
<1> QED
  BY <1>1, <1>3, SeqIsFun DEF Proper

(* For every pattern that has a meaning and every message, whatever stands   *)
(* behind the message in the buffer: what the pattern describes matches, and *)
(* nothing else does unless a plus meets the end of the message.             *)
THEOREM MatchesWhatIsDescribed ==
  ASSUME NEW pattern, IsPattern(pattern), NEW S, NEW message \in Seq(S), NEW after
  PROVE  /\ Described(pattern, message) => Pmatch(pattern, message, after)
         /\ Pmatch(pattern, message, after) =>
              Described(pattern, message) \/ PlusMeetsEnd(pattern, message)
<1>1. Proper(pattern, message)
  BY PatternIsProper
<1> QED
  BY <1>1, DescribedMatches, MatchedDescribed

(* Without a plus in it a pattern matches what it describes and nothing      *)
(* else.                                                                     *)
THEOREM PlainPatternsAreExact ==
  ASSUME NEW pattern, IsPattern(pattern), NEW S, NEW message \in Seq(S), NEW after,
         \A i \in DOMAIN pattern : pattern[i] # "+"
  PROVE  Pmatch(pattern, message, after) <=> Described(pattern, message)
<1>1. ~PlusMeetsEnd(pattern, message)
  BY DEF PlusMeetsEnd
<1> QED
  BY <1>1, MatchesWhatIsDescribed
=============================================================================
