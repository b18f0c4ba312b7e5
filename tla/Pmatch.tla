------------------------------- MODULE Pmatch -------------------------------
(***************************************************************************)
(* The pattern matcher of svlogd, src/runit/src/pmatch.c, and the meaning  *)
(* man/svlogd.8 gives to patterns. Patterns and messages are sequences of  *)
(* characters.                                                             *)
(***************************************************************************)
EXTENDS Integers, Sequences, FiniteSetsExt

Nul == "nul"     \* ends a pattern; no message has one

\* BUG: a star takes at least one character.
FoundLater(message, j, c) == {k \in j + 1..Len(message) : message[k] = c}

(* Where the loop of a star may end, and where that of a plus does.          *)
Found(message, j, c) == {k \in j..Len(message) : message[k] = c}

Other(message, j, c) == {k \in j..Len(message) : message[k] # c}

(* The pattern and the message are taken from their front: where the message *)
(* from there on matches the pattern from i on; match has that for what is   *)
(* behind i. A plus looks at the next character of the message before it     *)
(* looks whether there is one: after is what stands behind the message.      *)
MatchesFrom(match, pattern, message, after, i) ==
  LET n == Len(pattern)
      len == Len(message)
      P(k) == IF k <= n THEN pattern[k] ELSE Nul
      S(k) == IF k <= len THEN message[k] ELSE after
  IN {j \in 1..len + 1 :
        CASE i > n -> j > len
          [] P(i) = "*" ->
               \/ i = n
               \/ LET hits == Found(message, j, P(i + 1))
                  IN hits # {} /\ Min(hits) \in match[i + 1]
          [] P(i) = "+" ->
               /\ P(i + 1) = S(j)
               /\ LET ends == Other(message, j, P(i + 1))
                  IN ends = {} \/ Min(ends) \in match[i + 2]
          [] OTHER -> j <= len /\ message[j] = P(i) /\ j + 1 \in match[i + 1]}

Pmatch(pattern, message, after) ==
  LET match[i \in 1..Len(pattern) + 2] ==
        MatchesFrom(match, pattern, message, after, i)
  IN 1 \in match[1]

-----------------------------------------------------------------------------
(* man/svlogd.8: a star before the end of the pattern stands for any string  *)
(* without the next character of the pattern, at the end for any string; a   *)
(* plus for the next character, one or more times, as often as it is there.  *)
(* The meaning of a star or a plus before another is not defined there.      *)
Special == {"*", "+"}

Regular(pattern) ==
  \A i \in DOMAIN pattern : pattern[i] \in Special =>
    \/ i = Len(pattern) /\ pattern[i] = "*"
    \/ i < Len(pattern) /\ pattern[i + 1] \notin Special

(* A pattern with a meaning, as a string has it: without Nul in it.          *)
IsPattern(pattern) ==
  /\ pattern \in Seq({pattern[i] : i \in DOMAIN pattern} \ {Nul})
  /\ Regular(pattern)

(* A pattern is cut into its items: the places where one begins.             *)
Items(pattern) ==
  {i \in DOMAIN pattern : i > 1 => pattern[i - 1] # "+"}

(* The piece of the message that the item at i may stand for, where c is the *)
(* first character behind that piece or Nul at the end of the message.       *)
ItemFits(pattern, i, piece, c) ==
  LET next == IF i < Len(pattern) THEN pattern[i + 1] ELSE Nul
      Only(d) == \A k \in DOMAIN piece : piece[k] = d
  IN CASE pattern[i] = "*" -> next # Nul => \A k \in DOMAIN piece : piece[k] # next
       [] pattern[i] = "+" -> piece # <<>> /\ Only(next) /\ c # next
       [] OTHER -> Len(piece) = 1 /\ Only(pattern[i])

(* The end of the piece before the item at i, where ends gives the end of    *)
(* each piece.                                                               *)
Before(ends, pattern, i) ==
  LET earlier == {k \in Items(pattern) : k < i}
  IN  IF earlier = {} THEN 0 ELSE ends[Max(earlier)]

(* There is a way to cut the message into pieces, one for each item.         *)
Cuts(ends, pattern, message) ==
  LET len == Len(message)
      C(k) == IF k <= len THEN message[k] ELSE Nul
      Start(i) == Before(ends, pattern, i)
  IN  /\ Start(Len(pattern) + 1) = len
      /\ \A i \in Items(pattern) :
           /\ Start(i) <= ends[i]
           /\ ItemFits(pattern, i, SubSeq(message, Start(i) + 1, ends[i]), C(ends[i] + 1))

Described(pattern, message) ==
  \E ends \in [Items(pattern) -> 0..Len(message)] : Cuts(ends, pattern, message)

(* A plus is reached when nothing but its character is left of the message.  *)
PlusMeetsEnd(pattern, message) ==
  \E i \in DOMAIN pattern : \E k \in 0..Len(message) :
    /\ pattern[i] = "+" /\ i < Len(pattern)
    /\ Described(SubSeq(pattern, 1, i - 1), SubSeq(message, 1, k))
    /\ \A j \in k + 1..Len(message) : message[j] = pattern[i + 1]
=============================================================================
