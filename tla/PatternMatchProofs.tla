-------------------------- MODULE PatternMatchProofs --------------------------
(***************************************************************************)
(* Proofs about PatternMatch for all texts, patterns and characters: the   *)
(* iterators never leave their strings, what is accepted matches, patterns *)
(* that end in wildcards accept what they match, and every step is         *)
(* progress.                                                               *)
(***************************************************************************)
EXTENDS PatternMatch, SequenceTheorems, WellFoundedInduction, TLAPS

\* Types of the arguments.
LEMMA ArgumentTypes ==
  ASSUME TypeOK
  PROVE  str \in Seq(Char) /\ pattern \in Seq(Char)
BY TextAssumption DEF TypeOK

-----------------------------------------------------------------------------
(* The iterators.                                                          *)

\* TypeOK is inductive once it is known that the iterators have not gone past
\* the places they return to.
PointersInv ==
  /\ TypeOK
  /\ wildcardPat # 0 => wildcardStr \in 1 .. strItr

\* Initially.
LEMMA PointersInit == Init => PointersInv
<1> SUFFICES ASSUME Init PROVE PointersInv
  OBVIOUS
<1>1. Len(str) \in Nat /\ Len(pattern) \in Nat
  <2>1. str \in Texts \cup Patterns /\ pattern \in Texts \cup Patterns
    BY DEF Init
  <2> QED
    BY <2>1, TextAssumption
<1>2. 1 \in 1 .. Len(str) + 1 /\ 1 \in 1 .. Len(pattern) + 1
  BY <1>1
<1>3. 0 \in 0 .. Len(str) + 1 /\ 0 \in 0 .. Len(pattern)
  BY <1>1
<1> QED
  BY <1>2, <1>3, Zenon DEF Init, PointersInv, TypeOK

\* Every step keeps the iterators inside their strings.
LEMMA PointersNext == PointersInv /\ [Next]_vars => PointersInv'
<1> SUFFICES ASSUME PointersInv, [Next]_vars PROVE PointersInv'
  OBVIOUS
<1> USE DEF PointersInv, TypeOK
<1>0. Len(str) \in Nat /\ Len(pattern) \in Nat
  BY ArgumentTypes
<1>1. CASE TakeBoth
  BY <1>0, <1>1 DEF TakeBoth, Looping
<1>2. CASE MeetStar
  BY <1>0, <1>2 DEF MeetStar, Looping
<1>3. CASE GoBack
  <2>1. wildcardStr \in 1 .. strItr /\ strItr <= Len(str)
    BY <1>3 DEF GoBack, Looping
  <2>2. wildcardStr + 1 \in 1 .. Len(str) + 1 /\ wildcardPat + 1 \in 1 .. Len(pattern) + 1
    BY <1>0, <2>1
  <2> QED
    BY <1>0, <1>3, <2>1, <2>2 DEF GoBack
<1>4. CASE ReturnFalse
  BY <1>4 DEF ReturnFalse
<1>5. CASE ReturnAnswer
  <2>1. strItr' \in strItr .. Len(str) + 1
    BY <1>0, <1>5 DEF ReturnAnswer, SkipText
  <2>2. patternItr' \in 1 .. Len(pattern) + 1
    BY <1>0, <1>5 DEF ReturnAnswer
  <2>3. answer' \in BOOLEAN
    BY <1>5 DEF ReturnAnswer
  <2> QED
    BY <1>0, <1>5, <2>1, <2>2, <2>3 DEF ReturnAnswer
<1>6. CASE UNCHANGED vars
  BY <1>6 DEF vars
<1> QED
  BY <1>1, <1>2, <1>3, <1>4, <1>5, <1>6 DEF Next

\* The pointers' invariant, for use in the proofs below.
LEMMA PointersStay == Spec => []PointersInv
<1>1. Init => PointersInv
  BY PointersInit
<1>2. PointersInv /\ [Next]_vars => PointersInv'
  BY PointersNext
<1> QED
  BY <1>1, <1>2, PTL DEF Spec

\* Neither iterator ever leaves its string, also after going back to a '*'.
THEOREM TypeCorrect == Spec => []TypeOK
<1>1. PointersInv => TypeOK
  BY DEF PointersInv
<1> QED
  BY <1>1, PointersStay, PTL

-----------------------------------------------------------------------------
(* How a cut grows.                                                        *)

\* A character taken together with the pattern's next one, be that a letter, a
\* '?' or a '*' that equals a '*' of the text.
LEMMA TakeOne ==
  ASSUME NEW s \in Seq(Char), NEW p \in Seq(Char),
         NEW n \in 0 .. Len(s) - 1, NEW m \in 0 .. Len(p) - 1,
         Cuts(s, n, p, m) # {},
         p[m + 1] = AnyChar \/ p[m + 1] = s[n + 1]
  PROVE  Cuts(s, n + 1, p, m + 1) # {}
<1>1. PICK cut \in Cuts(s, n, p, m) : TRUE
  OBVIOUS
<1> DEFINE new == [i \in 0 .. m + 1 |-> IF i = m + 1 THEN n + 1 ELSE cut[i]]
<1>0. n \in Nat /\ m \in Nat
  OBVIOUS
<1>2. cut \in [0 .. m -> 0 .. n] /\ cut[0] = 0 /\ cut[m] = n
  BY <1>1 DEF Cuts
<1>3. new \in [0 .. m + 1 -> 0 .. n + 1] /\ new[0] = 0 /\ new[m + 1] = n + 1
  BY <1>0, <1>2
<1>4. ASSUME NEW i \in 1 .. m + 1
      PROVE  IF p[i] = Star THEN new[i - 1] <= new[i]
             ELSE new[i] = new[i - 1] + 1 /\ p[i] \in {AnyChar, s[new[i]]}
  <2>1. CASE i = m + 1
    <3>1. new[i] = n + 1 /\ new[i - 1] = n
      BY <1>0, <1>2, <2>1
    <3> QED
      BY <1>0, <2>1, <3>1
  <2>2. CASE i \in 1 .. m
    <3>1. new[i] = cut[i] /\ new[i - 1] = cut[i - 1]
      BY <1>0, <2>2
    <3> QED
      BY <1>1, <2>2, <3>1 DEF Cuts
  <2> QED
    BY <1>0, <2>1, <2>2
<1>5. new \in Cuts(s, n + 1, p, m + 1)
  BY <1>3, <1>4 DEF Cuts
<1> QED
  BY <1>5

\* Stars of the pattern that take nothing.
LEMMA PassStars ==
  ASSUME NEW s \in Seq(Char), NEW p \in Seq(Char),
         NEW n \in 0 .. Len(s), NEW m \in 0 .. Len(p), NEW k \in m .. Len(p),
         Cuts(s, n, p, m) # {},
         \A i \in m + 1 .. k : p[i] = Star
  PROVE  Cuts(s, n, p, k) # {}
<1>1. PICK cut \in Cuts(s, n, p, m) : TRUE
  OBVIOUS
<1> DEFINE new == [i \in 0 .. k |-> IF i > m THEN n ELSE cut[i]]
<1>0. n \in Nat /\ m \in Nat /\ k \in Nat /\ m <= k
  OBVIOUS
<1>2. cut \in [0 .. m -> 0 .. n] /\ cut[0] = 0 /\ cut[m] = n
  BY <1>1 DEF Cuts
<1>3. new \in [0 .. k -> 0 .. n] /\ new[0] = 0 /\ new[k] = n
  BY <1>0, <1>2
<1>4. ASSUME NEW i \in 1 .. k
      PROVE  IF p[i] = Star THEN new[i - 1] <= new[i]
             ELSE new[i] = new[i - 1] + 1 /\ p[i] \in {AnyChar, s[new[i]]}
  <2>1. CASE i > m
    <3>1. new[i] = n /\ new[i - 1] = n
      BY <1>0, <1>2, <2>1
    <3>2. p[i] = Star
      BY <1>0, <2>1
    <3> QED
      BY <1>0, <3>1, <3>2
  <2>2. CASE i \in 1 .. m
    <3>1. new[i] = cut[i] /\ new[i - 1] = cut[i - 1]
      BY <1>0, <2>2
    <3> QED
      BY <1>1, <2>2, <3>1 DEF Cuts
  <2> QED
    BY <1>0, <2>1, <2>2
<1>5. new \in Cuts(s, n, p, k)
  BY <1>3, <1>4 DEF Cuts
<1> QED
  BY <1>5

\* The last star takes more of the text.
LEMMA GrowStar ==
  ASSUME NEW s \in Seq(Char), NEW p \in Seq(Char),
         NEW n \in 0 .. Len(s), NEW m \in 1 .. Len(p), NEW k \in n .. Len(s),
         Cuts(s, n, p, m) # {},
         p[m] = Star
  PROVE  Cuts(s, k, p, m) # {}
<1>1. PICK cut \in Cuts(s, n, p, m) : TRUE
  OBVIOUS
<1> DEFINE new == [i \in 0 .. m |-> IF i = m THEN k ELSE cut[i]]
<1>0. n \in Nat /\ m \in Nat /\ m > 0 /\ k \in Nat /\ n <= k
  OBVIOUS
<1>2. cut \in [0 .. m -> 0 .. n] /\ cut[0] = 0 /\ cut[m] = n
  BY <1>1 DEF Cuts
<1>3. new \in [0 .. m -> 0 .. k] /\ new[0] = 0 /\ new[m] = k
  BY <1>0, <1>2
<1>4. ASSUME NEW i \in 1 .. m
      PROVE  IF p[i] = Star THEN new[i - 1] <= new[i]
             ELSE new[i] = new[i - 1] + 1 /\ p[i] \in {AnyChar, s[new[i]]}
  <2>1. CASE i = m
    <3>1. new[i] = k /\ new[i - 1] = cut[m - 1] /\ cut[m - 1] \in 0 .. n
      BY <1>0, <1>2, <2>1
    <3> QED
      BY <1>0, <2>1, <3>1
  <2>2. CASE i \in 1 .. m - 1
    <3>1. new[i] = cut[i] /\ new[i - 1] = cut[i - 1]
      BY <1>0, <2>2
    <3> QED
      BY <1>0, <1>1, <2>2, <3>1 DEF Cuts
  <2> QED
    BY <1>0, <2>1, <2>2
<1>5. new \in Cuts(s, k, p, m)
  BY <1>3, <1>4 DEF Cuts
<1> QED
  BY <1>5

-----------------------------------------------------------------------------
(* Soundness.                                                              *)

\* Nothing passed matches nothing.
LEMMA PassedInit == Init => PassedMatches
<1> SUFFICES ASSUME Init PROVE PassedMatches
  OBVIOUS
<1> DEFINE cut == [i \in 0 .. 0 |-> 0]
<1>1. cut \in Cuts(str, 0, pattern, 0)
  BY DEF Cuts
<1> QED
  BY <1>1 DEF Init, PassedMatches, AcceptsOnlyMatches

\* Every step passes only what matches.
LEMMA PassedNext == PointersInv /\ PassedMatches /\ [Next]_vars => PassedMatches'
<1> SUFFICES ASSUME PointersInv, PassedMatches, [Next]_vars PROVE PassedMatches'
  OBVIOUS
<1>0. /\ str \in Seq(Char) /\ pattern \in Seq(Char)
      /\ Len(str) \in Nat /\ Len(pattern) \in Nat
      /\ strItr \in 1 .. Len(str) + 1 /\ patternItr \in 1 .. Len(pattern) + 1
      /\ wildcardStr \in 0 .. Len(str) + 1 /\ wildcardPat \in 0 .. Len(pattern)
  BY ArgumentTypes DEF PointersInv, TypeOK
<1> DEFINE n == strItr - 1
           m == patternItr - 1
<1>1. CASE TakeBoth
  <2>1. Cuts(str, n, pattern, m) # {} /\ ~answer
    BY <1>1 DEF PassedMatches, TakeBoth, Looping
  <2>2. n \in 0 .. Len(str) - 1 /\ m \in 0 .. Len(pattern) - 1
    BY <1>0, <1>1 DEF TakeBoth, Looping
  <2>3. n + 1 = strItr /\ m + 1 = patternItr
    BY <1>0
  <2>4. pattern[m + 1] = AnyChar \/ pattern[m + 1] = str[n + 1]
    BY <1>1, <2>3 DEF TakeBoth, Fits
  <2>5. Cuts(str, n + 1, pattern, m + 1) # {}
    BY <1>0, <2>1, <2>2, <2>4, TakeOne
  <2>6. strItr' - 1 = n + 1 /\ patternItr' - 1 = m + 1
    BY <1>0, <1>1 DEF TakeBoth
  <2> QED
    BY <1>0, <1>1, <2>1, <2>5, <2>6
    DEF PassedMatches, AcceptsOnlyMatches, TakeBoth, Looping
<1>2. CASE MeetStar
  <2>1. Cuts(str, n, pattern, m) # {} /\ ~answer
    BY <1>2 DEF PassedMatches, MeetStar, Looping
  <2>2. /\ n \in 0 .. Len(str) /\ m \in 0 .. Len(pattern)
        /\ patternItr \in m .. Len(pattern)
        /\ \A i \in m + 1 .. patternItr : pattern[i] = Star
    BY <1>0, <1>2 DEF MeetStar, Looping
  <2>3. Cuts(str, n, pattern, patternItr) # {}
    BY <1>0, <2>1, <2>2, PassStars
  <2>4. /\ strItr' - 1 = n /\ wildcardStr' - 1 = n
        /\ patternItr' - 1 = patternItr
        /\ wildcardPat' = patternItr /\ pattern[patternItr] = Star
        /\ UNCHANGED <<str, pattern, pc, answer>>
        /\ wildcardStr' = strItr /\ strItr' = strItr
    BY <1>0, <1>2 DEF MeetStar
  <2> QED
    BY <1>0, <2>1, <2>3, <2>4 DEF PassedMatches, AcceptsOnlyMatches
<1>3. CASE GoBack
  <2>1. /\ ~answer /\ wildcardPat \in 1 .. Len(pattern)
        /\ pattern[wildcardPat] = Star
        /\ wildcardStr \in 1 .. strItr /\ strItr <= Len(str)
        /\ Cuts(str, wildcardStr - 1, pattern, wildcardPat) # {}
    BY <1>0, <1>3 DEF PassedMatches, GoBack, Looping
  <2>2. /\ wildcardStr - 1 \in 0 .. Len(str)
        /\ wildcardStr \in wildcardStr - 1 .. Len(str)
    BY <1>0, <2>1
  <2>3. Cuts(str, wildcardStr, pattern, wildcardPat) # {}
    BY <1>0, <2>1, <2>2, GrowStar
  <2>4. /\ strItr' - 1 = wildcardStr /\ wildcardStr' - 1 = wildcardStr
        /\ patternItr' - 1 = wildcardPat
        /\ wildcardStr' \in 1 .. strItr'
        /\ UNCHANGED <<str, pattern, wildcardPat, pc, answer>>
    BY <1>0, <1>3, <2>1 DEF GoBack
  <2> QED
    BY <2>1, <2>3, <2>4 DEF PassedMatches, AcceptsOnlyMatches
<1>4. CASE ReturnFalse
  BY <1>4 DEF PassedMatches, AcceptsOnlyMatches, ReturnFalse, Looping
<1>5. CASE ReturnAnswer
  <2>1. Cuts(str, n, pattern, m) # {}
    BY <1>5 DEF PassedMatches, ReturnAnswer
  <2>2. n \in 0 .. Len(str) /\ m \in 0 .. Len(pattern)
    BY <1>0
  <2>3. Cuts(str, strItr' - 1, pattern, m) # {} /\ strItr' - 1 \in 0 .. Len(str)
    <3>1. CASE patternItr > 1 /\ pattern[patternItr - 1] = Star
      <4>1. m \in 1 .. Len(pattern) /\ pattern[m] = Star /\ Len(str) \in n .. Len(str)
        BY <1>0, <3>1
      <4>2. Cuts(str, Len(str), pattern, m) # {}
        BY <1>0, <2>1, <2>2, <4>1, GrowStar
      <4>3. strItr' - 1 = Len(str)
        BY <1>0, <1>5, <3>1 DEF ReturnAnswer, SkipText
      <4> QED
        BY <1>0, <4>2, <4>3
    <3>2. CASE ~(patternItr > 1 /\ pattern[patternItr - 1] = Star)
      BY <1>5, <2>1, <2>2, <3>2 DEF ReturnAnswer, SkipText
    <3> QED
      BY <3>1, <3>2
  <2>4. PICK i \in patternItr .. Len(pattern) + 1 : StarsUpTo(i) /\ patternItr' = i
    BY <1>5 DEF ReturnAnswer
  <2>5. /\ i - 1 \in m .. Len(pattern)
        /\ \A j \in m + 1 .. i - 1 : pattern[j] = Star
    BY <1>0, <2>4 DEF StarsUpTo
  <2>6. Cuts(str, strItr' - 1, pattern, i - 1) # {}
    BY <1>0, <2>2, <2>3, <2>5, PassStars
  <2>7. answer' => strItr' - 1 = Len(str) /\ i - 1 = Len(pattern)
    <3>1. answer' => strItr' = Len(str) + 1 /\ patternItr' = Len(pattern) + 1
      BY <1>5, Zenon DEF ReturnAnswer
    <3> QED
      BY <1>0, <2>4, <3>1
  <2>8. answer' => Matches(str, pattern)
    BY <2>6, <2>7 DEF Matches
  <2> QED
    BY <1>5, <2>8 DEF PassedMatches, AcceptsOnlyMatches, ReturnAnswer
<1>6. CASE UNCHANGED vars
  <2>1. /\ str' = str /\ pattern' = pattern /\ strItr' = strItr
        /\ patternItr' = patternItr /\ wildcardStr' = wildcardStr
        /\ wildcardPat' = wildcardPat /\ pc' = pc /\ answer' = answer
    BY <1>6 DEF vars
  <2> QED
    BY <2>1 DEF PassedMatches, AcceptsOnlyMatches
<1> QED
  BY <1>1, <1>2, <1>3, <1>4, <1>5, <1>6 DEF Next

\* What both iterators have passed always matches.
THEOREM Passed == Spec => []PassedMatches
<1>1. Init => PassedMatches
  BY PassedInit
<1>2. PointersInv /\ PassedMatches /\ [Next]_vars => PassedMatches'
  BY PassedNext
<1> QED
  BY <1>1, <1>2, PointersStay, PTL DEF Spec

\* pattern_match() returns true only for a text that matches the pattern.
THEOREM Sound == Spec => []AcceptsOnlyMatches
<1>1. PassedMatches => AcceptsOnlyMatches
  BY DEF PassedMatches
<1> QED
  BY <1>1, Passed, PTL

-----------------------------------------------------------------------------
(* Completeness for the patterns whose stars all come last.  Such a pattern  *)
(* leaves no choice before its first star: every cut of the text follows the *)
(* iterators, so a mismatch there would contradict it; and once a star is    *)
(* passed only stars remain, so nothing ever has to go back.                 *)

\* No star passed yet: the iterators stand where the cut puts the pieces.
Following(cut) ==
  /\ wildcardPat = 0
  /\ \A i \in 1 .. patternItr - 1 : pattern[i] # Star
  /\ cut[patternItr - 1] = strItr - 1

\* A star has just been passed.
PastStar == patternItr > 1 /\ pattern[patternItr - 1] = Star

\* Inductive: the loop follows every cut up to the first star.
FollowsCuts ==
  OnlyFinalStars(pattern) =>
    \A cut \in Cuts(str, Len(str), pattern, Len(pattern)) :
      /\ pc = "loop" => Following(cut) \/ PastStar
      /\ pc = "returned" => answer

\* Only stars follow a star.
LEMMA StarsRemain ==
  ASSUME TypeOK, OnlyFinalStars(pattern), PastStar
  PROVE  \A i \in patternItr .. Len(pattern) : pattern[i] = Star
<1>1. patternItr \in 1 .. Len(pattern) + 1 /\ Len(pattern) \in Nat
  BY ArgumentTypes DEF TypeOK
<1>2. patternItr - 1 \in 1 .. Len(pattern) /\ pattern[patternItr - 1] = Star
  BY <1>1 DEF PastStar
<1> QED
  BY <1>1, <1>2 DEF OnlyFinalStars

\* What a cut says of a piece.
LEMMA PieceOf ==
  ASSUME NEW s, NEW p, NEW n, NEW m, NEW cut \in Cuts(s, n, p, m),
         NEW i \in 1 .. m, p[i] # Star
  PROVE  cut[i] = cut[i - 1] + 1 /\ p[i] \in {AnyChar, s[cut[i]]}
BY DEF Cuts

\* Every step follows the cuts.
LEMMA FollowsNext == TypeOK /\ FollowsCuts /\ [Next]_vars => FollowsCuts'
<1> SUFFICES ASSUME TypeOK, FollowsCuts, [Next]_vars PROVE FollowsCuts'
  OBVIOUS
<1>1. str' = str /\ pattern' = pattern
  BY DEF Next, vars, TakeBoth, MeetStar, GoBack, ReturnFalse, ReturnAnswer
<1> SUFFICES ASSUME OnlyFinalStars(pattern),
                    NEW cut \in Cuts(str, Len(str), pattern, Len(pattern))
             PROVE  /\ pc' = "loop" => Following(cut)' \/ PastStar'
                    /\ pc' = "returned" => answer'
  BY <1>1 DEF FollowsCuts, OnlyFinalStars
<1>0. /\ Len(str) \in Nat /\ Len(pattern) \in Nat
      /\ strItr \in 1 .. Len(str) + 1 /\ patternItr \in 1 .. Len(pattern) + 1
  BY ArgumentTypes DEF TypeOK
<1>2. /\ pc = "loop" => Following(cut) \/ PastStar
      /\ pc = "returned" => answer
  BY DEF FollowsCuts
<1>3. PastStar => \A i \in patternItr .. Len(pattern) : pattern[i] = Star
  BY StarsRemain
<1>4. cut \in [0 .. Len(pattern) -> 0 .. Len(str)] /\ cut[Len(pattern)] = Len(str)
  BY DEF Cuts
\* A letter or a '?' met while following the cut fits.
<1>5. ASSUME Following(cut), patternItr <= Len(pattern), pattern[patternItr] # Star
      PROVE  /\ strItr <= Len(str)
             /\ cut[patternItr] = strItr
             /\ Fits
  <2>1. patternItr \in 1 .. Len(pattern)
    BY <1>0, <1>5
  <2>2. /\ cut[patternItr] = cut[patternItr - 1] + 1
        /\ pattern[patternItr] \in {AnyChar, str[cut[patternItr]]}
    BY <1>5, <2>1, PieceOf
  <2>3. cut[patternItr] = strItr
    BY <1>0, <1>5, <2>2 DEF Following
  <2>4. cut[patternItr] \in 0 .. Len(str)
    BY <1>0, <1>4, <2>1
  <2> QED
    BY <1>0, <2>2, <2>3, <2>4 DEF Fits
<1>6. CASE TakeBoth
  <2>1. /\ pc = "loop" /\ pc' = "loop" /\ patternItr <= Len(pattern)
        /\ strItr' = strItr + 1 /\ patternItr' = patternItr + 1
        /\ wildcardPat' = wildcardPat
    BY <1>6 DEF TakeBoth, Looping
  <2>2. patternItr' - 1 = patternItr /\ strItr' - 1 = strItr /\ patternItr' > 1
    BY <1>0, <2>1
  <2>3. CASE pattern[patternItr] = Star
    BY <1>1, <2>1, <2>2, <2>3 DEF PastStar
  <2>4. CASE pattern[patternItr] # Star
    <3>1. Following(cut)
      BY <1>0, <1>2, <1>3, <2>1, <2>4
    <3>2. cut[patternItr] = strItr
      BY <1>5, <2>1, <2>4, <3>1
    <3>3. \A i \in 1 .. patternItr : pattern[i] # Star
      BY <1>0, <2>4, <3>1 DEF Following
    <3>4. Following(cut)'
      BY <1>1, <2>1, <2>2, <3>1, <3>2, <3>3 DEF Following
    <3> QED
      BY <2>1, <3>4
  <2> QED
    BY <2>3, <2>4
<1>7. CASE MeetStar
  <2>1. /\ pc' = "loop" /\ patternItr' = patternItr + 1 /\ pattern[patternItr] = Star
    BY <1>7 DEF MeetStar, Looping
  <2>2. patternItr' - 1 = patternItr /\ patternItr' > 1
    BY <1>0, <2>1
  <2> QED
    BY <1>1, <2>1, <2>2 DEF PastStar
<1>8. ASSUME Looping, ~Fits, pattern[patternItr] # Star PROVE FALSE
  <2>1. pc = "loop" /\ patternItr \in patternItr .. Len(pattern)
    BY <1>0, <1>8 DEF Looping
  <2>2. ~PastStar
    BY <1>3, <1>8, <2>1
  <2> QED
    BY <1>0, <1>2, <1>5, <1>8, <2>1, <2>2
<1>9. CASE GoBack
  BY <1>8, <1>9 DEF GoBack
<1>10. CASE ReturnFalse
  BY <1>8, <1>10 DEF ReturnFalse
<1>11. CASE ReturnAnswer
  <2>1. /\ pc = "loop" /\ pc' = "returned" /\ ~Looping /\ strItr' = SkipText
    BY <1>11 DEF ReturnAnswer
  <2>2. PICK i \in patternItr .. Len(pattern) + 1 : StarsUpTo(i) /\ patternItr' = i
    BY <1>11 DEF ReturnAnswer
  <2>3. i \in Nat
    BY <1>0, <2>2
  \* Nothing but stars is left of the pattern.
  <2>4. i = Len(pattern) + 1
    <3> SUFFICES ASSUME i <= Len(pattern) PROVE FALSE
      BY <1>0, <2>2, <2>3
    <3>1. pattern[i] # Star /\ \A j \in patternItr .. i - 1 : pattern[j] = Star
      BY <2>2 DEF StarsUpTo
    <3>2. i \in patternItr .. Len(pattern)
      BY <1>0, <2>2
    <3>3. Following(cut)
      BY <1>2, <1>3, <2>1, <3>1, <3>2
    <3>4. CASE i = patternItr
      <4>1. Looping
        BY <1>5, <2>1, <3>1, <3>2, <3>3, <3>4 DEF Looping
      <4> QED
        BY <2>1, <4>1
    <3>5. CASE i # patternItr
      <4>1. i - 1 \in patternItr .. i - 1 /\ i - 1 \in 1 .. Len(pattern)
        BY <1>0, <2>3, <3>2, <3>5
      <4>2. i \in i - 1 .. Len(pattern)
        BY <1>0, <2>3, <3>2
      <4> QED
        BY <3>1, <4>1, <4>2 DEF OnlyFinalStars
    <3> QED
      BY <3>4, <3>5
  \* Nor is anything of the text.
  <2>5. strItr' = Len(str) + 1
    <3>1. CASE PastStar
      BY <2>1, <3>1 DEF PastStar, SkipText
    <3>2. CASE ~PastStar
      <4>1. Following(cut) /\ SkipText = strItr
        BY <1>2, <2>1, <3>2 DEF PastStar, SkipText
      <4>2. CASE patternItr = Len(pattern) + 1
        <5>1. patternItr - 1 = Len(pattern)
          BY <1>0, <4>2
        <5>2. Len(str) = strItr - 1
          BY <1>4, <4>1, <5>1 DEF Following
        <5> QED
          BY <1>0, <2>1, <4>1, <5>2
      <4>3. CASE patternItr # Len(pattern) + 1
        BY <1>0, <2>1, <4>1, <4>3 DEF Looping
      <4> QED
        BY <4>2, <4>3
    <3> QED
      BY <3>1, <3>2
  <2>6. answer'
    BY <1>1, <1>11, <2>2, <2>4, <2>5, Zenon DEF ReturnAnswer
  <2> QED
    BY <2>1, <2>6
<1>12. CASE UNCHANGED vars
  <2>1. /\ pc' = pc /\ answer' = answer /\ strItr' = strItr
        /\ patternItr' = patternItr /\ wildcardPat' = wildcardPat
    BY <1>12 DEF vars
  <2> QED
    BY <1>1, <1>2, <2>1 DEF Following, PastStar
<1> QED
  BY <1>6, <1>7, <1>9, <1>10, <1>11, <1>12 DEF Next

\* The loop starts at the beginning of every cut.
LEMMA FollowsInit == Init => FollowsCuts
<1> SUFFICES ASSUME Init, NEW cut \in Cuts(str, Len(str), pattern, Len(pattern))
             PROVE  pc = "loop" /\ Following(cut)
  BY DEF FollowsCuts
<1>1. cut[0] = 0
  BY DEF Cuts
<1> QED
  BY <1>1 DEF Init, Following

\* Up to the first star pattern_match() never strays from a cut of the text.
THEOREM Follows == Spec => []FollowsCuts
<1>1. Init => FollowsCuts
  BY FollowsInit
<1>2. TypeOK /\ FollowsCuts /\ [Next]_vars => FollowsCuts'
  BY FollowsNext
<1> QED
  BY <1>1, <1>2, TypeCorrect, PTL DEF Spec

-----------------------------------------------------------------------------
(* Completeness for the patterns that end in a star, if the text has none.   *)
(* Every cut puts the last star passed, and all pieces passed since, where    *)
(* the iterators have put them or further right; so going back, to one place  *)
(* further right, leaves no cut behind.                                       *)

\* A cut is not to the left of the iterators.
NotBehind(cut) ==
  IF wildcardPat = 0 THEN cut[patternItr - 1] = strItr - 1
  ELSE /\ cut[wildcardPat] >= wildcardStr - 1
       /\ cut[patternItr - 1] - cut[wildcardPat] = strItr - wildcardStr

\* Inductive: no cut is left behind.
NoneBehind ==
  OpenEnded(str, pattern) =>
    \A cut \in Cuts(str, Len(str), pattern, Len(pattern)) :
      /\ pc = "loop" => NotBehind(cut)
      /\ pc = "returned" => answer

\* Over stars a cut does not go back.  Otherwise there would be a first place
\* where it had.
LEMMA StarsGrow ==
  ASSUME NEW s, NEW p, NEW n \in Nat, NEW m \in Nat, NEW cut \in Cuts(s, n, p, m),
         NEW k \in 0 .. m, NEW l \in k .. m,
         \A i \in k + 1 .. l : p[i] = Star
  PROVE  cut[k] <= cut[l]
<1>1. \A i \in 0 .. m : cut[i] \in Nat
  BY DEF Cuts
<1>2. \A i \in k + 1 .. l : cut[i - 1] <= cut[i]
  BY DEF Cuts
<1> DEFINE T == {i \in k .. l : cut[i] < cut[k]}
<1>3. SUFFICES ASSUME T # {} PROVE FALSE
  BY <1>1
<1>0. T \subseteq Nat /\ k \in Nat /\ l \in Nat
  OBVIOUS
<1>4. PICK i \in T : \A j \in T : ~(<<j, i>> \in OpToRel(<, Nat))
  BY <1>0, <1>3, NatLessThanWellFounded, WFMin
<1>5. ASSUME NEW j \in T PROVE ~(j < i)
  <2>1. <<j, i>> \in Nat \X Nat /\ <<j, i>> \notin OpToRel(<, Nat)
    BY <1>0, <1>4
  <2> QED
    BY <2>1 DEF OpToRel
<1>6. i \in k + 1 .. l /\ cut[i] < cut[k]
  <2>1. i \in k .. l /\ cut[i] < cut[k]
    BY <1>4
  <2>2. cut[k] \in Nat
    BY <1>1
  <2>3. i # k
    BY <2>1, <2>2
  <2> QED
    BY <1>0, <2>1, <2>3
<1>7. i - 1 \in T
  <2>1. i - 1 \in k .. l /\ cut[i - 1] <= cut[i]
    BY <1>0, <1>2, <1>6
  <2>2. cut[i - 1] \in Nat /\ cut[i] \in Nat /\ cut[k] \in Nat
    BY <1>0, <1>1, <1>6
  <2> QED
    BY <1>6, <2>1, <2>2
<1> QED
  BY <1>5, <1>6, <1>7

\* The loop starts at the beginning of every cut.
LEMMA BehindInit == Init => NoneBehind
<1> SUFFICES ASSUME Init, NEW cut \in Cuts(str, Len(str), pattern, Len(pattern))
             PROVE  pc = "loop" /\ NotBehind(cut)
  BY DEF NoneBehind
<1>1. cut[0] = 0
  BY DEF Cuts
<1> QED
  BY <1>1 DEF Init, NotBehind

\* No step leaves a cut behind.
LEMMA BehindNext == PointersInv /\ NoneBehind /\ [Next]_vars => NoneBehind'
<1> SUFFICES ASSUME PointersInv, NoneBehind, [Next]_vars PROVE NoneBehind'
  OBVIOUS
<1>1. str' = str /\ pattern' = pattern
  BY DEF Next, vars, TakeBoth, MeetStar, GoBack, ReturnFalse, ReturnAnswer
<1> SUFFICES ASSUME OpenEnded(str, pattern),
                    NEW cut \in Cuts(str, Len(str), pattern, Len(pattern))
             PROVE  /\ pc' = "loop" => NotBehind(cut)'
                    /\ pc' = "returned" => answer'
  BY <1>1 DEF NoneBehind, OpenEnded
<1>0. /\ Len(str) \in Nat /\ Len(pattern) \in Nat
      /\ strItr \in 1 .. Len(str) + 1 /\ patternItr \in 1 .. Len(pattern) + 1
      /\ wildcardStr \in Nat /\ wildcardPat \in 0 .. Len(pattern)
      /\ wildcardPat # 0 => wildcardStr \in 1 .. strItr
  BY ArgumentTypes DEF PointersInv, TypeOK
<1>2. /\ pc = "loop" => NotBehind(cut)
      /\ pc = "returned" => answer
  BY DEF NoneBehind
<1>3. /\ \A i \in 0 .. Len(pattern) : cut[i] \in 0 .. Len(str)
      /\ cut[Len(pattern)] = Len(str)
      /\ \A i \in 1 .. Len(pattern) : pattern[i] = Star => cut[i - 1] <= cut[i]
  BY DEF Cuts
<1>4. ASSUME NEW i \in 1 .. Len(pattern), pattern[i] # Star
      PROVE  cut[i] = cut[i - 1] + 1 /\ pattern[i] \in {AnyChar, str[cut[i]]}
  BY <1>4, PieceOf
\* No star is taken for a letter.
<1>5. Looping /\ Fits => pattern[patternItr] # Star
  BY <1>0, TextAssumption DEF Looping, Fits, OpenEnded
<1>6. patternItr - 1 \in 0 .. Len(pattern)
      /\ cut[patternItr - 1] \in Nat /\ cut[wildcardPat] \in Nat
  BY <1>0, <1>3
<1>7. CASE TakeBoth
  <2>1. /\ pc = "loop" /\ patternItr \in 1 .. Len(pattern)
        /\ pattern[patternItr] # Star
        /\ strItr' - 1 = strItr /\ patternItr' - 1 = patternItr
        /\ strItr' = strItr + 1
        /\ UNCHANGED <<wildcardStr, wildcardPat, pc>>
    BY <1>0, <1>5, <1>7 DEF TakeBoth, Looping
  <2>2. cut[patternItr] = cut[patternItr - 1] + 1
    BY <1>4, <2>1
  <2>3. CASE wildcardPat = 0
    BY <1>0, <1>2, <2>1, <2>2, <2>3 DEF NotBehind
  <2>4. CASE wildcardPat # 0
    <3>1. /\ cut[wildcardPat] >= wildcardStr - 1
          /\ cut[patternItr - 1] - cut[wildcardPat] = strItr - wildcardStr
      BY <1>2, <2>1, <2>4 DEF NotBehind
    <3>2. cut[patternItr] - cut[wildcardPat] = (strItr + 1) - wildcardStr
      <4>1. strItr \in Nat /\ wildcardStr \in Nat
        BY <1>0
      <4>2. cut[patternItr - 1] \in Nat /\ cut[wildcardPat] \in Nat
        BY <1>6
      <4> QED
        BY <2>2, <3>1, <4>1, <4>2
    <3> QED
      BY <2>1, <2>4, <3>1, <3>2 DEF NotBehind
  <2> QED
    BY <2>3, <2>4
<1>8. CASE MeetStar
  <2>1. /\ pc = "loop" /\ pc' = "loop" /\ patternItr \in 1 .. Len(pattern)
        /\ pattern[patternItr] = Star
        /\ wildcardStr' = strItr /\ wildcardPat' = patternItr
        /\ patternItr' - 1 = patternItr /\ strItr' = strItr
    BY <1>0, <1>8 DEF MeetStar, Looping
  <2>2. cut[patternItr - 1] >= strItr - 1
    BY <1>0, <1>2, <1>6, <2>1 DEF NotBehind
  <2>3. cut[patternItr] >= strItr - 1 /\ cut[patternItr] \in Nat
    BY <1>0, <1>3, <1>6, <2>1, <2>2
  <2>4. cut[patternItr] - cut[patternItr] = strItr - strItr /\ patternItr # 0
    BY <1>0, <2>1, <2>3
  <2>5. /\ wildcardPat' # 0 /\ cut[wildcardPat'] >= wildcardStr' - 1
        /\ cut[patternItr' - 1] - cut[wildcardPat'] = strItr' - wildcardStr'
    BY <2>1, <2>3, <2>4
  <2> QED
    BY <2>1, <2>5 DEF NotBehind
\* A mismatch where the iterators are means that the cut is further right.
<1>9. ASSUME Looping, ~Fits, pattern[patternItr] # Star, NotBehind(cut)
      PROVE  wildcardPat # 0 /\ cut[wildcardPat] >= wildcardStr
  <2>1. patternItr \in 1 .. Len(pattern)
    BY <1>0, <1>9 DEF Looping
  <2>2. cut[patternItr] # strItr
    BY <1>4, <1>9, <2>1 DEF Fits
  <2>3. cut[patternItr - 1] # strItr - 1
    BY <1>0, <1>4, <1>6, <1>9, <2>1, <2>2
  <2> QED
    BY <1>0, <1>6, <1>9, <2>3 DEF NotBehind
<1>10. CASE GoBack
  <2>1. /\ Looping /\ ~Fits /\ pattern[patternItr] # Star
        /\ pc = "loop" /\ pc' = "loop" /\ patternItr' - 1 = wildcardPat
        /\ strItr' = wildcardStr + 1 /\ wildcardStr' = wildcardStr + 1
        /\ wildcardPat' = wildcardPat
    BY <1>0, <1>10 DEF GoBack, Looping
  <2>2. wildcardPat # 0 /\ cut[wildcardPat] >= wildcardStr
    BY <1>2, <1>9, <2>1
  <2>3. /\ wildcardStr' - 1 = wildcardStr
        /\ cut[wildcardPat] - cut[wildcardPat] = strItr' - wildcardStr'
    BY <1>0, <1>6, <2>1
  <2>4. /\ wildcardPat' # 0 /\ cut[wildcardPat'] >= wildcardStr' - 1
        /\ cut[patternItr' - 1] - cut[wildcardPat'] = strItr' - wildcardStr'
    BY <2>1, <2>2, <2>3
  <2> QED
    BY <2>1, <2>4 DEF NotBehind
<1>11. CASE ReturnFalse
  <2>1. /\ Looping /\ ~Fits /\ pattern[patternItr] # Star /\ pc = "loop"
        /\ wildcardPat = 0
    BY <1>11 DEF ReturnFalse, Looping
  <2> QED
    BY <1>2, <1>9, <2>1
<1>12. CASE ReturnAnswer
  <2>1. /\ pc = "loop" /\ pc' = "returned" /\ ~Looping /\ strItr' = SkipText
        /\ answer' = (strItr' = Len(str) + 1 /\ patternItr' = Len(pattern) + 1)
    BY <1>12 DEF ReturnAnswer
  <2>2. PICK i \in patternItr .. Len(pattern) + 1 : StarsUpTo(i) /\ patternItr' = i
    BY <1>12 DEF ReturnAnswer
  <2>3. i \in Nat
    BY <1>0, <2>2
  <2>4. CASE patternItr = Len(pattern) + 1
    <3>1. pattern # <<>> /\ pattern[Len(pattern)] = Star
      BY DEF OpenEnded
    <3>2. Len(pattern) > 0
      BY <1>0, <3>1, ArgumentTypes, EmptySeq DEF PointersInv
    <3>3. SkipText = Len(str) + 1
      BY <1>0, <2>4, <3>1, <3>2 DEF SkipText
    <3>4. i = Len(pattern) + 1
      BY <1>0, <2>2, <2>4
    <3> QED
      BY <2>1, <2>2, <3>3, <3>4
  <2>5. CASE patternItr <= Len(pattern)
    <3>1. strItr = Len(str) + 1
      BY <1>0, <2>1, <2>5 DEF Looping
    <3>2. SkipText = Len(str) + 1
      BY <3>1 DEF SkipText
    <3>3. cut[patternItr - 1] >= Len(str)
      BY <1>0, <1>2, <1>6, <2>1, <3>1 DEF NotBehind
    <3>4. i = Len(pattern) + 1
      <4> SUFFICES ASSUME i \in 1 .. Len(pattern) PROVE FALSE
        BY <1>0, <2>2, <2>3
      <4>1. pattern[i] # Star /\ \A j \in patternItr .. i - 1 : pattern[j] = Star
        BY <2>2 DEF StarsUpTo
      <4>2. /\ i - 1 \in patternItr - 1 .. Len(pattern)
            /\ \A j \in (patternItr - 1) + 1 .. i - 1 : pattern[j] = Star
        BY <1>0, <2>2, <2>3, <4>1
      <4>3. cut[patternItr - 1] <= cut[i - 1]
        BY <1>0, <1>6, <4>2, StarsGrow
      <4>4. cut[i] = cut[i - 1] + 1
        BY <1>4, <4>1
      <4>5. cut[i] \in 0 .. Len(str) /\ cut[i - 1] \in 0 .. Len(str)
        BY <1>0, <1>3, <2>3
      <4> QED
        BY <1>0, <1>6, <3>3, <4>3, <4>4, <4>5
    <3> QED
      BY <2>1, <2>2, <3>2, <3>4
  <2> QED
    BY <1>0, <2>4, <2>5
<1>13. CASE UNCHANGED vars
  <2>1. /\ pc' = pc /\ answer' = answer /\ strItr' = strItr
        /\ patternItr' = patternItr /\ wildcardPat' = wildcardPat
        /\ wildcardStr' = wildcardStr
    BY <1>13 DEF vars
  <2> QED
    BY <1>1, <1>2, <2>1 DEF NotBehind
<1> QED
  BY <1>7, <1>8, <1>10, <1>11, <1>12, <1>13 DEF Next

\* No cut is ever left behind by going back to the last star.
THEOREM Leftmost == Spec => []NoneBehind
<1>1. Init => NoneBehind
  BY BehindInit
<1>2. PointersInv /\ NoneBehind /\ [Next]_vars => NoneBehind'
  BY BehindNext
<1> QED
  BY <1>1, <1>2, PointersStay, PTL DEF Spec

\* pattern_match() returns true for every text that matches a pattern whose stars
\* all come last, or, if the text has no star, one that ends in a star.
THEOREM Complete == Spec => []AcceptsOpenEnded
<1>1. FollowsCuts /\ NoneBehind => AcceptsOpenEnded
  BY DEF FollowsCuts, NoneBehind, AcceptsOpenEnded, Matches
<1> QED
  BY <1>1, Follows, Leftmost, PTL

-----------------------------------------------------------------------------
(* Termination.                                                            *)

\* Going back never repeats work: a step returns, or passes a further star, or
\* lets the last star take one character more, or goes on in the pattern.  Each of
\* the three is bounded, by the pattern, the text and the pattern again.
Advances ==
  \/ pc' = "returned"
  \/ wildcardPat' > wildcardPat
  \/ wildcardPat' = wildcardPat /\ wildcardStr' > wildcardStr
  \/ UNCHANGED <<wildcardPat, wildcardStr>> /\ patternItr' > patternItr

\* The last star passed is behind the iterator.
StarPassed == wildcardPat < patternItr

\* Every step advances, whatever the text and the pattern.
THEOREM EveryStepAdvances == Spec => [][Advances]_vars
<1>1. Init => StarPassed
  BY DEF Init, StarPassed
<1>2. TypeOK /\ StarPassed /\ [Next]_vars => StarPassed' /\ [Advances]_vars
  <2> SUFFICES ASSUME TypeOK, StarPassed, [Next]_vars
               PROVE  StarPassed' /\ [Advances]_vars
    OBVIOUS
  <2>0. patternItr \in Nat /\ wildcardPat \in Nat /\ wildcardStr \in Nat
    BY ArgumentTypes DEF TypeOK
  <2>1. CASE TakeBoth
    BY <2>0, <2>1 DEF TakeBoth, StarPassed, Advances
  <2>2. CASE MeetStar
    BY <2>0, <2>2 DEF MeetStar, StarPassed, Advances
  <2>3. CASE GoBack
    BY <2>0, <2>3 DEF GoBack, StarPassed, Advances
  <2>4. CASE ReturnFalse
    BY <2>0, <2>4 DEF ReturnFalse, StarPassed, Advances
  <2>5. CASE ReturnAnswer
    BY <2>0, <2>5 DEF ReturnAnswer, StarPassed, Advances
  <2>6. CASE UNCHANGED vars
    BY <2>6 DEF vars, StarPassed
  <2> QED
    BY <2>1, <2>2, <2>3, <2>4, <2>5, <2>6 DEF Next
<1> QED
  BY <1>1, <1>2, TypeCorrect, PTL DEF Spec

\* Wherever the loop ends, the stars after it end somewhere, so that there is an
\* answer: the first other character, or the '\0'.
THEOREM StarsEnd ==
  Spec => [](\E i \in patternItr .. Len(pattern) + 1 : StarsUpTo(i))
<1>1. ASSUME TypeOK
      PROVE  \E i \in patternItr .. Len(pattern) + 1 : StarsUpTo(i)
  <2> DEFINE T == {i \in patternItr .. Len(pattern) + 1 :
                     i <= Len(pattern) => pattern[i] # Star}
  <2>1. Len(pattern) \in Nat /\ patternItr \in 1 .. Len(pattern) + 1
    BY <1>1, ArgumentTypes DEF TypeOK
  <2>2. T \subseteq Nat /\ Len(pattern) + 1 \in T
    BY <2>1
  <2>3. PICK i \in T : \A j \in T : ~(<<j, i>> \in OpToRel(<, Nat))
    BY <2>2, NatLessThanWellFounded, WFMin
  <2>4. ASSUME NEW j \in patternItr .. i - 1 PROVE pattern[j] = Star
    <3>1. i \in patternItr .. Len(pattern) + 1
      BY <2>3
    <3>2. j \in Nat /\ i \in Nat /\ j < i /\ j <= Len(pattern)
      BY <2>1, <2>4, <3>1
    <3>3. j \notin T
      <4>1. <<j, i>> \in OpToRel(<, Nat)
        BY <3>2 DEF OpToRel
      <4> QED
        BY <2>3, <4>1
    <3> QED
      BY <2>1, <3>1, <3>2, <3>3
  <2>5. i \in patternItr .. Len(pattern) + 1 /\ (i <= Len(pattern) => pattern[i] # Star)
    BY <2>3
  <2> QED
    BY <2>4, <2>5 DEF StarsUpTo
<1>2. TypeOK => \E i \in patternItr .. Len(pattern) + 1 : StarsUpTo(i)
  BY <1>1
<1> QED
  BY <1>2, TypeCorrect, PTL
=============================================================================
