---------------------------- MODULE PatternMatch ----------------------------
(***************************************************************************)
(* ffd::pattern_match (src/src/incl/45d/low_overhead_string.hpp): two      *)
(* iterators run over a text and a wildcard pattern; after a mismatch both *)
(* go back to the last '*' seen, which then takes one character more.      *)
(* Positions count from 1; the one after the last holds the '\0'.          *)
(***************************************************************************)
EXTENDS Integers, Sequences

CONSTANTS
  Texts,        \* values of the argument str
  Patterns,     \* values of the argument pattern
  Star,         \* '*'
  AnyChar       \* '?'

\* The characters that occur; a text may hold a '*' or a '?' of its own.
Char == UNION {{s[i] : i \in 1 .. Len(s)} : s \in Texts \cup Patterns}

ASSUME TextAssumption ==
  /\ \A s \in Texts \cup Patterns : s \in Seq(Char)
  /\ Star # AnyChar

VARIABLES
  str, pattern,           \* the arguments
  strItr, patternItr,     \* the iterators
  wildcardStr,            \* where they stood at the last '*';
  wildcardPat,            \* 0 is nullptr
  pc,                     \* "loop", then "returned"
  answer                  \* what is returned

vars == <<str, pattern, strItr, patternItr, wildcardStr, wildcardPat, pc, answer>>

Init ==
  /\ str \in Texts
  /\ pattern \in Patterns
  /\ strItr = 1 /\ patternItr = 1
  /\ wildcardStr = 0 /\ wildcardPat = 0
  /\ pc = "loop"
  /\ answer = FALSE

\* *pattern_itr != '\0' && *str_itr != '\0'
Looping ==
  pc = "loop" /\ patternItr <= Len(pattern) /\ strItr <= Len(str)

\* *pattern_itr == '?' || *pattern_itr == *str_itr
Fits == pattern[patternItr] = AnyChar \/ pattern[patternItr] = str[strItr]

TakeBoth ==
  /\ Looping
  /\ Fits
  /\ strItr' = strItr + 1
  /\ patternItr' = patternItr + 1
  /\ UNCHANGED <<str, pattern, wildcardStr, wildcardPat, pc, answer>>

MeetStar ==
  /\ Looping
  /\ ~Fits /\ pattern[patternItr] = Star
  /\ wildcardStr' = strItr
  /\ wildcardPat' = patternItr
  /\ patternItr' = patternItr + 1
  /\ UNCHANGED <<str, pattern, strItr, pc, answer>>

\* Mutants of GoBack: wildcard_str stays where it was; str_itr goes on;
\* pattern_itr is not put back.
GoBack_SameStart ==
  /\ Looping
  /\ ~Fits /\ pattern[patternItr] # Star /\ wildcardPat # 0
  /\ patternItr' = wildcardPat + 1
  /\ strItr' = wildcardStr + 1
  /\ UNCHANGED <<str, pattern, wildcardStr, wildcardPat, pc, answer>>

GoBack_SkipsText ==
  /\ Looping
  /\ ~Fits /\ pattern[patternItr] # Star /\ wildcardPat # 0
  /\ patternItr' = wildcardPat + 1
  /\ strItr' = strItr + 2
  /\ wildcardStr' = wildcardStr + 1
  /\ UNCHANGED <<str, pattern, wildcardPat, pc, answer>>

GoBack_KeepsPattern ==
  /\ Looping
  /\ ~Fits /\ pattern[patternItr] # Star /\ wildcardPat # 0
  /\ strItr' = wildcardStr + 1
  /\ wildcardStr' = wildcardStr + 1
  /\ UNCHANGED <<str, pattern, patternItr, wildcardPat, pc, answer>>

GoBack ==
  /\ Looping
  /\ ~Fits /\ pattern[patternItr] # Star /\ wildcardPat # 0
  /\ patternItr' = wildcardPat + 1
  /\ strItr' = wildcardStr + 1
  /\ wildcardStr' = wildcardStr + 1
  /\ UNCHANGED <<str, pattern, wildcardPat, pc, answer>>

ReturnFalse ==
  /\ Looping
  /\ ~Fits /\ pattern[patternItr] # Star /\ wildcardPat = 0
  /\ pc' = "returned"
  /\ UNCHANGED <<str, pattern, strItr, patternItr, wildcardStr, wildcardPat, answer>>

\* Mutants of SkipText: whatever came last takes the rest; nothing takes it.
SkipText_Always == Len(str) + 1
SkipText_Never == strItr

\* After the loop, a '*' just passed takes the rest of the text ...
SkipText ==
  IF patternItr > 1 /\ pattern[patternItr - 1] = Star THEN Len(str) + 1 ELSE strItr

\* ... and the '*'s from here to i take nothing.
StarsUpTo(i) ==
  /\ \A j \in patternItr .. i - 1 : pattern[j] = Star
  /\ i <= Len(pattern) => pattern[i] # Star

ReturnAnswer ==
  /\ pc = "loop" /\ ~Looping
  /\ strItr' = SkipText
  /\ \E i \in patternItr .. Len(pattern) + 1 : StarsUpTo(i) /\ patternItr' = i
  /\ pc' = "returned"
  /\ answer' = (strItr' = Len(str) + 1 /\ patternItr' = Len(pattern) + 1)
  /\ UNCHANGED <<str, pattern, wildcardStr, wildcardPat>>

Next == TakeBoth \/ MeetStar \/ GoBack \/ ReturnFalse \/ ReturnAnswer

Spec == Init /\ [][Next]_vars
FairSpec == Spec /\ WF_vars(Next)

-----------------------------------------------------------------------------
(* What the comment promises: '?' stands for any character and '*' for zero *)
(* or more of them.                                                         *)

\* The first n characters of s can be cut into one piece for each of the first
\* m of p; cut[i] is where the i-th piece ends.
Cuts(s, n, p, m) ==
  {cut \in [0 .. m -> 0 .. n] :
     /\ cut[0] = 0 /\ cut[m] = n
     /\ \A i \in 1 .. m :
          IF p[i] = Star THEN cut[i - 1] <= cut[i]
          ELSE cut[i] = cut[i - 1] + 1 /\ p[i] \in {AnyChar, s[cut[i]]}}

Matches(s, p) == Cuts(s, Len(s), p, Len(p)) # {}

\* All stars come last.
OnlyFinalStars(p) ==
  \A i \in 1 .. Len(p) : p[i] = Star => \A j \in i .. Len(p) : p[j] = Star

\* Nothing has to be found after the last star, and no star of the pattern can be
\* mistaken for a letter of the text.
OpenEnded(s, p) ==
  /\ p # <<>> /\ p[Len(p)] = Star
  /\ \A i \in 1 .. Len(s) : s[i] # Star

-----------------------------------------------------------------------------
(* Properties.                                                             *)

\* The types of the variables.  The iterators point into their strings or at
\* the '\0', also after going back.
TypeOK ==
  /\ str \in Texts /\ pattern \in Patterns
  /\ strItr \in 1 .. Len(str) + 1
  /\ patternItr \in 1 .. Len(pattern) + 1
  /\ wildcardStr \in 0 .. Len(str) + 1
  /\ wildcardPat \in 0 .. Len(pattern)
  /\ pc \in {"loop", "returned"}
  /\ answer \in BOOLEAN

\* A text is accepted only if it matches the pattern.
AcceptsOnlyMatches == answer => Matches(str, pattern)

\* A pattern whose stars all come last accepts every text it matches, and so does
\* one with stars anywhere that ends in one, if the text has none of its own: the
\* search tries the leftmost place for each of its parts, and that suffices.
AcceptsOpenEnded ==
  pc = "returned" /\ Matches(str, pattern)
    /\ (OnlyFinalStars(pattern) \/ OpenEnded(str, pattern))
    => answer

\* The search for a place to resume at always ends.
Returns == <>(pc = "returned")

\* The comment's own claim: every text that matches is accepted.  Does not
\* hold: see the README.
AcceptsMatches == pc = "returned" /\ Matches(str, pattern) => answer

\* Inductive: what the iterators have passed matches, and so does what they had
\* passed at the last '*', the '*' included.
PassedMatches ==
  /\ pc = "loop" =>
       /\ ~answer
       /\ Cuts(str, strItr - 1, pattern, patternItr - 1) # {}
       /\ wildcardPat # 0 =>
            /\ pattern[wildcardPat] = Star
            /\ wildcardStr \in 1 .. strItr
            /\ Cuts(str, wildcardStr - 1, pattern, wildcardPat) # {}
  /\ AcceptsOnlyMatches
=============================================================================
