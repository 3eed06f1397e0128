---------------------------- MODULE RecordsProofs ----------------------------
(***************************************************************************)
(* Proofs about Records for all characters and lines of every length: what *)
(* a line may say, that it is read back from what is dumped of it, and     *)
(* that a comment changes nothing.                                         *)
(***************************************************************************)
EXTENDS Records, SequenceTheorems, WellFoundedInduction, TLAPS

-----------------------------------------------------------------------------
(* Searching a string.                                                     *)

\* The least of some naturals, by the well-foundedness of <.
LEMMA LeastIs ==
  ASSUME NEW T \in SUBSET Nat, T # {}
  PROVE  Min(T) \in T /\ \A j \in T : Min(T) <= j
<1>1. PICK i \in T : \A j \in T : ~(<<j, i>> \in OpToRel(<, Nat))
  BY NatLessThanWellFounded, WFMin
<1>2. ASSUME NEW j \in T PROVE i <= j
  <2>1. ~(<<j, i>> \in OpToRel(<, Nat)) /\ <<j, i>> \in Nat \X Nat
    BY <1>1
  <2>2. ~(j < i)
    BY <2>1 DEF OpToRel
  <2> QED
    BY <2>2
<1> QED
  BY <1>2 DEF Min

\* The greatest of some positions: the one with the least distance from the end.
LEMMA GreatestIs ==
  ASSUME NEW n \in Nat, NEW T \in SUBSET (0 .. n), T # {}
  PROVE  Max(T) \in T /\ \A j \in T : Max(T) >= j
<1> DEFINE D == {n - i : i \in T}
<1>1. D \in SUBSET Nat /\ D # {}
  <2>1. ASSUME NEW i \in T PROVE n - i \in Nat
    BY <2>1
  <2> QED
    BY <2>1
<1>2. Min(D) \in D /\ \A d \in D : Min(D) <= d
  BY <1>1, LeastIs
<1>3. PICK i \in T : Min(D) = n - i
  BY <1>2
<1>4. \A j \in T : n - i <= n - j
  BY <1>2, <1>3
<1>5. \A j \in T : i >= j
  BY <1>4
<1> QED
  BY <1>5 DEF Max

\* find_first_of().
LEMMA FirstOfIs ==
  ASSUME NEW str \in Seq(Char), NEW c
  PROVE  /\ FirstOf(str, c) \in 0 .. Len(str)
         /\ FirstOf(str, c) = 0 <=> ~Contains(str, c)
         /\ FirstOf(str, c) # 0 => /\ str[FirstOf(str, c)] = c
                                   /\ \A i \in 1 .. FirstOf(str, c) - 1 : str[i] # c
<1> DEFINE I == {i \in 1 .. Len(str) : str[i] = c}
<1>1. FirstOf(str, c) = IF I # {} THEN Min(I) ELSE 0
  BY DEF FirstOf, SelectInSeq
<1>2. I \in SUBSET Nat /\ Len(str) \in Nat
  OBVIOUS
<1>3. I # {} => Min(I) \in I /\ \A j \in I : Min(I) <= j
  BY <1>2, LeastIs
<1>4. CASE I = {}
  BY <1>1, <1>2, <1>4 DEF Contains
<1>5. CASE I # {}
  <2>1. FirstOf(str, c) \in I /\ \A j \in I : FirstOf(str, c) <= j
    BY <1>1, <1>3, <1>5
  <2>2. FirstOf(str, c) \in 1 .. Len(str) /\ str[FirstOf(str, c)] = c
    BY <2>1
  <2>3. ASSUME NEW i \in 1 .. FirstOf(str, c) - 1 PROVE str[i] # c
    BY <1>2, <2>1, <2>2
  <2>4. Contains(str, c)
    BY <2>2 DEF Contains
  <2> QED
    BY <1>2, <2>2, <2>3, <2>4
<1> QED
  BY <1>4, <1>5

\* find_first_not_of(" \t").
LEMMA StartIs ==
  ASSUME NEW str \in Seq(Char)
  PROVE  /\ Start(str) \in 0 .. Len(str)
         /\ Start(str) = 0 <=> \A i \in 1 .. Len(str) : str[i] = Blank
         /\ Start(str) # 0 => /\ str[Start(str)] # Blank
                              /\ \A i \in 1 .. Start(str) - 1 : str[i] = Blank
<1> DEFINE I == {i \in 1 .. Len(str) : str[i] # Blank}
<1>1. Start(str) = IF I # {} THEN Min(I) ELSE 0
  BY DEF Start, SelectInSeq
<1>2. I \in SUBSET Nat /\ Len(str) \in Nat
  OBVIOUS
<1>3. I # {} => Min(I) \in I /\ \A j \in I : Min(I) <= j
  BY <1>2, LeastIs
<1>4. CASE I = {}
  BY <1>1, <1>2, <1>4
<1>5. CASE I # {}
  <2>1. Start(str) \in I /\ \A j \in I : Start(str) <= j
    BY <1>1, <1>3, <1>5
  <2>2. Start(str) \in 1 .. Len(str) /\ str[Start(str)] # Blank
    BY <2>1
  <2>3. ASSUME NEW i \in 1 .. Start(str) - 1 PROVE str[i] = Blank
    BY <1>2, <2>1, <2>2
  <2> QED
    BY <1>2, <2>2, <2>3
<1> QED
  BY <1>4, <1>5

\* find_last_not_of(" \t").
End(str) == SelectLastInSeq(str, LAMBDA c : c # Blank)

\* What it finds, if there is anything but blanks.
LEMMA EndIs ==
  ASSUME NEW str \in Seq(Char), Start(str) # 0
  PROVE  /\ End(str) \in Start(str) .. Len(str)
         /\ str[End(str)] # Blank
         /\ \A i \in End(str) + 1 .. Len(str) : str[i] = Blank
<1> DEFINE I == {i \in 1 .. Len(str) : str[i] # Blank}
<1>1. End(str) = IF I # {} THEN Max(I) ELSE 0
  BY DEF End, SelectLastInSeq
<1>2. I \in SUBSET (0 .. Len(str)) /\ Len(str) \in Nat
  OBVIOUS
<1>3. Start(str) \in I
  BY StartIs
<1>4. Max(I) \in I /\ \A j \in I : Max(I) >= j
  BY <1>2, <1>3, GreatestIs
<1>5. End(str) \in I /\ \A j \in I : End(str) >= j
  BY <1>1, <1>3, <1>4
<1>6. ASSUME NEW i \in End(str) + 1 .. Len(str) PROVE str[i] = Blank
  BY <1>2, <1>5
<1> QED
  BY <1>2, <1>3, <1>5, <1>6

\* The positions found are the only ones like them.
LEMMA FirstOfAt ==
  ASSUME NEW str \in Seq(Char), NEW c, NEW i \in 1 .. Len(str),
         str[i] = c, \A j \in 1 .. i - 1 : str[j] # c
  PROVE  FirstOf(str, c) = i
<1>1. FirstOf(str, c) # 0
  BY FirstOfIs DEF Contains
<1> QED
  BY <1>1, FirstOfIs

LEMMA StartAt ==
  ASSUME NEW str \in Seq(Char), NEW i \in 1 .. Len(str),
         str[i] # Blank, \A j \in 1 .. i - 1 : str[j] = Blank
  PROVE  Start(str) = i
<1>1. Start(str) # 0
  BY StartIs
<1> QED
  BY <1>1, StartIs

LEMMA EndAt ==
  ASSUME NEW str \in Seq(Char), NEW i \in 1 .. Len(str),
         str[i] # Blank, \A j \in i + 1 .. Len(str) : str[j] = Blank
  PROVE  End(str) = i
<1>1. Start(str) # 0
  BY StartIs
<1> QED
  BY <1>1, EndIs, StartIs

-----------------------------------------------------------------------------
(* Parts of strings.                                                       *)

\* substr().
LEMMA PartOf ==
  ASSUME NEW str \in Seq(Char), NEW m \in Nat \ {0}, NEW n \in 0 .. Len(str)
  PROVE  /\ SubSeq(str, m, n) \in Seq(Char)
         /\ Len(SubSeq(str, m, n)) = IF m <= n THEN n - m + 1 ELSE 0
         /\ \A i \in 1 .. n - m + 1 : SubSeq(str, m, n)[i] = str[m + i - 1]
<1>1. \A i \in m .. n : str[i] \in Char
  BY ElementOfSeq
<1> QED
  BY <1>1, SubSeqProperties

\* A part has no character that the whole does not have.
LEMMA PartHas ==
  ASSUME NEW str \in Seq(Char), NEW m \in Nat \ {0}, NEW n \in 0 .. Len(str), NEW c,
         Contains(SubSeq(str, m, n), c)
  PROVE  \E i \in m .. n : str[i] = c
<1>1. PICK i \in 1 .. Len(SubSeq(str, m, n)) : SubSeq(str, m, n)[i] = c
  BY DEF Contains
<1>2. i \in 1 .. n - m + 1
  BY <1>1, PartOf
<1>3. m + i - 1 \in m .. n /\ str[m + i - 1] = c
  BY <1>1, <1>2, PartOf
<1> QED
  BY <1>3

\* l::strip_whitespace(): nothing of blanks, else from the first to the last
\* character that is none.
LEMMA StripIs ==
  ASSUME NEW str \in Seq(Char)
  PROVE  /\ StripWhitespace(str) \in Seq(Char)
         /\ Start(str) = 0 => StripWhitespace(str) = <<>>
         /\ Start(str) # 0 =>
              /\ StripWhitespace(str) = SubSeq(str, Start(str), End(str))
              /\ Len(StripWhitespace(str)) = End(str) - Start(str) + 1
              /\ StripWhitespace(str)[1] = str[Start(str)]
              /\ StripWhitespace(str) # <<>>
         /\ IsStripped(StripWhitespace(str))
<1> DEFINE s == StripWhitespace(str)
<1>1. CASE Start(str) = 0
  <2>1. s = <<>>
    BY <1>1 DEF StripWhitespace
  <2> QED
    BY <1>1, <2>1, EmptySeq DEF IsStripped
<1>2. CASE Start(str) # 0
  <2>1. s = SubSeq(str, Start(str), End(str))
    BY <1>2 DEF StripWhitespace, End
  <2>2. Start(str) \in 1 .. Len(str) /\ End(str) \in Start(str) .. Len(str)
    BY <1>2, StartIs, EndIs
  <2>3. /\ Start(str) \in Nat \ {0} /\ End(str) \in 0 .. Len(str)
        /\ Start(str) <= End(str)
    BY <2>2
  <2>4. /\ s \in Seq(Char) /\ Len(s) = End(str) - Start(str) + 1
        /\ \A i \in 1 .. Len(s) : s[i] = str[Start(str) + i - 1]
    BY <2>1, <2>3, PartOf
  <2>5. Len(s) \in 1 .. Len(s) /\ 1 \in 1 .. Len(s)
    BY <2>3, <2>4
  <2>6. s[1] = str[Start(str)] /\ s[Len(s)] = str[End(str)]
    BY <2>3, <2>4, <2>5
  <2>7. s # <<>>
    BY <2>5, EmptySeq
  <2>8. IsStripped(s)
    BY <1>2, <2>6, StartIs, EndIs DEF IsStripped, Last
  <2> QED
    BY <1>2, <2>1, <2>4, <2>6, <2>7, <2>8
<1> QED
  BY <1>1, <1>2

\* It takes characters away only.
LEMMA StripHas ==
  ASSUME NEW str \in Seq(Char), NEW c, Contains(StripWhitespace(str), c)
  PROVE  Contains(str, c)
<1>1. Start(str) # 0
  BY StripIs, EmptySeq DEF Contains
<1>2. /\ Start(str) \in Nat \ {0} /\ End(str) \in 0 .. Len(str)
      /\ StripWhitespace(str) = SubSeq(str, Start(str), End(str))
  BY <1>1, StartIs, EndIs, StripIs
<1>3. PICK m \in Nat \ {0}, n \in 0 .. Len(str) :
        StripWhitespace(str) = SubSeq(str, m, n)
  BY <1>2
<1>4. Contains(SubSeq(str, m, n), c)
  BY <1>3
<1>5. PICK i \in m .. n : str[i] = c
  BY <1>4, PartHas
<1> QED
  BY <1>5 DEF Contains

\* What is between blanks is found again.
LEMMA StripAt ==
  ASSUME NEW str \in Seq(Char), NEW s \in Seq(Char), NEW n \in Nat,
         IsStripped(s), n + Len(s) <= Len(str),
         \A i \in 1 .. Len(s) : str[n + i] = s[i],
         \A i \in 1 .. n : str[i] = Blank,
         \A i \in n + Len(s) + 1 .. Len(str) : str[i] = Blank
  PROVE  StripWhitespace(str) = s
<1>0. Len(str) \in Nat /\ Len(s) \in Nat
  OBVIOUS
<1>1. CASE s = <<>>
  <2>1. Len(s) = 0
    BY <1>1, EmptySeq
  <2>2. ASSUME NEW i \in 1 .. Len(str) PROVE str[i] = Blank
    <3>1. i \in 1 .. n \/ i \in n + Len(s) + 1 .. Len(str)
      BY <1>0, <2>1
    <3> QED
      BY <3>1
  <2>3. Start(str) = 0
    BY <2>2, StartIs
  <2> QED
    BY <1>1, <2>3, StripIs
<1>2. CASE s # <<>>
  <2>1. Len(s) >= 1 /\ s[1] # Blank /\ s[Len(s)] # Blank
    BY <1>0, <1>2, EmptySeq DEF IsStripped, Last
  <2>2. /\ n + 1 \in 1 .. Len(str) /\ n + Len(s) \in 1 .. Len(str)
        /\ 1 \in 1 .. Len(s) /\ Len(s) \in 1 .. Len(s)
    BY <1>0, <2>1
  <2>3. str[n + 1] = s[1] /\ str[n + Len(s)] = s[Len(s)]
    BY <2>2
  <2>4. \A i \in 1 .. (n + 1) - 1 : str[i] = Blank
    OBVIOUS
  <2>5. Start(str) = n + 1
    BY <2>1, <2>2, <2>3, <2>4, StartAt
  <2>6. \A i \in (n + Len(s)) + 1 .. Len(str) : str[i] = Blank
    OBVIOUS
  <2>7. End(str) = n + Len(s)
    BY <2>1, <2>2, <2>3, <2>6, EndAt
  <2>8. Start(str) # 0
    BY <2>5
  <2> DEFINE t == StripWhitespace(str)
  <2>9. t = SubSeq(str, n + 1, n + Len(s)) /\ t \in Seq(Char)
    BY <2>5, <2>7, <2>8, StripIs
  <2>10. /\ Len(t) = Len(s)
         /\ \A i \in 1 .. Len(s) : t[i] = str[n + i]
    <3>1. n + 1 \in Nat \ {0} /\ n + Len(s) \in 0 .. Len(str)
      BY <1>0, <2>2
    <3>2. /\ Len(t) = IF n + 1 <= n + Len(s) THEN (n + Len(s)) - (n + 1) + 1 ELSE 0
          /\ \A i \in 1 .. (n + Len(s)) - (n + 1) + 1 : t[i] = str[(n + 1) + i - 1]
      BY <2>9, <3>1, PartOf
    <3>3. \A i \in 1 .. Len(s) : (n + 1) + i - 1 = n + i
      BY <1>0
    <3>4. (n + Len(s)) - (n + 1) + 1 = Len(s)
      BY <1>0
    <3> QED
      BY <1>0, <2>1, <3>2, <3>3, <3>4
  <2> HIDE DEF t
  <2>11. \A i \in 1 .. Len(t) : t[i] = s[i]
    BY <2>10
  <2>12. t = s
    BY <2>9, <2>10, <2>11, SeqEqual
  <2> QED
    BY <2>12 DEF t
<1> QED
  BY <1>1, <1>2

\* l::remove_comments(): the text before the first '#', if there is one.
LEMMA CommentsGone ==
  ASSUME NEW str \in Seq(Char)
  PROVE  /\ RemoveComments(str) \in Seq(Char)
         /\ ~Contains(RemoveComments(str), Hash)
         /\ ~Contains(str, Hash) => RemoveComments(str) = str
         /\ \A c : Contains(RemoveComments(str), c) => Contains(str, c)
<1> DEFINE h == FirstOf(str, Hash)
<1>1. /\ h \in 0 .. Len(str)
      /\ h = 0 <=> ~Contains(str, Hash)
      /\ h # 0 => str[h] = Hash /\ \A i \in 1 .. h - 1 : str[i] # Hash
  BY FirstOfIs
<1>2. CASE h = 0
  BY <1>1, <1>2 DEF RemoveComments
<1>3. CASE h # 0
  <2>1. RemoveComments(str) = SubSeq(str, 1, h - 1) /\ h - 1 \in 0 .. Len(str)
    BY <1>1, <1>3 DEF RemoveComments
  <2>2. RemoveComments(str) \in Seq(Char)
    BY <2>1, PartOf
  <2>3. ASSUME NEW c, Contains(RemoveComments(str), c)
        PROVE  \E i \in 1 .. h - 1 : str[i] = c
    BY <2>1, <2>3, PartHas
  <2>4. ASSUME NEW c, Contains(RemoveComments(str), c) PROVE Contains(str, c)
    <3>1. PICK i \in 1 .. h - 1 : str[i] = c
      BY <2>3, <2>4
    <3> QED
      BY <1>1, <3>1 DEF Contains
  <2> QED
    BY <1>1, <1>3, <2>2, <2>3, <2>4
<1> QED
  BY <1>2, <1>3

-----------------------------------------------------------------------------
(* What the characters are.                                                *)

LEMMA CharactersDiffer ==
  /\ Blank # Open /\ Blank # Close /\ Blank # Hash /\ Blank # Equals
  /\ Open # Close /\ Open # Hash /\ Open # Equals
  /\ Close # Hash /\ Close # Equals /\ Hash # Equals
<1> DEFINE s == <<Blank, Open, Close, Hash, Equals>>
<1>1. \A i, j \in 1 .. 5 : i # j => s[i] # s[j]
  BY CharAssumption
<1>2. s[1] = Blank /\ s[2] = Open /\ s[3] = Close /\ s[4] = Hash /\ s[5] = Equals
  OBVIOUS
<1>3. {1, 2, 3, 4, 5} \subseteq 1 .. 5
  OBVIOUS
<1> HIDE DEF s
<1> QED
  BY <1>1, <1>2, <1>3

-----------------------------------------------------------------------------
(* What a line says.                                                       *)

Entry(k, v) == [type |-> "ENTRY", key |-> k, value |-> v]
Heading(n) == [type |-> "HEADING", name |-> n]
Nothing == {[type |-> "EMPTY"], [type |-> "UNK"]}

\* A key and a value that a line can say.  A line that begins with a '[' and has
\* a ']' is no entry.
Sayable(k, v) ==
  /\ k # <<>> /\ IsStripped(k) /\ ~Contains(k, Equals)
  /\ IsStripped(v) /\ ~Contains(v, Hash)
  /\ k[1] = Open => ~Contains(k, Close) /\ ~Contains(v, Close)

\* What can be dumped.
Dumpable(r) ==
  \/ \E k, v \in Seq(Char) : r = Entry(k, v) /\ Sayable(k, v)
  \/ \E n \in Seq(Char) : r = Heading(n) /\ ~Contains(n, Hash)

\* A line with a key before the first '=' and no heading.
LEMMA EntrySaid ==
  ASSUME NEW str \in Seq(Char), ~CheckIfHeading(str), CheckIfEntry(str)
  PROVE  Said(str) = ParseEntry(str) /\ Dumpable(ParseEntry(str))
<1> DEFINE e == FirstOf(str, Equals)
           before == SubSeq(str, 1, e - 1)
           after == SubSeq(str, e + 1, Len(str))
           k == StripWhitespace(before)
           v == StripWhitespace(RemoveComments(after))
<1>1. /\ Start(str) \in 1 .. Len(str) /\ e \in 1 .. Len(str) /\ Start(str) < e
      /\ Len(str) \in Nat
      /\ str[Start(str)] # Blank
      /\ \A i \in 1 .. e - 1 : str[i] # Equals
      /\ \A i \in 1 .. Start(str) - 1 : str[i] = Blank
  BY StartIs, FirstOfIs DEF CheckIfEntry
<1>2. Said(str) = ParseEntry(str)
  BY DEF Said, CheckRecordType
<1>3. ParseEntry(str) = Entry(k, v)
  BY DEF ParseEntry, Entry
<1>4. /\ before \in Seq(Char) /\ Len(before) = e - 1
      /\ \A i \in 1 .. e - 1 : before[i] = str[i]
  <2>1. e - 1 \in 0 .. Len(str) /\ 1 \in Nat \ {0} /\ 1 <= e - 1
    BY <1>1
  <2> QED
    BY <2>1, PartOf
<1>5. e + 1 \in Nat \ {0} /\ Len(str) \in 0 .. Len(str)
  BY <1>1
<1>6. after \in Seq(Char) /\ RemoveComments(after) \in Seq(Char)
  BY <1>5, PartOf, CommentsGone
<1>7. k \in Seq(Char) /\ IsStripped(k) /\ v \in Seq(Char) /\ IsStripped(v)
  BY <1>4, <1>6, StripIs
<1>8. ~Contains(v, Hash)
  BY <1>6, CommentsGone, StripHas
<1> HIDE DEF e, before
<1>9. ~Contains(k, Equals)
  <2>1. ~Contains(before, Equals)
    BY <1>1, <1>4 DEF Contains
  <2> QED
    BY <1>4, <2>1, StripHas
<1>10. Start(before) = Start(str)
  <2>1. Start(str) \in 1 .. Len(before)
    BY <1>1, <1>4
  <2>2. before[Start(str)] # Blank /\ \A i \in 1 .. Start(str) - 1 : before[i] = Blank
    BY <1>1, <1>4
  <2> QED
    BY <1>4, <2>1, <2>2, StartAt
<1>11. k # <<>> /\ k[1] = str[Start(str)]
  <2>1. Start(before) # 0
    BY <1>1, <1>10
  <2>2. k # <<>> /\ k[1] = before[Start(before)]
    BY <1>4, <2>1, StripIs
  <2>3. before[Start(str)] = str[Start(str)]
    BY <1>1, <1>4
  <2> QED
    BY <1>10, <2>2, <2>3
<1>12. ASSUME k[1] = Open PROVE ~Contains(k, Close) /\ ~Contains(v, Close)
  <2>1. \A i \in Start(str) .. Len(str) : str[i] # Close
    BY <1>1, <1>11, <1>12 DEF CheckIfHeading
  <2>2. \A i \in 1 .. Len(str) : str[i] # Close
    BY <1>1, <2>1, CharactersDiffer
  <2>3. ~Contains(k, Close)
    <3>1. ~Contains(before, Close)
      BY <1>1, <1>4, <2>2 DEF Contains
    <3> QED
      BY <1>4, <3>1, StripHas
  <2>4. ~Contains(after, Close)
    BY <1>1, <1>5, <2>2, PartHas
  <2>5. ~Contains(v, Close)
    BY <1>6, <2>4, StripHas, CommentsGone
  <2> QED
    BY <2>3, <2>5
<1> HIDE DEF after, k, v
<1>13. Sayable(k, v)
  BY <1>7, <1>8, <1>9, <1>11, <1>12 DEF Sayable
<1> QED
  BY <1>2, <1>3, <1>7, <1>13 DEF Dumpable

\* A line that begins with a '[' and has a ']'.
LEMMA HeadingSaid ==
  ASSUME NEW str \in Seq(Char), CheckIfHeading(str)
  PROVE  Said(str) = ParseHeading(str) /\ Dumpable(ParseHeading(str))
<1> DEFINE text == RemoveComments(str)
           s == StripWhitespace(text)
           n == SubSeq(s, 2, Len(s) - 1)
           h == FirstOf(str, Hash)
<1>1. /\ Start(str) \in 1 .. Len(str) /\ str[Start(str)] = Open /\ Len(str) \in Nat
      /\ h \in 0 .. Len(str)
      /\ h # 0 => str[h] = Hash
      /\ \A i \in 1 .. Start(str) - 1 : str[i] = Blank
  BY StartIs, FirstOfIs DEF CheckIfHeading
<1>2. Said(str) = ParseHeading(str)
  BY DEF Said, CheckRecordType
<1>3. text \in Seq(Char) /\ ~Contains(text, Hash)
  BY CommentsGone
<1>4. Start(str) \in 1 .. Len(text) /\ text[Start(str)] = Open
  <2>1. CASE h = 0
    BY <1>1, <2>1 DEF RemoveComments
  <2>2. CASE h # 0
    <3>1. Start(str) < h
      BY <1>1, <2>2, CharactersDiffer
    <3>2. text = SubSeq(str, 1, h - 1) /\ h - 1 \in 0 .. Len(str) /\ 1 <= h - 1
      BY <1>1, <2>2, <3>1 DEF RemoveComments
    <3>3. Len(text) = h - 1 /\ \A i \in 1 .. h - 1 : text[i] = str[i]
      BY <3>2, PartOf
    <3> QED
      BY <1>1, <3>1, <3>3
  <2> QED
    BY <2>1, <2>2
<1>5. Start(text) # 0
  BY <1>3, <1>4, StartIs, CharactersDiffer
<1>6. s # <<>> /\ s \in Seq(Char)
  BY <1>3, <1>5, StripIs
<1>7. Len(s) - 1 \in 0 .. Len(s) /\ 2 \in Nat \ {0}
  BY <1>6, EmptySeq
<1>8. n \in Seq(Char)
  BY <1>6, <1>7, PartOf
<1>9. ~Contains(n, Hash)
  <2> SUFFICES ASSUME Contains(n, Hash) PROVE FALSE
    OBVIOUS
  <2>1. PICK i \in 2 .. Len(s) - 1 : s[i] = Hash
    BY <1>6, <1>7, PartHas
  <2>2. Contains(s, Hash)
    BY <1>7, <2>1 DEF Contains
  <2> QED
    BY <1>3, <2>2, StripHas
<1>10. ParseHeading(str) = Heading(n)
  BY <1>6 DEF ParseHeading, Heading
<1> HIDE DEF n
<1> QED
  BY <1>2, <1>8, <1>9, <1>10 DEF Dumpable

\* Every line says an entry or a heading that can be dumped, or nothing; none
\* throws.
LEMMA SaidIs ==
  ASSUME NEW str \in Seq(Char)
  PROVE  Dumpable(Said(str)) \/ Said(str) \in Nothing
<1>1. CASE CheckIfHeading(str)
  BY <1>1, HeadingSaid
<1>2. CASE ~CheckIfHeading(str) /\ CheckIfEntry(str)
  BY <1>2, EntrySaid
<1>3. CASE ~CheckIfHeading(str) /\ ~CheckIfEntry(str)
  <2>1. CheckRecordType(str) \in {"EMPTY", "UNK"}
    BY <1>3 DEF CheckRecordType
  <2> QED
    BY <2>1 DEF Said, Nothing
<1> QED
  BY <1>1, <1>2, <1>3

-----------------------------------------------------------------------------
(* What dump_str() writes, and what is read from it.                       *)

\* Two strings, one after the other.
LEMMA Joined ==
  ASSUME NEW s \in Seq(Char), NEW t \in Seq(Char), NEW n, n = Len(s)
  PROVE  /\ s \o t \in Seq(Char) /\ Len(s \o t) = n + Len(t)
         /\ \A i \in 1 .. n : (s \o t)[i] = s[i]
         /\ \A i \in 1 .. Len(t) : (s \o t)[n + i] = t[i]
<1> DEFINE u == s \o t
<1>0. n \in Nat /\ Len(t) \in Nat
  OBVIOUS
<1>1. /\ u \in Seq(Char) /\ Len(u) = n + Len(t)
      /\ \A i \in 1 .. n + Len(t) : u[i] = IF i <= n THEN s[i] ELSE t[i - n]
  BY ConcatProperties
<1> HIDE DEF u
<1>2. ASSUME NEW i \in 1 .. n PROVE u[i] = s[i]
  BY <1>0, <1>1
<1>3. ASSUME NEW i \in 1 .. Len(t) PROVE u[n + i] = t[i]
  <2>1. n + i \in 1 .. n + Len(t) /\ ~(n + i <= n) /\ (n + i) - n = i
    BY <1>0
  <2> QED
    BY <1>1, <2>1
<1> QED
  BY <1>1, <1>2, <1>3 DEF u

\* How an entry lies in a line that is indented by m blanks.
LaidOut(d, m, k, v) ==
  LET n == Len(k) IN
  /\ d \in Seq(Char) /\ Len(d) = m + n + 3 + Len(v)
  /\ \A i \in 1 .. m : d[i] = Blank
  /\ \A i \in 1 .. n : d[m + i] = k[i]
  /\ d[m + n + 1] = Blank /\ d[m + n + 2] = Equals /\ d[m + n + 3] = Blank
  /\ \A i \in 1 .. Len(v) : d[m + n + 3 + i] = v[i]

\* An entry is written with its indentation, its key, " = " and its value.
LEMMA EntryDumped ==
  ASSUME NEW k \in Seq(Char), NEW v \in Seq(Char),
         NEW indent \in {<<>>, <<Blank, Blank>>}
  PROVE  LaidOut(Dump(Entry(k, v), indent), Len(indent), k, v)
<1> DEFINE is == <<Blank, Equals, Blank>>
           left == indent \o k
           upto == left \o is
           d == upto \o v
           m == Len(indent)
           n == Len(k)
<1>1. d = Dump(Entry(k, v), indent)
  BY DEF Dump, Entry
<1>2. Blank \in Char /\ Equals \in Char
  BY DEF Char, Special
<1>3. /\ is \in Seq(Char) /\ Len(is) = 3
      /\ is[1] = Blank /\ is[2] = Equals /\ is[3] = Blank
  BY <1>2
<1>4. /\ indent \in Seq(Char) /\ m \in Nat /\ n \in Nat /\ Len(v) \in Nat
      /\ \A i \in 1 .. m : indent[i] = Blank
  <2>1. CASE indent = <<>>
    BY <2>1, EmptySeq
  <2>2. CASE indent = <<Blank, Blank>>
    BY <1>2, <2>2
  <2> QED
    BY <2>1, <2>2
<1>5. /\ left \in Seq(Char) /\ Len(left) = m + n
      /\ \A i \in 1 .. m : left[i] = indent[i]
      /\ \A i \in 1 .. n : left[m + i] = k[i]
  BY <1>4, Joined
<1> HIDE DEF is, left, m, n
<1>6. /\ upto \in Seq(Char) /\ Len(upto) = (m + n) + Len(is)
      /\ \A i \in 1 .. m + n : upto[i] = left[i]
      /\ \A i \in 1 .. Len(is) : upto[(m + n) + i] = is[i]
  <2>0. left \in Seq(Char) /\ is \in Seq(Char)
    BY <1>3, <1>5
  <2>1. /\ upto \in Seq(Char) /\ Len(upto) = Len(left) + Len(is)
        /\ \A i \in 1 .. Len(left) : upto[i] = left[i]
        /\ \A i \in 1 .. Len(is) : upto[Len(left) + i] = is[i]
    BY <2>0, Joined
  <2> HIDE DEF upto
  <2> QED
    BY <1>5, <2>1
<1>7. Len(upto) = m + n + 3
  BY <1>3, <1>4, <1>6
<1> HIDE DEF upto
<1>8. /\ d \in Seq(Char) /\ Len(d) = (m + n + 3) + Len(v)
      /\ \A i \in 1 .. m + n + 3 : d[i] = upto[i]
      /\ \A i \in 1 .. Len(v) : d[(m + n + 3) + i] = v[i]
  BY <1>6, <1>7, Joined
<1> HIDE DEF d
<1>9. ASSUME NEW i \in 1 .. m PROVE d[i] = Blank
  <2>1. i \in 1 .. m + n /\ i \in 1 .. m + n + 3
    BY <1>4
  <2> QED
    BY <1>4, <1>5, <1>6, <1>8, <2>1
<1>10. ASSUME NEW i \in 1 .. n PROVE d[m + i] = k[i]
  <2>1. m + i \in 1 .. m + n /\ m + i \in 1 .. m + n + 3
    BY <1>4
  <2> QED
    BY <1>5, <1>6, <1>8, <2>1
<1>11. ASSUME NEW i \in 1 .. 3 PROVE d[m + n + i] = is[i]
  <2>1. m + n + i \in 1 .. m + n + 3
    BY <1>4
  <2> QED
    BY <1>3, <1>6, <1>8, <2>1
<1>12. d[m + n + 1] = Blank /\ d[m + n + 2] = Equals /\ d[m + n + 3] = Blank
  BY <1>3, <1>11
<1>13. Len(d) = m + n + 3 + Len(v)
  BY <1>4, <1>8
<1>14. LaidOut(d, m, k, v)
  BY <1>8, <1>9, <1>10, <1>12, <1>13 DEF LaidOut, n
<1> QED
  BY <1>1, <1>14 DEF m

\* It is read as the same entry.
LEMMA EntryReadBack ==
  ASSUME NEW k \in Seq(Char), NEW v \in Seq(Char), Sayable(k, v),
         NEW m \in Nat, NEW d, LaidOut(d, m, k, v)
  PROVE  Said(d) = Entry(k, v)
<1>1. PICK n : n = Len(k)
  OBVIOUS
<1>2. /\ m \in Nat /\ n \in Nat
      /\ d \in Seq(Char) /\ Len(d) = m + n + 3 + Len(v)
      /\ \A i \in 1 .. m : d[i] = Blank
      /\ \A i \in 1 .. n : d[m + i] = k[i]
      /\ d[m + n + 1] = Blank /\ d[m + n + 2] = Equals /\ d[m + n + 3] = Blank
      /\ \A i \in 1 .. Len(v) : d[m + n + 3 + i] = v[i]
  BY <1>1 DEF LaidOut
<1>3. /\ n >= 1 /\ k[1] # Blank /\ IsStripped(k) /\ IsStripped(v) /\ Len(v) \in Nat
      /\ \A i \in 1 .. n : k[i] # Equals
      /\ \A i \in 1 .. Len(v) : v[i] # Hash
  BY <1>1, EmptySeq DEF Sayable, IsStripped, Contains
\* Every place is one of these.
<1>4. ASSUME NEW i \in 1 .. Len(d)
      PROVE  \/ i \in 1 .. m
             \/ \E j \in 1 .. n : i = m + j
             \/ i \in {m + n + 1, m + n + 2, m + n + 3}
             \/ \E j \in 1 .. Len(v) : i = m + n + 3 + j
  <2>1. CASE i \in m + 1 .. m + n
    <3>1. i - m \in 1 .. n /\ i = m + (i - m)
      BY <1>2, <2>1
    <3> QED
      BY <3>1
  <2>2. CASE i \in m + n + 4 .. Len(d)
    <3>1. i - (m + n + 3) \in 1 .. Len(v) /\ i = m + n + 3 + (i - (m + n + 3))
      BY <1>2, <1>3, <2>2
    <3> QED
      BY <3>1
  <2> QED
    BY <1>2, <1>3, <2>1, <2>2
<1>5. Start(d) = m + 1
  <2>1. m + 1 \in 1 .. Len(d) /\ d[m + 1] = k[1]
    BY <1>2, <1>3
  <2>2. \A j \in 1 .. (m + 1) - 1 : d[j] = Blank
    BY <1>2
  <2> QED
    BY <1>2, <1>3, <2>1, <2>2, StartAt
<1>6. FirstOf(d, Equals) = m + n + 2
  <2>1. m + n + 2 \in 1 .. Len(d) /\ d[m + n + 2] = Equals
    BY <1>2, <1>3
  <2>2. ASSUME NEW j \in 1 .. (m + n + 2) - 1 PROVE d[j] # Equals
    <3>1. CASE j <= m \/ j = m + n + 1
      BY <1>2, <3>1, CharactersDiffer
    <3>2. CASE ~(j <= m \/ j = m + n + 1)
      <4>1. j - m \in 1 .. n /\ j = m + (j - m)
        BY <1>2, <3>2
      <4> QED
        BY <1>2, <1>3, <4>1
    <3> QED
      BY <3>1, <3>2
  <2> QED
    BY <1>2, <2>1, <2>2, FirstOfAt
<1>7. CheckIfEntry(d)
  BY <1>2, <1>3, <1>5, <1>6 DEF CheckIfEntry
<1>8. ~CheckIfHeading(d)
  <2> SUFFICES ASSUME CheckIfHeading(d) PROVE FALSE
    OBVIOUS
  <2>1. PICK i \in 1 .. Len(d) : d[i] = Close
    BY <1>2, <1>5 DEF CheckIfHeading
  <2>2. k[1] = Open
    BY <1>2, <1>3, <1>5 DEF CheckIfHeading
  <2>3. /\ \A j \in 1 .. n : k[j] # Close
        /\ \A j \in 1 .. Len(v) : v[j] # Close
    BY <1>1, <2>2 DEF Sayable, Contains
  <2> QED
    BY <1>2, <1>4, <2>1, <2>3, CharactersDiffer
<1>9. Said(d) = ParseEntry(d)
  BY <1>2, <1>7, <1>8, EntrySaid
<1> DEFINE before == SubSeq(d, 1, m + n + 1)
           after == SubSeq(d, m + n + 3, Len(d))
<1>10. /\ (m + n + 2) - 1 = m + n + 1 /\ (m + n + 2) + 1 = m + n + 3
  BY <1>2
<1>11. ParseEntry(d) = Entry(StripWhitespace(before), StripWhitespace(RemoveComments(after)))
  BY <1>6, <1>10 DEF ParseEntry, Entry
<1>12. /\ before \in Seq(Char) /\ Len(before) = m + n + 1
       /\ \A i \in 1 .. m + n + 1 : before[i] = d[i]
  <2>1. /\ 1 \in Nat \ {0} /\ m + n + 1 \in 0 .. Len(d) /\ 1 <= m + n + 1
        /\ (m + n + 1) - 1 + 1 = m + n + 1
        /\ \A i \in 1 .. m + n + 1 : 1 + i - 1 = i
    BY <1>2, <1>3
  <2> QED
    BY <1>2, <2>1, PartOf
<1>13. /\ after \in Seq(Char) /\ Len(after) = Len(v) + 1
       /\ after[1] = Blank /\ \A i \in 1 .. Len(v) : after[1 + i] = v[i]
  <2>1. /\ m + n + 3 \in Nat \ {0} /\ Len(d) \in 0 .. Len(d) /\ m + n + 3 <= Len(d)
        /\ Len(d) - (m + n + 3) + 1 = Len(v) + 1
    BY <1>2, <1>3
  <2>2. /\ after \in Seq(Char) /\ Len(after) = Len(v) + 1
        /\ \A i \in 1 .. Len(v) + 1 : after[i] = d[(m + n + 3) + i - 1]
    BY <1>2, <2>1, PartOf
  <2> HIDE DEF after
  <2>3. after[1] = Blank
    <3>1. 1 \in 1 .. Len(v) + 1 /\ (m + n + 3) + 1 - 1 = m + n + 3
      BY <1>2, <1>3
    <3> QED
      BY <1>2, <2>2, <3>1, Zenon
  <2>4. ASSUME NEW i \in 1 .. Len(v) PROVE after[1 + i] = v[i]
    <3>1. 1 + i \in 1 .. Len(v) + 1 /\ (m + n + 3) + (1 + i) - 1 = m + n + 3 + i
      BY <1>2, <1>3
    <3> QED
      BY <1>2, <2>2, <3>1
  <2> QED
    BY <2>2, <2>3, <2>4
<1> HIDE DEF before, after
<1>14. StripWhitespace(before) = k
  <2>1. m + Len(k) <= Len(before)
    BY <1>1, <1>2, <1>12
  <2>2. ASSUME NEW i \in 1 .. Len(k) PROVE before[m + i] = k[i]
    BY <1>1, <1>2, <1>12
  <2>3. \A i \in 1 .. m : before[i] = Blank
    BY <1>2, <1>12
  <2>4. ASSUME NEW i \in m + Len(k) + 1 .. Len(before) PROVE before[i] = Blank
    BY <1>1, <1>2, <1>12
  <2> QED
    BY <1>2, <1>3, <1>12, <2>1, <2>2, <2>3, <2>4, StripAt
<1>15. RemoveComments(after) = after
  <2>1. ASSUME NEW i \in 1 .. Len(after) PROVE after[i] # Hash
    <3>1. CASE i = 1
      BY <1>13, <3>1, CharactersDiffer
    <3>2. CASE i # 1
      <4>1. i - 1 \in 1 .. Len(v) /\ i = 1 + (i - 1)
        BY <1>3, <1>13, <3>2
      <4> QED
        BY <1>3, <1>13, <4>1
    <3> QED
      BY <3>1, <3>2
  <2> QED
    BY <1>13, <2>1, CommentsGone DEF Contains
<1>16. StripWhitespace(after) = v
  <2>1. /\ 1 \in Nat /\ 1 + Len(v) <= Len(after)
        /\ \A i \in 1 .. 1 : after[i] = Blank
        /\ \A i \in 1 + Len(v) + 1 .. Len(after) : after[i] = Blank
    BY <1>3, <1>13
  <2> QED
    BY <1>3, <1>13, <2>1, StripAt
<1> QED
  BY <1>2, <1>9, <1>11, <1>14, <1>15, <1>16

\* A heading is written between brackets, and read as the same heading.
LEMMA HeadingReadBack ==
  ASSUME NEW n \in Seq(Char), ~Contains(n, Hash), NEW indent,
         NEW d, d = Dump(Heading(n), indent)
  PROVE  d \in Seq(Char) /\ Said(d) = Heading(n)
<1> DEFINE left == <<Open>> \o n
<1>1. d = left \o <<Close>>
  BY DEF Dump, Heading
<1>2. /\ <<Open>> \in Seq(Char) /\ Len(<<Open>>) = 1 /\ <<Open>>[1] = Open
      /\ <<Close>> \in Seq(Char) /\ Len(<<Close>>) = 1 /\ <<Close>>[1] = Close
      /\ Len(n) \in Nat
  BY DEF Char, Special
<1>3. /\ left \in Seq(Char) /\ Len(left) = 1 + Len(n)
      /\ left[1] = Open
      /\ \A i \in 1 .. Len(n) : left[1 + i] = n[i]
  <2>1. /\ left \in Seq(Char) /\ Len(left) = 1 + Len(n)
        /\ \A i \in 1 .. 1 : left[i] = <<Open>>[i]
        /\ \A i \in 1 .. Len(n) : left[1 + i] = n[i]
    BY <1>2, Joined
  <2> HIDE DEF left
  <2> QED
    BY <1>2, <2>1
<1> HIDE DEF left
<1>4. /\ d \in Seq(Char) /\ Len(d) = (1 + Len(n)) + 1
      /\ \A i \in 1 .. 1 + Len(n) : d[i] = left[i]
      /\ \A i \in 1 .. 1 : d[(1 + Len(n)) + i] = <<Close>>[i]
  BY <1>1, <1>2, <1>3, Joined
<1>5. /\ Len(d) = Len(n) + 2 /\ d[1] = Open /\ d[Len(d)] = Close
      /\ \A i \in 1 .. Len(n) : d[1 + i] = n[i]
  <2>1. Len(d) = Len(n) + 2 /\ Len(d) = (1 + Len(n)) + 1
    BY <1>2, <1>4
  <2>2. d[1] = Open
    BY <1>2, <1>3, <1>4
  <2>3. d[Len(d)] = Close
    BY <1>2, <1>4, <2>1
  <2>4. ASSUME NEW i \in 1 .. Len(n) PROVE d[1 + i] = n[i]
    <3>1. 1 + i \in 1 .. 1 + Len(n)
      BY <1>2
    <3> QED
      BY <1>3, <1>4, <3>1
  <2> QED
    BY <2>1, <2>2, <2>3, <2>4
<1>6. CheckIfHeading(d)
  <2>1. Start(d) = 1
    BY <1>2, <1>4, <1>5, StartAt, CharactersDiffer
  <2>2. Len(d) \in Start(d) .. Len(d)
    BY <1>2, <1>5, <2>1
  <2> QED
    BY <1>5, <2>1, <2>2 DEF CheckIfHeading
<1>7. Said(d) = ParseHeading(d)
  BY <1>4, <1>6, HeadingSaid
<1>8. RemoveComments(d) = d
  <2>1. ASSUME NEW i \in 1 .. Len(d) PROVE d[i] # Hash
    <3>1. CASE i = 1 \/ i = Len(d)
      BY <1>5, <3>1, CharactersDiffer
    <3>2. CASE i # 1 /\ i # Len(d)
      <4>1. i - 1 \in 1 .. Len(n) /\ i = 1 + (i - 1)
        BY <1>2, <1>5, <3>2
      <4>2. n[i - 1] # Hash
        BY <4>1 DEF Contains
      <4> QED
        BY <1>5, <4>1, <4>2
    <3> QED
      BY <3>1, <3>2
  <2> QED
    BY <1>4, <2>1, CommentsGone DEF Contains
<1>9. StripWhitespace(d) = d
  <2>1. IsStripped(d)
    BY <1>5, CharactersDiffer DEF IsStripped, Last
  <2>2. /\ 0 \in Nat /\ 0 + Len(d) <= Len(d)
        /\ \A i \in 1 .. Len(d) : d[0 + i] = d[i]
        /\ \A i \in 1 .. 0 : d[i] = Blank
        /\ \A i \in 0 + Len(d) + 1 .. Len(d) : d[i] = Blank
    BY <1>2, <1>5
  <2> QED
    BY <1>4, <2>1, <2>2, StripAt
<1>10. d # <<>>
  BY <1>2, <1>5, EmptySeq
<1>11. SubSeq(d, 2, Len(d) - 1) = n
  <2> DEFINE name == SubSeq(d, 2, Len(d) - 1)
  <2>1. /\ 2 \in Nat \ {0} /\ Len(d) - 1 \in 0 .. Len(d)
        /\ (Len(d) - 1) - 2 + 1 = Len(n)
        /\ 2 <= Len(d) - 1 <=> Len(n) # 0
    BY <1>2, <1>5
  <2>2. /\ name \in Seq(Char)
        /\ Len(name) = IF 2 <= Len(d) - 1 THEN (Len(d) - 1) - 2 + 1 ELSE 0
        /\ \A i \in 1 .. (Len(d) - 1) - 2 + 1 : name[i] = d[2 + i - 1]
    BY <1>4, <2>1, PartOf
  <2> HIDE DEF name
  <2>3. Len(name) = Len(n)
    BY <2>1, <2>2
  <2>4. ASSUME NEW i \in 1 .. Len(name) PROVE name[i] = n[i]
    <3>1. 2 + i - 1 = 1 + i /\ i \in 1 .. Len(n)
      BY <1>2, <2>3
    <3> QED
      BY <1>5, <2>1, <2>2, <3>1
  <2>5. name = n
    BY <2>2, <2>3, <2>4, SeqEqual
  <2> QED
    BY <2>5 DEF name
<1>12. ParseHeading(d) = Heading(n)
  BY <1>8, <1>9, <1>10, <1>11 DEF ParseHeading, Heading
<1> QED
  BY <1>4, <1>7, <1>12

\* Whatever can be dumped is read back.
LEMMA ReadBack ==
  ASSUME NEW r, Dumpable(r), NEW indent \in {<<>>, <<Blank, Blank>>}
  PROVE  Dump(r, indent) \in Seq(Char) /\ Said(Dump(r, indent)) = r
<1> DEFINE d == Dump(r, indent)
<1>1. ASSUME NEW k \in Seq(Char), NEW v \in Seq(Char), r = Entry(k, v), Sayable(k, v)
      PROVE  d \in Seq(Char) /\ Said(d) = r
  <2>1. LaidOut(d, Len(indent), k, v)
    BY <1>1, EntryDumped
  <2>2. Len(indent) \in Nat
    <3>1. CASE indent = <<>>
      BY <3>1, EmptySeq
    <3>2. CASE indent = <<Blank, Blank>>
      BY <3>2
    <3> QED
      BY <3>1, <3>2
  <2> HIDE DEF d
  <2> QED
    BY <1>1, <2>1, <2>2, EntryReadBack DEF LaidOut
<1>2. ASSUME NEW n \in Seq(Char), r = Heading(n), ~Contains(n, Hash)
      PROVE  d \in Seq(Char) /\ Said(d) = r
  BY <1>2, HeadingReadBack
<1> QED
  BY <1>1, <1>2 DEF Dumpable

-----------------------------------------------------------------------------
(* The specification.                                                      *)

\* Inductive: what a line said can be dumped, and what was dumped is what the
\* line says, before it is read and after.
ReadInv ==
  /\ line \in Seq(Char)
  /\ record = Unread \/ record \in Nothing \/ Dumpable(record)
  /\ dumped = Unread \/ Dumpable(dumped)
  /\ dumped # Unread => \/ record = Unread /\ Said(line) = dumped
                        \/ record = dumped

\* Initially.
LEMMA ReadInit == Init => ReadInv
<1> SUFFICES ASSUME Init PROVE line \in Seq(Char)
  BY DEF Init, ReadInv
<1>1. PICK m \in 0 .. MaxLength : line \in [1 .. m -> Char]
  BY DEF Init, BoundedSeq, SeqOf
<1>2. m \in Nat
  BY <1>1, CharAssumption
<1> QED
  BY <1>1, <1>2, SeqDef

\* What can be dumped is a record of a type of its own.
LEMMA DumpableType ==
  ASSUME NEW r, Dumpable(r)
  PROVE  r.type \in {"ENTRY", "HEADING"}
BY DEF Dumpable, Entry, Heading

\* Every step.
LEMMA ReadNext == ReadInv /\ [Next]_vars => ReadInv'
<1> SUFFICES ASSUME ReadInv, [Next]_vars PROVE ReadInv'
  OBVIOUS
<1>0. \A r \in Nothing \cup {Unread} : r.type \notin {"ENTRY", "HEADING"}
  BY DEF Nothing, Unread
<1>1. CASE ReadLine
  <2>1. /\ record = Unread /\ record' = Said(line)
        /\ line' = line /\ dumped' = dumped
    BY <1>1 DEF ReadLine
  <2>2. Dumpable(Said(line)) \/ Said(line) \in Nothing
    BY SaidIs DEF ReadInv
  <2>3. dumped # Unread => dumped # record
    BY <2>1
  <2> QED
    BY <2>1, <2>2, <2>3 DEF ReadInv
<1>2. CASE DumpStr
  <2>1. PICK indent \in {<<>>, <<Blank, Blank>>} : line' = Dump(record, indent)
    BY <1>2 DEF DumpStr
  <2>2. /\ record.type \in {"ENTRY", "HEADING"}
        /\ dumped' = record /\ record' = Unread
    BY <1>2 DEF DumpStr
  <2>3. Dumpable(record)
    BY <1>0, <2>2 DEF ReadInv
  <2>4. line' \in Seq(Char) /\ Said(line') = record
    BY <2>1, <2>3, ReadBack
  <2> QED
    BY <2>2, <2>3, <2>4 DEF ReadInv
<1>3. CASE UNCHANGED vars
  BY <1>3 DEF vars, ReadInv
<1> QED
  BY <1>1, <1>2, <1>3 DEF Next

\* What a line said and what was dumped of it stay in step.
THEOREM ReadInvariance == Spec => []ReadInv
<1>1. Init => ReadInv
  BY ReadInit
<1>2. ReadInv /\ [Next]_vars => ReadInv'
  BY ReadNext
<1> QED
  BY <1>1, <1>2, PTL DEF Spec

\* No line makes parse_heading() throw, and keys, values and names are clean.
THEOREM TypeCorrect == Spec => []TypeOK
<1>1. ASSUME NEW r, r = Unread \/ r \in Nothing \/ Dumpable(r)
      PROVE  CASE r.type = "ENTRY" ->
                    /\ r.key # <<>> /\ IsStripped(r.key) /\ ~Contains(r.key, Equals)
                    /\ IsStripped(r.value) /\ ~Contains(r.value, Hash)
               [] r.type = "HEADING" -> ~Contains(r.name, Hash)
               [] OTHER -> r.type \in {"unread", "EMPTY", "UNK"}
  <2>1. CASE r = Unread \/ r \in Nothing
    BY <2>1 DEF Unread, Nothing
  <2>2. CASE Dumpable(r)
    <3>1. CASE \E k, v \in Seq(Char) : r = Entry(k, v) /\ Sayable(k, v)
      BY <3>1 DEF Entry, Sayable
    <3>2. CASE \E n \in Seq(Char) : r = Heading(n) /\ ~Contains(n, Hash)
      BY <3>2 DEF Heading
    <3> QED
      BY <2>2, <3>1, <3>2 DEF Dumpable
  <2> QED
    BY <1>1, <2>1, <2>2
<1>2. ReadInv => TypeOK
  BY <1>1 DEF ReadInv, TypeOK
<1> QED
  BY <1>2, ReadInvariance, PTL

\* What dump_str() writes of a record is read as the same record.
THEOREM RoundTripCorrect == Spec => []RoundTrip
<1>1. ReadInv => RoundTrip
  BY DEF ReadInv, RoundTrip
<1> QED
  BY <1>1, ReadInvariance, PTL

-----------------------------------------------------------------------------
(* Comments.                                                               *)

\* A line without its comment, position by position.
LEMMA CommentCut ==
  ASSUME NEW str \in Seq(Char), NEW h, h = FirstOf(str, Hash), h # 0,
         NEW text, text = RemoveComments(str)
  PROVE  /\ h \in 1 .. Len(str) /\ str[h] = Hash /\ Len(str) \in Nat
         /\ text \in Seq(Char) /\ Len(text) = h - 1
         /\ \A i \in 1 .. h - 1 : text[i] = str[i] /\ str[i] # Hash
<1>1. /\ h \in 1 .. Len(str) /\ str[h] = Hash /\ Len(str) \in Nat
      /\ \A i \in 1 .. h - 1 : str[i] # Hash
  BY FirstOfIs
<1>2. text = SubSeq(str, 1, h - 1)
  BY DEF RemoveComments
<1>3. 1 \in Nat \ {0} /\ h - 1 \in 0 .. Len(str)
  BY <1>1
<1>4. /\ text \in Seq(Char)
      /\ Len(text) = IF 1 <= h - 1 THEN (h - 1) - 1 + 1 ELSE 0
      /\ \A i \in 1 .. (h - 1) - 1 + 1 : text[i] = str[1 + i - 1]
  BY <1>2, <1>3, PartOf
<1>5. Len(text) = h - 1
  BY <1>1, <1>4
<1>6. ASSUME NEW i \in 1 .. h - 1 PROVE text[i] = str[i]
  <2>1. i \in 1 .. (h - 1) - 1 + 1 /\ 1 + i - 1 = i
    BY <1>1
  <2> QED
    BY <1>4, <2>1
<1> QED
  BY <1>1, <1>4, <1>5, <1>6

\* The first character looked for is found where it was found in the line, unless
\* the comment has the only one.
LEMMA FoundBefore ==
  ASSUME NEW str \in Seq(Char), NEW c, c # Hash,
         Contains(str, c) => Contains(RemoveComments(str), c)
  PROVE  FirstOf(RemoveComments(str), c) = FirstOf(str, c)
<1> DEFINE text == RemoveComments(str)
           h == FirstOf(str, Hash)
<1>0. text \in Seq(Char) /\ \A d : Contains(text, d) => Contains(str, d)
  BY CommentsGone
<1>1. CASE h = 0
  BY <1>1 DEF RemoveComments
<1>2. CASE h # 0 /\ Contains(str, c)
  <2>1. /\ h \in 1 .. Len(str) /\ Len(text) = h - 1
        /\ \A i \in 1 .. h - 1 : text[i] = str[i]
    BY <1>2, CommentCut
  <2> DEFINE i == FirstOf(text, c)
  <2>2. i \in 1 .. Len(text) /\ text[i] = c /\ \A j \in 1 .. i - 1 : text[j] # c
    BY <1>0, <1>2, FirstOfIs
  <2> HIDE DEF i, text, h
  <2>3. i \in 1 .. Len(str) /\ str[i] = c /\ \A j \in 1 .. i - 1 : str[j] # c
    BY <2>1, <2>2
  <2>4. FirstOf(str, c) = i
    BY <2>3, FirstOfAt
  <2> QED
    BY <2>4 DEF i, text
<1>3. CASE ~Contains(str, c)
  <2>1. FirstOf(str, c) = 0
    BY <1>3, FirstOfIs
  <2>2. FirstOf(text, c) = 0
    BY <1>0, <1>3, FirstOfIs
  <2> QED
    BY <2>1, <2>2
<1> QED
  BY <1>1, <1>2, <1>3

\* A line that begins before its comment begins there without it, too; one that is
\* all comment has nothing left.
LEMMA StartBefore ==
  ASSUME NEW str \in Seq(Char), FirstOf(str, Hash) # 0
  PROVE  \/ /\ Start(str) \in 1 .. FirstOf(str, Hash) - 1
            /\ Start(RemoveComments(str)) = Start(str)
            /\ RemoveComments(str)[Start(str)] = str[Start(str)]
         \/ /\ Start(str) # 0 /\ str[Start(str)] = Hash
            /\ Start(RemoveComments(str)) = 0
<1> DEFINE text == RemoveComments(str)
           h == FirstOf(str, Hash)
           a == Start(str)
<1>1. /\ h \in 1 .. Len(str) /\ str[h] = Hash /\ Len(str) \in Nat
      /\ text \in Seq(Char) /\ Len(text) = h - 1
      /\ \A i \in 1 .. h - 1 : text[i] = str[i]
  BY CommentCut
<1>2. str[h] # Blank
  BY <1>1, CharactersDiffer
<1>3. a \in 1 .. Len(str) /\ str[a] # Blank /\ \A i \in 1 .. a - 1 : str[i] = Blank
  BY <1>1, <1>2, StartIs
<1> HIDE DEF text, h, a
<1>4. a <= h
  BY <1>1, <1>2, <1>3
<1>5. CASE a < h
  <2>1. /\ a \in 1 .. Len(text) /\ text[a] # Blank
        /\ \A i \in 1 .. a - 1 : text[i] = Blank
    BY <1>1, <1>3, <1>5
  <2>2. Start(text) = a
    BY <1>1, <2>1, StartAt
  <2> QED
    BY <1>1, <1>3, <1>5, <2>2 DEF text, h, a
<1>6. CASE a = h
  <2>1. \A i \in 1 .. Len(text) : text[i] = Blank
    BY <1>1, <1>3, <1>6
  <2>2. Start(text) = 0
    BY <1>1, <2>1, StartIs
  <2> QED
    BY <1>1, <1>3, <1>6, <2>2 DEF text, h, a
<1> QED
  BY <1>1, <1>3, <1>4, <1>5, <1>6

\* The value after the first '=' is the same with and without the comment.
LEMMA ValueBefore ==
  ASSUME NEW str \in Seq(Char), FirstOf(str, Hash) # 0,
         NEW e \in 1 .. FirstOf(str, Hash) - 1,
         NEW text, text = RemoveComments(str)
  PROVE  /\ SubSeq(str, 1, e - 1) = SubSeq(text, 1, e - 1)
         /\ RemoveComments(SubSeq(str, e + 1, Len(str)))
              = RemoveComments(SubSeq(text, e + 1, Len(text)))
<1> DEFINE h == FirstOf(str, Hash)
           after == SubSeq(str, e + 1, Len(str))
           short == SubSeq(text, e + 1, Len(text))
<1>1. /\ h \in 1 .. Len(str) /\ str[h] = Hash /\ Len(str) \in Nat
      /\ text \in Seq(Char) /\ Len(text) = h - 1
      /\ \A i \in 1 .. h - 1 : text[i] = str[i] /\ str[i] # Hash
  BY CommentCut
<1>2. e \in 1 .. h - 1
  OBVIOUS
<1> HIDE DEF h
<1>3. SubSeq(str, 1, e - 1) = SubSeq(text, 1, e - 1)
  <2> DEFINE s == SubSeq(str, 1, e - 1)
             t == SubSeq(text, 1, e - 1)
  <2>1. /\ 1 \in Nat \ {0} /\ e - 1 \in 0 .. Len(str) /\ e - 1 \in 0 .. Len(text)
        /\ (e - 1) - 1 + 1 = e - 1 /\ e \in Nat
    BY <1>1, <1>2
  <2>2. /\ s \in Seq(Char) /\ Len(s) = IF 1 <= e - 1 THEN (e - 1) - 1 + 1 ELSE 0
        /\ \A i \in 1 .. (e - 1) - 1 + 1 : s[i] = str[1 + i - 1]
    BY <2>1, PartOf
  <2>3. /\ t \in Seq(Char) /\ Len(t) = IF 1 <= e - 1 THEN (e - 1) - 1 + 1 ELSE 0
        /\ \A i \in 1 .. (e - 1) - 1 + 1 : t[i] = text[1 + i - 1]
    BY <1>1, <2>1, PartOf
  <2> HIDE DEF s, t
  <2>4. Len(s) = Len(t)
    BY <2>2, <2>3
  <2>5. ASSUME NEW i \in 1 .. Len(s) PROVE s[i] = t[i]
    <3>1. i \in 1 .. e - 1 /\ 1 + i - 1 = i /\ i \in 1 .. h - 1
      BY <1>1, <1>2, <2>1, <2>2
    <3> QED
      BY <1>1, <2>1, <2>2, <2>3, <3>1
  <2>6. s = t
    BY <2>2, <2>3, <2>4, <2>5, SeqEqual
  <2> QED
    BY <2>6 DEF s, t
<1>4. /\ after \in Seq(Char) /\ Len(after) = Len(str) - e
      /\ \A i \in 1 .. Len(str) - e : after[i] = str[e + i]
  <2>1. /\ e + 1 \in Nat \ {0} /\ Len(str) \in 0 .. Len(str) /\ e + 1 <= Len(str)
        /\ Len(str) - (e + 1) + 1 = Len(str) - e
        /\ \A i \in 1 .. Len(str) - e : (e + 1) + i - 1 = e + i
    BY <1>1, <1>2
  <2>2. /\ after \in Seq(Char)
        /\ Len(after) = IF e + 1 <= Len(str) THEN Len(str) - (e + 1) + 1 ELSE 0
        /\ \A i \in 1 .. Len(str) - (e + 1) + 1 : after[i] = str[(e + 1) + i - 1]
    BY <2>1, PartOf
  <2> QED
    BY <2>1, <2>2
<1>5. /\ short \in Seq(Char) /\ Len(short) = (h - 1) - e
      /\ \A i \in 1 .. (h - 1) - e : short[i] = str[e + i] /\ str[e + i] # Hash
  <2>1. /\ e + 1 \in Nat \ {0} /\ Len(text) \in 0 .. Len(text)
        /\ Len(text) - (e + 1) + 1 = (h - 1) - e
        /\ e + 1 <= Len(text) \/ (h - 1) - e = 0
    BY <1>1, <1>2
  <2>2. /\ short \in Seq(Char)
        /\ Len(short) = IF e + 1 <= Len(text) THEN Len(text) - (e + 1) + 1 ELSE 0
        /\ \A i \in 1 .. Len(text) - (e + 1) + 1 : short[i] = text[(e + 1) + i - 1]
    BY <1>1, <2>1, PartOf
  <2> HIDE DEF short
  <2>3. Len(short) = (h - 1) - e
    BY <1>1, <1>2, <2>1, <2>2
  <2>4. ASSUME NEW i \in 1 .. (h - 1) - e
        PROVE  short[i] = str[e + i] /\ str[e + i] # Hash
    <3>1. (e + 1) + i - 1 = e + i /\ e + i \in 1 .. h - 1
      BY <1>1, <1>2
    <3> QED
      BY <1>1, <2>1, <2>2, <3>1
  <2> QED
    BY <2>2, <2>3, <2>4
<1> HIDE DEF after, short
<1>6. FirstOf(after, Hash) = h - e
  <2>1. h - e \in 1 .. Len(after) /\ after[h - e] = Hash
    BY <1>1, <1>2, <1>4
  <2>2. ASSUME NEW j \in 1 .. (h - e) - 1 PROVE after[j] # Hash
    <3>1. e + j \in 1 .. h - 1 /\ j \in 1 .. Len(str) - e
      BY <1>1, <1>2
    <3> QED
      BY <1>1, <1>4, <3>1
  <2> QED
    BY <1>4, <2>1, <2>2, FirstOfAt
<1>7. RemoveComments(short) = short
  BY <1>5, CommentsGone DEF Contains
<1>8. RemoveComments(after) = short
  <2>1. PICK t : t = RemoveComments(after)
    OBVIOUS
  <2>2. h - e # 0
    BY <1>1, <1>2
  <2>3. /\ t \in Seq(Char) /\ Len(t) = (h - e) - 1
        /\ \A i \in 1 .. (h - e) - 1 : t[i] = after[i]
    BY <1>4, <1>6, <2>1, <2>2, CommentCut
  <2>4. Len(t) = Len(short)
    BY <1>1, <1>2, <1>5, <2>3
  <2>5. ASSUME NEW i \in 1 .. Len(t) PROVE t[i] = short[i]
    <3>1. i \in 1 .. (h - e) - 1 /\ i \in 1 .. Len(str) - e /\ i \in 1 .. (h - 1) - e
      BY <1>1, <1>2, <2>3
    <3> QED
      BY <1>4, <1>5, <2>3, <3>1
  <2>6. t = short
    BY <1>5, <2>3, <2>4, <2>5, SeqEqual
  <2> QED
    BY <2>1, <2>6
<1> QED
  BY <1>3, <1>7, <1>8 DEF after, short

\* A comment hides what it holds, with the exceptions that CommentHides names.
LEMMA SaidWithout ==
  ASSUME NEW str \in Seq(Char), NEW text, text = RemoveComments(str),
         Contains(str, Equals) => Contains(text, Equals),
         Start(str) # 0 /\ str[Start(str)] = Open /\ Contains(str, Close)
           => Contains(text, Close)
  PROVE  Said(str) = Said(text)
<1> DEFINE h == FirstOf(str, Hash)
<1>1. CASE h = 0
  BY <1>1 DEF RemoveComments
<1>2. CASE h # 0
  <2>1. /\ h \in 1 .. Len(str) /\ Len(str) \in Nat
        /\ text \in Seq(Char) /\ Len(text) = h - 1
        /\ \A i \in 1 .. h - 1 : text[i] = str[i]
    BY <1>2, CommentCut
  <2>2. FirstOf(text, Equals) = FirstOf(str, Equals)
    BY FoundBefore, CharactersDiffer
  <2>3. FirstOf(text, Equals) \in 0 .. h - 1
    BY <2>1, FirstOfIs
  <2>4. RemoveComments(text) = text
    BY CommentsGone
  <2>5. CASE Start(str) # 0 /\ str[Start(str)] = Hash /\ Start(text) = 0
    <3>1. FirstOf(str, Equals) = 0
      <4>1. ~Contains(text, Equals)
        BY <2>1, <2>5, StartIs, CharactersDiffer DEF Contains
      <4> QED
        BY <4>1, FirstOfIs
    <3>2. ~CheckIfHeading(str) /\ ~CheckIfHeading(text)
      BY <2>5, CharactersDiffer DEF CheckIfHeading
    <3>3. ~CheckIfEntry(str) /\ ~CheckIfEntry(text)
      <4>1. Start(str) \in Nat
        BY StartIs
      <4> QED
        BY <2>5, <3>1, <4>1 DEF CheckIfEntry
    <3>4. CheckRecordType(str) = "EMPTY" /\ CheckRecordType(text) = "EMPTY"
      BY <2>5, <3>2, <3>3 DEF CheckRecordType
    <3> QED
      BY <3>4 DEF Said
  <2>6. CASE /\ Start(str) \in 1 .. h - 1 /\ Start(text) = Start(str)
             /\ text[Start(str)] = str[Start(str)]
    <3>1. CheckIfHeading(text) <=> CheckIfHeading(str)
      <4>1. ASSUME CheckIfHeading(text) PROVE CheckIfHeading(str)
        <5>1. PICK i \in Start(text) .. Len(text) : text[i] = Close
          BY <4>1 DEF CheckIfHeading
        <5>2. i \in Start(str) .. Len(str) /\ str[i] = Close
          BY <2>1, <2>6, <5>1
        <5> QED
          BY <2>6, <4>1, <5>2 DEF CheckIfHeading
      <4>2. ASSUME CheckIfHeading(str) PROVE CheckIfHeading(text)
        <5>1. Contains(str, Close)
          BY <2>1, <2>6, <4>2 DEF CheckIfHeading, Contains
        <5>2. PICK i \in 1 .. Len(text) : text[i] = Close
          BY <4>2, <5>1 DEF CheckIfHeading, Contains
        <5>3. i \in Start(text) .. Len(text)
          <6>1. \A j \in 1 .. Start(text) - 1 : text[j] = Blank
            BY <2>1, <2>6, StartIs
          <6> QED
            BY <2>1, <2>6, <5>2, <6>1, CharactersDiffer
        <5> QED
          BY <2>6, <4>2, <5>2, <5>3 DEF CheckIfHeading
      <4> QED
        BY <4>1, <4>2
    <3>2. CheckIfEntry(text) <=> CheckIfEntry(str)
      BY <2>2, <2>6 DEF CheckIfEntry
    <3>3. CheckRecordType(text) = CheckRecordType(str)
      BY <2>6, <3>1, <3>2, Zenon DEF CheckRecordType
    <3>4. ParseHeading(text) = ParseHeading(str)
      BY <2>4 DEF ParseHeading
    <3>5. CASE CheckRecordType(str) = "ENTRY"
      <4>1. CheckIfEntry(str)
        BY <3>5 DEF CheckRecordType
      <4>2. FirstOf(str, Equals) \in 1 .. h - 1
        BY <2>1, <2>2, <2>3, <2>6, <4>1 DEF CheckIfEntry
      <4>3. ParseEntry(text) = ParseEntry(str)
        <5>1. PICK e \in 1 .. h - 1 : e = FirstOf(str, Equals)
          BY <4>2
        <5>2. /\ SubSeq(str, 1, e - 1) = SubSeq(text, 1, e - 1)
              /\ RemoveComments(SubSeq(str, e + 1, Len(str)))
                   = RemoveComments(SubSeq(text, e + 1, Len(text)))
          BY <1>2, ValueBefore
        <5>3. FirstOf(text, Equals) = e
          BY <2>2, <5>1
        <5> QED
          BY <5>1, <5>2, <5>3, Zenon DEF ParseEntry
      <4> QED
        BY <3>3, <3>5, <4>3 DEF Said
    <3>6. CASE CheckRecordType(str) # "ENTRY"
      BY <3>3, <3>4, <3>6 DEF Said
    <3> QED
      BY <3>5, <3>6
  <2> QED
    BY <1>2, <2>5, <2>6, StartBefore
<1> QED
  BY <1>1, <1>2

\* A comment changes nothing of what a line says, but for the two exceptions.
THEOREM CommentHidden == Spec => []CommentHides
<1>1. ReadInv => CommentHides
  <2> SUFFICES ASSUME ReadInv PROVE CommentHides
    OBVIOUS
  <2>1. line \in Seq(Char)
    BY DEF ReadInv
  <2> QED
    BY <2>1, SaidWithout DEF CommentHides
<1> QED
  BY <1>1, ReadInvariance, PTL
=============================================================================
