-------------------------- MODULE ConfigParserProofs --------------------------
(***************************************************************************)
(* Theorems about ConfigParser for any file, any keys, section names and    *)
(* texts, and any sequence of calls.                                       *)
(***************************************************************************)
EXTENDS ConfigParser, TLAPS, SequenceTheorems, FiniteSetTheorems

\* Where the pointer and the guard stand; a freed map comes from the file, a
\* null one from an exception that escaped.
PointerInv ==
  /\ TypeOK
  /\ Settled
  /\ guard # NoName => guarded /\ escaped = "none"
  /\ guarded => guard # NoName \/ escaped = "guard"
  /\ phase = "parsing" =>
       escaped = "none" /\ ~guarded /\ guard = NoName /\ current = NoName
  /\ phase = "ready" => ptr # FreedMap
  /\ ptr = NullMap => escaped # "none"

\* What the file read so far has to do with them.
FileInv ==
  /\ phase = "parsing" /\ ptr = Global => Headings = {}
  /\ \A n \in Name : globals[n] # Absent =>
       \E i \in Lines : /\ file[i].name = n
                        /\ file[i].heading \/ InSection(i, Global)
  /\ ptr = FreedMap => ~WellFormed
  /\ DefinedUnlessEscaped

\* A parser about to read its file points at the global map.
LEMMA PointerInit == Init => PointerInv
<1> SUFFICES ASSUME Init PROVE PointerInv
  OBVIOUS
<1>1. /\ globals \in [Name -> Value \cup {Absent, Section}]
      /\ sub \in [Name -> [Name -> Value \cup {Absent}]]
  BY DEF Init, EmptyMap
<1>2. subConfs \in Seq(Name) /\ file \in
        Seq([heading : BOOLEAN, name : Name, value : Value \cup {Nothing}])
  BY EmptySeq DEF Init
<1>3. TypeOK
  BY <1>1, <1>2 DEF Init, TypeOK, Escapes
<1> QED
  BY <1>3 DEF Init, PointerInv, Settled, NullMap, Global

\* Reading a line or the end of the file.
LEMMA ParsePointer ==
  ASSUME PointerInv,
         \/ \E k \in Name, v \in Value : ParseEntry(k, v)
         \/ \E n \in Name : ParseHeading(n)
         \/ EndOfFile
  PROVE  PointerInv'
<1>1. TypeOK
  BY DEF PointerInv
<1>2. CASE \E k \in Name, v \in Value : ParseEntry(k, v)
  <2> SUFFICES ASSUME NEW k \in Name, NEW v \in Value, ParseEntry(k, v)
               PROVE  PointerInv'
    BY <1>2
  <2>1. UNCHANGED <<subConfs, ptr, current, guarded, guard, escaped, result>>
        /\ phase = "parsing" /\ phase' \in {"parsing", "undefined"}
    BY DEF ParseEntry, ReadLine
  <2>2. file' \in Seq([heading : BOOLEAN, name : Name, value : Value \cup {Nothing}])
    BY <1>1 DEF ParseEntry, ReadLine, TypeOK
  <2>3. globals' \in [Name -> Value \cup {Absent, Section}]
    BY <1>1 DEF ParseEntry, TypeOK, Insert
  <2>4. sub' \in [Name -> [Name -> Value \cup {Absent}]]
    <3>1. \A p \in Name : Insert(sub[p], k, v) \in [Name -> Value \cup {Absent}]
      BY <1>1 DEF TypeOK, Insert
    <3> QED
      BY <1>1, <3>1 DEF ParseEntry, TypeOK
  <2>5. TypeOK'
    BY <1>1, <2>1, <2>2, <2>3, <2>4 DEF TypeOK
  <2> QED
    BY <2>1, <2>5 DEF PointerInv, Settled
<1>3. CASE \E n \in Name : ParseHeading(n)
  <2> SUFFICES ASSUME NEW n \in Name, ParseHeading(n) PROVE PointerInv'
    BY <1>3
  <2>1. file' \in Seq([heading : BOOLEAN, name : Name, value : Value \cup {Nothing}])
    BY <1>1 DEF ParseHeading, ReadLine, TypeOK
  <2>2. /\ globals' \in [Name -> Value \cup {Absent, Section}]
        /\ subConfs' \in Seq(Name)
        /\ ptr' \in Name \cup {FreedMap}
    BY <1>1 DEF ParseHeading, TypeOK, Insert
  <2>3. TypeOK'
    BY <1>1, <2>1, <2>2 DEF TypeOK, ParseHeading, ReadLine
  <2>4. ptr' # NullMap
    BY <2>2, ValueAssumption DEF Reserved, NullMap, FreedMap
  <2> QED
    BY <2>3, <2>4 DEF PointerInv, Settled, ParseHeading, ReadLine
<1>4. CASE EndOfFile
  <2>1. TypeOK'
    BY <1>1, <1>4 DEF EndOfFile, TypeOK, parsed
  <2> QED
    BY <1>4, <2>1
    DEF EndOfFile, PointerInv, Settled, Global, NullMap, FreedMap, parsed
<1> QED
  BY <1>2, <1>3, <1>4

\* What a call returns has the type of a result.
LEMMA AnswerType ==
  ASSUME TypeOK, NEW p \in Name \cup {Global}, NEW k \in Name,
         NEW type \in {"plain", "quota"}, NEW mode \in Modes
  PROVE  /\ Failure(mode) \in {"throws", "fallback", "flagged"}
         /\ Answer(Find(p, k), type, mode) \in
              Value \cup {"throws", "fallback", "flagged"}
<1>1. Failure(mode) \in {"throws", "fallback", "flagged"}
  BY DEF Modes, Failure
<1>2. Convertible(type) \subseteq Value
  BY ValueAssumption DEF Convertible
<1> QED
  BY <1>1, <1>2 DEF Answer, TypeOK

\* A getter changes what the caller sees and nothing else.
LEMMA GetterPointer ==
  ASSUME PointerInv, NEW type \in {"plain", "quota"}, NEW k \in Name,
         NEW mode \in Modes, Getter(type, k, mode)
  PROVE  PointerInv'
<1>1. ptr # NullMap => ptr \in Name \cup {Global}
  BY DEF PointerInv, TypeOK, Getter
<1>2. TypeOK'
  <2>1. CASE ptr = NullMap
    BY <2>1 DEF PointerInv, TypeOK, Getter, parsed
  <2>2. CASE ptr # NullMap
    <3>1. result' \in Value \cup {Section, "throws", "fallback", "flagged"}
      BY <1>1, <2>2, AnswerType DEF PointerInv, Getter
    <3> QED
      BY <2>2, <3>1 DEF PointerInv, TypeOK, Getter, parsed
  <2> QED
    BY <2>1, <2>2
<1> QED
  BY <1>2 DEF PointerInv, Settled, Getter, parsed

\* An adapter either refuses, or puts everything back, or lets an exception
\* out and has not put it back.
LEMMA AdapterPointer ==
  ASSUME PointerInv, NEW type \in {"plain", "quota"}, NEW s \in Name,
         NEW k \in Name, NEW mode \in Modes, Adapter(type, s, k, mode)
  PROVE  PointerInv'
<1>1. TypeOK /\ UNCHANGED <<phase, parsed, guarded, guard>> /\ phase = "ready"
  BY DEF PointerInv, Adapter
<1>2. /\ Failure(mode) \in {"throws", "fallback", "flagged"}
      /\ Answer(Find(s, k), type, mode) \in
           Value \cup {"throws", "fallback", "flagged"}
  BY <1>1, AnswerType
<1>3. s # NullMap /\ s # FreedMap
  BY ValueAssumption DEF Reserved, NullMap, FreedMap
<1>4. CASE Refused(mode)
  <2>1. TypeOK'
    BY <1>1, <1>2, <1>4 DEF Refused, TypeOK, parsed
  <2> QED
    BY <1>1, <1>4, <2>1 DEF Refused, PointerInv, Settled
<1>5. CASE NoSuchSection(s, mode)
  <2>1. guard = NoName /\ ~guarded
    BY <1>5 DEF NoSuchSection, PointerInv
  <2>2. CASE mode = "throw"
    <3>1. /\ \/ ptr' = ptr /\ escaped' = escaped
             \/ ptr' = NullMap /\ escaped' = "call"
          /\ current' = current
      BY <1>5, <2>2 DEF NoSuchSection, PtrAfterThrow, EscapedFrom
    <3>2. TypeOK'
      BY <1>1, <1>2, <1>5, <3>1 DEF NoSuchSection, TypeOK, Escapes, parsed
    <3> QED
      BY <1>1, <2>1, <3>1, <3>2 DEF PointerInv, Settled, NullMap, FreedMap
  <2>3. CASE mode # "throw"
    <3>1. ResetSubsection
      BY <1>5, <2>3 DEF NoSuchSection
    <3>2. TypeOK'
      BY <1>1, <1>2, <1>5, <3>1 DEF NoSuchSection, TypeOK, Escapes, parsed, ResetSubsection
    <3> QED
      BY <1>1, <2>1, <3>1, <3>2
      DEF PointerInv, Settled, ResetSubsection, Global, NullMap, FreedMap
  <2> QED
    BY <2>2, <2>3
<1>6. CASE FromSection(type, s, k, mode)
  <2>1. guard = NoName /\ ~guarded
    BY <1>6 DEF FromSection, PointerInv
  <2>2. CASE result' = "throws"
    <3>1. ptr' = s /\ current' = s /\ escaped' = "call"
      BY <1>6, <2>2 DEF FromSection
    <3>2. TypeOK'
      BY <1>1, <1>2, <1>6, <3>1 DEF FromSection, TypeOK, Escapes, parsed
    <3> QED
      BY <1>1, <1>3, <2>1, <3>1, <3>2 DEF PointerInv, Settled
  <2>3. CASE result' # "throws"
    <3>1. ResetSubsection
      BY <1>6, <2>3 DEF FromSection
    <3>2. TypeOK'
      BY <1>1, <1>2, <1>6, <3>1 DEF FromSection, TypeOK, Escapes, parsed, ResetSubsection
    <3> QED
      BY <1>1, <2>1, <3>1, <3>2
      DEF PointerInv, Settled, ResetSubsection, Global, NullMap, FreedMap
  <2> QED
    BY <2>2, <2>3
<1> QED
  BY <1>4, <1>5, <1>6 DEF Adapter

\* A guard's constructor and destructor.
LEMMA GuardPointer ==
  ASSUME PointerInv, EndGuard \/ \E s \in Name : BeginGuard(s)
  PROVE  PointerInv'
<1>1. TypeOK
  BY DEF PointerInv
<1>2. CASE EndGuard
  <2>1. TypeOK'
    BY <1>1, <1>2 DEF EndGuard, ResetSubsection, TypeOK, Escapes, parsed
  <2> QED
    BY <1>2, <2>1
    DEF EndGuard, ResetSubsection, PointerInv, Settled, Global, NullMap, FreedMap
<1>3. CASE \E s \in Name : BeginGuard(s)
  <2> SUFFICES ASSUME NEW s \in Name, BeginGuard(s) PROVE PointerInv'
    BY <1>3
  <2>1. s # NullMap /\ s # FreedMap /\ s # NoName
    BY ValueAssumption DEF Reserved, NullMap, FreedMap, NoName
  <2>2. CASE GuardRefused
    <3>1. TypeOK'
      BY <1>1, <2>2 DEF BeginGuard, GuardRefused, TypeOK, parsed
    <3> QED
      BY <2>2, <3>1 DEF BeginGuard, GuardRefused, PointerInv, Settled
  <2>3. CASE GuardThrows(s)
    <3>1. ptr' \in {ptr, NullMap} /\ guard = NoName
      BY <2>3 DEF GuardThrows, PtrAfterThrow, PointerInv
    <3>2. TypeOK'
      BY <1>1, <2>3, <3>1 DEF BeginGuard, GuardThrows, TypeOK, Escapes, parsed
    <3> QED
      BY <2>3, <3>1, <3>2
      DEF BeginGuard, GuardThrows, PointerInv, Settled, NullMap, FreedMap
  <2>4. CASE GuardBegins(s)
    <3>1. TypeOK'
      BY <1>1, <2>4 DEF BeginGuard, GuardBegins, TypeOK, Escapes, parsed
    <3> QED
      BY <2>1, <2>4, <3>1 DEF BeginGuard, GuardBegins, PointerInv, Settled
  <2> QED
    BY <2>2, <2>3, <2>4 DEF BeginGuard
<1> QED
  BY <1>2, <1>3

\* Every step of the parser, its getters and guards keeps PointerInv.
LEMMA PointerNext == PointerInv /\ [Next]_vars => PointerInv'
<1> SUFFICES ASSUME PointerInv, [Next]_vars PROVE PointerInv'
  OBVIOUS
<1>1. CASE \/ \E k \in Name, v \in Value : ParseEntry(k, v)
           \/ \E n \in Name : ParseHeading(n)
           \/ EndOfFile
  BY <1>1, ParsePointer
<1>2. CASE \E k \in Name, mode \in Modes : Get(k, mode) \/ GetQuota(k, mode)
  BY <1>2, GetterPointer DEF Get, GetQuota
<1>3. CASE \E s, k \in Name, mode \in Modes :
             GetFrom(s, k, mode) \/ GetQuotaFrom(s, k, mode)
  BY <1>3, AdapterPointer DEF GetFrom, GetQuotaFrom
<1>4. CASE EndGuard \/ \E s \in Name : BeginGuard(s)
  BY <1>4, GuardPointer
<1>5. CASE UNCHANGED vars
  BY <1>5 DEF vars, parsed, PointerInv, TypeOK, Settled
<1> QED
  BY <1>1, <1>2, <1>3, <1>4, <1>5 DEF Next

\* PointerInv holds throughout, for use in the theorems below.
LEMMA PointerInvariance == Spec => []PointerInv
BY PointerInit, PointerNext, PTL DEF Spec

\* The variables keep their types.
THEOREM TypeCorrect == Spec => []TypeOK
<1>1. PointerInv => TypeOK
  BY DEF PointerInv
<1> QED
  BY <1>1, PointerInvariance, PTL

\* As long as no exception has escaped from an adapter or a guard, the pointer,
\* the section's name and guarded_ are what the guard in scope makes them.
THEOREM SettledCorrect == Spec => []Settled
<1>1. PointerInv => Settled
  BY DEF PointerInv
<1> QED
  BY <1>1, PointerInvariance, PTL

-----------------------------------------------------------------------------
(* What a line adds to the file.                                           *)

\* What appending a line to the file leaves as it was, and what it adds.
LEMMA ReadLineFacts ==
  ASSUME TypeOK, NEW line \in [heading : BOOLEAN, name : Name,
                               value : Value \cup {Nothing}],
         ReadLine(line), NEW last, last = Len(file) + 1
  PROVE  /\ last \in Nat /\ last \notin Lines
         /\ Lines' = Lines \cup {last}
         /\ \A i \in Lines : i \in Nat /\ i < last /\ file'[i] = file[i]
         /\ file'[last] = line
         /\ Headings' = IF line.heading THEN Headings \cup {last} ELSE Headings
         /\ \A i \in Lines : InSection(i, Global)' <=> InSection(i, Global)
         /\ WellFormed' => WellFormed
<1>1. /\ Len(file) \in Nat
      /\ Len(file') = last
      /\ \A i \in Lines : file'[i] = file[i]
      /\ file'[last] = line
  BY DEF TypeOK, ReadLine, Lines
<1>2. /\ last \in Nat /\ last \notin Lines /\ Lines' = Lines \cup {last}
      /\ \A i \in Lines : i \in Nat /\ i < last
  BY <1>1 DEF Lines
<1>3. Headings' = IF line.heading THEN Headings \cup {last} ELSE Headings
  BY <1>1, <1>2 DEF Headings
<1>4. \A i \in Lines : InSection(i, Global)' <=> InSection(i, Global)
  <2>1. Headings \subseteq Headings' /\ Headings' \subseteq Headings \cup {last}
    BY <1>3
  <2> QED
    BY <1>2, <2>1 DEF InSection
<1>5. WellFormed' => WellFormed
  <2>1. Headings \subseteq Headings' /\ Lines \subseteq Lines' /\ Headings \subseteq Lines
    BY <1>2, <1>3 DEF Headings
  <2> QED
    BY <1>1, <1>4, <2>1 DEF WellFormed
<1> QED
  BY <1>1, <1>2, <1>3, <1>4, <1>5

\* An empty file has no heading and the maps are empty.
LEMMA FileInit == Init => FileInv
<1> SUFFICES ASSUME Init PROVE FileInv
  OBVIOUS
<1>1. Lines = {} /\ Headings = {}
  BY DEF Init, Lines, Headings
<1>2. \A n \in Name : globals[n] = Absent
  BY DEF Init, EmptyMap
<1> QED
  BY <1>1, <1>2 DEF Init, FileInv, DefinedUnlessEscaped, Global, FreedMap

\* A name config_map_ holds still has its line after the next one.
LEMMA NamesStay ==
  ASSUME TypeOK, FileInv,
         NEW line \in [heading : BOOLEAN, name : Name, value : Value \cup {Nothing}],
         ReadLine(line), NEW n \in Name, globals[n] # Absent
  PROVE  \E i \in Lines' : /\ i \in Lines /\ file'[i].name = n
                           /\ file'[i].heading \/ InSection(i, Global)'
<1>1. PICK i \in Lines : /\ file[i].name = n
                         /\ file[i].heading \/ InSection(i, Global)
  BY DEF FileInv
<1> QED
  BY <1>1, ReadLineFacts

\* Every step keeps the maps, the pointer and the file in agreement.
LEMMA FileNext == PointerInv /\ PointerInv' /\ FileInv /\ [Next]_vars => FileInv'
<1> SUFFICES ASSUME PointerInv, PointerInv', FileInv, [Next]_vars PROVE FileInv'
  OBVIOUS
<1>1. TypeOK
  BY DEF PointerInv
<1>2. ASSUME NEW k \in Name, NEW v \in Value, ParseEntry(k, v)
      PROVE  FileInv'
  <2> DEFINE line == [heading |-> FALSE, name |-> k, value |-> v]
  <2>1. /\ ReadLine(line) /\ phase = "parsing" /\ ptr' = ptr /\ escaped' = escaped
        /\ line \in [heading : BOOLEAN, name : Name, value : Value \cup {Nothing}]
    BY <1>2 DEF ParseEntry, ReadLine
  <2> PICK last : last = Len(file) + 1
    OBVIOUS
  <2>2. /\ last \in Lines' /\ file'[last].name = k
        /\ Headings' = Headings /\ (WellFormed' => WellFormed)
    <3>1. line.name = k /\ line.heading = FALSE
      OBVIOUS
    <3> HIDE DEF line
    <3> QED
      BY <1>1, <2>1, <3>1, ReadLineFacts
  <2>3. ASSUME NEW n \in Name, globals'[n] # Absent
        PROVE  \E i \in Lines' : /\ file'[i].name = n
                                 /\ file'[i].heading \/ InSection(i, Global)'
    <3>1. CASE globals[n] # Absent
      BY <1>1, <2>1, <3>1, NamesStay
    <3>2. CASE globals[n] = Absent
      <4>1. ptr = Global /\ n = k
        BY <1>1, <1>2, <2>3, <3>2 DEF ParseEntry, Insert, TypeOK
      <4>2. InSection(last, Global)'
        BY <2>1, <2>2, <4>1 DEF FileInv, InSection
      <4> QED
        BY <2>2, <4>1, <4>2
    <3> QED
      BY <3>1, <3>2
  <2>4. phase' = "undefined" => ptr = FreedMap
    BY <1>2, <2>1 DEF ParseEntry
  <2> QED
    BY <2>1, <2>2, <2>3, <2>4 DEF FileInv, DefinedUnlessEscaped
<1>3. ASSUME NEW m \in Name, ParseHeading(m)
      PROVE  FileInv'
  <2> DEFINE line == [heading |-> TRUE, name |-> m, value |-> Nothing]
  <2>1. /\ ReadLine(line) /\ phase' = "parsing"
        /\ line \in [heading : BOOLEAN, name : Name, value : Value \cup {Nothing}]
    BY <1>3 DEF ParseHeading, ReadLine
  <2> PICK last : last = Len(file) + 1
    OBVIOUS
  <2>2. /\ last \in Lines' /\ file'[last].name = m /\ file'[last].heading
        /\ last \notin Lines /\ last \in Headings'
    <3>1. line.name = m /\ line.heading = TRUE
      OBVIOUS
    <3> HIDE DEF line
    <3> QED
      BY <1>1, <2>1, <3>1, ReadLineFacts
  <2>3. ASSUME NEW n \in Name, globals'[n] # Absent
        PROVE  \E i \in Lines' : /\ file'[i].name = n
                                 /\ file'[i].heading \/ InSection(i, Global)'
    <3>1. CASE globals[n] # Absent
      BY <1>1, <2>1, <3>1, NamesStay
    <3>2. CASE globals[n] = Absent
      <4>1. n = m
        BY <1>1, <1>3, <2>3, <3>2 DEF ParseHeading, Insert, TypeOK
      <4> QED
        BY <2>2, <4>1
    <3> QED
      BY <3>1, <3>2
  <2>4. ptr' # Global
    BY <1>3, ValueAssumption DEF ParseHeading, Reserved, Global, FreedMap
  <2>5. ptr' = FreedMap => ~WellFormed'
    <3> SUFFICES ASSUME ptr' = FreedMap PROVE ~WellFormed'
      OBVIOUS
    <3>1. globals[m] # Absent
      BY <1>3, ValueAssumption DEF ParseHeading, Reserved, FreedMap
    <3>2. PICK i \in Lines' : /\ i \in Lines /\ file'[i].name = m
                              /\ file'[i].heading \/ InSection(i, Global)'
      BY <1>1, <2>1, <3>1, NamesStay
    <3>3. i # last
      BY <2>2, <3>2
    <3> QED
      BY <2>2, <3>2, <3>3 DEF WellFormed
  <2> QED
    BY <2>1, <2>3, <2>4, <2>5 DEF FileInv, DefinedUnlessEscaped
<1>4. ASSUME UNCHANGED <<globals, file>>, phase' # "parsing",
             phase' = "undefined" => phase = "undefined" \/ (ptr = NullMap /\ escaped' = escaped),
             phase' = "undefined" => UNCHANGED <<ptr, escaped>>
      PROVE  FileInv'
  <2>1. Lines' = Lines /\ Headings' = Headings /\ (WellFormed' <=> WellFormed)
        /\ \A i \in Lines : InSection(i, Global)' <=> InSection(i, Global)
    BY <1>4 DEF Lines, Headings, WellFormed, InSection
  <2>2. ptr' = FreedMap => ~WellFormed
    BY <1>4 DEF PointerInv, FileInv, TypeOK
  <2>3. phase' = "undefined" => ~WellFormed \/ escaped' # "none"
    BY <1>4 DEF PointerInv, FileInv, DefinedUnlessEscaped
  <2> QED
    BY <1>4, <2>1, <2>2, <2>3 DEF FileInv, DefinedUnlessEscaped
<1>5. CASE EndOfFile
  BY <1>4, <1>5 DEF EndOfFile, parsed
<1>6. CASE \E type \in {"plain", "quota"}, k \in Name, mode \in Modes :
             Getter(type, k, mode)
  BY <1>4, <1>6 DEF Getter, parsed
<1>7. CASE \E type \in {"plain", "quota"}, s, k \in Name, mode \in Modes :
             Adapter(type, s, k, mode)
  BY <1>4, <1>7 DEF Adapter, parsed
<1>8. CASE EndGuard \/ \E s \in Name : BeginGuard(s)
  BY <1>4, <1>8 DEF EndGuard, BeginGuard, parsed
<1>9. CASE UNCHANGED vars
  BY <1>9 DEF vars, parsed, FileInv, DefinedUnlessEscaped, WellFormed, Headings,
              Lines, InSection
<1> QED
  BY <1>2, <1>3, <1>5, <1>6, <1>7, <1>8, <1>9
  DEF Next, Get, GetQuota, GetFrom, GetQuotaFrom

\* Undefined behaviour needs a repeated name in the file or a call made after
\* an exception has escaped.
THEOREM DefinedCorrect == Spec => []DefinedUnlessEscaped
<1>1. Init => PointerInv /\ FileInv
  BY PointerInit, FileInit
<1>2. (PointerInv /\ FileInv) /\ [Next]_vars => (PointerInv /\ FileInv)'
  BY PointerNext, FileNext
<1>3. FileInv => DefinedUnlessEscaped
  BY DEF FileInv
<1> QED
  BY <1>1, <1>2, <1>3, PTL DEF Spec

-----------------------------------------------------------------------------
(* What the maps hold, and what the getters find in them.                  *)

\* While a file without repeated names is read, the maps hold what the lines
\* read so far say, the next entry belongs to the map under the pointer, and a
\* section not met yet has an empty map.
MapInv ==
  WellFormed =>
    /\ phase = "parsing" => InSection(Len(file) + 1, ptr)
    /\ \A k \in Name :
         IF HasSection(k) THEN globals[k] = Section
         ELSE Says(Global, k, globals[k])
    /\ \A s, k \in Name : Says(s, k, sub[s][k])
    /\ Len(subConfs) = Cardinality(Headings)
    /\ \A h \in Headings : subConfs[Place(h)] = file[h].name

Line == [heading : BOOLEAN, name : Name, value : Value \cup {Nothing}]

\* A line lies in one section.
LEMMA OneSection ==
  ASSUME TypeOK, NEW i \in Int, NEW s \in Name \cup {Global},
         NEW t \in Name \cup {Global}, InSection(i, s), InSection(i, t)
  PROVE  s = t
<1>1. \A h \in Headings : h \in Int
  BY DEF Headings, Lines
<1>2. CASE s = Global /\ t # Global
  BY <1>1, <1>2 DEF InSection
<1>3. CASE s # Global /\ t = Global
  BY <1>1, <1>3 DEF InSection
<1>4. CASE s # Global /\ t # Global
  <2>1. PICK h \in Headings : /\ h < i /\ file[h].name = s
                              /\ \A g \in Headings : g > h => i < g
    BY <1>4 DEF InSection
  <2>2. PICK d \in Headings : /\ d < i /\ file[d].name = t
                              /\ \A g \in Headings : g > d => i < g
    BY <1>4 DEF InSection
  <2>3. h = d
    BY <1>1, <2>1, <2>2
  <2> QED
    BY <2>1, <2>2, <2>3
<1> QED
  BY <1>2, <1>3, <1>4

\* An entry has a text, which no absent key and no section has.
LEMMA TextOf ==
  ASSUME TypeOK, NEW i \in Lines
  PROVE  /\ file[i] \in Line /\ i \in Int
         /\ file[i].value # Absent /\ file[i].value # Section
<1>1. file[i] \in Line
  BY ElementOfSeq DEF TypeOK, Lines, Line
<1> QED
  BY <1>1, ValueAssumption
  DEF Line, Lines, Reserved, Absent, Section, Nothing

\* The next line leaves the lines before it in their sections.
LEMMA SectionsStay ==
  ASSUME TypeOK, NEW line \in Line, ReadLine(line), NEW i \in Lines,
         NEW s \in Name \cup {Global}
  PROVE  InSection(i, s)' <=> InSection(i, s)
<1> PICK last : last = Len(file) + 1
  OBVIOUS
<1>1. /\ last \in Nat /\ \A j \in Lines : j \in Nat /\ j < last /\ file'[j] = file[j]
      /\ Headings \subseteq Headings' /\ Headings' \subseteq Headings \cup {last}
      /\ InSection(i, Global)' <=> InSection(i, Global)
  BY ReadLineFacts DEF Line
<1>2. Headings \subseteq Lines
  BY DEF Headings
<1>3. CASE s = Global
  BY <1>1, <1>3
<1>4. CASE s # Global
  <2>1. ASSUME InSection(i, s) PROVE InSection(i, s)'
    <3>1. PICK h \in Headings : /\ h < i /\ file[h].name = s
                                /\ \A g \in Headings : g > h => i < g
      BY <1>4, <2>1 DEF InSection
    <3>2. h \in Headings' /\ file'[h].name = s /\ \A g \in Headings' : g > h => i < g
      BY <1>1, <1>2, <3>1
    <3> QED
      BY <1>4, <3>1, <3>2 DEF InSection
  <2>2. ASSUME InSection(i, s)' PROVE InSection(i, s)
    <3>1. PICK h \in Headings' : /\ h < i /\ file'[h].name = s
                                 /\ \A g \in Headings' : g > h => i < g
      BY <1>4, <2>2 DEF InSection
    <3>2. h \in Headings /\ file[h].name = s
      BY <1>1, <1>2, <3>1
    <3> QED
      BY <1>1, <1>4, <3>1, <3>2 DEF InSection
  <2> QED
    BY <2>1, <2>2
<1> QED
  BY <1>3, <1>4

\* A heading adds no entry.
LEMMA HeadingSays ==
  ASSUME TypeOK, NEW line \in Line, ReadLine(line), line.heading,
         NEW s \in Name \cup {Global}, NEW k \in Name, NEW text
  PROVE  Says(s, k, text)' <=> Says(s, k, text)
<1> PICK last : last = Len(file) + 1
  OBVIOUS
<1>1. /\ last \in Nat /\ \A j \in Lines : j \in Nat /\ j < last /\ file'[j] = file[j]
      /\ Lines' = Lines \cup {last} /\ Headings' = Headings \cup {last}
  BY ReadLineFacts DEF Line
<1>2. Entries(s, k)' = Entries(s, k)
  BY <1>1, SectionsStay DEF Entries
<1>3. \A i \in Entries(s, k) : file'[i].value = file[i].value
  BY <1>1 DEF Entries
<1> QED
  BY <1>2, <1>3 DEF Says

\* An entry changes what the file says of its key in its section, if it is the
\* first one there, and of no other.
LEMMA EntrySays ==
  ASSUME TypeOK, NEW line \in Line, ReadLine(line), ~line.heading,
         NEW p \in Name \cup {Global}, InSection(Len(file) + 1, p),
         NEW s \in Name \cup {Global}, NEW k \in Name, NEW text, Says(s, k, text)
  PROVE  IF s = p /\ k = line.name /\ text = Absent THEN Says(s, k, line.value)'
         ELSE Says(s, k, text)'
<1> PICK last : last = Len(file) + 1
  OBVIOUS
<1>1. /\ last \in Nat /\ last \notin Lines
      /\ \A j \in Lines : j \in Nat /\ j < last /\ file'[j] = file[j]
      /\ Lines' = Lines \cup {last} /\ Headings' = Headings
      /\ file'[last] = line
  BY ReadLineFacts DEF Line
<1>2. InSection(last, s)' <=> s = p
  <2>1. \A h \in Headings : file'[h] = file[h]
    BY <1>1 DEF Headings
  <2>2. InSection(last, s)' <=> InSection(last, s)
    BY <1>1, <2>1 DEF InSection
  <2> QED
    BY <1>1, <2>2, OneSection
<1>3. Entries(s, k)' =
        Entries(s, k) \cup IF s = p /\ k = line.name THEN {last} ELSE {}
  <2>1. \A i \in Lines : InSection(i, s)' <=> InSection(i, s)
    BY SectionsStay
  <2>2. last \notin Headings
    BY <1>1 DEF Headings
  <2> QED
    BY <1>1, <1>2, <2>1, <2>2 DEF Entries
<1>4. \A i \in Entries(s, k) : i \in Nat /\ i < last /\ file'[i] = file[i]
                               /\ file[i].value # Absent
  BY <1>1, TextOf DEF Entries
<1>5. CASE s = p /\ k = line.name
  <2>1. CASE text = Absent
    <3>1. Entries(s, k) = {}
      BY <1>4, <2>1 DEF Says
    <3> QED
      BY <1>1, <1>3, <1>5, <2>1, <3>1 DEF Says
  <2>2. CASE text # Absent
    <3>1. PICK i \in Entries(s, k) :
            text = file[i].value /\ \A j \in Entries(s, k) : i <= j
      BY <2>2 DEF Says
    <3> QED
      BY <1>1, <1>3, <1>4, <2>2, <3>1 DEF Says
  <2> QED
    BY <2>1, <2>2
<1>6. CASE ~(s = p /\ k = line.name)
  BY <1>3, <1>4, <1>6 DEF Says
<1> QED
  BY <1>5, <1>6

\* Every heading so far has its place in sub_confs_; the next one takes the
\* next place.
LEMMA HeadingPlaces ==
  ASSUME TypeOK, NEW line \in Line, ReadLine(line), line.heading,
         NEW last, last = Len(file) + 1
  PROVE  /\ Cardinality(Headings)' = Cardinality(Headings) + 1
         /\ Place(last)' = Cardinality(Headings) + 1
         /\ \A h \in Headings : /\ Place(h)' = Place(h)
                                /\ Place(h) \in 1 .. Cardinality(Headings)
<1>1. /\ last \in Nat /\ last \notin Lines
      /\ \A j \in Lines : j \in Nat /\ j < last
      /\ Headings' = Headings \cup {last}
  BY ReadLineFacts DEF Line
<1>2. IsFiniteSet(Headings)
  <2>1. Len(file) \in Int /\ 1 \in Int /\ Headings \subseteq 1 .. Len(file)
    BY DEF TypeOK, Headings, Lines
  <2> QED
    BY <2>1, FS_Interval, FS_Subset
<1>3. last \notin Headings /\ \A h \in Headings : h \in Nat /\ h < last
  BY <1>1 DEF Headings
<1>4. Cardinality(Headings)' = Cardinality(Headings) + 1
  BY <1>1, <1>2, <1>3, FS_AddElement
<1>5. Place(last)' = Cardinality(Headings)'
  <2>1. {g \in Headings' : g <= last} = Headings'
    BY <1>1, <1>3
  <2> QED
    BY <2>1 DEF Place
<1>6. ASSUME NEW h \in Headings
      PROVE  Place(h)' = Place(h) /\ Place(h) \in 1 .. Cardinality(Headings)
  <2> DEFINE Upto == {g \in Headings : g <= h}
  <2>1. {g \in Headings' : g <= h} = Upto
    BY <1>1, <1>3
  <2>2. h \in Upto /\ Upto \subseteq Headings
    BY <1>3
  <2>3. /\ IsFiniteSet(Upto) /\ Cardinality(Upto) \in Nat /\ Cardinality(Upto) # 0
        /\ Cardinality(Headings) \in Nat /\ Cardinality(Upto) <= Cardinality(Headings)
    <3> HIDE DEF Upto
    <3> QED
      BY <1>2, <2>2, FS_Subset, FS_CardinalityType, FS_EmptySet
  <2>4. Place(h)' = Cardinality(Upto) /\ Place(h) = Cardinality(Upto)
    BY <2>1 DEF Place
  <2> QED
    BY <2>3, <2>4
<1> QED
  BY <1>4, <1>5, <1>6

\* Empty maps say what an empty file says.
LEMMA MapInit == Init => MapInv
<1> SUFFICES ASSUME Init PROVE MapInv
  OBVIOUS
<1>1. Lines = {} /\ Headings = {} /\ Len(file) = 0
  BY DEF Init, Lines, Headings
<1>2. \A s, k : Says(s, k, Absent)
  BY <1>1 DEF Says, Entries
<1>3. InSection(Len(file) + 1, ptr)
  BY <1>1 DEF Init, InSection
<1>4. \A s, k \in Name : globals[k] = Absent /\ sub[s][k] = Absent
  BY DEF Init, EmptyMap
<1>5. ~\E k : HasSection(k)
  BY <1>1 DEF HasSection
<1>6. Len(subConfs) = Cardinality(Headings)
  BY <1>1, FS_EmptySet DEF Init
<1> QED
  BY <1>1, <1>2, <1>3, <1>4, <1>5, <1>6 DEF MapInv

\* An entry goes to the map of its section.
LEMMA MapEntry ==
  ASSUME PointerInv, FileInv, MapInv,
         NEW key \in Name, NEW v \in Value, ParseEntry(key, v)
  PROVE  MapInv'
<1> SUFFICES ASSUME WellFormed' PROVE MapInv'
  BY DEF MapInv
<1> DEFINE line == [heading |-> FALSE, name |-> key, value |-> v]
<1>1. TypeOK
  BY DEF PointerInv
<1>2. line \in Line /\ ReadLine(line) /\ ~line.heading
      /\ line.name = key /\ line.value = v
  BY DEF Line, ParseEntry
<1> HIDE DEF line
<1>3. WellFormed
  BY <1>1, <1>2, ReadLineFacts DEF Line
<1>4. ptr \in Name \cup {Global} /\ InSection(Len(file) + 1, ptr)
      /\ ptr' = ptr /\ subConfs' = subConfs
  <2>1. ptr' = ptr /\ subConfs' = subConfs /\ phase = "parsing"
    BY DEF ParseEntry, ReadLine
  <2>2. ptr # FreedMap /\ ptr # NullMap
    BY <1>3, <2>1 DEF PointerInv, FileInv
  <2> QED
    BY <1>1, <1>3, <2>1, <2>2 DEF MapInv, TypeOK
<1>5. \A k \in Name : /\ globals[k] \in Value \cup {Absent, Section}
                      /\ \A s \in Name : sub[s][k] \in Value \cup {Absent}
  BY <1>1 DEF TypeOK
<1>6. Global \notin Name /\ FreedMap \notin Name
  BY ValueAssumption DEF Reserved, Global, FreedMap
<1>7. /\ Headings' = Headings /\ Len(file') = Len(file) + 1
      /\ \A h \in Headings : h < Len(file) + 1 /\ file'[h] = file[h]
  <2>1. Len(file') = Len(file) + 1
    BY <1>1, <1>2 DEF ReadLine, TypeOK
  <2> QED
    BY <1>1, <1>2, <2>1, ReadLineFacts DEF Line, Headings
<1>8. InSection(Len(file) + 1, ptr)'
  <2>1. Len(file) \in Nat /\ \A h \in Headings : h \in Nat
    BY <1>1 DEF TypeOK, Headings, Lines
  <2>2. CASE ptr = Global
    BY <1>4, <1>7, <2>1, <2>2 DEF InSection
  <2>3. CASE ptr # Global
    <3>1. PICK h \in Headings : /\ h < Len(file) + 1 /\ file[h].name = ptr
                                /\ \A g \in Headings : g > h => Len(file) + 1 < g
      BY <1>4, <2>3 DEF InSection
    <3>2. h < Len(file') + 1 /\ file'[h].name = ptr'
          /\ \A g \in Headings' : g > h => Len(file') + 1 < g
      BY <1>4, <1>7, <2>1, <3>1
    <3> QED
      BY <1>4, <1>7, <2>3, <3>2 DEF InSection
  <2> QED
    BY <2>2, <2>3
<1>9. \A k : HasSection(k)' <=> HasSection(k)
  BY <1>7 DEF HasSection
<1>10. ASSUME NEW k \in Name
       PROVE  IF HasSection(k)' THEN globals'[k] = Section
              ELSE Says(Global, k, globals[k])'
  <2>1. CASE HasSection(k)
    <3>1. ptr # Global
      BY <1>7, <2>1 DEF HasSection, FileInv, ParseEntry, ReadLine
    <3>2. globals' = globals
      BY <3>1 DEF ParseEntry
    <3> QED
      BY <1>3, <1>9, <2>1, <3>2 DEF MapInv
  <2>2. CASE ~HasSection(k)
    <3> PICK text : text = globals[k]
      OBVIOUS
    <3>1. Says(Global, k, text)
      BY <1>3, <2>2 DEF MapInv
    <3>2. IF ptr = Global /\ k = key /\ text = Absent THEN Says(Global, k, v)'
          ELSE Says(Global, k, text)'
      BY <1>1, <1>2, <1>4, <3>1, EntrySays
    <3>3. globals'[k] = IF ptr = Global /\ k = key /\ text = Absent THEN v
                        ELSE text
      <4>1. globals \in [Name -> Value \cup {Absent, Section}]
        BY <1>1 DEF TypeOK
      <4>2. globals' = IF ptr = Global THEN Insert(globals, key, v) ELSE globals
        BY <1>4, <1>6 DEF ParseEntry, Global, FreedMap
      <4> QED
        BY <4>1, <4>2 DEF Insert
    <3> QED
      BY <1>9, <2>2, <3>2, <3>3
  <2> QED
    BY <2>1, <2>2
<1>11. ASSUME NEW s \in Name, NEW k \in Name PROVE Says(s, k, sub[s][k])'
  <2> PICK text : text = sub[s][k]
    OBVIOUS
  <2>1. Says(s, k, text)
    BY <1>3 DEF MapInv
  <2>2. IF s = ptr /\ k = key /\ text = Absent THEN Says(s, k, v)'
        ELSE Says(s, k, text)'
    BY <1>1, <1>2, <1>4, <2>1, EntrySays
  <2>3. sub'[s][k] = IF s = ptr /\ k = key /\ text = Absent THEN v
                     ELSE text
    <3>1. sub \in [Name -> [Name -> Value \cup {Absent}]]
      BY <1>1 DEF TypeOK
    <3>2. sub' = IF ptr \in Name THEN [sub EXCEPT ![ptr] = Insert(@, key, v)]
                 ELSE sub
      BY <1>4, <1>6 DEF ParseEntry, Global, FreedMap
    <3>3. Insert(sub[s], key, v)[k] =
            IF k = key /\ sub[s][k] = Absent THEN v ELSE sub[s][k]
      BY <3>1 DEF Insert
    <3> QED
      BY <3>1, <3>2, <3>3
  <2> QED
    BY <2>2, <2>3
<1>12. \A h \in Headings : Place(h)' = Place(h)
  BY <1>7 DEF Place
<1> QED
  BY <1>3, <1>4, <1>7, <1>8, <1>10, <1>11, <1>12 DEF MapInv

\* A heading opens an empty section.
LEMMA MapHeading ==
  ASSUME PointerInv, PointerInv', FileInv, FileInv', MapInv,
         NEW n \in Name, ParseHeading(n)
  PROVE  MapInv'
<1> SUFFICES ASSUME WellFormed' PROVE MapInv'
  BY DEF MapInv
<1> DEFINE line == [heading |-> TRUE, name |-> n, value |-> Nothing]
<1> PICK last : last = Len(file) + 1
  OBVIOUS
<1>1. TypeOK
  BY DEF PointerInv
<1>2. line \in Line /\ ReadLine(line) /\ line.heading /\ line.name = n
  BY DEF Line, ParseHeading
<1> HIDE DEF line
<1>3. /\ WellFormed /\ last \in Nat /\ file'[last] = line /\ Len(file') = last
      /\ Headings' = Headings \cup {last}
      /\ \A h \in Headings : h \in Nat /\ h < last /\ file'[h] = file[h]
  <2>1. Len(file') = last
    BY <1>1, <1>2 DEF ReadLine, TypeOK
  <2> QED
    BY <1>1, <1>2, <2>1, ReadLineFacts DEF Line, Headings
<1>4. globals[n] = Absent /\ ptr' = n
      /\ globals' = [globals EXCEPT ![n] = Section]
      /\ sub' = sub /\ subConfs' = Append(subConfs, n)
  BY DEF FileInv, ParseHeading, Insert
<1>5. Global \notin Name
  BY ValueAssumption DEF Reserved, Global
<1>6. InSection(Len(file) + 1, ptr)'
  BY <1>2, <1>3, <1>4, <1>5 DEF InSection
<1>7. \A k : HasSection(k)' <=> HasSection(k) \/ k = n
  BY <1>2, <1>3 DEF HasSection
<1>8. \A text : \A s \in Name \cup {Global}, k \in Name :
        Says(s, k, text) => Says(s, k, text)'
  BY <1>1, <1>2, HeadingSays
<1>9. ASSUME NEW k \in Name
      PROVE  IF HasSection(k)' THEN globals'[k] = Section
             ELSE Says(Global, k, globals[k])'
  <2>1. CASE k = n
    BY <1>1, <1>4, <1>7, <2>1 DEF TypeOK
  <2>2. CASE k # n
    <3>1. globals'[k] = globals[k]
      BY <1>1, <1>4, <2>2 DEF TypeOK
    <3> QED
      BY <1>3, <1>7, <1>8, <2>2, <3>1 DEF MapInv
  <2> QED
    BY <2>1, <2>2
<1>10. ASSUME NEW s \in Name, NEW k \in Name PROVE Says(s, k, sub[s][k])'
  BY <1>3, <1>4, <1>8 DEF MapInv
<1>11. (Len(subConfs) = Cardinality(Headings))'
  <2>1. Len(subConfs) = Cardinality(Headings) /\ subConfs \in Seq(Name)
    BY <1>1, <1>3 DEF MapInv, TypeOK
  <2>2. Cardinality(Headings)' = Cardinality(Headings) + 1
    BY <1>1, <1>2, HeadingPlaces
  <2> QED
    BY <1>4, <2>1, <2>2
<1>12. ASSUME NEW h \in Headings' PROVE (subConfs[Place(h)] = file[h].name)'
  <2>1. Len(subConfs) = Cardinality(Headings) /\ subConfs \in Seq(Name)
    BY <1>1, <1>3 DEF MapInv, TypeOK
  <2>2. CASE h = last
    <3>1. Place(h)' = Len(subConfs) + 1
      BY <1>1, <1>2, <2>1, <2>2, HeadingPlaces
    <3> QED
      BY <1>2, <1>3, <1>4, <2>1, <2>2, <3>1
  <2>3. CASE h # last
    <3>1. h \in Headings /\ Place(h)' = Place(h) /\ Place(h) \in 1 .. Len(subConfs)
      BY <1>1, <1>2, <1>3, <2>1, <2>3, HeadingPlaces
    <3> QED
      BY <1>3, <1>4, <2>1, <3>1 DEF MapInv
  <2> QED
    BY <2>2, <2>3
<1> QED
  BY <1>6, <1>9, <1>10, <1>11, <1>12 DEF MapInv

\* The maps, once read, stay as they are.
LEMMA MapNext ==
  PointerInv /\ PointerInv' /\ FileInv /\ FileInv' /\ MapInv /\ [Next]_vars
    => MapInv'
<1> SUFFICES ASSUME PointerInv, PointerInv', FileInv, FileInv', MapInv, [Next]_vars
             PROVE  MapInv'
  OBVIOUS
<1>1. CASE \E k \in Name, v \in Value : ParseEntry(k, v)
  BY <1>1, MapEntry
<1>2. CASE \E n \in Name : ParseHeading(n)
  BY <1>2, MapHeading
<1>3. ASSUME UNCHANGED parsed, phase' = "parsing" => phase = "parsing" /\ ptr' = ptr
      PROVE  MapInv'
  <2>1. UNCHANGED <<globals, sub, subConfs, file>>
    BY <1>3 DEF parsed
  <2>2. Lines' = Lines /\ Headings' = Headings
        /\ \A i, s : InSection(i, s)' <=> InSection(i, s)
    BY <2>1 DEF Lines, Headings, InSection
  <2>3. /\ WellFormed' <=> WellFormed
        /\ \A s : HasSection(s)' <=> HasSection(s)
        /\ \A h : Place(h)' = Place(h)
    BY <2>1, <2>2 DEF WellFormed, HasSection, Place
  <2>4. \A s, k, text : Says(s, k, text)' <=> Says(s, k, text)
    <3>1. \A s, k : Entries(s, k)' = Entries(s, k)
      BY <2>1, <2>2 DEF Entries
    <3> QED
      BY <2>1, <3>1 DEF Says
  <2>5. phase' = "parsing" => (InSection(Len(file) + 1, ptr) <=> InSection(Len(file) + 1, ptr)')
    BY <1>3, <2>1, <2>2
  <2> QED
    BY <1>3, <2>1, <2>2, <2>3, <2>4, <2>5 DEF MapInv
<1>4. CASE EndOfFile
  BY <1>3, <1>4 DEF EndOfFile
<1>5. CASE \E type \in {"plain", "quota"}, k \in Name, mode \in Modes :
             Getter(type, k, mode)
  BY <1>3, <1>5 DEF Getter
<1>6. CASE \E type \in {"plain", "quota"}, s, k \in Name, mode \in Modes :
             Adapter(type, s, k, mode)
  BY <1>3, <1>6 DEF Adapter
<1>7. CASE EndGuard \/ \E s \in Name : BeginGuard(s)
  BY <1>3, <1>7 DEF EndGuard, BeginGuard
<1>8. CASE UNCHANGED vars
  BY <1>3, <1>8 DEF vars
<1> QED
  BY <1>1, <1>2, <1>4, <1>5, <1>6, <1>7, <1>8
  DEF Next, Get, GetQuota, GetFrom, GetQuotaFrom

\* All three parts hold throughout, for use in the theorems below.
LEMMA ParserInvariance == Spec => [](PointerInv /\ FileInv /\ MapInv)
<1>1. Init => PointerInv /\ FileInv /\ MapInv
  BY PointerInit, FileInit, MapInit
<1>2. (PointerInv /\ FileInv /\ MapInv) /\ [Next]_vars
        => (PointerInv /\ FileInv /\ MapInv)'
  BY PointerNext, FileNext, MapNext
<1> QED
  BY <1>1, <1>2, PTL DEF Spec

\* The constructor leaves a file without repeated names as it is written: the
\* first entry for each key, under its section, and the sections in order.
THEOREM ParsedCorrect == Spec => []ParsedAsWritten
<1>1. MapInv => ParsedAsWritten
  BY DEF MapInv, ParsedAsWritten
<1> QED
  BY <1>1, ParserInvariance, PTL

\* A text the file says is the text of an entry, or there is none.
LEMMA SaidText ==
  ASSUME TypeOK, NEW s, NEW k, NEW text, Says(s, k, text)
  PROVE  text \in Value \cup {Nothing, Absent} /\ text # Section
<1>1. CASE text = Absent
  BY <1>1 DEF Absent, Section
<1>2. CASE text # Absent
  <2>1. PICK i \in Entries(s, k) : text = file[i].value
    BY <1>2 DEF Says
  <2> QED
    BY <2>1, TextOf DEF Entries, Line
<1> QED
  BY <1>1, <1>2

\* In a file without repeated names a key of config_map_ holds a map just when
\* the file has a heading of that name.
LEMMA SectionsFound ==
  ASSUME TypeOK, MapInv, WellFormed, NEW k \in Name
  PROVE  HasSection(k) <=> ~SetThrows(k)
BY SaidText DEF MapInv, SetThrows

\* get_from() and get_quota_from() answer what the file says of the section
\* asked for, whatever calls came before, and refuse while a guard is in scope,
\* unless the constructor of a guard has thrown.
THEOREM FromAnswersCorrect == Spec => FromAnswers
<1>1. ASSUME PointerInv, MapInv, NEW type \in {"plain", "quota"}, NEW s \in Name,
             NEW k \in Name, NEW mode \in Modes,
             Adapter(type, s, k, mode), WellFormed, escaped # "guard"
      PROVE  IF guard # NoName \/ ~HasSection(s) THEN result' = Failure(mode)
             ELSE \E text \in Value \cup {Absent} :
                    Says(s, k, text) /\ result' = Answer(text, type, mode)
  <2>1. TypeOK /\ (HasSection(s) <=> ~SetThrows(s))
    BY <1>1, SectionsFound DEF PointerInv
  <2>2. CASE Refused(mode)
    BY <1>1, <2>2 DEF Refused, PointerInv
  <2>3. CASE NoSuchSection(s, mode)
    BY <2>1, <2>3 DEF NoSuchSection
  <2>4. CASE FromSection(type, s, k, mode)
    <3>1. result' = Answer(Find(s, k), type, mode) /\ guard = NoName /\ HasSection(s)
      BY <1>1, <2>1, <2>4 DEF FromSection, PointerInv
    <3>2. Find(s, k) = sub[s][k]
      BY ValueAssumption DEF Find, Reserved, Global
    <3>3. Says(s, k, sub[s][k]) /\ sub[s][k] \in Value \cup {Absent}
      BY <1>1, <2>1 DEF MapInv, TypeOK
    <3> QED
      BY <3>1, <3>2, <3>3
  <2> QED
    BY <1>1, <2>2, <2>3, <2>4 DEF Adapter
<1>2. PointerInv /\ FileInv /\ MapInv /\ [Next]_vars =>
        [\A type \in {"plain", "quota"}, s, k \in Name, mode \in Modes :
           Adapter(type, s, k, mode) /\ WellFormed /\ escaped # "guard" =>
             IF guard # NoName \/ ~HasSection(s) THEN result' = Failure(mode)
             ELSE \E text \in Value \cup {Absent} :
                    Says(s, k, text) /\ result' = Answer(text, type, mode)]_vars
  BY <1>1
<1> QED
  BY <1>2, ParserInvariance, PTL DEF Spec, FromAnswers

\* Unless an exception has escaped, get() and get_quota() answer what the file
\* says of the guarded section, or of the part before all sections.
THEOREM GetAnswersCorrect == Spec => GetAnswers
<1>1. ASSUME PointerInv, MapInv, NEW type \in {"plain", "quota"},
             NEW k \in Name, NEW mode \in Modes,
             Getter(type, k, mode), WellFormed, escaped = "none"
      PROVE  IF guard = NoName /\ HasSection(k)
             THEN result' \in {Section, Failure(mode)}
             ELSE ScopedAnswer(type, k, mode)
  <2>1. TypeOK /\ ptr # NullMap /\ ptr = (IF guard = NoName THEN Global ELSE guard)
    BY <1>1 DEF PointerInv, Settled, Getter
  <2>2. \/ result' = Answer(Find(ptr, k), type, mode)
        \/ Find(ptr, k) = Section /\ result' = Section
    BY <1>1, <2>1 DEF Getter
  <2>3. CASE guard = NoName /\ ~HasSection(k)
    <3>1. Find(ptr, k) = globals[k] /\ Says(Global, k, globals[k])
      BY <1>1, <2>1, <2>3 DEF Find, MapInv
    <3>2. globals[k] \in Value \cup {Absent} /\ globals[k] # Section
      BY <2>1, <3>1, SaidText DEF TypeOK
    <3> QED
      BY <2>2, <2>3, <3>1, <3>2 DEF ScopedAnswer
  <2>4. CASE guard # NoName
    <3>1. guard \in Name /\ ptr = guard
      BY <2>1, <2>4 DEF TypeOK
    <3>2. Find(ptr, k) = sub[guard][k]
      BY <3>1, ValueAssumption DEF Find, Reserved, Global
    <3>3. Says(guard, k, sub[guard][k]) /\ sub[guard][k] \in Value \cup {Absent}
      BY <1>1, <2>1, <3>1 DEF MapInv, TypeOK
    <3>4. sub[guard][k] # Section
      BY <2>1, <3>3, SaidText
    <3> QED
      BY <2>2, <2>4, <3>2, <3>3, <3>4 DEF ScopedAnswer
  <2>5. CASE guard = NoName /\ HasSection(k)
    <3>1. Find(ptr, k) = Section
      BY <1>1, <2>1, <2>5 DEF Find, MapInv
    <3>2. Section \notin Convertible(type)
      BY ValueAssumption DEF Convertible, Reserved, Section
    <3> QED
      BY <2>2, <2>5, <3>1, <3>2 DEF Answer
  <2> QED
    BY <2>3, <2>4, <2>5
<1>2. PointerInv /\ FileInv /\ MapInv /\ [Next]_vars =>
        [\A type \in {"plain", "quota"}, k \in Name, mode \in Modes :
           Getter(type, k, mode) /\ WellFormed /\ escaped = "none" =>
             IF guard = NoName /\ HasSection(k)
             THEN result' \in {Section, Failure(mode)}
             ELSE ScopedAnswer(type, k, mode)]_vars
  BY <1>1
<1> QED
  BY <1>2, ParserInvariance, PTL DEF Spec, GetAnswers
=============================================================================
