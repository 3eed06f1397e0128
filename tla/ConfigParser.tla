---------------------------- MODULE ConfigParser ----------------------------
(***************************************************************************)
(* ffd::ConfigParser and ffd::ConfigSubsectionGuard (src/src/incl/45d/     *)
(* config, src/src/impl/config_parser.cpp): a file is read into a map of   *)
(* maps; afterwards every getter reads through config_map_ptr_, which      *)
(* get_from, get_quota_from and a guard point at a section for a while.    *)
(*                                                                         *)
(* A line is what l::check_record_type() makes of it: an entry or a        *)
(* heading; the others change nothing.  Keys and section names share one   *)
(* set, as they share config_map_.  An entry's text is known by what it    *)
(* converts to.                                                            *)
(***************************************************************************)
EXTENDS Integers, Sequences, FiniteSets

CONSTANTS
  Name,         \* keys and section names
  Value,        \* texts after '='
  Plain,        \* those that convert to the type T asked for
  QuotaText,    \* those that parse as a Quota
  MaxLines      \* bound: entries and headings in a file

Global == "global"         \* &config_map_
NullMap == "null"          \* nullptr
FreedMap == "freed"        \* a map that has been deleted
NoName == ""
Absent == "absent"         \* no such key in a map
Section == "section"       \* a node with a sub_map_
Nothing == "nothing"

Reserved == {Global, NullMap, FreedMap, NoName, Absent, Section, Nothing,
             "throws", "fallback", "flagged", "done"}

ASSUME ValueAssumption ==
  /\ Plain \subseteq Value /\ QuotaText \subseteq Value
  /\ Name \cap Reserved = {} /\ Value \cap Reserved = {}
  /\ MaxLines \in Nat

VARIABLES
  phase,      \* "parsing", "ready", or "undefined" after undefined behaviour
  globals,    \* config_map_
  sub,        \* the maps of its sections
  subConfs,   \* sub_confs_, by name
  ptr,        \* config_map_ptr_
  current,    \* current_section_
  guarded,    \* guarded_
  file,       \* history: the lines read
  guard,      \* history: section of the ConfigSubsectionGuard in scope
  escaped,    \* history: what an exception that escaped has left switched,
              \* and reset_subsection() not put back since
  result      \* what the last call returned or threw

parsed == <<globals, sub, subConfs, file>>
vars == <<phase, parsed, ptr, current, guarded, guard, escaped, result>>

EmptyMap == [k \in Name |-> Absent]
Modes == {"throw", "fallback", "flag"}   \* the overloads of every getter

\* Values of `escaped`: nothing; config_map_ptr_, by a get_from() that threw;
\* guarded_ as well, by a guard's constructor that threw.
Escapes == {"none", "call", "guard"}

Init ==
  /\ phase = "parsing"
  /\ globals = EmptyMap
  /\ sub = [n \in Name |-> EmptyMap]
  /\ subConfs = <<>>
  /\ ptr = Global
  /\ current = NoName
  /\ guarded = FALSE
  /\ file = <<>>
  /\ guard = NoName
  /\ escaped = "none"
  /\ result = Nothing

-----------------------------------------------------------------------------
(* The constructor: parse().                                               *)

\* Mutant of Insert: operator[] for insert(), the last entry for a key wins.
Insert_Overwrites(map, k, v) == [map EXCEPT ![k] = v]

\* std::unordered_map::insert keeps the element that is there.
Insert(map, k, v) == IF map[k] = Absent THEN [map EXCEPT ![k] = v] ELSE map

ReadLine(line) ==
  /\ phase = "parsing"
  /\ Len(file) < MaxLines
  /\ file' = Append(file, line)
  /\ UNCHANGED <<current, guarded, guard, escaped, result>>

ParseEntry(k, v) ==
  /\ ReadLine([heading |-> FALSE, name |-> k, value |-> v])
  /\ \/ /\ ptr = Global
        /\ globals' = Insert(globals, k, v)
        /\ UNCHANGED <<phase, sub>>
     \/ /\ ptr \in Name
        /\ sub' = [sub EXCEPT ![ptr] = Insert(@, k, v)]
        /\ UNCHANGED <<phase, globals>>
     \/ /\ ptr = FreedMap
        /\ phase' = "undefined"
        /\ UNCHANGED <<globals, sub>>
  /\ UNCHANGED <<subConfs, ptr>>

\* config_map_ptr_ takes the new map before config_map_.insert() is tried; an
\* insert that fails destroys the node and the map with it.
ParseHeading(n) ==
  /\ ReadLine([heading |-> TRUE, name |-> n, value |-> Nothing])
  /\ ptr' = IF globals[n] = Absent THEN n ELSE FreedMap
  /\ globals' = Insert(globals, n, Section)
  /\ subConfs' = Append(subConfs, n)
  /\ UNCHANGED <<phase, sub>>

EndOfFile ==
  /\ phase = "parsing"
  /\ phase' = "ready"
  /\ ptr' = Global
  /\ UNCHANGED <<parsed, current, guarded, guard, escaped, result>>

-----------------------------------------------------------------------------
(* Pieces of the getters.                                                  *)

\* set_subsection(s) throws, after config_map_ptr_ has taken sub_map_ if s is a
\* key of config_map_.
SetThrows(s) == globals[s] # Section
PtrAfterThrow(s) == IF globals[s] = Absent THEN ptr ELSE NullMap

\* Mutant of ResetSubsection: current_section_ is left alone.
ResetSubsection_KeepsName ==
  /\ ptr' = Global
  /\ escaped' = "none"
  /\ UNCHANGED current

ResetSubsection ==
  /\ ptr' = Global
  /\ current' = NoName
  /\ escaped' = "none"

\* The text that get<T>(k) finds in the map at p, and whether it converts.
Find(p, k) == IF p = Global THEN globals[k] ELSE sub[p][k]
Convertible(type) == IF type = "quota" THEN QuotaText ELSE Plain

\* What a call that fails inside gives its caller.
Failure(mode) == CASE mode = "throw" -> "throws"
                   [] mode = "fallback" -> "fallback"
                   [] mode = "flag" -> "flagged"

\* Mutant of Answer: find() for at(), and nobody looks whether it is end().
Answer_Unchecked(text, type, mode) ==
  IF text \in Convertible(type) \cup {Absent} THEN text ELSE Failure(mode)

Answer(text, type, mode) ==
  IF text \in Convertible(type) THEN text ELSE Failure(mode)

-----------------------------------------------------------------------------
(* Calls.                                                                  *)

\* get() and get_quota(): read through config_map_ptr_.  A section's node has its
\* heading for a value, which may convert or not.
Getter(type, k, mode) ==
  /\ phase = "ready"
  /\ \/ /\ ptr = NullMap
        /\ phase' = "undefined"
        /\ UNCHANGED result
     \/ /\ ptr # NullMap
        /\ \/ result' = Answer(Find(ptr, k), type, mode)
           \/ Find(ptr, k) = Section /\ result' = Section
        /\ UNCHANGED phase
  /\ UNCHANGED <<parsed, ptr, current, guarded, guard, escaped>>

Get(k, mode) == Getter("plain", k, mode)
GetQuota(k, mode) == Getter("quota", k, mode)

\* get_from() and get_quota_from().
Refused(mode) ==
  /\ guarded
  /\ result' = Failure(mode)
  /\ UNCHANGED <<ptr, current, escaped>>

\* A name that config_map_ does not hold is refused before anything is switched.
EscapedFrom(s) == IF globals[s] = Absent THEN escaped ELSE "call"

\* Mutant of NoSuchSection: the handlers forget reset_subsection().
NoSuchSection_NoReset(s, mode) ==
  /\ ~guarded /\ SetThrows(s)
  /\ result' = Failure(mode)
  /\ ptr' = PtrAfterThrow(s)
  /\ escaped' = IF mode = "throw" THEN EscapedFrom(s) ELSE escaped
  /\ UNCHANGED current

NoSuchSection(s, mode) ==
  /\ ~guarded /\ SetThrows(s)
  /\ result' = Failure(mode)
  /\ IF mode = "throw"
     THEN ptr' = PtrAfterThrow(s) /\ escaped' = EscapedFrom(s) /\ UNCHANGED current
     ELSE ResetSubsection

\* Mutant of FromSection: get() is called before set_subsection().
FromSection_ReadsFirst(type, s, k, mode) ==
  /\ ~guarded /\ ~SetThrows(s)
  /\ ptr # NullMap
  /\ result' = Answer(Find(ptr, k), type, mode)
  /\ ResetSubsection

FromSection(type, s, k, mode) ==
  /\ ~guarded /\ ~SetThrows(s)
  /\ result' = Answer(Find(s, k), type, mode)
  /\ IF result' = "throws"
     THEN ptr' = s /\ current' = s /\ escaped' = "call"
     ELSE ResetSubsection

Adapter(type, s, k, mode) ==
  /\ phase = "ready"
  /\ Refused(mode) \/ NoSuchSection(s, mode) \/ FromSection(type, s, k, mode)
  /\ UNCHANGED <<phase, parsed, guarded, guard>>

GetFrom(s, k, mode) == Adapter("plain", s, k, mode)
GetQuotaFrom(s, k, mode) == Adapter("quota", s, k, mode)

\* ConfigSubsectionGuard's constructor: already guarded, no such section (the
\* destructor of a half-constructed object does not run), or in scope.
GuardRefused ==
  /\ guarded
  /\ result' = "throws"
  /\ UNCHANGED <<ptr, current, guarded, guard, escaped>>

GuardThrows(s) ==
  /\ ~guarded /\ SetThrows(s)
  /\ guarded' = TRUE
  /\ result' = "throws"
  /\ ptr' = PtrAfterThrow(s)
  /\ escaped' = "guard"
  /\ UNCHANGED <<current, guard>>

GuardBegins(s) ==
  /\ ~guarded /\ ~SetThrows(s)
  /\ guarded' = TRUE
  /\ result' = "done"
  /\ ptr' = s
  /\ current' = s
  /\ guard' = s
  /\ escaped' = "none"

BeginGuard(s) ==
  /\ phase = "ready"
  /\ GuardRefused \/ GuardThrows(s) \/ GuardBegins(s)
  /\ UNCHANGED <<phase, parsed>>

\* Mutant of EndGuard: the section is not switched back.
EndGuard_NoReset ==
  /\ phase = "ready"
  /\ guard # NoName
  /\ guarded' = FALSE
  /\ guard' = NoName
  /\ result' = "done"
  /\ UNCHANGED <<phase, parsed, ptr, current, escaped>>

\* Its destructor, when the guard goes out of scope.
EndGuard ==
  /\ phase = "ready"
  /\ guard # NoName
  /\ ResetSubsection
  /\ guarded' = FALSE
  /\ guard' = NoName
  /\ result' = "done"
  /\ UNCHANGED <<phase, parsed>>

Next ==
  \/ \E k \in Name, v \in Value : ParseEntry(k, v)
  \/ \E n \in Name : ParseHeading(n)
  \/ EndOfFile
  \/ \E k \in Name, mode \in Modes : Get(k, mode) \/ GetQuota(k, mode)
  \/ \E s, k \in Name, mode \in Modes :
       GetFrom(s, k, mode) \/ GetQuotaFrom(s, k, mode)
  \/ \E s \in Name : BeginGuard(s)
  \/ EndGuard

Spec == Init /\ [][Next]_vars

-----------------------------------------------------------------------------
(* What a file says: an entry belongs to the heading last seen, the first   *)
(* entry for a key counts.                                                 *)

Lines == 1 .. Len(file)
Headings == {i \in Lines : file[i].heading}

InSection(i, s) ==
  IF s = Global THEN \A h \in Headings : i < h
  ELSE \E h \in Headings : /\ h < i /\ file[h].name = s
                           /\ \A g \in Headings : g > h => i < g

Entries(s, k) ==
  {i \in Lines \ Headings : file[i].name = k /\ InSection(i, s)}

Says(s, k, text) ==
  \/ Entries(s, k) = {} /\ text = Absent
  \/ \E i \in Entries(s, k) :
       text = file[i].value /\ \A j \in Entries(s, k) : i <= j

\* The heading at line h is the file's Place(h)th.
Place(h) == Cardinality({g \in Headings : g <= h})

HasSection(s) == \E h \in Headings : file[h].name = s

\* No heading is repeated, or has the name of an entry before all headings.
WellFormed ==
  \A h \in Headings :
    \A i \in Lines : i # h /\ file[i].name = file[h].name
                       => ~file[i].heading /\ ~InSection(i, Global)

-----------------------------------------------------------------------------
(* Properties.                                                             *)

\* The types of the variables.
TypeOK ==
  /\ phase \in {"parsing", "ready", "undefined"}
  /\ globals \in [Name -> Value \cup {Absent, Section}]
  /\ sub \in [Name -> [Name -> Value \cup {Absent}]]
  /\ subConfs \in Seq(Name)
  /\ ptr \in Name \cup {Global, NullMap, FreedMap}
  /\ current \in Name \cup {NoName}
  /\ guarded \in BOOLEAN
  /\ file \in Seq([heading : BOOLEAN, name : Name, value : Value \cup {Nothing}])
  /\ guard \in Name \cup {NoName}
  /\ escaped \in Escapes
  /\ result \in Value \cup {Nothing, Section, "throws", "fallback", "flagged", "done"}

\* The maps hold what the file says, and sub_confs_ lists its sections in order.
ParsedAsWritten ==
  phase = "ready" /\ WellFormed =>
    /\ \A k \in Name :
         IF HasSection(k) THEN globals[k] = Section
         ELSE Says(Global, k, globals[k])
    /\ \A s, k \in Name : HasSection(s) => Says(s, k, sub[s][k])
    /\ Len(subConfs) = Cardinality(Headings)
    /\ \A h \in Headings : subConfs[Place(h)] = file[h].name

\* Between two calls config_map_ptr_ and current_section_ stand where the guard
\* in scope put them, or at the global map, unless an exception has escaped and
\* no get_from() has returned since.  guarded_ says whether a guard is in scope,
\* unless the constructor of one threw, after which it stays set for good.
Settled ==
  phase = "ready" =>
    /\ escaped # "guard" => (guarded <=> guard # NoName)
    /\ escaped = "none" => /\ ptr = IF guard = NoName THEN Global ELSE guard
                           /\ current = guard

\* get_from() and get_quota_from() answer what the file says of the section
\* asked for, whatever calls failed before, and refuse while a guard is in
\* scope; unless the constructor of a guard has thrown, after which they refuse
\* although none is.
FromAnswers ==
  [][\A type \in {"plain", "quota"}, s, k \in Name, mode \in Modes :
       Adapter(type, s, k, mode) /\ WellFormed /\ escaped # "guard" =>
         IF guard # NoName \/ ~HasSection(s) THEN result' = Failure(mode)
         ELSE \E text \in Value \cup {Absent} :
                Says(s, k, text) /\ result' = Answer(text, type, mode)]_vars

\* get() and get_quota() answer what the file says of the guarded section, or
\* of the part before all sections, unless an exception has escaped.  Outside of
\* a guard the name of a section is a key, too: of its heading.
ScopedAnswer(type, k, mode) ==
  LET s == IF guard = NoName THEN Global ELSE guard
  IN  \E text \in Value \cup {Absent} :
        Says(s, k, text) /\ result' = Answer(text, type, mode)

GetAnswers ==
  [][\A type \in {"plain", "quota"}, k \in Name, mode \in Modes :
       Getter(type, k, mode) /\ WellFormed /\ escaped = "none" =>
         IF guard = NoName /\ HasSection(k) THEN result' \in {Section, Failure(mode)}
         ELSE ScopedAnswer(type, k, mode)]_vars

\* Only a repeated name in the file, or a call after an exception has escaped
\* from a guard or from a get_from() of a name the file has, can make the parser
\* follow a freed or a null pointer.
DefinedUnlessEscaped ==
  phase = "undefined" => ~WellFormed \/ escaped # "none"

(* A promise of the code's comments that does not hold: see the README.    *)

\* The getters that are "Guaranteed no-throw" return.
NeverUndefined == WellFormed => phase # "undefined"
=============================================================================
