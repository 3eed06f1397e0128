------------------------------ MODULE Records -------------------------------
(***************************************************************************)
(* What one line of a configuration file says: l::check_record_type(),     *)
(* l::strip_whitespace() and l::remove_comments() (src/src/impl/           *)
(* parser_functions.cpp) as ConfigParser::parse(), parse_entry() and       *)
(* parse_heading() use them, and what ConfigParser::dump_str() writes of   *)
(* it (src/src/impl/config_parser.cpp).                                    *)
(*                                                                         *)
(* A line is read, what it says is dumped, and the dumped line is read.     *)
(***************************************************************************)
EXTENDS Integers, Sequences, SequencesExt

CONSTANTS
  Blank,      \* ' ' and '\t'
  Open,       \* '['
  Close,      \* ']'
  Hash,       \* '#'
  Equals,     \* '='
  Letter,     \* characters without a meaning
  MaxLength   \* bound: length of a line in the file

Special == {Blank, Open, Close, Hash, Equals}
Char == Special \cup Letter

ASSUME CharAssumption ==
  /\ Letter \cap Special = {}
  /\ \A i, j \in 1 .. 5 :
       LET s == <<Blank, Open, Close, Hash, Equals>> IN i # j => s[i] # s[j]
  /\ MaxLength \in Nat

VARIABLES
  line,       \* the line to read or just read
  record,     \* what it said, or Unread
  dumped      \* history: the record that line was dumped from, if it was

vars == <<line, record, dumped>>

Unread == [type |-> "unread"]

\* find_first_of(), find_first_not_of(): a position, or 0 for npos.
FirstOf(str, c) == SelectInSeq(str, LAMBDA d : d = c)
Start(str) == SelectInSeq(str, LAMBDA c : c # Blank)

-----------------------------------------------------------------------------
(* l::strip_whitespace(), l::remove_comments(), l::check_record_type().    *)

StripWhitespace(str) ==
  IF Start(str) = 0 THEN <<>>
  ELSE SubSeq(str, Start(str), SelectLastInSeq(str, LAMBDA c : c # Blank))

RemoveComments(str) ==
  IF FirstOf(str, Hash) = 0 THEN str ELSE SubSeq(str, 1, FirstOf(str, Hash) - 1)

CheckIfHeading(str) ==
  /\ Start(str) # 0
  /\ str[Start(str)] = Open
  /\ \E i \in Start(str) .. Len(str) : str[i] = Close

\* Mutant of CheckIfEntry: a line may start with the '='.
CheckIfEntry_NoKey(str) == Start(str) # 0 /\ FirstOf(str, Equals) >= Start(str)

CheckIfEntry(str) == Start(str) # 0 /\ FirstOf(str, Equals) > Start(str)

CheckRecordType(str) ==
  CASE CheckIfHeading(str) -> "HEADING"
    [] ~CheckIfHeading(str) /\ CheckIfEntry(str) -> "ENTRY"
    [] OTHER -> IF Start(str) = 0 \/ str[Start(str)] = Hash THEN "EMPTY" ELSE "UNK"

-----------------------------------------------------------------------------
(* ConfigParser.                                                           *)

\* Mutant of ParseEntry: the comment is left in the value.
ParseEntry_KeepsComment(str) ==
  LET equals == FirstOf(str, Equals)
  IN  [type |-> "ENTRY",
       key |-> StripWhitespace(SubSeq(str, 1, equals - 1)),
       value |-> StripWhitespace(SubSeq(str, equals + 1, Len(str)))]

ParseEntry(str) ==
  LET equals == FirstOf(str, Equals)
  IN  [type |-> "ENTRY",
       key |-> StripWhitespace(SubSeq(str, 1, equals - 1)),
       value |-> StripWhitespace(RemoveComments(SubSeq(str, equals + 1, Len(str))))]

\* Mutant of ParseHeading: the length counts one of the brackets only.
ParseHeading_OffByOne(str) ==
  LET name == StripWhitespace(RemoveComments(str))
  IN  IF name = <<>> THEN [type |-> "THROWS"]
      ELSE [type |-> "HEADING", name |-> SubSeq(name, 2, Len(name))]

\* name.substr(1, name.length() - 2) throws if the name is empty; of a lone '['
\* it takes nothing.
ParseHeading(str) ==
  LET name == StripWhitespace(RemoveComments(str))
  IN  IF name = <<>> THEN [type |-> "THROWS"]
      ELSE [type |-> "HEADING", name |-> SubSeq(name, 2, Len(name) - 1)]

\* What parse() does with a line.
Said(str) ==
  LET type == CheckRecordType(str)
  IN  CASE type = "ENTRY" -> ParseEntry(str)
        [] type = "HEADING" -> ParseHeading(str)
        [] OTHER -> [type |-> type]

\* An entry of a section is indented.
Dump(r, indent) ==
  IF r.type = "HEADING" THEN <<Open>> \o r.name \o <<Close>>
  ELSE indent \o r.key \o <<Blank, Equals, Blank>> \o r.value

Init ==
  /\ line \in BoundedSeq(Char, MaxLength)
  /\ record = Unread
  /\ dumped = Unread

ReadLine ==
  /\ record = Unread
  /\ record' = Said(line)
  /\ UNCHANGED <<line, dumped>>

DumpStr ==
  /\ record.type \in {"ENTRY", "HEADING"}
  /\ dumped = Unread
  /\ \E indent \in {<<>>, <<Blank, Blank>>} : line' = Dump(record, indent)
  /\ dumped' = record
  /\ record' = Unread

Next == ReadLine \/ DumpStr

Spec == Init /\ [][Next]_vars

-----------------------------------------------------------------------------
(* Properties.                                                             *)

IsStripped(s) == s # <<>> => s[1] # Blank /\ Last(s) # Blank

\* The types, and what the rest of the parser relies on: no line makes
\* parse_heading() throw; a key has a character, is stripped and has no '=';
\* a value is stripped and, like a section's name, has no comment.
TypeOK ==
  /\ line \in Seq(Char)
  /\ \A r \in {record, dumped} :
       CASE r.type = "ENTRY" ->
              /\ r.key # <<>> /\ IsStripped(r.key) /\ ~Contains(r.key, Equals)
              /\ IsStripped(r.value) /\ ~Contains(r.value, Hash)
         [] r.type = "HEADING" -> ~Contains(r.name, Hash)
         [] OTHER -> r.type \in {"unread", "EMPTY", "UNK"}

\* What dump_str() writes of a record is read as the same record, whatever its
\* key, value or name is made of.
RoundTrip == dumped # Unread /\ record # Unread => record = dumped

\* A comment changes nothing of what a line says, unless it holds the only '=' of
\* the line, or the only ']' of one that begins with '[': those are looked for in
\* the comment, too.
CommentHides ==
  LET text == RemoveComments(line)
      OnlyInComment(c) == Contains(line, c) /\ ~Contains(text, c)
      Bracketed == Start(line) # 0 /\ line[Start(line)] = Open
  IN  ~OnlyInComment(Equals) /\ ~(OnlyInComment(Close) /\ Bracketed)
        => Said(line) = Said(text)
=============================================================================
