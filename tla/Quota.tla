-------------------------------- MODULE Quota --------------------------------
(***************************************************************************)
(* A share of an amount of bytes: ffd::Quota (src/src/incl/45d/Quota.hpp,  *)
(* src/src/impl/quota.cpp) with what it inherits from ffd::Bytes           *)
(* (src/src/incl/45d/Bytes.hpp, src/src/impl/bytes.cpp).  The object keeps *)
(* the maximum and a double; its value is computed when it is asked for,   *)
(* printed with a unit prefix, and read back from such a text.             *)
(*                                                                         *)
(* A double has a number of significant bits, the last of which weighs a   *)
(* power of two; every operation rounds to the nearest, ties to even.  It  *)
(* is written as a multiple of 1 / Unit, the finest weight there is.       *)
(* Amounts and fractions are not negative.                                 *)
(***************************************************************************)
EXTENDS Integers, Sequences, FiniteSetsExt

CONSTANTS
  Exactly,    \* the highest of a double's significant bits; 2 ^ 52 in the code
  Weight,     \* what the last one may weigh, in 1 / Unit: powers of two
  Unit,       \* fixed-point unit, one of them; 2 ^ 1074 in the code
  Limit,      \* bound: the largest maximum or allotted amount
  Given,      \* maxima that set() is called with
  Percent,    \* percentages in texts
  Thirds,     \* fractions that are passed as doubles, <<n, d>> for n / d
  Multiple,   \* what the unit prefixes stand for; powers of 1024 in the code
  Parts       \* 10 ^ precision, for the precisions that get_str() is called with

ASSUME DoubleAssumption ==
  /\ Exactly \in Nat \ {0}
  /\ Weight \subseteq Nat \ {0} /\ {1, Unit} \subseteq Weight
  /\ \A v, w \in Weight : v <= w => w % v = 0
  \* One half is no subnormal number.
  /\ \E w \in Weight : 2 * w \in Weight /\ Unit = 2 * w * Exactly

ASSUME QuotaAssumption ==
  /\ Limit \in Nat \ {0} /\ Parts \subseteq Nat \ {0}
  /\ Given \subseteq 1 .. Limit
  /\ Percent \subseteq Nat
  /\ Thirds \subseteq Nat \X (Nat \ {0})
  /\ Multiple \in Seq(Nat \ {0}) /\ Multiple # <<>>
  /\ \A k \in 1 .. Len(Multiple) - 1 : Multiple[k + 1] = Multiple[1] * Multiple[k]
  \* No prefix counts more than half of what doubles count exactly and less than
  \* all of it.
  /\ Multiple[1] <= Exactly
  /\ \A k \in DOMAIN Multiple : Multiple[k] <= Exactly => 2 * Multiple[k] <= Exactly

VARIABLES
  bytes,      \* bytes_, the maximum
  fraction,   \* fraction_, in 1 / Unit, or NotFinite
  method,     \* rounding_method_
  meant,      \* history: the share the program asked for, <<n, d>> for n / d
  text        \* history: what get_str() returned and the value is read from

vars == <<bytes, fraction, method, meant, text>>

RoundingMethod == {"NEAREST", "DOWN", "UP"}
NotFinite == -1       \* an infinity or NaN
NoText == <<>>

-----------------------------------------------------------------------------
(* Doubles.                                                                *)

\* The weight of the last significant bit of n / d: the first one is a bit of it,
\* unless it is subnormal.
LastBit(n, d) == Max({w \in Weight : w = 1 \/ w * Exactly * d <= n})

\* n / d rounded to a double.
Fl(n, d) ==
  LET u == LastBit(n, d) * d
      q == n \div u
      r == n % u
  IN  LastBit(n, d) * IF 2 * r > u \/ (2 * r = u /\ q % 2 = 1) THEN q + 1 ELSE q

Double(n) == Fl(n * Unit, 1)
Divide(n, d) == IF d = 0 THEN NotFinite ELSE Fl(Double(n), Double(d) \div Unit)
Times(n, f) == Fl((Double(n) \div Unit) * f, 1)

-----------------------------------------------------------------------------
(* The value.                                                              *)

\* Mutant of Round: the conversion to an integer for the nearest one.
Round_Truncates(x, r) ==
  CASE r = "UP" -> (x + Unit - 1) \div Unit [] OTHER -> x \div Unit

\* Mutant of Round: one more than rounded down for rounded up.
Round_AddsOne(x, r) ==
  CASE r = "NEAREST" -> (2 * x + Unit) \div (2 * Unit)
    [] r = "DOWN" -> x \div Unit
    [] r = "UP" -> x \div Unit + 1

Round(x, r) ==
  CASE r = "NEAREST" -> (2 * x + Unit) \div (2 * Unit)
    [] r = "DOWN" -> x \div Unit
    [] r = "UP" -> (x + Unit - 1) \div Unit

\* Converting what is not finite to an integer is undefined; nothing asks.
Get == Round(Times(bytes, fraction), method)
Defined == fraction # NotFinite

-----------------------------------------------------------------------------
(* Texts, as the mantissa in units of its last digit, the index of the     *)
(* prefix, and 10 ^ precision.                                             *)

Nearest(n, d) == LET r == 2 * (n % d)
                 IN  IF r > d \/ (r = d /\ (n \div d) % 2 = 1) THEN n \div d + 1
                     ELSE n \div d

\* get_str(): bytes without a prefix are printed whole.  The code finds the prefix
\* with logarithms in doubles, which takes the next one a few bytes too early from
\* about 2 ^ 50.
GetStr(parts) ==
  LET index == Max({0} \cup {k \in DOMAIN Multiple : Multiple[k] <= Get})
  IN  IF index = 0 THEN <<Get * parts, 0, parts>>
      ELSE <<Nearest(Get * parts, Multiple[index]), index, parts>>

\* Mutant of ParseBytes: a prefix counts one less than it should.
ParseBytes_OffByOne(str) ==
  (str[1] * (IF str[2] > 1 THEN Multiple[str[2] - 1] ELSE 1)) \div str[3]

\* stod() rounds the mantissa, which may cost another byte from about 2 ^ 49.
ParseBytes(str) ==
  (str[1] * (IF str[2] = 0 THEN 1 ELSE Multiple[str[2]])) \div str[3]

-----------------------------------------------------------------------------
(* What the program does.                                                  *)

\* Mutant of Allot: the operands of `allotted / max` are swapped.
Allot_Swapped(max, allotted) ==
  /\ fraction' = Divide(max, allotted)
  /\ meant' = <<allotted, max>>

\* The fraction that stands for so many bytes.
Allot(max, allotted) ==
  /\ fraction' = Divide(allotted, max)
  /\ meant' = <<allotted, max>>

\* set_fraction() from "p%" or from a double.
SetFraction ==
  /\ \/ \E p \in Percent : /\ fraction' = Divide(p, 100)
                           /\ meant' = <<p, 100>>
     \/ \E s \in Thirds : /\ fraction' = Divide(s[1], s[2])
                          /\ meant' = s

\* Quota(max, ...) for a max that is an amount of its own.
Construct ==
  /\ method = "none"
  /\ method' \in RoundingMethod
  /\ bytes' \in 0 .. Limit
  /\ SetFraction \/ \E a \in 0 .. Limit : Allot(bytes', a)
  /\ UNCHANGED text

Constructed == method # "none"

SetShare ==
  /\ Constructed
  /\ SetFraction
  /\ text' = NoText
  /\ UNCHANGED <<bytes, method>>

\* set(), += and -= change the maximum.
Set ==
  /\ Constructed
  /\ bytes' \in Given
  /\ text' = NoText
  /\ UNCHANGED <<fraction, method, meant>>

SetRoundingMethod ==
  /\ Constructed
  /\ method' \in RoundingMethod
  /\ text' = NoText
  /\ UNCHANGED <<bytes, fraction, meant>>

\* Quota(get_max(), *this): the value that the object has is allotted anew, up to
\* the bound.
Reallot ==
  /\ Constructed /\ Defined /\ Get <= Limit
  /\ Allot(bytes, Get)
  /\ text' = NoText
  /\ UNCHANGED <<bytes, method>>

\* Quota(*this, ...): a share of the share, up to the bound.
Nest ==
  /\ Constructed /\ Defined /\ Get <= Limit
  /\ bytes' = Get
  /\ SetFraction
  /\ text' = NoText
  /\ UNCHANGED method

PrintText ==
  /\ Constructed /\ Defined
  /\ \E parts \in Parts : text' = GetStr(parts)
  /\ UNCHANGED <<bytes, fraction, method, meant>>

\* Quota(get_max(), str): the text is in bytes, up to the bound.
ReadText ==
  /\ text # NoText /\ ParseBytes(text) <= Limit
  /\ Allot(bytes, ParseBytes(text))
  /\ UNCHANGED <<bytes, method, text>>

\* No object yet.
Init ==
  /\ bytes = 0 /\ fraction = 0 /\ method = "none"
  /\ meant = <<0, 1>>
  /\ text = NoText

Next == \/ Construct \/ SetShare \/ Set \/ SetRoundingMethod \/ Reallot \/ Nest
        \/ PrintText \/ ReadText

Spec == Init /\ [][Next]_vars

-----------------------------------------------------------------------------
(* Properties.                                                             *)

\* The fraction is a double, and finite unless it was computed for a maximum
\* of no bytes.
TypeOK ==
  /\ bytes \in Nat
  /\ fraction = NotFinite <=> meant[2] = 0
  /\ Defined => fraction \in Nat /\ fraction = Fl(fraction, 1)
  /\ method \in RoundingMethod \cup {"none"}

\* So many bytes are a double.
Held(n) == Double(n) = n * Unit

\* n / d whole bytes, if nothing but the result were rounded.
Wanted(n, d) ==
  CASE method = "NEAREST" -> (2 * n + d) \div (2 * d)
    [] method = "DOWN" -> n \div d
    [] method = "UP" -> (n + d - 1) \div d

\* The value is the share that was asked for, of whatever is the maximum now,
\* rounded as it should be, or a byte next to that: if the share is not more than
\* all, for amounts up to those that doubles can tell apart (2 ^ 53).  Up to half
\* of that, a share that is whole bytes is met exactly when rounded to the
\* nearest, so that allotting a quota's value anew never changes it.
NearMeant ==
  LET asked == meant[1] * bytes
      d == meant[2]
      Below(n) == /\ meant[1] <= d /\ bytes <= n
                  /\ Held(meant[1]) /\ Held(d)
  IN  Constructed /\ Defined =>
        /\ Below(2 * Exactly) => Get - Wanted(asked, d) \in -1 .. 1
        /\ Below(Exactly) /\ method = "NEAREST" /\ asked % d = 0 => Get * d = asked

\* No share of at most all exceeds the maximum, however it is rounded: for amounts
\* up to those that doubles can tell apart (2 ^ 53).
WithinMax ==
  Constructed /\ Defined /\ meant[1] <= meant[2] /\ bytes <= 2 * Exactly
    => Get <= bytes

\* A digit of the text counts four bytes or more, as all do up to a precision of
\* two, and up to five from MiB on; a text without a prefix is whole bytes.
Coarse(str) == str[2] # 0 => 4 * str[3] <= Multiple[str[2]]

\* The mantissa was not rounded up to the next prefix ("1024.00 KiB").
InPrefix(str) == str[1] < Multiple[1] * str[3]

\* One byte less has the same prefix: without a prefix every byte shows, and below
\* a mantissa of 1 the prefix is another.
HidesByte(str) == str[2] # 0 /\ str[1] # str[3]

\* A printed value that is read back, once or often, is printed the same: for
\* maxima and values up to half of those that doubles can tell apart (2 ^ 52), and
\*  - unless the mantissa was rounded up to the next prefix,
\*  - unless it has digits that count less than four bytes ("1.022 KiB" is read as
\*    1046 bytes, which are "1.021 KiB"),
\*  - and for a quota that is rounded down or up, unless one byte shows: 63 of 107
\*    bytes, rounded down, are "62 B", and "62 B" of 107 bytes are "61 B".
TextStable ==
  /\ text # NoText /\ Defined
  /\ bytes <= Exactly /\ ParseBytes(text) <= Exactly
  /\ InPrefix(text) /\ Coarse(text)
  /\ method = "NEAREST" \/ HidesByte(text)
  => GetStr(text[3]) = text
=============================================================================
