------------------------------ MODULE MC_Quota ------------------------------
(* Doubles of six bits, prefixes for multiples of 4, texts with percent     *)
(* signs, and the fractions of the tests.                                   *)
EXTENDS Quota

MC_Weight == {2 ^ k : k \in 0 .. 16}
MC_Multiple == [k \in 1 .. 8 |-> 4 ^ k]
MC_Percent == {7, 29, 50, 100}
MC_Thirds == {<<1, 2>>, <<1, 3>>, <<2, 3>>, <<1, 1>>}
MC_Given == {1, 29, 32, 40}
=============================================================================
