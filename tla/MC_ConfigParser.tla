-------------------------- MODULE MC_ConfigParser --------------------------
(* Two names and three texts: one is a T and a Quota, one only a T, and one  *)
(* converts to neither.                                                     *)
EXTENDS ConfigParser, TLC

CONSTANTS a, b, both, number, bad

MC_Name == {a, b}
MC_Value == {both, number, bad}
MC_Plain == {both, number}
MC_QuotaText == {both}

\* The two names are interchangeable, and no property here is a liveness property.
Symmetry == Permutations(Name)
=============================================================================
