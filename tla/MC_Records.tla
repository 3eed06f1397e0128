----------------------------- MODULE MC_Records -----------------------------
(* Two letters tell texts apart and are interchangeable.                    *)
EXTENDS Records

CONSTANTS x, y

MC_Letter == {x, y}
Symmetry == Permutations(MC_Letter)
=============================================================================
