-------------------------- MODULE MC_MTDirCrawler --------------------------
(* Two small directory trees for TLC: r holds the directories a and b and the *)
(* file f, a holds c and d, and b, which the callback does not recurse into,  *)
(* holds g; s is an empty directory.                                         *)
EXTENDS MTDirCrawler, TLC

CONSTANTS r, a, b, c, d, f, g, s, w1, w2, w3

MC_Entry == {r, a, b, c, d, f, g, s}
MC_Children ==
  [e \in MC_Entry |-> CASE e = r -> {a, b, f}
                        [] e = a -> {c, d}
                        [] e = b -> {g}
                        [] OTHER -> {}]
MC_Expanded == {r, a, s}
MC_Bases == {r, s}

TwoWorkers == {w1, w2}
ThreeWorkers == {w1, w2, w3}
OneToTwo == 1 .. 2
OneToThree == 1 .. 3
NoneToTwo == 0 .. 2
NoneToThree == 0 .. 3

\* Workers are interchangeable; used in runs without temporal properties.
Symmetry == Permutations(Worker)
=============================================================================
