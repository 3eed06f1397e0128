-------------------------- MODULE MC_NodeOwnership --------------------------
EXTENDS NodeOwnership, TLC

\* Objects, names and maps are interchangeable, and the properties invariants.
Symmetry == Permutations(Parser) \cup Permutations(Name)
            \cup Permutations(Variable) \cup Permutations(Map)
=============================================================================
