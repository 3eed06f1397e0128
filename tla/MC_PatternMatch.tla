-------------------------- MODULE MC_PatternMatch --------------------------
(* All texts and patterns up to a length, over two letters and the wildcards. *)
EXTENDS PatternMatch, TLC

CONSTANTS x, y, star, any

UpTo(n, S) == UNION {[1 .. k -> S] : k \in 0 .. n}

MC_Texts == UpTo(4, {x, y, star})
MC_Patterns == UpTo(4, {x, y, star, any})

Letters == UpTo(3, {x, y})
LetterPatterns == UpTo(3, {x, y, star})
=============================================================================
