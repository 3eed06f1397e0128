SPECIFICATION Spec
CHECK_DEADLOCK FALSE
CONSTANTS
  x = x
  y = y
  star = star
  any = any
  Star <- star
  AnyChar <- any
  Texts <- Letters
  Patterns <- LetterPatterns
INVARIANT AcceptsMatches
