SPECIFICATION FairSpec
CHECK_DEADLOCK FALSE
CONSTANTS
  x = x
  y = y
  star = star
  any = any
  Star <- star
  AnyChar <- any
  Texts <- MC_Texts
  Patterns <- MC_Patterns
INVARIANTS
  TypeOK
  AcceptsOnlyMatches
  PassedMatches
  AcceptsOpenEnded
PROPERTY Returns
