SPECIFICATION Spec
CHECK_DEADLOCK FALSE
CONSTANTS
  Blank = blank
  Open = open
  Close = close
  Hash = hash
  Equals = equals
  x = x
  y = y
  Letter <- MC_Letter
  MaxLength = 6
SYMMETRY Symmetry
INVARIANTS
  TypeOK
  RoundTrip
  CommentHides
