SPECIFICATION Spec
CHECK_DEADLOCK FALSE
CONSTANTS
  a = a
  b = b
  both = both
  number = number
  bad = bad
  Name <- MC_Name
  Value <- MC_Value
  Plain <- MC_Plain
  QuotaText <- MC_QuotaText
  MaxLines = 3
INVARIANT NeverUndefined
