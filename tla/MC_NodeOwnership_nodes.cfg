SPECIFICATION Spec
CHECK_DEADLOCK FALSE
CONSTANTS
  Parser = {p1, p2}
  Name = {a}
  Variable = {v1, v2}
  Map = {m1, m2}
  Nil = Nil
SYMMETRY Symmetry
INVARIANTS
  TypeOK
  DeletedOnce
  NothingLeaks
  PointersValid
