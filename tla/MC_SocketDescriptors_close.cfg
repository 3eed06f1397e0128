SPECIFICATION Spec
CONSTANTS
  s1 = s1
  s2 = s2
  c = c
  path = path
  Server <- MC_Server
  Client <- MC_Client
  PathOf <- MC_PathOf
  Fd = {0, 1, 2}
  MaxConns = 2
INVARIANTS
  TypeOK
  NothingLeaks
  ClosesItsOwn
  PathLeadsHere
  PathComesBack
