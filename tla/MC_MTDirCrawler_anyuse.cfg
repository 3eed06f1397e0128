SPECIFICATION Spec
CONSTANTS
  r = r
  a = a
  b = b
  c = c
  d = d
  f = f
  g = g
  s = s
  w1 = w1
  w2 = w2
  w3 = w3
  NoEntry = NoEntry
  Worker <- ThreeWorkers
  Entry <- MC_Entry
  Children <- MC_Children
  Expanded <- MC_Expanded
  Unreadable = {a}
  Bases <- MC_Bases
  ThreadCounts <- NoneToThree
  SpawnMayFail = TRUE
  MaxLeftOver = 1
SYMMETRY Symmetry
CHECK_DEADLOCK FALSE
INVARIANTS
  RunningCount
  DoneRaceFree
  NoStall
