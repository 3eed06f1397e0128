SPECIFICATION FairSpec
CONSTANTS
  r = r
  a = a
  b = b
  c = c
  d = d
  f = f
  g = g
  s = s
  w1 = w1
  w2 = w2
  w3 = w3
  NoEntry = NoEntry
  Worker <- TwoWorkers
  Entry <- MC_Entry
  Children <- MC_Children
  Expanded <- MC_Expanded
  Unreadable = {}
  Bases <- MC_Bases
  ThreadCounts <- OneToTwo
  SpawnMayFail = TRUE
  MaxLeftOver = 0
CHECK_DEADLOCK FALSE
PROPERTY Returns
