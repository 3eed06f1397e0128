SPECIFICATION FairSpec
CHECK_DEADLOCK FALSE
CONSTANTS
  client = client
  server = server
  x = x
  y = y
  nul = nul
  rs = rs
  ack = ack
  Peer <- MC_Peer
  Byte <- MC_Byte
  Message <- MC_Message
  Nul = nul
  RS = rs
  ACK = ack
  Scripts <- MC_Scripts
  Agreed <- MC_Agreed
  ReadMax = 2
  Segment = 4
  Capacity = 2
INVARIANTS
  TypeOK
  AckedWhileOpen
PROPERTIES
  Finishes
  Refines
