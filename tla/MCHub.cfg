SPECIFICATION FairSpec
CONSTANTS
  c1 = c1
  s1 = s1
  s2 = s2
  None = None
  Conns = {c1}
  Sessions = {s1, s2}
  Texts = {"hello", "start", "answer", "pump", "stop"}
  MaxFrames = 4
  MaxBuffered = 1
INVARIANTS
  NoGhostSession
PROPERTIES
  InOrder
  SessionsFollow
CHECK_DEADLOCK FALSE
