SPECIFICATION Spec
CONSTANTS
  stream = stream
  l1 = l1
  c1 = c1
  w1 = w1
  w2 = w2
  Listens = {l1}
  Closes = {c1}
  Requests = {stream}
  Streams = {stream}
  Writes = {w1, w2}
  On <- MCOn
  MaxBuffered = 1
INVARIANTS
  CloseEndsStreams
CHECK_DEADLOCK FALSE
