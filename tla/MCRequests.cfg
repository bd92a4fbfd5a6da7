CONSTANTS
  t1 = t1
  t2 = t2
  main = main
  worker = worker
  Threads = {t1, t2}
  Paths = {main, worker}
  Main = main
  MaxRequests = 2
  MaxNodes = 2
  MayLapse = {1}
  MaxMail = 1
SYMMETRY Symmetry
CONSTRAINT Small
SPECIFICATION Spec
CHECK_DEADLOCK FALSE
INVARIANTS
  OneWinner
  DroppedAccounting
  AnsweredOnce
