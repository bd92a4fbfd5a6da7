SPECIFICATION MCSpec
CONSTANTS
  t1 = t1
  t2 = t2
  main = main
  worker = worker
  Threads = {t1, t2}
  Paths = {main, worker}
  Main = main
  MaxRequests = 1
  MaxNodes = 2
  MayLapse = {1}
  MaxMail = 0
  s1 = s1
  s2 = s2
  parent = parent
  child = child
  Scripts = {s1, s2}
  MainThread = main
  ThreadPaths = {parent, child}
  None = None
  Under <- MCUnder
  ShutdownCallers = {s1, main}
INVARIANTS
  OnePathOneThread
  NoForgottenThread
PROPERTIES
  ImplementsPromise
  EveryWaitReturns
  JoinsEnd
CHECK_DEADLOCK FALSE
