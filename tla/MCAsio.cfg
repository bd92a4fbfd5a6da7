SPECIFICATION MCSpec
CONSTANTS
  Engines = {main}
  Main = main
  Interruptible = {main}
  Promises = {read}
  Timeouts = {timeout}
  Intervals = {interval}
  main = main
  Settled = Settled
  Never = Never
  Nobody = Nobody
  MaxQueue = 2
  handle = handle
  connect = connect
  read1 = read1
  read2 = read2
  write = write
  Handles = {handle}
  Connects = {connect}
  Reads = {read1, read2}
  Writes = {write}
  MayLapse = {connect, read1, write}
  On <- MCOn
INVARIANTS
  CountMatches
  NothingLeft
  StalledIsStuck
  SettledOnce
  ReadsDoNotOverlap
  OnlyTimeoutsLose
  ConnectedIsOpen
PROPERTIES
  LoopEnds
  TimerFires
  Settles
CHECK_DEADLOCK FALSE
