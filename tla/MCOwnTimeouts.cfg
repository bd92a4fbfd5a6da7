SPECIFICATION MCSpec
CONSTANTS
  Engines = {main}
  Main = main
  Interruptible = {}
  Promises = {}
  Timeouts = {}
  Intervals = {}
  main = main
  Settled = Settled
  Never = Never
  Nobody = Nobody
  MaxQueue = 0
  handle = handle
  read = read
  write = write
  Handles = {handle}
  Connects = {}
  Reads = {read}
  Writes = {write}
  MayLapse = {write}
  On <- MCOn
INVARIANT OwnTimeoutsOnly
CHECK_DEADLOCK FALSE
