SPECIFICATION Spec
CONSTANTS
  Engines = {main, script}
  Main = main
  Interruptible = {script}
  Promises = {read}
  Timeouts = {}
  Intervals = {}
  main = main
  Settled = Settled
  Never = Never
  Nobody = Nobody
  MaxQueue = 2
INVARIANT OnItsThread
CHECK_DEADLOCK FALSE
