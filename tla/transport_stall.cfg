CONSTANTS
  Conn = {c1, c2}
  Worker = {w1}
  Waiter = {main}
  Stopper = {other}
  Waker = waker
  MaxConnections = 2
  SendBuffer = 1
  MaxFrames = 2
SPECIFICATION ThreadSpec
PROPERTY StopReturns
CHECK_DEADLOCK FALSE
