CONSTANTS
  Conn = {c1, c2}
  Worker = {w1, w2}
  Waiter = {main}
  Stopper = {other}
  Waker = waker
  MaxConnections = 1
  SendBuffer = 1
  MaxFrames = 2
SPECIFICATION PeerSpec
INVARIANTS TypeOK NoLostWakeup SocketsOwned
PROPERTIES PoolSpec StopReturns WaiterReleased ConnectionsEnd
CHECK_DEADLOCK FALSE
