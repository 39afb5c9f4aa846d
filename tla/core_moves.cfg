SPECIFICATION Spec
SYMMETRY PortSymmetry
CONSTANTS
  Device = {d1}
  Port = {p1, p2}
  Package = {x, y}
  Exclusive = {x}
  NoPort = NoPort
  NoPackage = NoPackage
  Times = {0, 1}
  Lifetimes = {1}
  MaxInstances = 1
  MaxLeases = 2
  MaxAttempts = 2
  MaxConcurrent = 1
  MaxLeaseId = 3
  MaxAttemptId = 3
  MaxEpoch = 2
  MaxIncarnation = 1
INVARIANTS OneHolderPerScope LeaseTableBounded HistoryCoherent
PROPERTIES OnlyDeadLeasesDropped AttemptsSettleOnce
