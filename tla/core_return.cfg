SPECIFICATION Spec
SYMMETRY PortSymmetry
CONSTANTS
  Device = {d1}
  Port = {p1, p2}
  Package = {x}
  Exclusive = {x}
  NoPort = NoPort
  NoPackage = NoPackage
  Times = {0, 1}
  Lifetimes = {1}
  MaxInstances = 1
  MaxLeases = 2
  MaxAttempts = 2
  MaxConcurrent = 2
  MaxLeaseId = 3
  MaxAttemptId = 4
  MaxEpoch = 1
  MaxIncarnation = 1
PROPERTY DrainEndsAuthority
