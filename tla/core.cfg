SPECIFICATION Spec
SYMMETRY PortSymmetry
CONSTANTS
  Device = {d1}
  Port = {p1, p2}
  Package = {x}
  Exclusive = {x}
  NoPort = NoPort
  NoPackage = NoPackage
  Times = {0, 1}
  Lifetimes = {1}
  MaxInstances = 2
  MaxLeases = 2
  MaxAttempts = 1
  MaxConcurrent = 1
  MaxLeaseId = 2
  MaxAttemptId = 2
  MaxEpoch = 2
  MaxIncarnation = 2
INVARIANTS TypeOK OneHolderPerScope NoAuthorityAtRest
PROPERTIES RetiredStaysRetired FencedScopeSpec OnlyMovesBreakAgreement
