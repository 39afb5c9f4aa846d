SPECIFICATION Spec
SYMMETRY PackageSymmetry
CONSTANTS
  Device = {d1}
  Port = {p1}
  Package = {x, y}
  Exclusive = {x, y}
  NoPort = NoPort
  NoPackage = NoPackage
  Times = {0, 1}
  Lifetimes = {1}
  MaxInstances = 1
  MaxLeases = 1
  MaxAttempts = 1
  MaxConcurrent = 1
  MaxLeaseId = 2
  MaxAttemptId = 2
  MaxEpoch = 3
  MaxIncarnation = 2
  MaxGeneration = 1
  ReportTimes = {0}
  Fits = {{x, y}}
  Window = 0
INVARIANT LiveEvidenceOnly
PROPERTIES PromiseKept ReportsAdvance
