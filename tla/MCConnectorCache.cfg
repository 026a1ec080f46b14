SPECIFICATION Spec
CONSTANTS
  Keys = {k1}
  Callers = {c1, c2, c3}
  MaxConn = 2
SYMMETRY CallerSymmetry
INVARIANTS
  TypeOK
  LiveIsReachable
  KilledLeavesCache
  TruthfulStatus
  InitOnDemand
