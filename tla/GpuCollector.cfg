CONSTANTS
  t1 = t1
  t2 = t2
  base = base
  vendor = vendor
  Threads <- MCThreads
  DataObjects <- MCData
  KeepsScopes <- MCKeepsScopes
  MaxAttach = 2
  MaxOps = 1
  MaxCalls = 2
  MaxNodes = 0
  MaxRetries = 1
  MaxRaises = 1
  ManyInstances = 100
  Absent = Absent
SPECIFICATION Spec
SYMMETRY ThreadSymmetry
CHECK_DEADLOCK FALSE
INVARIANTS
  KernelsUnderTheirOp
  VendorScopesMatch
PROPERTIES
  SessionsStartFresh
