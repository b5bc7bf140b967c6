CONSTANTS
  t1 = t1
  t2 = t2
  base = base
  vendor = vendor
  Threads <- MCOneThread
  DataObjects <- MCData
  KeepsScopes <- MCKeepsScopes
  MaxAttach = 2
  MaxOps = 0
  MaxCalls = 1
  MaxNodes = 2
  MaxRetries = 1
  MaxRaises = 0
  ManyInstances = 100
  Absent = Absent
SPECIFICATION Spec
CHECK_DEADLOCK FALSE
INVARIANTS
  KernelsCounted
  CorrelationExact
PROPERTIES
  FlushesReturn
