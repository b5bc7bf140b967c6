CONSTANTS
  t1 = t1
  t2 = t2
  na = na
  nb = nb
  st = st
  pa = pa
  Threads <- MCThreads
  Names <- TwoNames
  States = {st}
  Forms = {"with", "decorated", "call"}
  Metered = {"with", "call"}
  Paths = {pa}
  MaxSessions = 1
  Addresses = {1}
  MaxScopes = 3
  MaxDepth = 2
  MaxMidScope = 0
  Vendor = {}
  Absent = Absent
SPECIFICATION Spec
SYMMETRY Symmetry
CHECK_DEADLOCK FALSE
INVARIANTS
  MetricsReachTheirScope
PROPERTIES
  PathsExact

