CONSTANTS
  t1 = t1
  t2 = t2
  na = na
  nb = nb
  st = st
  pa = pa
  Threads = {t1}
  Names = {na}
  States = {st}
  Forms = {"with"}
  Metered = {}
  Paths = {pa}
  MaxSessions = 2
  Addresses = {1, 2}
  MaxScopes = 3
  MaxDepth = 2
  MaxMidScope = 1
  Vendor = {}
  Absent = Absent
SPECIFICATION Spec
CHECK_DEADLOCK FALSE
INVARIANTS
  ScopesExit
