SPECIFICATION CollectorSpec
CHECK_DEADLOCK FALSE
CONSTANTS
  Calls = {c1, c2}
  Sessions = 2
  Collectors = {"enflame", "metax", "mthreads"}
  Options <- OptionsDef
  CallFaults = {"start", "stop", "counter", "record"}
SYMMETRY Symmetric
INVARIANTS
  SessionGetsItsKernels
  OneRowPerLaunch
  NothingStaysEnabled
  RangesFollowTheSession
