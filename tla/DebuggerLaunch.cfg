SPECIFICATION Spec
CHECK_DEADLOCK FALSE
CONSTANTS
  Launches = {l1, l2}
  t1 = t1
  t2 = t2
  Threads = {t1, t2}
  Callers <- CallersDef
  Devices = {0, 1}
  Streams = {0, 1}
  NullStream = 0
  NoContext = NoContext
  Drivers = {"host", "tops", "cann", "musa", "corex", "cuda", "maca"}
  Settings <- SettingsDef
  Kernels <- KernelsDef
INVARIANTS
  ExportsComplete
  NoSilentLoss
  NothingLeaks
  ContextsRestored
