SPECIFICATION Spec
CHECK_DEADLOCK FALSE
CONSTANTS
  o1 = 1
  o2 = 2
  Ops = {1, 2}
  KernelOf <- KernelOfDef
  Alike <- AlikeDef
  Canonical <- CanonicalDef
  Vendors = {"mthreads", "tianshu", "cann"}
  Options <- OptionsDef
  Rows <- RowsDef
  MaxRows = 3
  Natives <- NativesDef
  Strict = 1
  Fuzzy = 2
  Sessions = 2
INVARIANTS
  EachKernelOnce
  LaunchOrderKept
  EverythingReleased
  EventsOfTheSession
