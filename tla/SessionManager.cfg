SPECIFICATION Spec
CONSTANTS
  Paths = {pa, pb}
  Cupti = Cupti
  Instr = Instr
  Nvidia = Nvidia
  Plain = Plain
  Vendor = Vendor
  Sampled = Sampled
  Other = Other
  Cuda = Cuda
  Hip = Hip
  Units = Units
  Grain = Grain
  Few = Few
  Many = Many
  Warp = Warp
  Devices <- MCDevices
  OptionKeys <- MCOptionKeys
  OptionValues <- MCOptionValues
  Absent = Absent
  Profilers <- MCProfilers
  Instrumenting <- MCInstrumenting
  Requests <- AllRequests
  MaxSessions = 3
  Faults = {"construct", "start", "stop", "dump"}
  MaxFlushFaults = 1
INVARIANTS
  TypeOK
  KeysAgree
  CountsCoverActive
  CollectorFollows
  DetachedUnreachable
CHECK_DEADLOCK FALSE
PROPERTIES
  ImplementsLifecycle
