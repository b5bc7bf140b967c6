SPECIFICATION Spec
CONSTANTS
  MaxSessions = 2
  MaxInstances = 2
  Launch = Launch
  NoHook = NoHook
  pa = pa
  pb = pb
  Requests <- AllHooks
  Threads = {t1}
  Faults = {"debugger", "native", "mode"}
  MaxFlushFaults = 1
  Absent = Absent
INVARIANTS
  LaunchHookShared
  DebuggerFollows
  RecordingIsTracked
