SPECIFICATION ProfilerSpec
CONSTANTS
  Kernels <- MCKernels
  Modes <- MCModes
  RefusedModes <- MCRefused
  ClockStarts <- MCClockStarts
  Garbage <- MCGarbage
  MaxSharedMem = 4096
  ClockWrap = 1000
  MaxLaunches = 2
  MaxTraceSessions = 2
  Nothing = Nothing
INVARIANTS
  PairsAreReal
  KeepsWhatIsLeft
  EachUnderItsOp
CHECK_DEADLOCK FALSE
