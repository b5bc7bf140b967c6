SPECIFICATION Spec
CONSTANTS
  Absent = Absent
  Threads = {"t1", "t2"}
  Contexts <- MCContexts
  Launches <- MCLaunches
  ThreadOf <- MCThreadOf
  Callers <- MCCallers
  ContextOf <- MCContextOf
  Nodes <- MCNodes
  Copying <- MCCopying
  Refusable <- MCRefusable
  Requests <- MCRequests
  MaxRanges = 2
  MaxPasses = 2
  BufferPCs = 1
  Refusals = 1
  Calls = 1
INVARIANTS
  RangesNameTheirKernel
  SamplesOfTheLaunch
  LossIsReported
  CountersReleased
CHECK_DEADLOCK FALSE
