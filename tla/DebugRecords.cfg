SPECIFICATION Spec
CHECK_DEADLOCK FALSE
CONSTANTS
  SummaryLimit = 2
  Sources <- SourcesDef
  Modes <- ModesDef
  Capacities = {3, 8, 20, 32}
  Grid = 2
  Trips = 2
  Offsets = 2048
  Tensors <- TensorsDef
  NaN = NaN
  Inf = Inf
  Torn = 77
INVARIANTS
  RecordsTellTheTruth
  NothingIsMissing
  ArtifactsExact
  AcceptedIsExported
