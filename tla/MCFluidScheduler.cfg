SPECIFICATION FairTreeSpec
CONSTANTS
  SizeRatio = 2
  SmallerRuns = 2
  LargerRuns = 1
  NumLevels = 8
  FlushThreads = {f1}
  Workers = {w1}
  NoThread = NoThread
  Level0Stop = 4
  MaxWriteBuffers = 2
  Errors = {"IOError", "other"}
  MaxBatches = 6
INVARIANTS
  TypeOK
  PermitAccounting
  ClaimIsExclusive
  RequestsAcceptable
  StackedFromBottom
  PushMergesOnlyIntoFullLevel
  RunsOutgrewLevelAbove
PROPERTIES
  PermitReleased
  CallbackReturns
  TreeIsTiered
\* The workload ends, writes may stop for good, the process may crash.
CHECK_DEADLOCK FALSE
