SPECIFICATION Spec
CONSTANTS
  SizeRatio = 2
  SmallerRuns = 2
  LargerRuns = 1
  NumLevels = 5
  FlushThreads = {f1, f2}
  Workers = {w1, w2}
  NoThread = NoThread
  Level0Stop = 4
  MaxWriteBuffers = 2
  Errors = {"IOError", "other"}
  MaxBatches = 3
SYMMETRY Symmetry
INVARIANTS
  OutstandingBound
  WorkersNeverClaim
\* The workload ends, writes may stop for good, the process may crash.
CHECK_DEADLOCK FALSE
