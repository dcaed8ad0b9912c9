SPECIFICATION FairSpec
CONSTANTS
  SizeRatio = 2
  SmallerRuns = 1
  LargerRuns = 1
  NumLevels = 6
  FlushThreads = {f1}
  Workers = {w1}
  NoThread = NoThread
  Level0Stop = 2
  MaxWriteBuffers = 2
  Errors = {}
  MaxBatches = 7
PROPERTY StoppedWritesResume
\* The workload ends, writes may stop for good, the process may crash.
CHECK_DEADLOCK FALSE
