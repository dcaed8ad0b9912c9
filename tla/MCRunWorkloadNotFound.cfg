SPECIFICATION RunSpec
CONSTANTS
  NumBuffers = 2
  BufferLimit = 2
  MaxRecords = 6
  FallibleLogs = {}
  Signals = {}
  Main = Main
  OtherThreads = {}
  Nobody = Nobody
  MaxLines = 3
  ProgressParts = 2
  Failures = {}
INVARIANT AssertionsHold
\* The program ends.
CHECK_DEADLOCK FALSE
