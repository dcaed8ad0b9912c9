SPECIFICATION FairRunSpec
CONSTANTS
  NumBuffers = 2
  BufferLimit = 2
  MaxRecords = 6
  FallibleLogs = {2}
  Signals = {SIGINT}
  Main = Main
  OtherThreads = {}
  Nobody = Nobody
  MaxLines = 3
  ProgressParts = 2
  Failures = {"Error"}
INVARIANTS
  RunTypeOK
  EveryLineRuns
  ReportComplete
  InterruptedRunIsReported
  DivisionByZeroNeedsShortInput
PROPERTY RunEnds
\* The program ends, or a handler waits for the thread it interrupted.
CHECK_DEADLOCK FALSE
