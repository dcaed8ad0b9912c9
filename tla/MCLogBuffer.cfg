SPECIFICATION FairSpec
CONSTANTS
  NumBuffers = 2
  BufferLimit = 2
  MaxRecords = 2
  FallibleLogs = {1}
  Signals = {SIGTERM, SIGINT}
  Main = Main
  OtherThreads = {rocksdb}
  Nobody = Nobody
INVARIANTS
  TypeOK
  HandlerLosesNothing
  WrittenAtMostTwice
  HandlerSeesNoDestroyedBuffer
PROPERTIES
  HandlerEndsProcess
  LogsAreDurable
\* The program ends, or a handler waits for the thread it interrupted.
CHECK_DEADLOCK FALSE
