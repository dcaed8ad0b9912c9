SPECIFICATION Spec
CONSTANTS
  UIntBits = 20
  LongBits = 30
  Megabyte = 1024
  MaxArgs = 3
  Chunks <- MCChunks
INVARIANTS
  TypeOK
  ReadAsSpelled
  NoFlagSwallowed
  TriggersFollowRatio
  CompactionDueBeforeStop
  OnlyGivenFlagsMatter
  BufferHoldsPage
  SetupTellsOptions
PROPERTY PrintedWasMeasured
\* The program has run its workload, or has exited.
CHECK_DEADLOCK FALSE
