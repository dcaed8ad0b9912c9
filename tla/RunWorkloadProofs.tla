-------------------------- MODULE RunWorkloadProofs --------------------------
(***************************************************************************)
(* Proofs about RunWorkload, for any workload, any number of threads and   *)
(* signals, any limit of the buffers and any disks that fail.              *)
(***************************************************************************)
EXTENDS RunWorkload, LogContentProofs

(* Seen from the logs, runWorkload is a caller like any other.              *)
LEMMA RunLogStep == RunNext \/ UNCHANGED allVars => LogStep
<1> USE DEF LogStep
<1>1. WorkloadLog \in Buffers /\ StatsLog \in Buffers
  BY WorkloadAssumption DEF Buffers, WorkloadLog, StatsLog
<1>2. ASSUME Ready, UNCHANGED bufferVars,
             ended' = ended \/ ended' \in {"crashed", "aborted", "SIGFPE"}
      PROVE  LogStep
  <2>1. ended = "no" /\ ended' \in {"no", "crashed", "aborted", "SIGFPE"}
    BY <1>2 DEF Ready, Runs
  <2>2. EndedByCaller
    BY <1>2, <2>1 DEF EndedByCaller, bufferVars, streams, Outcomes
  <2> QED
    BY <2>2
<1>3. ASSUME Ready, NEW b \in Buffers, Put(b) \/ UNCHANGED vars PROVE LogStep
  BY <1>3 DEF Next
<1>4. CASE OpenLogs
  <2>1. Construct \/ UNCHANGED vars \/ Put(WorkloadLog)
    BY <1>4 DEF OpenLogs
  <2> QED
    BY <1>1, <2>1 DEF Next
<1>5. CASE OpenDB \/ OpenInput \/ CheckStatus \/ CloseDB \/ Scan
  BY <1>2, <1>5 DEF OpenDB, OpenInput, CheckStatus, CloseDB, Scan, Quietly, At,
     AssertThen
<1>6. CASE CountLines \/ Rewind \/ GetLine \/ Peek \/ DeleteRange \/ Progress
  BY <1>2, <1>6 DEF CountLines, Rewind, GetLine, Peek, DeleteRange, Progress,
     Quietly, At
<1>7. CASE Write \/ Lookup \/ Scanned
  <2>1. Put(StatsLog) \/ UNCHANGED vars
    BY <1>7 DEF Write, Lookup, Scanned, RecordTime
  <2> QED
    BY <1>1, <2>1 DEF Next
<1>8. CASE Seek \/ NoMatch \/ Summarise \/ PerfStats
  <2>1. Put(WorkloadLog) \/ UNCHANGED vars
    BY <1>8 DEF Seek, NoMatch, Summarise, PerfStats
  <2> QED
    BY <1>1, <2>1 DEF Next
<1>9. CASE \/ FlushLog("flush", WorkloadLog, "flush_stats")
           \/ FlushLog("flush_stats", StatsLog, "leave")
           \/ LeaveScope
  BY <1>1, <1>9 DEF FlushLog, LeaveScope, Next
<1>10. CASE MainStep \/ Interruption
  BY <1>10 DEF Interruption, Next
<1>11. CASE UNCHANGED allVars
  BY <1>11 DEF allVars
<1> QED
  BY <1>4, <1>5, <1>6, <1>7, <1>8, <1>9, <1>10, <1>11
     DEF RunNext, Driver, Operation, Closing

-----------------------------------------------------------------------------
(* The loop over the lines.                                                *)

Setup == {"logs", "open", "input", "count", "rewind"}

InLine == {"operation", "seek", "scanned", "progress"}

Over == {"tree", "check", "close", "perf", "flush", "flush_stats", "leave",
         "left"}

DriverTypes ==
  /\ env \in Environments
  /\ input \in [read : 0 .. MaxLines, eof : BOOLEAN, fail : BOOLEAN]
  /\ total \in 0 .. MaxLines
  /\ lastLine \in BOOLEAN
  /\ s \in Statuses \cup {"NotFound"}
  /\ stmt \in Stmts
  /\ ran \in Nat
  /\ timed \in Nat

(* How far the loop has come; a run that a division by zero ended has just  *)
(* counted its operation.                                                  *)
LoopInv ==
  /\ stmt \in Setup => ran = 0 /\ timed = 0
  /\ stmt \notin Setup \ {"rewind"} => (env.progress => total = env.lines)
  /\ stmt = "getline" =>
       /\ ran = input.read /\ input.read <= env.lines /\ input.read < env.blank
       /\ ~ input.eof /\ (input.fail <=> env.missing)
  /\ stmt \in InLine \cup {"peek"} =>
       /\ 1 <= input.read /\ input.read <= env.lines /\ input.read < env.blank
       /\ ~ input.fail
  /\ stmt = "peek" => (input.eof => input.read = env.lines)
  /\ stmt \in InLine =>
       /\ lastLine <=> input.read = env.lines
       /\ input.eof <=> lastLine
  /\ stmt \in (InLine \cup {"peek"}) \ {"progress"} => ran = input.read - 1
  /\ stmt = "progress" =>
       /\ ran = input.read - 1 \/ (ended # "no" /\ ran = input.read)
       /\ timed <= input.read
  /\ stmt # "progress" => timed <= ran
  /\ stmt \in Over => ran = Operations

LEMMA EnvType ==
  ASSUME env \in Environments
  PROVE  /\ env.lines \in Nat /\ env.lines <= MaxLines /\ MaxLines \in Nat
         /\ env.blank \in Nat /\ env.blank >= 1 /\ env.missing \in BOOLEAN
         /\ env.missing => env.lines = 0 /\ env.blank = 1
         /\ env.progress \in BOOLEAN /\ env.asserts \in BOOLEAN
BY WorkloadAssumption DEF Environments

LEMMA CallsRun == MainStep \/ Interruption => ended = "no"
BY DEF MainStep, Interruption, HandlerStep, LockInstances, PushBack,
   RegisterSignals, Insert, FlushStep, FlushWrite, FlushSync, FlushClear, Close,
   Remove, Return, LockInHandler, Exit, Fail, Deliver, Runs

LEMMA LoopNext ==
  ASSUME DriverTypes, LoopInv, RunNext
  PROVE  DriverTypes' /\ LoopInv'
<1>1. /\ env.lines \in Nat /\ env.lines <= MaxLines /\ MaxLines \in Nat
      /\ env.blank \in Nat /\ env.blank >= 1 /\ env.missing \in BOOLEAN
      /\ env.missing => env.lines = 0 /\ env.blank = 1
      /\ env.progress \in BOOLEAN /\ env.asserts \in BOOLEAN
  BY EnvType DEF DriverTypes
<1>2. CASE (MainStep \/ Interruption) /\ UNCHANGED driverVars
  <2>1. ended = "no"
    BY <1>2, CallsRun
  <2> QED
    BY <1>1, <1>2, <2>1 DEF driverVars, DriverTypes, LoopInv, Operations
<1>3. CASE GetLine
  <2>1. /\ stmt = "getline" /\ UNCHANGED <<env, total, lastLine, s, ran, timed>>
        /\ timed <= ran /\ ran = input.read /\ input.read <= env.lines
        /\ input.read < env.blank /\ ~ input.eof /\ (input.fail <=> env.missing)
        /\ env.progress => total = env.lines
    BY <1>3 DEF GetLine, Quietly, At, LoopInv, Setup
  <2>2. CASE input.eof \/ input.fail \/ input.read = env.lines
    <3>1. ran = Operations
      BY <1>1, <2>1, <2>2 DEF Operations, DriverTypes
    <3>2. stmt' = "tree" /\ input' = [input EXCEPT !.eof = @ \/ ~input.fail, !.fail = TRUE]
      BY <1>3, <2>2 DEF GetLine
    <3> QED
      BY <1>1, <2>1, <3>1, <3>2 DEF DriverTypes, LoopInv, Operations, Setup,
         InLine, Over, Stmts
  <2>3. CASE ~ (input.eof \/ input.fail \/ input.read = env.lines)
    <3>1. /\ input' = [input EXCEPT
                         !.read = @ + 1,
                         !.eof = input.read + 1 = env.lines /\ ~ env.newline]
          /\ stmt' = IF input.read + 1 = env.blank THEN "tree" ELSE "peek"
      BY <1>3, <2>3 DEF GetLine
    <3>2. /\ input'.read = input.read + 1 /\ input'.fail = input.fail
          /\ input'.eof => input.read + 1 = env.lines
          /\ input' \in [read : 0 .. MaxLines, eof : BOOLEAN, fail : BOOLEAN]
      <4>1. PICK n \in 0 .. MaxLines : n = input.read + 1
        <5>1. input.read + 1 \in 0 .. MaxLines
          BY <1>1, <2>1, <2>3 DEF DriverTypes
        <5> QED
          BY <5>1
      <4>2. PICK e \in BOOLEAN : e <=> n = env.lines /\ ~ env.newline
        OBVIOUS
      <4>3. input' = [input EXCEPT !.read = n, !.eof = e]
        BY <3>1, <4>1, <4>2
      <4>4. input \in [read : 0 .. MaxLines, eof : BOOLEAN, fail : BOOLEAN]
        BY DEF DriverTypes
      <4>5. /\ input'.read = n /\ input'.fail = input.fail /\ input'.eof = e
            /\ input' \in [read : 0 .. MaxLines, eof : BOOLEAN, fail : BOOLEAN]
        BY <4>3, <4>4
      <4> QED
        BY <4>1, <4>2, <4>5
    <3>3. CASE stmt' = "tree"
      <4>1. ran = Operations
        BY <1>1, <2>1, <2>3, <3>1, <3>3 DEF Operations, DriverTypes
      <4> QED
        BY <1>1, <2>1, <3>2, <3>3, <4>1 DEF DriverTypes, LoopInv, Operations,
           Setup, InLine, Over, Stmts
    <3>4. CASE stmt' = "peek"
      BY <1>1, <2>1, <2>3, <3>1, <3>2, <3>4 DEF DriverTypes, LoopInv, Operations,
         Setup, InLine, Over, Stmts
    <3> QED
      BY <3>1, <3>3, <3>4
  <2> QED
    BY <2>2, <2>3
<1>4. CASE Peek
  BY <1>1, <1>4 DEF Peek, Quietly, At, DriverTypes, LoopInv, Operations, Setup,
     InLine, Over, Stmts
<1>5. CASE Progress
  BY <1>1, <1>5 DEF Progress, Quietly, At, Ready, Runs, DriverTypes, LoopInv,
     Operations, Setup, InLine, Over, Stmts
<1>6. CASE Write \/ Lookup \/ Scanned
  BY <1>1, <1>6 DEF Write, Lookup, Scanned, RecordTime, At, DriverTypes, LoopInv,
     Operations, Setup, InLine, Over, Stmts
<1>7. CASE Scan \/ Seek
  BY <1>1, <1>7 DEF Scan, Seek, AssertThen, At, DriverTypes, LoopInv,
     Operations, Setup, InLine, Over, Stmts
<1>8. CASE DeleteRange \/ NoMatch
  BY <1>1, <1>8 DEF DeleteRange, NoMatch, Quietly, At, DriverTypes, LoopInv,
     Operations, Setup, InLine, Over, Stmts
<1>9. CASE OpenLogs \/ OpenDB \/ OpenInput
  BY <1>1, <1>9 DEF OpenLogs, OpenDB, OpenInput, AssertThen, Quietly, At,
     DriverTypes, LoopInv, Operations, Setup, InLine, Over, Stmts
<1>10. CASE CountLines
  <2>1. /\ stmt = "count" /\ stmt' = "rewind"
        /\ UNCHANGED <<env, lastLine, s, ran, timed>>
    BY <1>10 DEF CountLines, Quietly, At
  <2>2. /\ total' \in 0 .. MaxLines /\ (env.progress => total' = env.lines)
        /\ input' \in [read : 0 .. MaxLines, eof : BOOLEAN, fail : BOOLEAN]
    <3>1. CASE env.progress
      <4>1. PICK e \in BOOLEAN : e <=> ~ env.missing
        OBVIOUS
      <4>2. /\ total' = env.lines
            /\ input' = [read |-> env.lines, eof |-> e, fail |-> TRUE]
        BY <1>10, <3>1, <4>1 DEF CountLines
      <4>3. env.lines \in 0 .. MaxLines
        BY <1>1
      <4> QED
        BY <4>2, <4>3
    <3>2. CASE ~ env.progress
      BY <1>10, <3>2 DEF CountLines, DriverTypes
    <3> QED
      BY <3>1, <3>2
  <2> QED
    BY <1>1, <2>1, <2>2 DEF DriverTypes, LoopInv, Operations, Setup, InLine,
       Over, Stmts
<1>11. CASE Rewind
  BY <1>1, <1>11 DEF Rewind, Quietly, At,
     DriverTypes, LoopInv, Operations, Setup, InLine, Over, Stmts
<1>12. CASE Summarise \/ CheckStatus \/ CloseDB \/ PerfStats
  BY <1>1, <1>12 DEF Summarise, CheckStatus, CloseDB, PerfStats, AssertThen,
     Quietly, At, DriverTypes, LoopInv, Operations, Setup, InLine, Over, Stmts
<1>13. CASE \/ FlushLog("flush", WorkloadLog, "flush_stats")
            \/ FlushLog("flush_stats", StatsLog, "leave")
            \/ LeaveScope
  BY <1>1, <1>13 DEF FlushLog, LeaveScope, At, DriverTypes, LoopInv, Operations,
     Setup, InLine, Over, Stmts
<1> QED
  BY <1>2, <1>3, <1>4, <1>5, <1>6, <1>7, <1>8, <1>9, <1>10, <1>11, <1>12, <1>13
     DEF RunNext, Driver, Operation, Closing

LEMMA LoopTypes ==
  ASSUME DriverTypes, LoopInv
  PROVE  ran \in 0 .. env.lines /\ timed \in 0 .. env.lines
<1>1. /\ env.lines \in Nat /\ env.blank \in Nat /\ env.blank >= 1
      /\ input.read \in Nat /\ ran \in Nat /\ timed \in Nat
  BY EnvType DEF DriverTypes
<1>2. CASE stmt \in Setup
  BY <1>1, <1>2 DEF LoopInv, Setup
<1>3. CASE stmt = "getline"
  BY <1>1, <1>3 DEF LoopInv
<1>4. CASE stmt \in (InLine \cup {"peek"}) \ {"progress"}
  BY <1>1, <1>4 DEF LoopInv, InLine
<1>5. CASE stmt = "progress"
  BY <1>1, <1>5 DEF LoopInv, InLine
<1>6. CASE stmt \in Over
  BY <1>1, <1>6 DEF LoopInv, Over, Operations
<1> QED
  BY <1>2, <1>3, <1>4, <1>5, <1>6 DEF DriverTypes, Stmts, Setup, InLine, Over

-----------------------------------------------------------------------------
(* The statistics, and the ends of a run.                                  *)

(* The record of the last time taken may still be on its way.               *)
StatsInv ==
  IF pc[Main] = "insert" /\ at[Main] = StatsLog
  THEN timed = logged[StatsLog] + 1
  ELSE timed = logged[StatsLog]

(* The calls of a Buffer and the handlers write no record that the driver   *)
(* has not sent.                                                           *)
LEMMA StatsCalls ==
  ASSUME BufferInv, MainStep \/ Interruption, UNCHANGED timed, StatsInv
  PROVE  StatsInv'
<1>1. /\ logged \in [Buffers -> 0 .. MaxRecords] /\ StatsLog \in Buffers
      /\ pc \in [Contexts -> PCs] /\ at \in [Contexts -> Buffers]
      /\ Main \in Contexts /\ logged[StatsLog] \in Nat /\ at[Main] \in Buffers
  BY ContextsType, WorkloadAssumption, BuffersAssumption
     DEF BufferInv, TypeOK, Buffers, StatsLog
<1>2. CASE Insert
  <2>1. /\ pc[Main] = "insert" /\ pc'[Main] # "insert"
        /\ logged' = [logged EXCEPT ![at[Main]] = @ + 1]
    BY <1>1, <1>2 DEF Insert, Goto
  <2> QED
    BY <1>1, <2>1 DEF StatsInv
<1>3. ASSUME logged' = logged, pc[Main] # "insert", pc'[Main] # "insert"
      PROVE  StatsInv'
  BY <1>3 DEF StatsInv
<1>4. ASSUME logged' = logged, pc'[Main] = pc[Main], at'[Main] = at[Main]
      PROVE  StatsInv'
  BY <1>4 DEF StatsInv
<1>5. CASE FlushStep(Main)
  <2>1. /\ logged' = logged /\ pc[Main] \in {"flush", "sync", "clear"}
        /\ pc'[Main] \in {"sync", "clear", "close", "ready"}
    BY <1>1, <1>5, FlushStepMoves
  <2> QED
    BY <1>3, <2>1
<1>6. CASE Close \/ LockInstances \/ PushBack \/ RegisterSignals \/ Remove \/ Return
  <2>1. /\ logged' = logged /\ pc[Main] # "insert" /\ pc'[Main] # "insert"
    BY <1>1, <1>6 DEF Close, WriteOut, LockInstances, PushBack, RegisterSignals,
       Remove, Return, Goto
  <2> QED
    BY <1>3, <2>1
<1>7. ASSUME NEW sig \in Signals, HandlerStep(sig)
      PROVE  StatsInv'
  <2>1. sig \in Contexts /\ sig # Main
    BY ContextsType
  <2>2. CASE FlushStep(sig)
    <3>1. /\ logged' = logged /\ pc' = [pc EXCEPT ![sig] = pc'[sig]]
          /\ at'[Main] = at[Main]
      BY <1>1, <2>1, <2>2, FlushStepMoves
    <3> QED
      BY <1>1, <1>4, <2>1, <3>1
  <2>3. CASE LockInHandler(sig) \/ Exit(sig)
    BY <1>1, <1>4, <2>1, <2>3 DEF LockInHandler, Exit, Goto
  <2> QED
    BY <1>7, <2>2, <2>3 DEF HandlerStep
<1>8. ASSUME NEW sig \in Signals, NEW t \in Threads, Deliver(sig, t)
      PROVE  StatsInv'
  BY <1>1, <1>4, <1>8, ContextsType DEF Deliver, Goto
<1>9. ASSUME NEW c \in Contexts, Fail(c) PROVE StatsInv'
  BY <1>4, <1>9 DEF Fail
<1> QED
  BY <1>2, <1>5, <1>6, <1>7, <1>8, <1>9 DEF MainStep, Interruption

LEMMA StatsNext ==
  ASSUME BufferInv, DriverTypes, StatsInv, RunNext
  PROVE  StatsInv'
<1>1. /\ StatsLog \in Buffers /\ pc \in [Contexts -> PCs]
      /\ at \in [Contexts -> Buffers] /\ Main \in Contexts
      /\ StatsLog # WorkloadLog
  BY ContextsType, WorkloadAssumption
     DEF BufferInv, TypeOK, Buffers, StatsLog, WorkloadLog
<1>2. CASE (MainStep \/ Interruption) /\ UNCHANGED driverVars
  BY <1>2, StatsCalls DEF driverVars
<1>3. ASSUME Ready, UNCHANGED timed, Put(WorkloadLog) \/ UNCHANGED bufferVars
      PROVE  StatsInv'
  <2>1. CASE Put(WorkloadLog)
    BY <1>1, <1>3, <2>1 DEF Put, Ready, Goto, StatsInv
  <2>2. CASE UNCHANGED bufferVars
    BY <1>3, <2>2 DEF bufferVars, StatsInv
  <2> QED
    BY <1>3, <2>1, <2>2
<1>4. UNCHANGED vars => UNCHANGED bufferVars
  BY DEF vars, bufferVars
<1>5. CASE OpenLogs
  <2>1. CASE Construct
    <3>1. /\ logged' = logged /\ pc[Main] = "ready" /\ pc'[Main] # "insert"
      BY <1>1, <2>1 DEF Construct, Ready, Goto
    <3> QED
      BY <1>5, <3>1 DEF OpenLogs, StatsInv
  <2>2. CASE ~ Construct
    BY <1>3, <1>4, <1>5, <2>2 DEF OpenLogs, Put
  <2> QED
    BY <2>1, <2>2
<1>6. CASE OpenDB \/ OpenInput \/ CountLines \/ Rewind \/ GetLine \/ Peek
  BY <1>3, <1>6 DEF OpenDB, OpenInput, CountLines, Rewind, GetLine, Peek,
     Quietly, At
<1>7. CASE Write \/ Lookup \/ Scanned
  <2>1. Ready /\ RecordTime
    BY <1>7 DEF Write, Lookup, Scanned, At
  <2>2. CASE env.per_op_timer
    <3>1. Put(StatsLog) /\ timed' = timed + 1
      BY <2>1, <2>2 DEF RecordTime
    <3>2. /\ pc[Main] = "ready" /\ pc'[Main] = "insert" /\ at'[Main] = StatsLog
          /\ logged' = logged
      BY <1>1, <3>1 DEF Put, Ready, Goto
    <3> QED
      BY <3>1, <3>2 DEF StatsInv
  <2>3. CASE ~ env.per_op_timer
    BY <1>3, <1>4, <2>1, <2>3 DEF RecordTime
  <2> QED
    BY <2>2, <2>3
<1>8. CASE Scan \/ Seek \/ DeleteRange \/ NoMatch \/ Progress
  BY <1>3, <1>4, <1>8 DEF Scan, Seek, DeleteRange, NoMatch, Progress, Quietly, At
<1>9. CASE Summarise \/ CheckStatus \/ CloseDB \/ PerfStats
  BY <1>3, <1>4, <1>9 DEF Summarise, CheckStatus, CloseDB, PerfStats, Quietly, At
<1>10. CASE \/ FlushLog("flush", WorkloadLog, "flush_stats")
            \/ FlushLog("flush_stats", StatsLog, "leave")
            \/ LeaveScope
  <2>1. /\ logged' = logged /\ pc[Main] = "ready" /\ pc'[Main] # "insert"
        /\ timed' = timed
    BY <1>1, <1>10 DEF FlushLog, LeaveScope, Flush, Leave, Ready, Goto
  <2> QED
    BY <2>1 DEF StatsInv
<1> QED
  BY <1>2, <1>5, <1>6, <1>7, <1>8, <1>9, <1>10
     DEF RunNext, Driver, Operation, Closing

(* Only the progress bar divides.                                           *)
LEMMA DivisionNext ==
  ASSUME BufferInv, DriverTypes, LoopInv, RunNext
  PROVE  DivisionByZeroNeedsShortInput'
<1>1. CASE Progress
  <2>1. ended = "no" /\ stmt = "progress" /\ env' = env
    BY <1>1 DEF Progress, Quietly, At, Ready, Runs
  <2>2. /\ env.lines \in Nat /\ input.read \in Nat /\ input.read <= env.lines
        /\ input.read >= 1 /\ ProgressParts \in Nat \ {0}
        /\ env.progress => total = env.lines
    BY <2>1, EnvType, WorkloadAssumption DEF DriverTypes, LoopInv, InLine, Setup
  <2>3. CASE env.progress /\ total \div ProgressParts = 0
    BY <2>1, <2>2, <2>3 DEF DivisionByZeroNeedsShortInput
  <2>4. CASE ~ (env.progress /\ total \div ProgressParts = 0)
    BY <1>1, <2>1, <2>4 DEF Progress, DivisionByZeroNeedsShortInput
  <2> QED
    BY <2>3, <2>4
<1>2. ASSUME ended' # "SIGFPE" PROVE DivisionByZeroNeedsShortInput'
  BY <1>2 DEF DivisionByZeroNeedsShortInput
<1>3. CASE \/ OpenDB \/ OpenInput \/ CountLines \/ Rewind \/ GetLine \/ Peek
           \/ Scan \/ DeleteRange \/ CheckStatus \/ CloseDB
  <2>1. ended' \in {"no", "crashed", "aborted"}
    BY <1>3 DEF OpenDB, OpenInput, CountLines, Rewind, GetLine, Peek,
       Scan, DeleteRange, CheckStatus, CloseDB, AssertThen, Quietly, At, Ready,
       Runs
  <2> QED
    BY <1>2, <2>1
<1>4. CASE \/ OpenLogs \/ Write \/ Lookup \/ Scanned \/ Seek \/ NoMatch
           \/ Summarise \/ PerfStats \/ LeaveScope
           \/ FlushLog("flush", WorkloadLog, "flush_stats")
           \/ FlushLog("flush_stats", StatsLog, "leave")
  <2>1. ended' \in {"no", "terminated"}
    BY <1>4 DEF OpenLogs, Write, Lookup, Scanned, Seek, NoMatch, Summarise,
       PerfStats, LeaveScope, FlushLog, RecordTime, Construct, Put, Flush, Leave,
       vars, At, Ready, Runs
  <2> QED
    BY <1>2, <2>1
<1>5. CASE MainStep
  <2>1. ended' \in {"no", "returned"}
    <3>1. CASE FlushStep(Main)
      BY <3>1, FlushStepMoves, ContextsType
    <3>2. CASE ~ FlushStep(Main)
      BY <1>5, <3>2 DEF MainStep, LockInstances, PushBack, RegisterSignals,
         Insert, Close, WriteOut, Remove, Return, Runs
    <3> QED
      BY <3>1, <3>2
  <2> QED
    BY <1>2, <2>1
<1>6. ASSUME NEW sig \in Signals, HandlerStep(sig)
      PROVE  DivisionByZeroNeedsShortInput'
  <2>1. ended' \in {"no", sig} /\ sig # "SIGFPE"
    <3>1. sig # "SIGFPE" /\ sig \in Contexts
      BY ContextsType DEF Outcomes
    <3>2. CASE FlushStep(sig)
      BY <3>1, <3>2, FlushStepMoves
    <3>3. CASE ~ FlushStep(sig)
      BY <1>6, <3>1, <3>3 DEF HandlerStep, LockInHandler, Exit, Runs
    <3> QED
      BY <3>2, <3>3
  <2> QED
    BY <1>2, <2>1
<1>7. ASSUME NEW sig \in Signals, NEW t \in Threads, Deliver(sig, t)
      PROVE  DivisionByZeroNeedsShortInput'
  BY <1>2, <1>7 DEF Deliver
<1>8. ASSUME NEW c \in Contexts, Fail(c) PROVE DivisionByZeroNeedsShortInput'
  BY <1>2, <1>8 DEF Fail
<1> QED
  BY <1>1, <1>3, <1>4, <1>5, <1>6, <1>7, <1>8
     DEF RunNext, Driver, Operation, Closing, Interruption

(* The driver keeps its place in the input, and the logs what it sends.     *)
RunInv ==
  /\ DurableInv
  /\ DriverTypes /\ LoopInv /\ StatsInv /\ DivisionByZeroNeedsShortInput

LEMMA RunInvInit == RunInit => RunInv
<1> SUFFICES ASSUME RunInit PROVE RunInv
  OBVIOUS
<1>1. DurableInv
  BY BufferInit, CountInit, ContentInit, GapInit DEF RunInit, DurableInv
<1>2. DriverTypes
  <2>1. 0 \in 0 .. MaxLines
    BY WorkloadAssumption
  <2> QED
    BY <2>1 DEF RunInit, DriverTypes, Stmts, Statuses
<1>3. LoopInv
  BY DEF RunInit, LoopInv, Setup, InLine, Over
<1>4. StatsInv
  <2>1. StatsLog \in Buffers /\ Main \in Contexts
    BY ContextsType, WorkloadAssumption DEF Buffers, StatsLog
  <2>2. pc[Main] = "ready" /\ logged[StatsLog] = 0 /\ timed = 0
    BY <2>1 DEF RunInit, Init
  <2> QED
    BY <2>2 DEF StatsInv
<1>5. DivisionByZeroNeedsShortInput
  BY DEF RunInit, Init, DivisionByZeroNeedsShortInput
<1> QED
  BY <1>1, <1>2, <1>3, <1>4, <1>5 DEF RunInv

LEMMA RunInvNext == RunInv /\ [RunNext]_allVars => RunInv'
<1> SUFFICES ASSUME RunInv, [RunNext]_allVars PROVE RunInv'
  OBVIOUS
<1>1. DurableInv'
  BY RunLogStep, DurableNext DEF RunInv
<1>2. CASE RunNext
  BY <1>1, <1>2, LoopNext, StatsNext, DivisionNext DEF RunInv, DurableInv
<1>3. CASE UNCHANGED allVars
  BY <1>1, <1>3 DEF RunInv, allVars, driverVars, vars, DriverTypes, LoopInv,
     Operations, StatsInv, DivisionByZeroNeedsShortInput
<1> QED
  BY <1>2, <1>3

LEMMA RunInvariant == RunSpec => []RunInv
BY RunInvInit, RunInvNext, PTL DEF RunSpec

(* The counters of the driver never pass the number of lines.               *)
THEOREM RunTypeCorrect == RunSpec => []RunTypeOK
<1>1. RunInv => RunTypeOK
  BY LoopTypes DEF RunInv, DurableInv, BufferInv, DriverTypes, RunTypeOK
<1> QED
  BY <1>1, RunInvariant, PTL

(* The loop ends when each line before the first empty one has been run     *)
(* once, however the last line ends and whether or not the lines were       *)
(* counted first.                                                          *)
THEOREM EveryLineIsRun == RunSpec => []EveryLineRuns
<1>1. RunInv => EveryLineRuns
  BY DEF RunInv, LoopInv, Over, EveryLineRuns
<1> QED
  BY <1>1, RunInvariant, PTL

(* A run that returns has put one record for each operation that was timed  *)
(* in the statistics, and written each log in full and once if its disk did *)
(* not fail, and without a gap if it did and no handler raced with it.      *)
THEOREM ReportIsComplete == RunSpec => []ReportComplete
<1>1. RunInv => ReportComplete
  <2> SUFFICES ASSUME RunInv, ended = "returned"
               PROVE  /\ ReturnedMeansWritten /\ NoGaps
                      /\ logged[StatsLog] = timed
    BY DEF ReportComplete
  <2>1. pc[Main] = "return"
    BY DEF RunInv, DurableInv, BufferInv, PlaceInv, EndInv
  <2> QED
    BY <2>1, ReturnWritten, NothingSkipped DEF RunInv, DurableInv, StatsInv
<1> QED
  BY <1>1, RunInvariant, PTL

(* A run that a signal ends has put a record in the statistics of every     *)
(* operation that was complete.  A handler on the main thread has written   *)
(* each log in full if its disk did not fail, and without a gap if it did.  *)
THEOREM InterruptionIsReported == RunSpec => []InterruptedRunIsReported
<1>1. RunInv => InterruptedRunIsReported
  <2> SUFFICES ASSUME RunInv
               PROVE  /\ HandlerLosesNothing /\ NoGaps
                      /\ timed - 1 <= logged[StatsLog] /\ logged[StatsLog] <= timed
    BY DEF InterruptedRunIsReported
  <2>1. logged[StatsLog] \in Nat
    BY WorkloadAssumption
       DEF RunInv, DurableInv, BufferInv, TypeOK, Buffers, StatsLog
  <2> QED
    BY <2>1, NothingLost, NothingSkipped DEF RunInv, DurableInv, StatsInv
<1> QED
  BY <1>1, RunInvariant, PTL

(* The progress bar divides by zero only for a file with fewer lines than   *)
(* the bar has moves.                                                      *)
THEOREM DivisionNeedsShortInput == RunSpec => []DivisionByZeroNeedsShortInput
<1>1. RunInv => DivisionByZeroNeedsShortInput
  BY DEF RunInv
<1> QED
  BY <1>1, RunInvariant, PTL

(* Driven by runWorkload, and ended wherever an assertion, a signal or a    *)
(* division by zero ends it, each log keeps what DurableLog promises.       *)
THEOREM RunLogIsDurable ==
  ASSUME NEW b \in Buffers
  PROVE  RunSpec => Durable(b)!Spec
<1>1. RunInit => DurableInv /\ Durable(b)!Init
  BY BufferInit, CountInit, ContentInit, GapInit, DurableInit
     DEF RunInit, DurableInv
<1>2. DurableInv /\ [RunNext]_allVars
        => DurableInv' /\ [Durable(b)!Next]_(Durable(b)!vars)
  BY RunLogStep, DurableNext, DurableStep
<1> QED
  BY <1>1, <1>2, PTL DEF RunSpec, Durable!Spec

=============================================================================
