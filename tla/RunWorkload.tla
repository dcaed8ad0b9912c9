---------------------------- MODULE RunWorkload ----------------------------
(***************************************************************************)
(* runWorkload (run_workload.cc), with UpdateProgressBar and LogTreeState  *)
(* (utils.cc), on the main thread of LogBuffer: it opens the database,     *)
(* counts the lines of workload.txt when a progress bar is shown, goes     *)
(* back to its start, runs one operation per line up to the first empty    *)
(* line, and writes the results to the two logs.                           *)
(*                                                                         *)
(* The input is known by its number of lines, the place of the first empty *)
(* line, whether the last line ends with a newline, and whether the file   *)
(* is there at all; what the operation of a line is shows when it is run.  *)
(* stmt is the statement runWorkload executes next; a call of a Buffer     *)
(* runs to its end before it.                                              *)
(***************************************************************************)
EXTENDS LogBuffer

CONSTANTS
  MaxLines,       \* bound: lines of workload.txt
  ProgressParts,  \* the progress bar moves this many times in a run: 1 / 0.02
  Failures        \* what DB operations may return beside "ok" and "NotFound"

ASSUME WorkloadAssumption ==
  /\ MaxLines \in Nat
  /\ ProgressParts \in Nat \ {0}
  /\ Failures \subseteq {"Error"}
  /\ NumBuffers = 2

WorkloadLog == 1   \* buffer, workload.log
StatsLog    == 2   \* stats, stats.log

VARIABLES
  env,       \* the options, and the input
  input,     \* workload_file: lines read, eofbit, failbit
  total,     \* total_operations
  lastLine,  \* is_last_line
  s,         \* the status of the last call that returned one
  stmt,
  ran,       \* ith_op
  timed      \* operations whose time was taken

driverVars == <<env, input, total, lastLine, s, stmt, ran, timed>>

bufferVars == <<logged, buffer, stream, file, failed, instances, mutex, caught,
                leaving, stack, pc, at>>

(* A last line that is empty has its newline; a file that is missing counts *)
(* as having no lines.                                                     *)
Environments ==
  {e \in [per_op_timer : BOOLEAN, progress : BOOLEAN, asserts : BOOLEAN,
           missing : BOOLEAN, newline : BOOLEAN,
           lines : 0 .. MaxLines, blank : 1 .. MaxLines + 1] :
     /\ e.blank = e.lines => e.newline
     /\ e.missing => e.newline /\ e.lines = 0 /\ e.blank = 1}

(* The lines before the first empty one. *)
Operations == IF env.blank <= env.lines THEN env.blank - 1 ELSE env.lines

Statuses == {"ok"} \cup Failures

At(label) == Ready /\ stmt = label

(* A statement that leaves the buffers alone. *)
Quietly(label) == At(label) /\ UNCHANGED <<bufferVars, env>>

(* assert(ok), which a build with NDEBUG skips.                             *)
AssertThen(ok, next) ==
  IF env.asserts /\ ~ ok
  THEN ended' = "aborted" /\ UNCHANGED stmt
  ELSE stmt' = next /\ UNCHANGED ended

-----------------------------------------------------------------------------
(* Opening.                                                                *)

(* The logs; PrintExperimentalSetup writes to the first.                    *)
OpenLogs ==
  /\ stmt = "logs"
  /\ IF Len(instances) < NumBuffers
     THEN Construct /\ UNCHANGED stmt
     ELSE /\ stmt' = "open"
          /\ (Ready /\ UNCHANGED vars) \/ Put(WorkloadLog)
  /\ UNCHANGED <<env, input, total, lastLine, s, ran, timed>>

(* A build without assertions goes on with no database, and crashes at the  *)
(* first use of it.                                                        *)
OpenDB ==
  /\ Quietly("open")
  /\ \E status \in Statuses :
       /\ s' = status
       /\ IF status # "ok" /\ ~ env.asserts
          THEN ended' = "crashed" /\ UNCHANGED stmt
          ELSE AssertThen(status = "ok", "input")
  /\ UNCHANGED <<input, total, lastLine, ran, timed>>

(* A build without assertions goes on with a stream that is not open, from  *)
(* which nothing can be read.                                              *)
OpenInput ==
  /\ Quietly("input")
  /\ input' = [input EXCEPT !.fail = env.missing]
  /\ AssertThen(~ env.missing, "count")
  /\ UNCHANGED <<total, lastLine, s, ran, timed>>

(* Mutant of CountLines: the last line is not counted.                      *)
CountLinesButLast ==
  /\ Quietly("count")
  /\ IF env.progress
     THEN /\ total' = IF env.lines = 0 THEN 0 ELSE env.lines - 1
          /\ input' = [read |-> env.lines, eof |-> ~env.missing, fail |-> TRUE]
     ELSE UNCHANGED <<total, input>>
  /\ stmt' = "rewind"
  /\ UNCHANGED <<lastLine, s, ran, timed, ended>>

(* Counting reads to the end of the file, and fails there.                  *)
CountLines ==
  /\ Quietly("count")
  /\ IF env.progress
     THEN /\ total' = env.lines
          /\ input' = [read |-> env.lines, eof |-> ~env.missing, fail |-> TRUE]
     ELSE UNCHANGED <<total, input>>
  /\ stmt' = "rewind"
  /\ UNCHANGED <<lastLine, s, ran, timed, ended>>

(* Mutant of Rewind: clear() is forgotten, and seekg fails.                 *)
RewindWithoutClear ==
  /\ Quietly("rewind")
  /\ input' = IF input.fail THEN input ELSE [input EXCEPT !.read = 0]
  /\ stmt' = "getline"
  /\ UNCHANGED <<total, lastLine, s, ran, timed, ended>>

(* clear() and seekg, which fails if the file is not open.                  *)
Rewind ==
  /\ Quietly("rewind")
  /\ input' = [read |-> 0, eof |-> FALSE, fail |-> env.missing]
  /\ stmt' = "getline"
  /\ UNCHANGED <<total, lastLine, s, ran, timed, ended>>

-----------------------------------------------------------------------------
(* The loop.                                                               *)

(* std::getline fails on a stream that is not good or has nothing left, and *)
(* meets the end of a file whose last line has no newline.                  *)
GetLine ==
  /\ Quietly("getline")
  /\ IF input.eof \/ input.fail \/ input.read = env.lines
     THEN /\ input' = [input EXCEPT !.eof = @ \/ ~input.fail, !.fail = TRUE]
          /\ stmt' = "tree"
     ELSE /\ input' = [input EXCEPT
                         !.read = @ + 1,
                         !.eof = input.read + 1 = env.lines /\ ~ env.newline]
          /\ stmt' = IF input.read + 1 = env.blank THEN "tree" ELSE "peek"
  /\ UNCHANGED <<total, lastLine, s, ran, timed, ended>>

Peek ==
  /\ Quietly("peek")
  /\ lastLine' = (input.eof \/ input.read = env.lines)
  /\ input' = [input EXCEPT !.eof = lastLine']
  /\ stmt' = "operation"
  /\ UNCHANGED <<total, s, ran, timed, ended>>

(* The time of an operation goes to the statistics.                         *)
RecordTime ==
  IF env.per_op_timer
  THEN Put(StatsLog) /\ timed' = timed + 1
  ELSE UNCHANGED <<vars, timed>>

(* Put, Delete: I, U, D.                                                    *)
Write ==
  /\ At("operation")
  /\ s' \in Statuses
  /\ RecordTime
  /\ stmt' = "progress"
  /\ UNCHANGED <<env, input, total, lastLine, ran>>

(* Get: P, Q.                                                               *)
Lookup ==
  /\ At("operation")
  /\ s' \in Statuses \cup {"NotFound"}
  /\ RecordTime
  /\ stmt' = "progress"
  /\ UNCHANGED <<env, input, total, lastLine, ran>>

(* S: the status of the iterator is asserted at first, and logged at the    *)
(* end if it is not ok; s does not hear of it.                             *)
Scan ==
  /\ At("operation")
  /\ UNCHANGED bufferVars
  /\ \E status \in Statuses : AssertThen(status = "ok", "seek")
  /\ UNCHANGED <<env, input, total, lastLine, s, ran, timed>>

Seek ==
  /\ At("seek")
  /\ \/ UNCHANGED vars
     \/ Failures # {} /\ Put(WorkloadLog)
  /\ stmt' = "scanned"
  /\ UNCHANGED <<env, input, total, lastLine, s, ran, timed>>

(* Mutant of Scanned: the time of a scan is not written.                    *)
ScannedUntimed ==
  /\ At("scanned")
  /\ IF env.per_op_timer THEN timed' = timed + 1 ELSE UNCHANGED timed
  /\ stmt' = "progress"
  /\ UNCHANGED <<vars, env, input, total, lastLine, s, ran>>

Scanned ==
  /\ At("scanned")
  /\ RecordTime
  /\ stmt' = "progress"
  /\ UNCHANGED <<env, input, total, lastLine, s, ran>>

(* R is not timed.                                                          *)
DeleteRange ==
  /\ Quietly("operation")
  /\ s' \in Statuses
  /\ stmt' = "progress"
  /\ UNCHANGED <<input, total, lastLine, ran, timed, ended>>

(* Any other letter.                                                        *)
NoMatch ==
  /\ At("operation")
  /\ Put(WorkloadLog)
  /\ stmt' = "progress"
  /\ UNCHANGED <<env, input, total, lastLine, s, ran, timed>>

Operation ==
  Write \/ Lookup \/ Scan \/ Seek \/ Scanned \/ DeleteRange \/ NoMatch

(* Mutant of Progress: the operation is counted in the loop and here.       *)
ProgressCountsTwice ==
  /\ Quietly("progress")
  /\ ran' = ran + 2
  /\ stmt' = (IF lastLine THEN "tree" ELSE "getline")
  /\ UNCHANGED <<input, total, lastLine, s, timed, ended>>

(* UpdateProgressBar divides by the number of operations between two moves  *)
(* of the bar, 2 % of total_operations; by 0, it traps or goes on,          *)
(* depending on the processor.                                             *)
Progress ==
  /\ Quietly("progress")
  /\ ran' = ran + 1
  /\ \/ /\ env.progress /\ total \div ProgressParts = 0
        /\ ended' = "SIGFPE"
        /\ UNCHANGED stmt
     \/ /\ stmt' = IF lastLine THEN "tree" ELSE "getline"
        /\ UNCHANGED ended
  /\ UNCHANGED <<input, total, lastLine, s, timed>>

-----------------------------------------------------------------------------
(* Closing.                                                                *)

(* LogTreeState, which depends on the verbosity, and the summary of times.  *)
Summarise ==
  /\ At("tree")
  /\ Put(WorkloadLog) \/ (~ env.per_op_timer /\ UNCHANGED vars)
  /\ stmt' = "check"
  /\ UNCHANGED <<env, input, total, lastLine, s, ran, timed>>

CheckStatus ==
  /\ Quietly("check")
  /\ AssertThen(s = "ok", "close")
  /\ UNCHANGED <<input, total, lastLine, s, ran, timed>>

CloseDB ==
  /\ Quietly("close")
  /\ s' \in Statuses
  /\ AssertThen(s' = "ok", "perf")
  /\ UNCHANGED <<input, total, lastLine, ran, timed>>

(* PrintRocksDBPerfStats, of what has been enabled.                         *)
PerfStats ==
  /\ At("perf")
  /\ Put(WorkloadLog) \/ UNCHANGED vars
  /\ stmt' = "flush"
  /\ UNCHANGED <<env, input, total, lastLine, s, ran, timed>>

FlushLog(label, b, next) ==
  /\ At(label)
  /\ Flush(b)
  /\ stmt' = next
  /\ UNCHANGED <<env, input, total, lastLine, s, ran, timed>>

LeaveScope ==
  /\ At("leave")
  /\ Leave
  /\ stmt' = "left"
  /\ UNCHANGED <<env, input, total, lastLine, s, ran, timed>>

Closing ==
  \/ Summarise \/ CheckStatus \/ CloseDB \/ PerfStats
  \/ FlushLog("flush", WorkloadLog, "flush_stats")
  \/ FlushLog("flush_stats", StatsLog, "leave")
  \/ LeaveScope

-----------------------------------------------------------------------------
RunInit ==
  /\ Init
  /\ env \in Environments
  /\ input = [read |-> 0, eof |-> FALSE, fail |-> FALSE]
  /\ total = 0
  /\ lastLine = FALSE
  /\ s = "ok"
  /\ stmt = "logs"
  /\ ran = 0
  /\ timed = 0

Driver ==
  \/ OpenLogs \/ OpenDB \/ OpenInput \/ CountLines \/ Rewind
  \/ GetLine \/ Peek \/ Operation \/ Progress
  \/ Closing

Interruption ==
  \/ \E sig \in Signals : HandlerStep(sig)
  \/ \E c \in Contexts : Fail(c)
  \/ \E sig \in Signals, t \in Threads : Deliver(sig, t)

RunNext ==
  \/ Driver
  \/ MainStep /\ UNCHANGED driverVars
  \/ Interruption /\ UNCHANGED driverVars

allVars == <<vars, driverVars>>

RunSpec == RunInit /\ [][RunNext]_allVars

(* The program runs, and so does a handler once it is called.               *)
FairRunSpec ==
  /\ RunSpec
  /\ WF_allVars(Driver \/ (MainStep /\ UNCHANGED driverVars))
  /\ \A sig \in Signals : WF_allVars(HandlerStep(sig) /\ UNCHANGED driverVars)

-----------------------------------------------------------------------------
(* Properties.                                                             *)

Stmts == {"logs", "open", "input", "count", "rewind", "getline", "peek", "operation",
          "seek", "scanned", "progress", "tree", "check", "close", "perf",
          "flush", "flush_stats", "leave", "left"}

RunTypeOK ==
  /\ TypeOK
  /\ env \in Environments
  /\ input \in [read : 0 .. MaxLines, eof : BOOLEAN, fail : BOOLEAN]
  /\ total \in 0 .. MaxLines
  /\ lastLine \in BOOLEAN
  /\ s \in Statuses \cup {"NotFound"}
  /\ stmt \in Stmts
  /\ ran \in 0 .. env.lines
  /\ timed \in 0 .. env.lines

(* Whether or not the lines were counted first, whether or not the last one *)
(* ends with a newline, and even if no assertion stops a run with no input, *)
(* the loop ends when each line before the first empty one has been run     *)
(* once.                                                                    *)
EveryLineRuns ==
  stmt \in {"tree", "check", "close", "perf", "flush", "flush_stats", "leave",
            "left"}
    => ran = Operations

(* A run that returns has put one record for each operation that was timed  *)
(* in the statistics.  Each log is in its file in full and once if the disk *)
(* did not fail; if it did, which nobody is told of, the file may lack the  *)
(* last records and repeat some, but leaves none out in between (unless a   *)
(* handler raced with the run on another thread).                           *)
ReportComplete ==
  ended = "returned" =>
    ReturnedMeansWritten /\ NoGaps /\ logged[StatsLog] = timed

(* A run that a signal ends has put a record in the statistics of every     *)
(* operation that was timed and is complete; one more may have been under   *)
(* way.  If the handler ran on the main thread, each log is in its file in  *)
(* full when the disk did not fail, and has no gap when it did; nothing of  *)
(* the kind is promised of a handler on another thread.                     *)
InterruptedRunIsReported ==
  ended \in Signals =>
    /\ HandlerLosesNothing /\ NoGaps
    /\ timed - 1 <= logged[StatsLog] /\ logged[StatsLog] <= timed

(* The progress bar ends the run, by a division by zero, only if the file   *)
(* has fewer lines than the bar has moves.                                  *)
DivisionByZeroNeedsShortInput ==
  ended = "SIGFPE" => 0 < env.lines /\ env.lines < ProgressParts

(* The loop over the lines and the closing come to an end, unless a handler *)
(* waits for mutex_, which the thread it interrupted holds, or a thread is  *)
(* "blocked": a handler in a library call or in the static destructors.     *)
RunEnds == <>(ended # "no" \/ SelfDeadlock)

=============================================================================
