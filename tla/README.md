# Verification of LSM-WorkloadAwareCompaction

TLA+ models of the C++ program in `src/`, the TLC runs that check them on small
instances, and TLAPS proofs about them. `PROJECT.json` lists the components, the
runs, the source lines every definition stands for, the hazards and the theorems.

## 1. The system

`working_version` opens a RocksDB instance with options taken from the command
line, replays `workload.txt` against it and writes `workload.log` and
`stats.log`. Beside it the repository holds a compaction scheduler, `FluidLSM`,
which lays a fluid LSM-tree over the levels of RocksDB from within RocksDB's
event callbacks, and a wait for compactions to end.

| Component | State | Operations | Module |
|---|---|---|---|
| Geometry of the fluid tree (`fluid_lsm.*`) | none | `BuildStructure`'s layout, live runs, capacity, target level, slot search | `FluidLevels` |
| `FluidLSM` scheduler (`fluid_lsm.*`) | `lazy_levels_`, `lazy_levels_mutex_`, `parallel_compactions_running_` and its mutex, tasks in the LOW pool | `OnFlushCompleted`, `BuildStructure`, `PickCompaction`, `ScheduleCompaction`, `CompactFiles` | `FluidLSM` |
| Wait for compactions (`event_listners.*`) | `mtx`, `cv`, `compaction_complete` | `WaitForCompactions`, `OnCompactionCompleted` | `CompactionWait` |
| Log buffers (`buffer.*`) | the string stream and the file of each `Buffer`, `instances_`, `mutex_` | constructor, `operator<<`, `flush`, destructor, `handle_signal` | `LogBuffer` |
| Workload driver (`run_workload.cc`, `utils.cc`) | the input stream, the last `Status`, the loop's counters | `runWorkload`, `UpdateProgressBar`, `LogTreeState` | `RunWorkload` |
| Command line (`args.hxx` as `parse_arguments.h` uses it) | the iterator, which flags are matched, their values | `ParseCLI`, `Parse`, `ParseLong`, `ParseShort`, `ValueReader` | `ArgumentParser` |
| Configuration (`db_env.*`, `parse_arguments.h`, `config_options.h`, two routines of `utils.cc`) | the `DBEnv` instance, the five option structures, RocksDB's perf level and contexts | `parse_arguments`, `configOptions`, `PrintExperimentalSetup`, `PrintRocksDBPerfStats` | `Config` |
| `Stats` (`stats.*`), time helpers (`aux_time.*`) | counters nothing updates; none | print and clock wrappers nothing calls | not modelled |
| `scripts/`, `workloads/` | | shell scripts, inputs of the workload generator | not modelled |

How they interact. `main` parses the flags into `DBEnv` and calls `runWorkload`,
which fills `Options` from it, constructs the two logs and opens the database.
RocksDB calls `FluidLSM::OnFlushCompleted` on its flush threads;
`ScheduleCompaction` hands a task to RocksDB's LOW thread pool, whose worker
calls `DB::CompactFiles` and then `PickCompaction` on the same `FluidLSM`
object. RocksDB calls `CompactionsListner` on its compaction threads, which
share `mtx`, `cv` and a flag with the thread in `WaitForCompactions`. SIGTERM and
SIGINT run `handle_signal` on top of whichever thread gets them; it flushes every
registered `Buffer` and exits.

At this commit `FluidLSM`, `CompactionsListner` and `FlushListner` are compiled
but registered with no database (`FlushListner::OnFlushCompleted` is declared and
never defined; the call of `WaitForCompactions` is commented out at
`utils.cc:124`). Their models take them as `fluid_lsm.h` and `event_listners.h`
say they are used: as listeners of the database.

What is hard: unlocked reads of a structure another thread rebuilds; a
check-then-increment without a lock; pointers kept across a rebuild; a permit that
must be given back on every path; files that look free because the mark was made in
a discarded view; runs that are counted, collected and measured at three moments;
three properties read one by one; a notification sent too early; handlers that
interrupt any step of the code they share state with, and call what no handler may
call; two ways of finding the end of the input; a disk that fills up under a log;
text that becomes a number without an error; numbers at zero and at their width.

## 2. The models

### FluidLevels
Operators on a *view*, a function from RocksDB levels to sets of files. A file is
the set of the memtables merged into it, so sizes in write buffers are cardinalities
and the age of data is the number of its memtable. RocksDB levels 0 and 1 are fluid
level 0 (each L0 file is a run; L1 is one run); each later fluid level owns `K + 1`
consecutive RocksDB levels. `SizeRatio`, `SmallerRuns`, `LargerRuns` are T, K and Z
of the code. One file per level and run: RocksDB may split a run in several files,
which the code treats alike.

### FluidLSM
Threads are `FlushThreads` and `Workers`, each with a program counter. The steps
are cut where another thread can interfere: `BuildBegin`/`BuildEnd` are the
locked section of `BuildStructure` (taken apart because others read the view
without the lock in between), `Scan` is `GetLargestOccupiedLevel`. A round of the
loop in `PickCompaction` is three steps, because it holds no lock and
`AddFilesToCompaction` calls the database: `Examine` counts the runs (line 281),
`AddFilesToCompaction` collects them (286) and `Measure` follows the pointers to add
their sizes up (287). `CheckPermit` is the comparison at `fluid_lsm.cc:226`, `Claim`
the rest of `ScheduleCompaction`; a worker runs
`StartMerge` or `RejectMerge`, `FinishMerge` or `FailMerge`, its own pick, and
`Release`.

- A thread that reads while another rebuilds sees any prefix of the new structure,
  or crashes; a pointer kept across a rebuild may give any size (`Measure`), the old
  names, garbage, or another file's name (`Claim`), or crash. The flag `ub` records
  that this has happened; properties that make no sense after it are stated as
  `ub \/ ...`.
- A whole compaction of another thread, its rebuild and the return of its permit may
  fall between `Examine` and `AddFilesToCompaction`, without a pointer that dangles:
  the walk then collects nothing and queues an empty request, which
  `DB::CompactFiles` refuses, or collects runs of a level that has no longer too many.
- `parallel_compactions_running_` is changed under `parallel_compactions_mutex_`, a
  section that is one step here, and compared without it: `CheckPermit` reads the
  current value. The increment and the hand-over of the task are one step, since
  nothing looks at the queue in between.
- External, modelled from how the code uses it: a flush installs one memtable as
  one L0 file; writes stop at `level0_stop_writes_trigger` files or without a free
  write buffer; `DB::CompactFiles` widens its input to what overlaps it, refuses
  unknown or busy files and bad output levels, and may fail. The pool's queue is
  first in, first out.

### TieredTree and FluidTree
`TieredTree` is what the scheduler maintains, with no thread in sight: levels of
runs, a flush that adds a run to level 0, and a compaction that takes runs of a level
that can expect one, oldest first, and leaves one run, on the same level if that has
room for it, else on the next one. A level can expect two compactions (`due`) from
each moment that it has too many runs: the one it needs, and one more of whoever
counted its runs before that one and collects them after.

`FluidTree` EXTENDS `FluidLSM`, maps its RocksDB levels to those runs (`Levels`), and
`TreeIsTiered` says that `FluidLSM` implements `TieredTree`: the steps on views,
permits and tasks are stutters, a merge is a `Compact`, a failed, refused or empty
one a stutter. The code has nothing that corresponds to `due`; it is a history
variable, set by `TieredTree`'s own rule, on which no step depends. The three
allowances, the second compaction, the outdated largest level (inside `due`: a
level judged by Z has had more than Z runs while it was the largest) and the size
judged by a part of the input after a failed merge, are for what TLC showed the code
to do (section 4).

### CompactionWait
A waiter goes `lock`, `test`, three reads, `decide`, `wait`; a compaction thread
`compacting`, `lock`, three reads, `decide`, `leaving`. RocksDB's properties are
external: `num-running-compactions` counts a compaction until its callbacks have
returned; the pending-bytes estimate exists in the level style only and covers a
compaction until it is installed; `compaction-pending` leaves out what has been
picked. `disturbed` marks waiters during whose reads a new need arose, which no
sequence of reads could rule out.

### LogBuffer
A *context* is the main thread's own code or a signal handler; `stack[t]` says what
runs on thread `t` and what lies interrupted below it. Each library call is a step:
the insertion, the write into `output_file`, its flush, the reset of the string
stream, each lock and each change of `instances_`. A thread that a handler has
interrupted stands still for good, maybe inside a library call, where it holds locks
(the allocator's, stdio's, the database's) and leaves objects half changed. Whatever
runs afterwards and enters a library (`Disturbed`), and whoever is in `std::exit`,
which runs static destructors, may therefore crash or wait for good (`Fail`); or it
behaves as if the interrupted call had not begun. `ended` is then "crashed" or
"blocked"; what other threads still do beside one that is blocked is what they do
while it is slow, so the model stops there. A record is one insertion; a statement
of the code is several, which only makes more interleavings of the same kind.
`std::exit` runs no destructor of the locals, so the handler's `lock_guard` keeps
`mutex_` (`Exit` leaves it). `Remove` takes the entry of its own `Buffer` out of
`instances_` (`Without`). Each signal comes at most once. The logs of `FallibleLogs`
lie on a disk that may fail: a write puts any part of its records into the file and
sets badbit (`failed`), after which `operator<<` does nothing and `flush()` may try
again what the `filebuf` still holds; the code never looks.

### DurableLog
What a log promises its writer. The disk takes the records in order, all of them
by the time the program has returned. After a fault (a failed write, a handler in
the middle of a flush) records may come twice and the last may be missing, but none
is there without its predecessor; only a handler that runs on another thread than
the writer may leave gaps. `LogsAreDurable` says that `LogBuffer` implements it for
both logs; the worst that has happened to a log (`Trouble`) is read off the stacks
and `failed`.

### RunWorkload
EXTENDS `LogBuffer` and drives it: `stmt` is the next statement of `runWorkload`,
taken when the main thread is not inside a `Buffer` operation, so a handler may
interpose at every one of its steps. The input is a number of lines, the place of
the first empty one and whether the last ends in a newline; `input` is the
stream's position with `eofbit` and `failbit`. What operation a line holds is
chosen when it is run. Assertions are on or off (`env.asserts`), because
`CMakeLists.txt` leaves NDEBUG to the build type. `ProgressParts` scales the 50
moves (1 / 0.02) of the progress bar down. A failed open without assertions
crashes at once; in the code it crashes at the first use.

A missing `workload.txt` is a property of the environment (`env.missing`): with
assertions the program aborts at `OpenInput`, without them every read fails.

### ArgumentParser
The part of `args.hxx` the program can reach. `Parse` is one action per kind of
chunk (`ParseLong`, `ParseShort`, `Terminate`, `ParsePositional`) and `Finish`. A
chunk is its dashes, its name and the value joined to it; text is what an
`istringstream` makes of it: a number (cut to what the type holds, which
`operator>>` does before it reports the overflow that `ValueReader` does not look
for), a blank (nothing is stored), a lone sign (0 is stored), or junk (the only
kind that throws). `ParseArgsValues` takes a separate value whatever it looks like,
because a `ValueFlag` takes neither more nor fewer than one.

### Config
EXTENDS `ArgumentParser`. `env` has every field of `DBEnv` that is used,
`SetArguments` the assignments of `parse_arguments` in their order and with their
conversions, `ConfiguredFrom` every assignment and `switch` of `configOptions`, over
the five structures as one function from option names to values (`With` puts the
structures together). Options are compared where they can come apart: `Cases` lists
the numbers each `switch` knows, and a number without a case leaves RocksDB's
default (`Chosen`). `unsigned int` has `UIntBits` bits, `long` and `size_t`
`LongBits`, and a megabyte of block cache `Megabyte` bytes, so that the cache
overflows an `int` within the numbers of TLC; that overflow is undefined, and
`Capacities` gives both outcomes. `PrintExperimentalSetup` and
`PrintRocksDBPerfStats` are what the log tells of it.

## 3. The runs

| Run | Question | Answer |
|---|---|---|
| `fluid_scheduler` | One flush thread, one worker (`max_background_jobs = 1`), T = 2, K = 2, Z = 1, eight levels, six memtables, merges that fail: are permits conserved and returned (`PermitAccounting`, `PermitReleased`), is a thread past the permit check alone (`ClaimIsExclusive`), are queued requests that name files ones RocksDB accepts (`RequestsAcceptable`), are runs stacked oldest-lowest (`StackedFromBottom`), merged on a push only when the level is full (`PushMergesOnlyIntoFullLevel`), moved down only when too big for their level (`RunsOutgrewLevelAbove`), does every callback return (`CallbackReturns`), is the tree a fluid LSM-tree (`TreeIsTiered`)? | Holds (166 153 states). |
| `fluid_two_flush_threads` | Two of each, K = 2, Z = 1: how far is `parallel_compactions_allowed_` overrun? | Never by more than the flush threads (`OutstandingBound`); workers never schedule (`WorkersNeverClaim`; 258 687 states). |
| `fluid_dangling_pointers` | Do tasks name files? | Violated, `fluid_lsm.cc:245`. |
| `fluid_deepest_level` | Does the slot a push indexes exist? | Violated, `fluid_lsm.cc:232`. |
| `fluid_writes_stall` | Do stopped writes resume while the tree is overfull? | Violated, `fluid_lsm.cc:215`. |
| `compaction_wait` | Level style, one waiter, two compaction threads: does a wait end, and only at rest? | Holds (3 638 states), by polling only. |
| `compaction_wait_signal` | Does the callback of the last compaction signal, as `event_listners.h:27` says? | Violated, `event_listners.cc:54`. |
| `compaction_wait_universal` | The same outside the level style | Violated, `event_listners.cc:17`. |
| `log_buffer` | Two logs, one on a disk that may fail, two signals, on the main or another thread, at any step: what is on disk, and does the program end? | Nothing lost when the handler runs on the main thread and the disk is sound; at most two copies of a record on a sound disk; no gaps but by a handler on another thread (`LogsAreDurable`); the process ends unless a signal interrupts the holder of `mutex_` or another handler (`SelfDeadlock`), or a thread waits for what an interrupted one holds, or the static destructors do ("blocked") (1.2 million states). |
| `run_workload` | Every input of up to three lines or none, failing operations, a failing disk under `stats.log`, SIGINT anywhere | Every line is run once; the report is complete where the disk is sound, and without a gap where it fails (`ReportComplete`, `InterruptedRunIsReported`, which promise nothing of a handler on a thread of RocksDB); the progress bar's division by zero needs an input shorter than its number of moves; the run ends, with the exceptions of `log_buffer` (2.1 million states). |
| `run_workload_not_found` | Can an assertion, in a build that has them, fail with a healthy database? | Violated, `run_workload.cc:224`. |
| `config` | Command lines of up to three arguments out of 35: what does the reader make of them, what reaches RocksDB, what does the log say? | A flag has the last value that was spelled for it, cut to its type (`ReadAsSpelled`), and none is lost as the value of another (`NoFlagSwallowed`); triggers follow the ratio; nothing changes unasked; the buffer is smaller than a page only by -M, no pages, or overflow; in the level and universal styles a compaction is due by the time writes stop, but for T < 1 and for the universal style with T < 4 (`CompactionDueBeforeStop`); the setup in the log is the one in force but for six cases it names (`SetupTellsOptions`); the report prints no counters that were off, and all that were on but the perf context's of `--iostat` alone (`PrintedWasMeasured`; 225 234 states). |

Bounds. `fluid_scheduler`: T = K = 2, Z = 1 is the smallest geometry in which
the largest level is judged apart from the others (K # Z); six memtables fill
level 1 and push into it again, full pushes included (a run with the invariant that
a push finds an empty level fails under the same cfg), and let a compaction fall
between the count and the collection of a level's runs; of eight levels, those
pushed into have all K + 1. `fluid_two_flush_threads`: the overrun needs two flushes
and two workers; symmetry over each pool is sound, since
no property or action names a thread. `compaction_wait`: three needs let one
follow the last notification. `log_buffer`: two records reach the limit, so automatic
and explicit flushes both happen, and a write of two may fail in the middle; two
signals nest and deadlock, and any library call may be the one interrupted.
`run_workload`: three lines allow an empty line first, between or last, and lie on
both sides of `ProgressParts = 2`. `config`: three arguments hold a flag without a
value that takes the next flag, a repeated flag, and every pair of flags an option
depends on; `UIntBits = 20` holds the default product (2^19); 1200 overflows it in
products of two and of three; 65538 tests the 16-bit truncation of
`compaction_pri`, 600 the cache, 10^9 the reader.

Deadlock is checked in the three `compaction_wait*` runs. Elsewhere the system
stops: the workload ends, writes may stop for good, the process exits or crashes.

Fairness. RocksDB's pools run what they are given and the code has no wait other
than for its mutexes: weak fairness of each flush thread's and worker's next step
(`FluidLSM`), of what has been called (`LogBuffer`, `RunWorkload`). No fairness
on writing, on merges succeeding, on signals or on crashes. `CompactionWait` asks
strong fairness of taking `mtx`, since the waiter that polls every 10 ms frees it
again and again and the lock is not promised to be fair; the properties in
question speak of threads that do get the processor.

## 4. What the checks disagree with

* **Dangling pointers** (`fluid_lsm.cc:160, 245`): a worker's `BuildStructure`
  clears the vectors into which the flush thread's `input_files` point. One flush
  thread and one worker are enough, no failure is needed.
* **Stalled writes** (`fluid_lsm.cc:214-220`): the pick after a compaction runs
  before the decrement, so it is always refused (`WorkersNeverClaim`, proved). If
  L0 reached its stop trigger meanwhile, no flush comes to pick again.
* **Slot search out of bounds** (`fluid_lsm.cc:230-234`): the deepest fluid level
  has fewer than K + 1 runs, or none.
* **Wait that ends too early** (`event_listners.cc:17-21`), outside the level
  style.
* **No signal** (`event_listners.cc:54`): `event_listners.h:27-28` says that the
  callback signals when no more compactions are required; it never does
  (`NeverSignalled`, proved), since its own compaction still counts as running.
* **Aborted healthy run** (`run_workload.cc:224`): the last status may be a
  `NotFound`; a failed write is masked by any later success. Only where assertions
  are on: `CMakeLists.txt:7` makes Release the default build type, which defines
  NDEBUG, and `scripts/manage.sh` gives no other.

Seen in the runs, against no text of the repository:

* **Counted, then collected** (`fluid_lsm.cc:281-287`, found by `TreeIsTiered` and
  `RequestsAcceptable`): the runs of a level are counted, collected and measured
  without a lock. With one flush thread and one worker, a compaction of the level
  that ends in between leaves an empty request, or a second compaction of a level
  that no longer needs one. Nothing is lost, and it happens once at most for each
  time a level has too many runs (`TreeImplemented`).
* **Size judged by a part** (`fluid_lsm.cc:180`, found by `TreeIsTiered`): a flush
  thread picks the files of level 0 that are free while a merge holds the others;
  the merge fails and gives its permit back; RocksDB adds the older files to the
  request, and a run larger than level 0 has room for stays there.
* **Outdated largest level** (`fluid_lsm.cc:277`, the same property): a walk that
  began before the first push judges level 0 by Z.
* **A trigger below 1**: `-T` is taken as it is, and with a ratio below 1 writes are
  to stop at no file, while "level-0 compaction will not be triggered by number of
  files at all" (`db_env.h:207-208`, of a trigger below 0). In the FIFO style and in
  style None no compaction is due by the number of files, whatever the ratio.
* **Columns of the setup**: with -M, or when their product wraps, P, B and E are not
  those of the buffer, nor B and E those of a page.
* **--iostat without --perf** (`config_options.h:320`) sets the level to kEnableCount,
  at which the perf context counts too; it is not printed.
* **The command line** accepts `--size_ratio=` (the value stays what it was, 0 at
  first) and `-T -` (0) without a word, and cuts a number that does not fit.

Seen while reading and not given a run: -F is declared and never read
(`parse_arguments.h:36`), the file size being the buffer's (`db_env.h:98`); the help
says that --perf enables "Perf and IOstat" (`parse_arguments.h:59`), but
`config_options.h:334-337` leaves the I/O counters off without --iostat; with two
flush threads `RequestsAcceptable` fails, which the default `max_background_jobs =
1` excludes; a push may merge with an older run, when a walk is refused the target
level's compaction and then granted the one above; with T = 4, K = 3
`BuildStructure` puts L2-L5 in one fluid level where the comment in `fluid_lsm.h`
has L1-L4; `debug_mode_` is not initialised; `cf_name_` refers to a string that is
gone; `retry_on_fail_` is never read; a signal in the destructor or the constructor
of a `Buffer` deadlocks with its own thread; the defaults printed by the help ([def:
10] for T, 512 for P, 4 for B, 1024 B for E, 16 MB for M, 8 MB for bb) are not those
of `db_env.h` (4, 128, 64, 64, P * B * E, 0); an unknown policy or style number
prints an error and goes on; `block_cache * 1024 * 1024` is an `int`;
`DBEnv::GetInstance` moves the instance out, so a second call would make another.

## 5. What is proved

Every safety property of section 3's passing runs is also a theorem (those of the
tree under one flush thread, `ReturnsAtRest` in the level style), for all values of
the constants: any size ratio, numbers of runs, levels, threads, logs, records,
lines, arguments, any widths of the integers, with or without failures. Each module
of proofs has its inductive invariant under "The inductive invariant" or a section
named for it; TLC finds each of them to hold on the instances of the runs.

### FluidLSMProofs: permits and the mutex
* `BaseInvariant`: `TypeOK /\ MergesSomething /\ PermitAccounting` is inductive.
  `TypeOK` alone is not: `FinishMerge` installs the union of a job's inputs, which
  is a file only if there are any, whence `MergesSomething`. `TypeCorrect` and
  `PermitsAccounted` follow. The heart of `PermitAccounting` is that a step changes
  `running`, the queue and the set of busy workers together (`PickStepKeepsBusy`,
  `PermitNext`).
* `WorkersNeverSchedule`: a worker in its pick is busy, so `running >= 1`
  (`BusyWorkerHoldsPermit`) and the comparison fails.
* `OutstandingBounded`: `running` plus the threads past the check never exceed the
  flush threads. A thread passes only when `running = 0`; what else is outstanding
  then is past the check too and, by the previous theorem, a flush thread.
* `MutexInvariant`: the mutex is held exactly by the thread in `BuildStructure`.
* `ClaimExclusive`: with one flush thread, a thread about to index the view is
  alone, though it holds no lock.

### FluidTreeProofs: the shape of the tree
Assumes `OneFlushThread`, which `max_background_jobs = 1` makes true (with two,
`RequestsAcceptable` is false). Its invariant `TreeInv` relates the tree, the view,
the picks, the queue and the jobs:

* `FilesDisjoint`, `JobsOfTree`: files share no memtable, merges read files that
  exist.
* `ViewCurrent`: unless a thread is about to rebuild it, the view shows the files of
  the tree. This is where the listener's place in RocksDB counts: the flush and the
  merge change the files on the very thread that rebuilds next.
* `PicksFit`: what a flush thread has collected is nothing or every free file of its
  level in the view. With one compaction at a time
  (`Sequential`, from the permits) nothing comes between the collection and the claim
  but another thread's rebuild, and that thread is recorded in `stale`. Nothing is
  claimed of what the level had when its runs were counted.
* `TasksFit`, `JobsFit`: a task, as `DB::CompactFiles` will widen it, and a merge
  leave a tree in shape wherever they end (`WellPlaced`): they take whole fluid
  levels, nothing older lies above, and the place is the one above the youngest run.
* `TreeShape`, the conclusion: `StackedFromBottom`, `RunsOutgrewLevelAbove`, and that
  a level in use has room for all its runs.

`LevelsStacked`, `RunsOutgrow`, `PushesIntoFullLevels` and `RequestsAccepted` (of
the requests that name files) follow. All hold until invalid memory is touched
(`ub`, section 4).

### TieredTreeProofs: the refinement
`TreeImplemented`: under `OneFlushThread`, `TreeSpec => TreeIsTiered`. `TreeInv`
does not say which runs a compaction takes, nor on whose idea of the largest level
it was decided. `TierInv` adds:

* `Covered`, `FilesShaped`: no memtable is lost; beyond L0 a RocksDB level has one
  file, older than all in L0.
* `ViewsOlder`, `BusyGone`: of level 0 the marked runs are the oldest, and unless a
  merge has failed no mark outlives its task. Without it "the free runs" would
  not be "the oldest runs".
* `ViewLag`, `PickLag`: the largest level of the view, and of a walk, is that of the
  tree or the one before; nothing under way begins yet another.
* `TasksCompact`, `JobsCompact`: what waits or runs takes the oldest runs of a level
  that can expect a compaction and goes where its size sends it.
* `DueInv` counts what a level can expect: two if the tree shows too many runs
  (`DueInTree`); one may have been made since the view was built (`DueInView`), or
  since a walk settled on the largest level (`DueBeforeLargest`); a level that a walk
  has found too full can expect that walk's compaction and the one under way
  (`DueInPick`).

Then each step maps (`TreeStepRefined`): a flush to `Flush`, `FinishMerge` to
`Compact`, every other to a stutter. The part of the input that
a compaction may be judged by is the second disjunct of `Compacts`; the second
compaction that `due` allows is the one of `DueInPick`.

### CompactionWaitProofs
For any waiters, compaction threads and number of compactions.

* `NeverSignalled`: strengthened by `CallbackSeesItself`, a callback that has read
  the running count has seen a non-zero property, its own compaction.
* `LevelStyleReturnsAtRest`: strengthened by `RestSeen`, what a waiter's reads so far
  exclude; assumes the level style.
* `WaitTypeCorrect` and `MutualExclusion` (no two threads between the lock and the
  unlock of `mtx`) from `WaitInv`.

### LogBufferProofs: the registry and its mutex
`BufferInv` says where each context is: `MainInv` (how far the constructors and
destructors are, from `pc`, `leaving` and `at`), `HandlerInv` (a handler that has
locked `mutex_` keeps it until the process ends, so there is one such handler at
most, and it is within `instances_`), `StackInv` (what is interrupted by what).
`LogTypeCorrect` and `HandlerSeesLiveBuffers` follow. The theorems are about
`LogStep`, which also lets a caller end the process: `RunWorkload` does. A step that
fails changes nothing but `ended` (`FailEnds`).

### LogContentProofs: what is on disk
* `RecordsWrittenAtMostTwice`, from `CountInv`: the copies of a record in file and
  stream are at most one for the main thread, if it has written it, and one for the
  handler, if it has (`TimesBound`). Counting per writer is what makes it inductive.
* `HandlerOnMainLosesNothing` and `ReturnWritesEverything`, from `ContentInv`: while
  no handler flushes, file, stream and buffer are the log in order (`InOrder`); once
  the handler on the main thread has flushed a log, it is complete with its last
  piece perhaps twice (`Twice`). A handler on another thread gives up only this.
* `LogIsDurable`: every log implements `DurableLog`; `LogsImplementDurableLog` is the
  same for the two that the run follows (it assumes there are two). `GapInv` is the
  missing part: without a handler on another thread, no record of file and stream
  lacks its predecessor.
* `NothingSkipped`: hence no file has a gap, whatever its disk does, unless a handler
  raced with its writer (`NoGaps`).

### RunWorkloadProofs
`RunInv` is `BufferInv`, `ContentInv` (whose lemmas apply because the driver only
calls the Buffers or ends the process), `DurableInv` (for `NoGaps`), `LoopInv` (what
`stmt`, `input.read`, `eof`, `failbit` and the counters have to do with each other)
and `StatsInv` (operations timed are records sent, but for the one being inserted).
`EveryLineIsRun`, `ReportIsComplete`, `InterruptionIsReported`,
`DivisionNeedsShortInput` and `RunTypeCorrect` follow. What the reports promise is
limited as the formulas are: in full on a sound disk, without a gap on one that
fails, and of an interrupted run only if the handler ran on the main thread.
`RunLogIsDurable`: wherever an assertion, a signal or the division ends the run,
each log implements `DurableLog` (every step of the driver is a `LogStep`).

### ConfigProofs: command line and configuration
* `ParserInvariant`. `ReadAsSpelled` speaks of `Starts`, the places of a command line
  where a flag starts, whose existence and uniqueness would be shown by induction on
  the command line. `ParserInv` has the walk show them: for the arguments read so
  far there is such a set, and any other that fits the whole line agrees with it
  there (`Walked`); the flags hold what was spelled at that set (`Stored`). At the
  end this is `FlagsReadAsSpelled`; with `ReadSoFar`'s second conjunct, `NoFlagLost`.
* `ConfigInvariant`. `env`, `options`, `perf` and the log are at each statement a
  function of the flags (`Parsed`, `ConfiguredFrom`, `PerfOf`, `SetupRow`), up to the
  capacity of the cache that an overflow leaves open. The rest is computation, laid
  out by the routine that sets a field (`ParsedIs`) and by the part of
  `configOptions` an option comes from (`ConfiguredIs`): `ConfigTypeCorrect`,
  `TriggersAgree`, `CompactionDueInTime`, `BufferBelowPageExplained`, `SetupIsTold`,
  `OnlyFlagsMatter`, and the action property `SectionsWereMeasured`.

Assumptions. Those of the modules: T positive, two levels at least, finite pools
that are disjoint, at least two write buffers, buffers and limits that are numbers,
the names of signals other than those of the outcomes, two logs in `RunWorkload`.
`LongBits > UIntBits`, true of every 64-bit build. `PowersAssumption` is four facts
of arithmetic on powers of 2 (2^n is positive and doubles), whose proof is an
induction that the provers cannot do. `ChunksAssumption` says what a chunk is; the
arguments themselves are not restricted. TLC evaluates them all.

Only model-checked: liveness, and with it ENABLED, which the prover cannot do
(`PermitReleased`, `CallbackReturns`, `WaitReturns`, `HandlerEndsProcess`, `RunEnds`).

## 6. Not modelled

* `Stats` and `aux_time` are dead code: nothing calls them, so they have no reachable
  state.
* Of `args.hxx`, what `parse_arguments` declares nothing for: help, completion,
  commands and subparsers, positionals, flags without a value or with several, lists
  and maps, required and exclusive groups, and the layout of the usage text (some
  3 500 of its 4 173 lines).
* `PrintFluidLSM`, `OnCompactionBegin` and the wording and layout of all output.
* `DestroyDB` and the cache clearing, which act outside the program.
* The conversion of capacities between `double` and `long` at `fluid_lsm.cc:183`
  (capacities are counted in write buffers here), and the reference `cf_name_` of
  `fluid_lsm.h:32`, which dangles but is never read.
* Restarts: the program starts on an empty database and keeps no state of its own
  across runs. Scripts and the workload generator.

## 7. Plan

Done: all components but the dead code, each with its runs; two refinements; proofs
of every safety property that a run checks, and of both refinements.

To do: a tree for any number of flush threads. `TreeIsTiered` is stated for one:
with two, each may have counted a level before the other compacted it, so `due` would
have to grow with them, and the proof to do without `Sequential`: tasks and merges
that are disjoint in pairs, and marks that tell them apart until a rebuild makes `ub`
true or the walks stale.
