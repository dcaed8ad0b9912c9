------------------------------ MODULE FluidLSM ------------------------------
(***************************************************************************)
(* The compaction scheduler FluidLSM (fluid_lsm.h, fluid_lsm.cc) as the    *)
(* listener of a RocksDB instance that runs no compaction of its own       *)
(* (compaction style None).                                                *)
(*                                                                         *)
(* A flush thread calls OnFlushCompleted after each flush.  PickCompaction *)
(* rebuilds the view lazy_levels_ under lazy_levels_mutex_, then walks it  *)
(* from the largest occupied level to level 0 WITHOUT that mutex, keeps    *)
(* pointers into it, and schedules one compaction on the LOW pool when     *)
(* parallel_compactions_running_ leaves room.  A worker of that pool runs  *)
(* CompactFiles: the merge, a PickCompaction of its own, and only then the *)
(* decrement of the counter.                                               *)
(*                                                                         *)
(* Each thread's program counter names the step it takes next:             *)
(*   idle     not in the code of FluidLSM                                  *)
(*   clear    BuildStructure up to the snapshot and the emptied view       *)
(*   fill     BuildStructure from there to its unlock                      *)
(*   scan     GetLargestOccupiedLevel in PickCompaction                    *)
(*   examine  the count that opens a round of PickCompaction's loop, and   *)
(*            the test of it, at level pick.lvl                            *)
(*   collect  AddFilesToCompaction                                         *)
(*   measure  GetCompactionTargetLevel                                     *)
(*   permit   the unlocked comparison that opens ScheduleCompaction        *)
(*   claim    the rest of ScheduleCompaction                               *)
(*   merging  a worker inside DB::CompactFiles                             *)
(*   release  the decrement that ends CompactFiles                         *)
(***************************************************************************)
EXTENDS FluidLevels, Sequences

CONSTANTS
  FlushThreads,     \* threads of RocksDB's flush pool
  Workers,          \* threads of the LOW pool of options_.env
  NoThread,         \* the owner of a free mutex
  Level0Stop,       \* options.level0_stop_writes_trigger
  MaxWriteBuffers,  \* options.max_write_buffer_number
  Errors,           \* the kinds of error a merge may end with
  MaxBatches        \* bound: memtables the workload fills

Threads == FlushThreads \cup Workers

ASSUME ThreadsAssumption ==
  /\ IsFiniteSet(FlushThreads)
  /\ IsFiniteSet(Workers)
  /\ FlushThreads \cap Workers = {}
  /\ NoThread \notin Threads

ASSUME BoundsAssumption ==
  /\ Level0Stop \in Nat \ {0}
  /\ MaxWriteBuffers \in Nat \ {0, 1}
  /\ Errors \subseteq {"IOError", "other"}
  /\ MaxBatches \in Nat

VARIABLES
  sealed,    \* immutable memtables that wait for a flush
  flushed,   \* memtables flushed so far
  tree,      \* the files of every RocksDB level
  lazy,      \* lazy_levels_: the files it holds and those marked busy in it
  snapshot,  \* cf_meta of the BuildStructure call that holds the mutex
  mutex,     \* owner of lazy_levels_mutex_
  running,   \* parallel_compactions_running_
  queue,     \* tasks handed to options_.env->Schedule and not yet started
  job,       \* what each worker merges inside the DB
  pc,
  pick,      \* locals of PickCompaction and ScheduleCompaction, per thread
  stale,     \* threads whose input_files point into an emptied view
  alive,     \* FALSE once the process has crashed
  ub         \* TRUE once a thread has read or written out of bounds, freed or
             \* concurrently rebuilt memory

vars == <<sealed, flushed, tree, lazy, snapshot, mutex, running, queue, job,
          pc, pick, stale, alive, ub>>

dbVars   == <<sealed, flushed, tree, job>>
viewVars == <<lazy, snapshot, mutex>>

(* A file is the set of the memtables merged into it.  The empty set stands *)
(* for a name no file has, read from freed memory.                          *)
File       == (SUBSET (1 .. MaxBatches)) \ {{}}
NoSuchFile == {}

View == [files : [RocksDBLevels -> SUBSET File],
         busy  : SUBSET (SUBSET (1 .. MaxBatches))]

EmptyTree == [L \in RocksDBLevels |-> {}]
EmptyView == [files |-> EmptyTree, busy |-> {}]

Task   == [inputs : SUBSET (SUBSET (1 .. MaxBatches)), output : Int]
Merge  == [inputs : SUBSET File, output : Int]
NoTask == [inputs |-> {}, output |-> 0]

Pick   == [lvl : LazyLevels, largest : LazyLevels, target : Nat,
           inputs : SUBSET File]
NoPick == [lvl |-> 0, largest |-> 0, target |-> 0, inputs |-> {}]

(* parallel_compactions_allowed_, which nothing but the constructor sets. *)
Allowed == 1

-----------------------------------------------------------------------------
(* What the listener sees of RocksDB.                                      *)

AllFiles == UNION {tree[L] : L \in RocksDBLevels}

BeingCompacted == UNION {job[w].inputs : w \in Workers}

LevelsOf(files) == {L \in RocksDBLevels : tree[L] \cap files # {}}

(* DB::CompactFiles widens a request to everything that overlaps it (every  *)
(* file spans all keys here): the older L0 files, and all files between the *)
(* request's first level and its output level.                              *)
Widened(files, output) ==
  files
    \cup {f \in tree[0] :
            \E g \in files \cap tree[0] : \E m \in f, n \in g : m <= n}
    \cup UNION {tree[M] : M \in {M \in RocksDBLevels :
                  1 <= M /\ M <= output /\ \E L \in LevelsOf(files) : L <= M}}

(* The requests DB::CompactFiles refuses: an unknown file, an output level  *)
(* that does not exist or lies above an input, or a conflict with a merge   *)
(* that is under way.                                                       *)
Rejected(task) ==
  \/ task.inputs = {}
  \/ ~ (task.inputs \subseteq AllFiles)
  \/ task.output \notin RocksDBLevels
  \/ \E L \in LevelsOf(task.inputs) : L > task.output
  \/ Widened(task.inputs, task.output) \cap BeingCompacted # {}
  \/ \E w \in Workers : pc[w] = "merging" /\ job[w].output = task.output

(* The writer fills the active memtable and seals it; RocksDB stops writes  *)
(* while L0 is at its limit or no write buffer is free.                     *)
SealMemtable ==
  /\ flushed + sealed < MaxBatches
  /\ Cardinality(tree[0]) < Level0Stop
  /\ sealed < MaxWriteBuffers - 1
  /\ sealed' = sealed + 1
  /\ UNCHANGED <<flushed, tree, job, lazy, snapshot, mutex, running, queue,
                 pc, pick, stale, alive, ub>>

(* A flush installs its L0 file; the listener is then called.               *)
OnFlushCompleted(t) ==
  /\ pc[t] = "idle"
  /\ sealed > 0
  /\ sealed' = sealed - 1
  /\ flushed' = flushed + 1
  /\ tree' = [tree EXCEPT ![0] = @ \cup {{flushed + 1}}]
  /\ pc' = [pc EXCEPT ![t] = "clear"]
  /\ UNCHANGED <<job, lazy, snapshot, mutex, running, queue, pick, stale,
                 alive, ub>>

-----------------------------------------------------------------------------
(* BuildStructure.                                                         *)

BuildBegin(t) ==
  /\ pc[t] = "clear"
  /\ mutex = NoThread
  /\ mutex' = t
  /\ snapshot' = [files |-> tree, busy |-> BeingCompacted]
  /\ lazy' = EmptyView
  /\ stale' = stale \cup {u \in Threads : pick[u].inputs # {}}
  /\ pc' = [pc EXCEPT ![t] = "fill"]
  /\ UNCHANGED <<dbVars, running, queue, pick, alive, ub>>

(* Mutant of BuildEnd: the mutex is not unlocked.                           *)
BuildEndKeepsMutex(t) ==
  /\ pc[t] = "fill"
  /\ lazy' = snapshot
  /\ snapshot' = EmptyView
  /\ mutex' = mutex
  /\ pc' = [pc EXCEPT ![t] = "scan"]
  /\ UNCHANGED <<dbVars, running, queue, pick, stale, alive, ub>>

BuildEnd(t) ==
  /\ pc[t] = "fill"
  /\ lazy' = snapshot
  /\ snapshot' = EmptyView
  /\ mutex' = NoThread
  /\ pc' = [pc EXCEPT ![t] = "scan"]
  /\ UNCHANGED <<dbVars, running, queue, pick, stale, alive, ub>>

(* PickCompaction reads the view without the mutex: when another thread is  *)
(* rebuilding it, what is read is any prefix of the new structure.          *)
Racing == mutex # NoThread

Prefix(view, n) ==
  [view EXCEPT !.files = [L \in RocksDBLevels |-> IF L < n THEN @[L] ELSE {}]]

ReadableViews ==
  IF Racing THEN {Prefix(snapshot, n) : n \in 0 .. NumLevels} ELSE {lazy}

-----------------------------------------------------------------------------
(* PickCompaction and ScheduleCompaction.                                  *)

Scan(t) ==
  /\ pc[t] = "scan"
  /\ \E view \in ReadableViews, l \in LazyLevels :
       /\ IsLargestOccupiedLevel(view.files, l)
       /\ pick' = [pick EXCEPT ![t] = [NoPick EXCEPT !.lvl = l, !.largest = l]]
  /\ pc' = [pc EXCEPT ![t] = "examine"]
  /\ ub' = (ub \/ Racing)
  /\ UNCHANGED <<dbVars, viewVars, running, queue, stale, alive>>

(* Mutant of NextLevel: the loop condition lets level -1 in.                *)
NextLevelBelowZero(t) ==
  /\ stale' = stale \ {t}
  /\ IF pick[t].lvl < 0
     THEN /\ pick' = [pick EXCEPT ![t] = NoPick]
          /\ pc' = [pc EXCEPT ![t] =
                      IF t \in Workers THEN "release" ELSE "idle"]
     ELSE /\ pick' = [pick EXCEPT ![t] =
                        [NoPick EXCEPT !.lvl = pick[t].lvl - 1,
                                       !.largest = pick[t].largest]]
          /\ pc' = [pc EXCEPT ![t] = "examine"]

(* The loop goes on to the level above, or PickCompaction returns.          *)
NextLevel(t) ==
  /\ stale' = stale \ {t}
  /\ IF pick[t].lvl = 0
     THEN /\ pick' = [pick EXCEPT ![t] = NoPick]
          /\ pc' = [pc EXCEPT ![t] =
                      IF t \in Workers THEN "release" ELSE "idle"]
     ELSE /\ pick' = [pick EXCEPT ![t] =
                        [NoPick EXCEPT !.lvl = pick[t].lvl - 1,
                                       !.largest = pick[t].largest]]
          /\ pc' = [pc EXCEPT ![t] = "examine"]

(* The runs of the level are counted, and found to be too many or not.  No  *)
(* lock holds what was counted until the files are collected.               *)
Examine(t) ==
  /\ pc[t] = "examine"
  /\ \E view \in ReadableViews :
       LET live == NumLiveRuns(view.files, view.busy, pick[t].lvl)
       IN  IF Triggered(pick[t].lvl, pick[t].largest, live)
           THEN /\ pc' = [pc EXCEPT ![t] = "collect"]
                /\ UNCHANGED <<pick, stale>>
           ELSE NextLevel(t)
  /\ ub' = (ub \/ Racing)
  /\ UNCHANGED <<dbVars, viewVars, running, queue, alive>>

(* AddFilesToCompaction looks at the level again, after it has asked        *)
(* RocksDB for metadata it does not use, and keeps pointers into the view,  *)
(* which dangle at once when the view is being rebuilt.                     *)
AddFilesToCompaction(t) ==
  /\ pc[t] = "collect"
  /\ \E view \in ReadableViews :
       pick' = [pick EXCEPT ![t].inputs =
                  FilesOf(view.files, pick[t].lvl) \ view.busy]
  /\ stale' = IF Racing THEN stale \cup {t} ELSE stale
  /\ pc' = [pc EXCEPT ![t] = "measure"]
  /\ ub' = (ub \/ Racing)
  /\ UNCHANGED <<dbVars, viewVars, running, queue, alive>>

(* GetCompactionTargetLevel follows the pointers to add the sizes up.       *)
Measure(t) ==
  /\ pc[t] = "measure"
  /\ \E target \in {pick[t].lvl, pick[t].lvl + 1} :
       /\ t \in stale
            \/ target = GetCompactionTargetLevel(pick[t].lvl, pick[t].inputs)
       /\ pick' = [pick EXCEPT ![t].target = target]
  /\ pc' = [pc EXCEPT ![t] = "permit"]
  /\ ub' = (ub \/ t \in stale)
  /\ UNCHANGED <<dbVars, viewVars, running, queue, stale, alive>>

(* Mutant of CheckPermit: one compaction too many is let through.           *)
CheckPermitOffByOne(t) ==
  /\ pc[t] = "permit"
  /\ IF Allowed >= running
     THEN /\ pc' = [pc EXCEPT ![t] = "claim"]
          /\ UNCHANGED <<pick, stale>>
     ELSE NextLevel(t)
  /\ UNCHANGED <<dbVars, viewVars, running, queue, alive, ub>>

CheckPermit(t) ==
  /\ pc[t] = "permit"
  /\ IF Allowed > running
     THEN /\ pc' = [pc EXCEPT ![t] = "claim"]
          /\ UNCHANGED <<pick, stale>>
     ELSE NextLevel(t)
  /\ UNCHANGED <<dbVars, viewVars, running, queue, alive, ub>>

(* lazy_levels_[target_lvl].runs is indexed from smaller_lvl_runs_count_    *)
(* down, whether or not it has that many runs.                              *)
SlotOutOfBounds(t) ==
  pick[t].target > pick[t].lvl /\ ~ HasRun(pick[t].target, SmallerRuns)

InvalidAccess(t) == t \in stale \/ Racing \/ SlotOutOfBounds(t)

(* The positions i at which the slot search may stop.                       *)
Slots(t) ==
  IF pick[t].target <= pick[t].lvl
  THEN {0}
  ELSE IF Racing \/ SlotOutOfBounds(t)
       THEN 0 .. SmallerRuns
       ELSE PushSlots(lazy.files, pick[t].target)

(* The names found behind input_files: through a dangling pointer, the old  *)
(* ones, garbage, or those of files that now occupy the reused memory.      *)
Names(t) ==
  IF t \in stale \/ Racing
  THEN {pick[t].inputs, {NoSuchFile}}
         \cup {{f} : f \in UNION {lazy.files[L] : L \in RocksDBLevels}}
  ELSE {pick[t].inputs}

Claim(t) ==
  /\ pc[t] = "claim"
  /\ \E i \in Slots(t), names \in Names(t) :
       /\ lazy' = [lazy EXCEPT !.busy = @ \cup names]
       /\ queue' = Append(queue, [inputs |-> names,
                                  output |-> SlotLevel(pick[t].target, i)])
  /\ running' = running + 1
  /\ NextLevel(t)
  /\ ub' = (ub \/ InvalidAccess(t))
  /\ UNCHANGED <<dbVars, snapshot, mutex, alive>>

(* An invalid access may also end the process.                              *)
Crash(t) ==
  /\ \/ pc[t] \in {"scan", "examine", "collect"} /\ Racing
     \/ pc[t] = "measure" /\ t \in stale
     \/ pc[t] = "claim" /\ InvalidAccess(t)
  /\ alive' = FALSE
  /\ ub' = TRUE
  /\ UNCHANGED <<dbVars, viewVars, running, queue, pc, pick, stale>>

-----------------------------------------------------------------------------
(* CompactFiles on a worker.                                               *)

StartMerge(w) ==
  /\ pc[w] = "idle"
  /\ queue # <<>>
  /\ ~ Rejected(Head(queue))
  /\ queue' = Tail(queue)
  /\ job' = [job EXCEPT ![w] =
               [Head(queue) EXCEPT !.inputs = Widened(@, Head(queue).output)]]
  /\ pc' = [pc EXCEPT ![w] = "merging"]
  /\ UNCHANGED <<sealed, flushed, tree, viewVars, running, pick, stale, alive,
                 ub>>

(* A refusal is not an IO error: the worker picks again.                    *)
RejectMerge(w) ==
  /\ pc[w] = "idle"
  /\ queue # <<>>
  /\ Rejected(Head(queue))
  /\ queue' = Tail(queue)
  /\ pc' = [pc EXCEPT ![w] = "clear"]
  /\ UNCHANGED <<dbVars, viewVars, running, pick, stale, alive, ub>>

FinishMerge(w) ==
  /\ pc[w] = "merging"
  /\ tree' = [L \in RocksDBLevels |->
                (tree[L] \ job[w].inputs)
                  \cup (IF L = job[w].output
                        THEN {UNION job[w].inputs} ELSE {})]
  /\ job' = [job EXCEPT ![w] = NoTask]
  /\ pc' = [pc EXCEPT ![w] = "clear"]
  /\ UNCHANGED <<sealed, flushed, viewVars, running, queue, pick, stale, alive,
                 ub>>

(* Mutant of FailMerge: an IO error returns without the decrement.          *)
FailMergeKeepsPermit(w) ==
  /\ pc[w] = "merging"
  /\ job' = [job EXCEPT ![w] = NoTask]
  /\ \E error \in Errors :
       pc' = [pc EXCEPT ![w] = IF error = "IOError" THEN "idle" ELSE "clear"]
  /\ UNCHANGED <<sealed, flushed, tree, viewVars, running, queue, pick, stale,
                 alive, ub>>

(* After an IO error the worker does not pick again.                        *)
FailMerge(w) ==
  /\ pc[w] = "merging"
  /\ job' = [job EXCEPT ![w] = NoTask]
  /\ \E error \in Errors :
       pc' = [pc EXCEPT ![w] = IF error = "IOError" THEN "release" ELSE "clear"]
  /\ UNCHANGED <<sealed, flushed, tree, viewVars, running, queue, pick, stale,
                 alive, ub>>

Release(w) ==
  /\ pc[w] = "release"
  /\ running' = running - 1
  /\ pc' = [pc EXCEPT ![w] = "idle"]
  /\ UNCHANGED <<dbVars, viewVars, queue, pick, stale, alive, ub>>

-----------------------------------------------------------------------------
Init ==
  /\ sealed = 0
  /\ flushed = 0
  /\ tree = EmptyTree
  /\ lazy = EmptyView
  /\ snapshot = EmptyView
  /\ mutex = NoThread
  /\ running = 0
  /\ queue = <<>>
  /\ job = [w \in Workers |-> NoTask]
  /\ pc = [t \in Threads |-> "idle"]
  /\ pick = [t \in Threads |-> NoPick]
  /\ stale = {}
  /\ alive = TRUE
  /\ ub = FALSE

PickStep(t) ==
  \/ BuildBegin(t)
  \/ BuildEnd(t)
  \/ Scan(t)
  \/ Examine(t)
  \/ AddFilesToCompaction(t)
  \/ Measure(t)
  \/ CheckPermit(t)
  \/ Claim(t)

WorkerStep(w) ==
  \/ StartMerge(w)
  \/ RejectMerge(w)
  \/ FinishMerge(w)
  \/ FailMerge(w)
  \/ Release(w)

Next ==
  /\ alive
  /\ \/ SealMemtable
     \/ \E t \in FlushThreads : OnFlushCompleted(t)
     \/ \E t \in Threads : PickStep(t) \/ Crash(t)
     \/ \E w \in Workers : WorkerStep(w)

Spec == Init /\ [][Next]_vars

(* Every thread of the two pools that can take a step takes one; nothing    *)
(* obliges the workload to write, or a merge to succeed.                    *)
Fairness ==
  /\ \A t \in FlushThreads :
       WF_vars(alive /\ (OnFlushCompleted(t) \/ PickStep(t)))
  /\ \A w \in Workers : WF_vars(alive /\ (PickStep(w) \/ WorkerStep(w)))

FairSpec == Spec /\ Fairness

-----------------------------------------------------------------------------
(* Properties.                                                             *)

PCs == {"idle", "clear", "fill", "scan", "examine", "collect", "measure",
        "permit", "claim", "merging", "release"}

TypeOK ==
  /\ sealed \in 0 .. MaxWriteBuffers - 1
  /\ flushed \in 0 .. MaxBatches
  /\ flushed + sealed <= MaxBatches
  /\ tree \in [RocksDBLevels -> SUBSET File]
  /\ lazy \in View
  /\ snapshot \in View
  /\ mutex \in Threads \cup {NoThread}
  /\ running \in Int
  /\ queue \in Seq(Task)
  /\ job \in [Workers -> Merge]
  /\ pc \in [Threads -> PCs]
  /\ pick \in [Threads -> Pick]
  /\ stale \subseteq Threads
  /\ alive \in BOOLEAN
  /\ ub \in BOOLEAN

(* Every unit of parallel_compactions_running_ belongs to one task in the   *)
(* queue or to one worker between the start of its task and the decrement   *)
(* that ends CompactFiles, whichever way the merge went: none is lost and   *)
(* none given back twice.                                                   *)
PermitAccounting ==
  running = Len(queue) + Cardinality({w \in Workers : pc[w] # "idle"})

(* The comparison that opens ScheduleCompaction and the increment are not   *)
(* atomic.  parallel_compactions_allowed_ is overrun by that window, but    *)
(* never by more than the flush threads that can be in it together.         *)
OutstandingBound ==
  running + Cardinality({t \in Threads : pc[t] = "claim"})
    <= Cardinality(FlushThreads)

(* The PickCompaction that ends CompactFiles still holds the permit of the  *)
(* compaction it follows, so it never schedules another one.                *)
WorkersNeverClaim == \A w \in Workers : pc[w] # "claim"

(* With one flush thread, a thread that has passed the comparison in        *)
(* ScheduleCompaction is alone: no task waits, no worker merges or rebuilds *)
(* the view it is about to index, though it holds no mutex.                 *)
ClaimIsExclusive ==
  \A t \in Threads :
    pc[t] = "claim" =>
      /\ running = 0
      /\ queue = <<>>
      /\ ~ Racing
      /\ \A w \in Workers : pc[w] = "idle"

(* A task that waits for a worker is one DB::CompactFiles accepts when it   *)
(* starts, unless the process has touched invalid memory: its files still   *)
(* exist, none is being compacted, its output level is below them.  The one *)
(* request it refuses names no file at all: the level was emptied between   *)
(* the count of its runs and AddFilesToCompaction.                          *)
RequestsAcceptable ==
  ub \/ \A k \in DOMAIN queue :
          queue[k].inputs = {} \/ ~ Rejected(queue[k])

(* Within a fluid level beyond 0 the runs are stacked from its last RocksDB *)
(* level up: no empty level lies below an occupied one, so the slot search  *)
(* that starts from the end finds the place above the youngest run.         *)
StackedFromBottom ==
  ub \/ \A L, M \in 2 .. NumLevels - 1 :
          FluidLevel(L) = FluidLevel(M) /\ L < M /\ tree[L] # {} => tree[M] # {}

(* A push merges its run with an older one only when its level has no empty *)
(* run left.  That does happen: one walk of PickCompaction may be refused   *)
(* the compaction of a full level and, a moment later, be granted the one   *)
(* of the level above.                                                      *)
PushMergesOnlyIntoFullLevel ==
  ub \/ \A k \in DOMAIN queue :
          LET inputs == queue[k].inputs
              output == queue[k].output
          IN  \/ inputs = {}
              \/ tree[output] \subseteq inputs
              \/ \A L \in RunLevels(FluidLevel(output)) : tree[L] # {}

(* A run of fluid level l > 0 holds more than level l - 1 has room for: a   *)
(* compaction moves down only what has outgrown its level.                  *)
RunsOutgrewLevelAbove ==
  ub \/ \A L \in 2 .. NumLevels - 1 :
          \A f \in tree[L] : Cardinality(f) > Capacity(FluidLevel(L) - 1)

(* The permit a compaction takes is given back, unless the process crashes. *)
PermitReleased == running > 0 ~> running = 0 \/ ~ alive

(* OnFlushCompleted returns to the flush thread: no thread is left waiting  *)
(* for lazy_levels_mutex_ and no walk over the levels goes on forever.      *)
CallbackReturns ==
  \A t \in FlushThreads : pc[t] # "idle" ~> pc[t] = "idle" \/ ~ alive

=============================================================================
