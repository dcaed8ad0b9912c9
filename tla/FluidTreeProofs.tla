--------------------------- MODULE FluidTreeProofs ---------------------------
(***************************************************************************)
(* Proofs about the tree that FluidLSM shapes when it has one flush thread *)
(* (max_background_jobs = 1, the default), for any size ratio, any numbers *)
(* of runs and levels, any pool of workers and any failures.               *)
(***************************************************************************)
EXTENDS FluidLSMProofs

-----------------------------------------------------------------------------
(* The geometry of the levels.                                             *)

(* The last RocksDB level of fluid level lvl, if it exists.                 *)
LastLevel(lvl) == SlotLevel(lvl, 0)

LEMMA ParametersType ==
  /\ SizeRatio \in Nat /\ SizeRatio >= 1
  /\ SmallerRuns \in Nat /\ LargerRuns \in Nat
  /\ NumLevels \in Nat /\ NumLevels >= 2
  /\ {0, 1} \subseteq RocksDBLevels
BY LevelsAssumption, SMT DEF LevelsAssumption, RocksDBLevels

(* A RocksDB level beyond 1 is one of the SmallerRuns + 1 slots of its      *)
(* fluid level.                                                            *)
LEMMA FluidLevelRange ==
  ASSUME NEW L \in Nat, L >= 2
  PROVE  /\ FluidLevel(L) \in Nat \ {0}
         /\ \A lvl \in Nat :
              FluidLevel(L) = lvl
                <=> LastLevel(lvl) - SmallerRuns <= L /\ L <= LastLevel(lvl)
<1> DEFINE width == SmallerRuns + 1
<1>1. width \in Nat \ {0} /\ FluidLevel(L) = (L - 1 + SmallerRuns) \div width
  BY ParametersType DEF FluidLevel
<1>2. ASSUME NEW x \in Nat, NEW w \in Nat \ {0}, NEW q \in Nat
      PROVE  x \div w = q <=> q * w <= x /\ x < q * w + w
  BY <1>2, SMT
<1>3. ASSUME NEW lvl \in Nat
      PROVE  FluidLevel(L) = lvl
               <=> LastLevel(lvl) - SmallerRuns <= L /\ L <= LastLevel(lvl)
  <2>1. lvl * width \in Nat /\ L - 1 + SmallerRuns \in Nat
    BY ParametersType
  <2>2. FluidLevel(L) = lvl
          <=> /\ lvl * width <= L - 1 + SmallerRuns
              /\ L - 1 + SmallerRuns < lvl * width + width
    BY <1>1, <1>2, <2>1
  <2>3. LastLevel(lvl) = 1 + lvl * width
    BY <2>1, ParametersType DEF LastLevel, SlotLevel
  <2> HIDE DEF width
  <2> QED
    BY <2>1, <2>2, <2>3, ParametersType DEF width
<1>4. FluidLevel(L) \in Nat \ {0}
  BY <1>1, ParametersType, SMT
<1> QED
  BY <1>3, <1>4

(* The slots of one fluid level lie above those of the next.                *)
LEMMA FluidLevelMonotonic ==
  ASSUME NEW L \in Nat, NEW M \in Nat, L >= 2, FluidLevel(L) < FluidLevel(M)
  PROVE  L < M
<1>1. ASSUME NEW x \in Nat, NEW y \in Nat, NEW w \in Nat \ {0}, y <= x
      PROVE  y \div w <= x \div w
  BY <1>1, SMT
<1>2. M >= 2
  BY ParametersType, FluidLevelRange DEF FluidLevel
<1> QED
  BY <1>1, <1>2, ParametersType DEF FluidLevel

(* The slots of a fluid level beyond 0.                                     *)
LEMMA SlotsRange ==
  ASSUME NEW lvl \in Nat \ {0}, NEW i \in 0 .. SmallerRuns
  PROVE  /\ LastLevel(lvl) \in Nat
         /\ SlotLevel(lvl, i) = LastLevel(lvl) - i
         /\ LastLevel(lvl) - SmallerRuns >= 2
<1>1. lvl * (SmallerRuns + 1) \in Nat /\ lvl * (SmallerRuns + 1) >= SmallerRuns + 1
  BY ParametersType, SMT
<1> QED
  BY <1>1, ParametersType DEF LastLevel, SlotLevel

LEMMA RunLevelsInterval ==
  ASSUME NEW lvl \in Nat \ {0}
  PROVE  RunLevels(lvl)
           = {L \in LastLevel(lvl) - SmallerRuns .. LastLevel(lvl) :
                L <= NumLevels - 1}
<1>1. /\ LastLevel(lvl) \in Nat
      /\ LastLevel(lvl) - SmallerRuns >= 2
  BY SlotsRange, ParametersType
<1>2. FluidLevel(1) = 0
  BY DEF FluidLevel
<1>3. ASSUME NEW L \in RunLevels(lvl)
      PROVE  /\ L \in LastLevel(lvl) - SmallerRuns .. LastLevel(lvl)
             /\ L <= NumLevels - 1
  <2>1. L \in Nat /\ L >= 2 /\ FluidLevel(L) = lvl /\ L <= NumLevels - 1
    BY <1>2, ParametersType DEF RunLevels
  <2> QED
    BY <1>1, <2>1, FluidLevelRange, ParametersType
<1>4. ASSUME NEW L \in LastLevel(lvl) - SmallerRuns .. LastLevel(lvl),
             L <= NumLevels - 1
      PROVE  L \in RunLevels(lvl)
  <2>1. L \in Nat /\ L >= 2
    BY <1>1, ParametersType
  <2> QED
    BY <1>1, <1>4, <2>1, FluidLevelRange, ParametersType DEF RunLevels
<1> QED
  BY <1>3, <1>4

(* A fluid level that has its last run has all of them, ...                 *)
LEMMA FullLevelHasLast ==
  ASSUME NEW lvl \in Nat \ {0}, HasRun(lvl, SmallerRuns)
  PROVE  LastLevel(lvl) \in RocksDBLevels
<1>1. /\ LastLevel(lvl) \in Nat
      /\ LastLevel(lvl) - SmallerRuns >= 2
  BY SlotsRange, ParametersType
<1>2. SUFFICES ASSUME LastLevel(lvl) > NumLevels - 1 PROVE FALSE
  BY <1>1, ParametersType DEF RocksDBLevels
<1> DEFINE first == LastLevel(lvl) - SmallerRuns
<1>3. RunLevels(lvl) \subseteq first .. NumLevels - 1
  BY RunLevelsInterval, <1>1, ParametersType
<1>4. /\ IsFiniteSet(first .. NumLevels - 1)
      /\ Cardinality(first .. NumLevels - 1)
           = IF first > NumLevels - 1 THEN 0 ELSE NumLevels - 1 - first + 1
  <2>1. PICK last \in Int : last = NumLevels - 1
    BY ParametersType
  <2>2. first \in Int
    BY <1>1, ParametersType
  <2> HIDE DEF first
  <2> QED
    BY <2>1, <2>2, FS_Interval
<1>5. /\ Cardinality(RunLevels(lvl)) \in Nat
      /\ Cardinality(RunLevels(lvl)) <= Cardinality(first .. NumLevels - 1)
  BY <1>3, <1>4, FS_Subset, FS_CardinalityType
<1>6. SmallerRuns <= Cardinality(RunLevels(lvl)) - 1
  BY <1>5, ParametersType DEF HasRun
<1>7. first \in Nat /\ LastLevel(lvl) = first + SmallerRuns
  BY <1>1, ParametersType
<1> HIDE DEF first
<1> QED
  BY <1>2, <1>4, <1>5, <1>6, <1>7, ParametersType

(* ... and its i-th run from the end is the slot that ScheduleCompaction    *)
(* computes for i.                                                          *)
LEMMA RunLevelIsSlot ==
  ASSUME NEW lvl \in Nat \ {0}, LastLevel(lvl) \in RocksDBLevels,
         NEW i \in 0 .. SmallerRuns
  PROVE  /\ RunLevel(lvl, SmallerRuns - i) = SlotLevel(lvl, i)
         /\ SlotLevel(lvl, i) \in 2 .. NumLevels - 1
         /\ FluidLevel(SlotLevel(lvl, i)) = lvl
<1> DEFINE first == LastLevel(lvl) - SmallerRuns
<1>1. /\ LastLevel(lvl) \in Nat /\ first \in Nat /\ first >= 2
      /\ LastLevel(lvl) <= NumLevels - 1
      /\ SlotLevel(lvl, i) = LastLevel(lvl) - i
  BY SlotsRange, ParametersType DEF RocksDBLevels
<1>2. RunLevels(lvl) = first .. LastLevel(lvl)
  <2>1. \A L \in first .. LastLevel(lvl) : L <= NumLevels - 1
    BY <1>1, ParametersType
  <2> QED
    BY <2>1, RunLevelsInterval
<1>3. \A L \in RunLevels(lvl) : L \in Nat /\ L >= 2 /\ FluidLevel(L) = lvl
  BY <1>1, <1>2, ParametersType DEF RunLevels
<1>4. ASSUME NEW L \in RunLevels(lvl)
      PROVE  RunIndex(L) = L - first
  <2>1. {M \in 2 .. L - 1 : FluidLevel(M) = FluidLevel(L)} = first .. L - 1
    <3>1. ASSUME NEW M \in 2 .. L - 1
          PROVE  FluidLevel(M) = FluidLevel(L) <=> M >= first
      BY <1>1, <1>2, <1>3, FluidLevelRange, ParametersType
    <3>2. L \in Nat /\ L >= first
      BY <1>1, <1>2, <1>3
    <3> HIDE DEF first
    <3>3. \A M : M \in first .. L - 1 <=> M \in 2 .. L - 1 /\ M >= first
      BY <1>1, <3>2
    <3> QED
      BY <3>1, <3>3
  <2>2. Cardinality(first .. L - 1) = L - first
    <3>1. L \in Nat /\ L >= first
      BY <1>1, <1>2, <1>3
    <3> QED
      <4>1. PICK last \in Int : last = L - 1
        BY <3>1
      <4>2. first \in Int
        BY <1>1
      <4> HIDE DEF first
      <4>3. Cardinality(first .. last)
              = IF first > last THEN 0 ELSE last - first + 1
        BY <4>2, FS_Interval
      <4> QED
        BY <3>1, <4>1, <4>2, <4>3
  <2> QED
    BY <2>1, <2>2 DEF RunIndex
<1>5. /\ SlotLevel(lvl, i) \in RunLevels(lvl)
      /\ RunIndex(SlotLevel(lvl, i)) = SmallerRuns - i
  <2>1. SlotLevel(lvl, i) \in RunLevels(lvl)
    BY <1>1, <1>2, ParametersType
  <2> QED
    BY <1>1, <1>4, <2>1, ParametersType
<1>6. \A L \in RunLevels(lvl) :
        RunIndex(L) = SmallerRuns - i => L = SlotLevel(lvl, i)
  BY <1>1, <1>2, <1>4, ParametersType
<1>7. RunLevel(lvl, SmallerRuns - i) = SlotLevel(lvl, i)
  BY <1>5, <1>6 DEF RunLevel
<1> QED
  BY <1>1, <1>3, <1>5, <1>7, ParametersType DEF RunLevels

-----------------------------------------------------------------------------
(* One compaction at a time.                                               *)

(* What this module assumes of the flush pool.                              *)
OneFlushThread == Cardinality(FlushThreads) = 1

(* What FluidLSMProofs shows of every state.                                *)
SafeInv ==
  /\ BaseInv /\ MutexInv
  /\ WorkersNeverClaim /\ OutstandingBound /\ ClaimIsExclusive

LEMMA SafeInvariant ==
  ASSUME OneFlushThread
  PROVE  Spec => []SafeInv
<1>1. Spec => []ClaimIsExclusive
  BY ClaimExclusive DEF OneFlushThread
<1> QED
  BY <1>1, BaseInvariant, MutexInvariant, WorkersNeverSchedule,
     OutstandingBounded, PTL DEF SafeInv

(* At most one task waits for a worker or is worked on.                     *)
Sequential ==
  /\ Len(queue) <= 1
  /\ \A w \in Workers : pc[w] # "idle" => queue = <<>>
  /\ \A v, w \in Workers : pc[v] # "idle" /\ pc[w] # "idle" => v = w

LEMMA SafeIsSequential ==
  ASSUME OneFlushThread, SafeInv
  PROVE  Sequential
<1> USE DEF SafeInv, BaseInv, TypeOK
<1>1. Cardinality(Claiming) \in Nat /\ running + Cardinality(Claiming) <= 1
  BY ClaimingFinite DEF OutstandingBound, Claiming, OneFlushThread
<1>2. /\ Len(queue) \in Nat /\ Cardinality(BusyWorkers) \in Nat
      /\ running = Len(queue) + Cardinality(BusyWorkers)
  BY BusyWorkersFinite DEF PermitAccounting, BusyWorkers
<1>3. Len(queue) + Cardinality(BusyWorkers) <= 1
  BY <1>1, <1>2
<1>4. ASSUME NEW w \in Workers, pc[w] # "idle" PROVE queue = <<>>
  <2>1. w \in BusyWorkers
    BY <1>4 DEF BusyWorkers
  <2>2. Cardinality(BusyWorkers) # 0
    BY <2>1, BusyWorkersFinite, FS_EmptySet
  <2>3. Len(queue) = 0
    BY <1>2, <1>3, <2>2
  <2> QED
    BY <2>3
<1>5. ASSUME NEW v \in Workers, NEW w \in Workers,
             pc[v] # "idle", pc[w] # "idle"
      PROVE  v = w
  <2>1. v \in BusyWorkers /\ w \in BusyWorkers
    BY <1>5 DEF BusyWorkers
  <2>2. Cardinality(BusyWorkers) = 1
    <3>1. Cardinality(BusyWorkers) # 0
      BY <2>1, BusyWorkersFinite, FS_EmptySet
    <3> QED
      BY <1>2, <1>3, <3>1
  <2>3. PICK u : BusyWorkers = {u}
    BY <2>2, BusyWorkersFinite, FS_Singleton
  <2> QED
    BY <2>1, <2>3
<1> QED
  BY <1>2, <1>3, <1>4, <1>5 DEF Sequential

-----------------------------------------------------------------------------
(* The inductive invariant.                                                *)

(* The files are disjoint, and made of memtables that have been flushed.    *)
FilesDisjoint ==
  /\ \A L \in RocksDBLevels : \A g \in tree[L] : g \subseteq 1 .. flushed
  /\ \A L, M \in RocksDBLevels : \A g \in tree[L], h \in tree[M] :
       g \cap h # {} => L = M /\ g = h

(* A merge is one of files that are there.                                  *)
JobsOfTree ==
  \A w \in Workers :
    pc[w] = "merging" =>
      job[w].inputs \subseteq AllFiles /\ job[w].output \in RocksDBLevels

IdleWithoutJob ==
  \A w \in Workers : pc[w] # "merging" => job[w].inputs = {}

(* The view being built, or the one that was built last, shows the tree,    *)
(* unless a thread is about to build another.                               *)
CurrentFiles == IF mutex = NoThread THEN lazy.files ELSE snapshot.files

ViewCurrent == (\A t \in Threads : pc[t] # "clear") => CurrentFiles = tree

(* Of a fluid level beyond 0, a set holds all files or none.                *)
Whole(files, set) ==
  \A L, M \in 2 .. NumLevels - 1 :
    FluidLevel(L) = FluidLevel(M) /\ files[L] \cap set # {}
      => files[M] \subseteq set

ViewsWhole ==
  ub \/ (Whole(lazy.files, lazy.busy) /\ Whole(snapshot.files, snapshot.busy))

(* A level is used only if it has room for all its runs.                    *)
LevelsComplete ==
  ub \/ \A L \in 2 .. NumLevels - 1 :
          tree[L] # {} => LastLevel(FluidLevel(L)) \in RocksDBLevels

TreeShape == StackedFromBottom /\ RunsOutgrewLevelAbove /\ LevelsComplete

(* What a thread has collected is what the view has, or nothing: the level  *)
(* may have been emptied since its runs were counted.                       *)
PickFits(t) ==
  /\ \/ pick[t].inputs = {}
     \/ /\ mutex = NoThread
        /\ pick[t].inputs = FilesOf(lazy.files, pick[t].lvl) \ lazy.busy
  /\ pc[t] # "measure" =>
       pick[t].target = GetCompactionTargetLevel(pick[t].lvl, pick[t].inputs)

PicksFit ==
  ub \/ \A t \in FlushThreads \ stale :
          pc[t] \in {"measure", "permit", "claim"} => PickFits(t)

(* A merge of the files X into RocksDB level output leaves a tree in shape. *)
WellPlaced(X, output) ==
  /\ output \in 1 .. NumLevels - 1
  /\ X # {} /\ X \subseteq AllFiles
  /\ Whole(tree, X)
  /\ tree[output] \subseteq X
  /\ \A M \in output + 1 .. NumLevels - 1 :
       /\ tree[M] \cap X = {}
       /\ FluidLevel(M) = FluidLevel(output) => tree[M] # {}
  /\ output >= 2 =>
       /\ LastLevel(FluidLevel(output)) \in RocksDBLevels
       /\ Cardinality(UNION X) > Capacity(FluidLevel(output) - 1)

JobsFit ==
  ub \/ \A w \in Workers :
          pc[w] = "merging" => WellPlaced(job[w].inputs, job[w].output)

(* A task names files of the tree, all above its output level or in it, and *)
(* what DB::CompactFiles will make of it is well placed.                    *)
TaskFits(task) ==
  /\ task.inputs # {} /\ task.inputs \subseteq AllFiles
  /\ \A L \in LevelsOf(task.inputs) : L <= task.output
  /\ WellPlaced(Widened(task.inputs, task.output), task.output)
  /\ \/ tree[task.output] \subseteq task.inputs
     \/ \A L \in RunLevels(FluidLevel(task.output)) : tree[L] # {}

TasksFit ==
  ub \/ \A k \in DOMAIN queue : queue[k].inputs = {} \/ TaskFits(queue[k])

TreeInv ==
  /\ FilesDisjoint /\ JobsOfTree /\ IdleWithoutJob /\ ViewCurrent
  /\ TreeShape /\ ViewsWhole /\ PicksFit /\ TasksFit /\ JobsFit

-----------------------------------------------------------------------------
(* The files.                                                              *)

LEMMA TreeType ==
  ASSUME TypeOK
  PROVE  /\ \A L \in RocksDBLevels : \A g \in tree[L] :
              g \in File /\ g # {} /\ g \subseteq 1 .. MaxBatches
         /\ flushed \in Nat
BY DEF TypeOK, File

LEMMA DisjointFiles ==
  ASSUME FilesDisjoint,
         NEW L \in RocksDBLevels, NEW M \in RocksDBLevels,
         NEW g \in tree[L], NEW h \in tree[M], g \cap h # {}
  PROVE  L = M /\ g = h
BY DEF FilesDisjoint

(* A step of a walk leaves the files and the merges alone, and moves on.    *)
LEMMA PickStepMoves ==
  ASSUME NEW t \in Threads, pc \in [Threads -> PCs], PickStep(t) \/ Crash(t)
  PROVE  /\ UNCHANGED <<sealed, flushed, tree, job>>
         /\ \A u \in Threads :
              pc'[u] # pc[u] =>
                /\ u = t /\ pc[u] \notin {"idle", "merging", "release"}
                /\ pc'[u] \notin {"clear", "merging"}
<1>1. UNCHANGED <<sealed, flushed, tree, job>>
  BY DEF PickStep, BuildBegin, BuildEnd, Scan, Examine, AddFilesToCompaction,
         Measure, CheckPermit, Claim, Crash, dbVars
<1>2. ASSUME NEW label, pc' = [pc EXCEPT ![t] = label],
             pc[t] \notin {"idle", "merging", "release"},
             label \notin {"clear", "merging"}
      PROVE  \A u \in Threads :
               pc'[u] # pc[u] =>
                 /\ u = t /\ pc[u] \notin {"idle", "merging", "release"}
                 /\ pc'[u] \notin {"clear", "merging"}
  BY <1>2
<1>3. ASSUME NextLevel(t)
      PROVE  \E label \in {"release", "idle", "examine"} :
               pc' = [pc EXCEPT ![t] = label]
  BY <1>3 DEF NextLevel
<1>4. CASE Examine(t)
  <2>1. \E label \in {"release", "idle", "examine", "collect"} :
          pc' = [pc EXCEPT ![t] = label]
    BY <1>3, <1>4 DEF Examine
  <2> QED
    BY <1>1, <1>2, <1>4, <2>1 DEF Examine
<1>5. CASE CheckPermit(t) \/ Claim(t)
  <2>1. \E label \in {"release", "idle", "examine", "claim"} :
          pc' = [pc EXCEPT ![t] = label]
    BY <1>3, <1>5 DEF CheckPermit, Claim
  <2> QED
    BY <1>1, <1>2, <1>5, <2>1 DEF CheckPermit, Claim
<1>6. CASE \/ BuildBegin(t) \/ BuildEnd(t) \/ Scan(t)
           \/ AddFilesToCompaction(t) \/ Measure(t)
  BY <1>1, <1>2, <1>6 DEF BuildBegin, BuildEnd, Scan, AddFilesToCompaction,
                          Measure
<1>7. CASE Crash(t)
  BY <1>1, <1>7 DEF Crash
<1> QED
  BY <1>4, <1>5, <1>6, <1>7 DEF PickStep

LEMMA FilesNext ==
  ASSUME TypeOK, MergesSomething, Sequential, FilesDisjoint, JobsOfTree,
         [Next]_vars
  PROVE  FilesDisjoint' /\ JobsOfTree'
<1> USE DEF FilesDisjoint, JobsOfTree, AllFiles
<1>1. ASSUME UNCHANGED <<tree, flushed>>,
             \A w \in Workers :
               pc'[w] = "merging" => pc[w] = "merging" /\ job'[w] = job[w]
      PROVE  FilesDisjoint' /\ JobsOfTree'
  BY <1>1
<1>2. ASSUME NEW t \in FlushThreads, OnFlushCompleted(t)
      PROVE  FilesDisjoint' /\ JobsOfTree'
  <2>1. flushed \in Nat /\ flushed' = flushed + 1 /\ job' = job
    BY <1>2, TreeType DEF OnFlushCompleted
  <2>2. tree' = [tree EXCEPT ![0] = @ \cup {{flushed + 1}}]
    BY <1>2 DEF OnFlushCompleted
  <2>3. \A L \in RocksDBLevels :
          tree'[L] = tree[L] \/ tree'[L] = tree[L] \cup {{flushed + 1}}
    BY <2>2
  <2>4. flushed + 1 \notin 1 .. flushed
    BY <2>1
  <2>5. \A L \in RocksDBLevels : \A g \in tree[L] : flushed + 1 \notin g
    BY <2>4
  <2>6. \A L \in RocksDBLevels : \A g \in tree'[L] :
          g \in tree[L] \/ (L = 0 /\ g = {flushed + 1})
    BY <2>2
  <2>7. FilesDisjoint'
    <3>1. \A L \in RocksDBLevels : \A g \in tree'[L] : g \subseteq 1 .. flushed'
      BY <2>1, <2>6
    <3>2. ASSUME NEW L \in RocksDBLevels, NEW M \in RocksDBLevels,
                 NEW g \in tree'[L], NEW h \in tree'[M], g \cap h # {}
          PROVE  L = M /\ g = h
      <4>1. CASE g \in tree[L] /\ h \in tree[M]
        BY <3>2, <4>1, DisjointFiles
      <4>2. CASE g \in tree[L] /\ h = {flushed + 1}
        BY <2>5, <3>2, <4>2
      <4>3. CASE g = {flushed + 1} /\ h \in tree[M]
        BY <2>5, <3>2, <4>3
      <4> QED
        BY <2>6, <4>1, <4>2, <4>3
    <3> QED
      BY <3>1, <3>2
  <2>8. JobsOfTree'
    BY <1>2, <2>1, <2>3 DEF OnFlushCompleted, Threads
  <2> QED
    BY <2>7, <2>8
<1>3. ASSUME NEW w \in Workers, StartMerge(w)
      PROVE  FilesDisjoint' /\ JobsOfTree'
  <2>1. Head(queue) \in Task /\ ~ Rejected(Head(queue))
    BY <1>3 DEF StartMerge, TypeOK
  <2>2. job'[w].inputs = Widened(Head(queue).inputs, Head(queue).output)
        /\ job'[w].output = Head(queue).output
    BY <1>3, <2>1 DEF StartMerge, Task, TypeOK
  <2>3. 0 \in RocksDBLevels
    BY ParametersType
  <2>4. job'[w].inputs \subseteq AllFiles /\ job'[w].output \in RocksDBLevels
    BY <2>1, <2>2, <2>3 DEF Rejected, Widened
  <2>5. \A v \in Workers : v # w => job'[v] = job[v] /\ pc'[v] = pc[v]
    BY <1>3 DEF StartMerge, Threads, TypeOK
  <2> QED
    BY <1>3, <2>4, <2>5 DEF StartMerge
<1>4. ASSUME NEW w \in Workers, FinishMerge(w)
      PROVE  FilesDisjoint' /\ JobsOfTree'
  <2> DEFINE X == job[w].inputs
             out == job[w].output
  <2>1. X \subseteq AllFiles /\ flushed' = flushed
    BY <1>4 DEF FinishMerge
  <2>2. \A L \in RocksDBLevels : \A g \in tree'[L] :
          \/ g \in tree[L] /\ g \notin X
          \/ L = out /\ g = UNION X
    BY <1>4 DEF FinishMerge
  <2>3. UNION X \subseteq 1 .. flushed
    BY <2>1
  <2>4. ASSUME NEW L \in RocksDBLevels, NEW g \in tree[L], g \notin X
        PROVE  g \cap UNION X = {}
    <3>1. ASSUME NEW m \in g, NEW h \in X, m \in h PROVE FALSE
      <4>1. PICK M \in RocksDBLevels : h \in tree[M]
        BY <2>1
      <4> QED
        BY <2>4, <3>1, <4>1
    <3> QED
      BY <3>1
  <2> HIDE DEF X, out
  <2>5. FilesDisjoint'
    <3>1. \A L \in RocksDBLevels : \A g \in tree'[L] : g \subseteq 1 .. flushed'
      BY <2>1, <2>2, <2>3
    <3>2. ASSUME NEW L \in RocksDBLevels, NEW M \in RocksDBLevels,
                 NEW g \in tree'[L], NEW h \in tree'[M], g \cap h # {}
          PROVE  L = M /\ g = h
      <4>1. CASE g \in tree[L] /\ h \in tree[M]
        BY <3>2, <4>1, DisjointFiles
      <4>2. CASE g \in tree[L] /\ g \notin X /\ h = UNION X
        BY <2>4, <3>2, <4>2
      <4>3. CASE g = UNION X /\ h \in tree[M] /\ h \notin X
        <5>1. h \cap UNION X = {}
          BY <2>4, <4>3
        <5> QED
          BY <3>2, <4>3, <5>1
      <4>4. /\ (g \in tree[L] /\ g \notin X) \/ (L = out /\ g = UNION X)
            /\ (h \in tree[M] /\ h \notin X) \/ (M = out /\ h = UNION X)
        BY <2>2
      <4> QED
        BY <4>1, <4>2, <4>3, <4>4
    <3> QED
      BY <3>1, <3>2
  <2>6. \A v \in Workers : pc'[v] # "merging"
    BY <1>4 DEF FinishMerge, Sequential, Threads, TypeOK
  <2> QED
    BY <2>5, <2>6
<1>5. ASSUME NEW w \in Workers, RejectMerge(w) \/ FailMerge(w) \/ Release(w)
      PROVE  FilesDisjoint' /\ JobsOfTree'
  BY <1>1, <1>5 DEF RejectMerge, FailMerge, Release, Threads, TypeOK,
                         dbVars
<1>6. ASSUME NEW t \in Threads, PickStep(t) \/ Crash(t)
      PROVE  FilesDisjoint' /\ JobsOfTree'
  BY <1>1, <1>6, PickStepMoves DEF TypeOK, Threads
<1>7. CASE SealMemtable \/ UNCHANGED vars
  BY <1>1, <1>7 DEF SealMemtable, vars
<1> QED
  BY <1>2, <1>3, <1>4, <1>5, <1>6, <1>7 DEF Next, WorkerStep

-----------------------------------------------------------------------------
(* The views.                                                              *)

LEMMA ViewCurrentNext ==
  ASSUME TypeOK, MutexInv, ViewCurrent, [Next]_vars
  PROVE  ViewCurrent'
<1>1. ASSUME UNCHANGED <<tree, mutex, snapshot>>, lazy'.files = lazy.files,
             \A u \in Threads : pc[u] = "clear" => pc'[u] = "clear"
      PROVE  ViewCurrent'
  BY <1>1 DEF ViewCurrent, CurrentFiles
<1>2. ASSUME NEW u \in Threads, pc'[u] = "clear" PROVE ViewCurrent'
  BY <1>2 DEF ViewCurrent
<1>3. ASSUME NEW t \in Threads, BuildBegin(t) PROVE ViewCurrent'
  <2>1. mutex' # NoThread /\ snapshot'.files = tree /\ tree' = tree
    BY <1>3, ThreadsAssumption DEF BuildBegin, dbVars
  <2> QED
    BY <2>1 DEF ViewCurrent, CurrentFiles
<1>4. ASSUME NEW t \in Threads, BuildEnd(t) PROVE ViewCurrent'
  <2>1. mutex # NoThread
    BY <1>4, ThreadsAssumption DEF BuildEnd, MutexInv
  <2>2. /\ mutex' = NoThread /\ lazy' = snapshot /\ tree' = tree
        /\ \A u \in Threads : pc[u] = "clear" => pc'[u] = "clear"
    BY <1>4 DEF BuildEnd, dbVars, TypeOK
  <2> QED
    BY <2>1, <2>2 DEF ViewCurrent, CurrentFiles
<1>5. ASSUME NEW t \in Threads,
             \/ Scan(t) \/ Examine(t) \/ AddFilesToCompaction(t) \/ Measure(t)
             \/ CheckPermit(t) \/ Claim(t) \/ Crash(t)
      PROVE  ViewCurrent'
  <2>1. UNCHANGED <<tree, mutex, snapshot>> /\ lazy'.files = lazy.files
    BY <1>5 DEF Scan, Examine, AddFilesToCompaction, Measure, CheckPermit,
                Claim, Crash, dbVars, viewVars, TypeOK, View
  <2>2. pc[t] # "clear" \/ pc' = pc
    BY <1>5 DEF Scan, Examine, AddFilesToCompaction, Measure, CheckPermit,
                Claim, Crash
  <2>3. \A u \in Threads : pc[u] = "clear" => pc'[u] = "clear"
    BY <1>5, <2>2, PickStepMoves DEF PickStep, TypeOK
  <2> QED
    BY <1>1, <2>1, <2>3
<1>6. ASSUME NEW w \in Workers, WorkerStep(w) PROVE ViewCurrent'
  <2>1. CASE StartMerge(w)
    BY <1>1, <2>1 DEF StartMerge, viewVars, TypeOK, Threads
  <2>2. CASE RejectMerge(w) \/ FinishMerge(w)
    BY <1>2, <2>2 DEF RejectMerge, FinishMerge, TypeOK, Threads
  <2>3. CASE FailMerge(w)
    <3>1. w \in Threads /\ (pc'[w] = "clear" \/ pc'[w] = "release")
      BY <2>3 DEF FailMerge, TypeOK, Threads
    <3>2. CASE pc'[w] = "clear"
      BY <1>2, <3>1, <3>2
    <3>3. CASE pc'[w] = "release"
      BY <1>1, <2>3 DEF FailMerge, viewVars, TypeOK
    <3> QED
      BY <3>1, <3>2, <3>3
  <2>4. CASE Release(w)
    BY <1>1, <2>4 DEF Release, dbVars, viewVars, TypeOK
  <2> QED
    BY <1>6, <2>1, <2>2, <2>3, <2>4 DEF WorkerStep
<1>7. ASSUME NEW t \in FlushThreads, OnFlushCompleted(t) PROVE ViewCurrent'
  BY <1>2, <1>7 DEF OnFlushCompleted, TypeOK, Threads
<1>8. CASE SealMemtable \/ UNCHANGED vars
  BY <1>1, <1>8 DEF SealMemtable, vars
<1> QED
  BY <1>3, <1>4, <1>5, <1>6, <1>7, <1>8 DEF Next, PickStep

(* What holds of the view when a thread is about to schedule a compaction.  *)
LEMMA ClaimSeesTree ==
  ASSUME SafeInv, OneFlushThread, ViewCurrent,
         NEW t \in Threads, pc[t] = "claim"
  PROVE  /\ t \in FlushThreads
         /\ mutex = NoThread /\ lazy.files = tree
         /\ queue = <<>>
         /\ \A u \in Threads : u # t => pc[u] = "idle"
<1>1. /\ queue = <<>> /\ mutex = NoThread
      /\ \A w \in Workers : pc[w] = "idle"
  BY DEF SafeInv, ClaimIsExclusive, Racing
<1>2. PICK f : FlushThreads = {f}
  BY ThreadsAssumption, FS_Singleton DEF OneFlushThread
<1>3. t = f /\ \A u \in Threads : u # t => pc[u] = "idle"
  BY <1>1, <1>2 DEF Threads
<1>4. \A u \in Threads : pc[u] # "clear"
  BY <1>3
<1>5. lazy.files = tree
  BY <1>1, <1>4 DEF ViewCurrent, CurrentFiles
<1> QED
  BY <1>1, <1>2, <1>3, <1>5

-----------------------------------------------------------------------------
(* The shape of the tree.                                                  *)

(* A task of files above its output level is widened to all files between   *)
(* its first level and its output level, and some of L0.                    *)
LEMMA WidenedLevels ==
  ASSUME TypeOK, FilesDisjoint,
         NEW files, NEW output \in RocksDBLevels,
         \A L \in LevelsOf(files) : L <= output,
         NEW M \in 1 .. NumLevels - 1, NEW g \in tree[M]
  PROVE  g \in Widened(files, output)
           <=> M <= output /\ \E L \in LevelsOf(files) : L <= M
<1>1. M \in RocksDBLevels /\ M >= 1 /\ M # 0
  BY ParametersType DEF RocksDBLevels
<1>2. g # {}
  BY <1>1, TreeType
<1>3. ASSUME NEW N \in RocksDBLevels, g \in tree[N] PROVE N = M
  BY <1>1, <1>2, <1>3, DisjointFiles
<1>4. ASSUME g \in files
      PROVE  M <= output /\ \E L \in LevelsOf(files) : L <= M
  <2>1. M \in LevelsOf(files) /\ M <= M
    BY <1>1, <1>4, ParametersType DEF LevelsOf
  <2> QED
    BY <2>1
<1>5. g \notin tree[0]
  BY <1>1, <1>3, ParametersType
<1>6. g \in Widened(files, output)
        <=> \/ g \in files
            \/ \E N \in RocksDBLevels :
                 /\ g \in tree[N] /\ 1 <= N /\ N <= output
                 /\ \E L \in LevelsOf(files) : L <= N
  BY <1>5 DEF Widened
<1> QED
  BY <1>1, <1>3, <1>4, <1>6

LEMMA InvalidForGood ==
  ASSUME [Next]_vars
  PROVE  ub => ub'
<1>1. ASSUME NEW t \in Threads, PickStep(t) \/ Crash(t) PROVE ub => ub'
  BY <1>1 DEF PickStep, BuildBegin, BuildEnd, Scan, Examine,
              AddFilesToCompaction, Measure, CheckPermit, Claim, Crash
<1>2. ASSUME NEW w \in Workers, WorkerStep(w) PROVE ub => ub'
  BY <1>2 DEF WorkerStep, StartMerge, RejectMerge, FinishMerge, FailMerge,
              Release
<1>3. ASSUME NEW t \in FlushThreads, OnFlushCompleted(t) PROVE ub => ub'
  BY <1>3 DEF OnFlushCompleted
<1>4. CASE SealMemtable \/ UNCHANGED vars
  BY <1>4 DEF SealMemtable, vars
<1> QED
  BY <1>1, <1>2, <1>3, <1>4 DEF Next

LEMMA TreeShapeNext ==
  ASSUME TypeOK, TreeShape, JobsFit, [Next]_vars
  PROVE  TreeShape'
<1> DEFINE Deep == 2 .. NumLevels - 1
<1>1. Deep \subseteq RocksDBLevels /\ \A L \in Deep : L >= 2 /\ L # 0
  BY ParametersType DEF RocksDBLevels
<1>2. ASSUME \A L \in Deep : tree'[L] = tree[L] PROVE TreeShape'
  BY <1>2, InvalidForGood DEF TreeShape, StackedFromBottom, RunsOutgrewLevelAbove,
              LevelsComplete
<1>3. ASSUME NEW w \in Workers, FinishMerge(w) PROVE TreeShape'
  <2> DEFINE X == job[w].inputs
             out == job[w].output
  <2>1. CASE ub
    <3>1. ub'
      BY <1>3, <2>1 DEF FinishMerge
    <3> QED
      BY <3>1 DEF TreeShape, StackedFromBottom, RunsOutgrewLevelAbove,
                  LevelsComplete
  <2>2. CASE ~ ub
    <3>1. WellPlaced(X, out)
      BY <1>3, <2>2 DEF FinishMerge, JobsFit
    <3>2. \A L \in Deep :
            tree'[L] = (tree[L] \ X)
                         \cup (IF L = out THEN {UNION X} ELSE {})
      BY <1>1, <1>3 DEF FinishMerge
    <3> HIDE DEF X, out
    <3>3. out \in Int /\ \A L \in Deep : L \in Int
      BY <3>1 DEF WellPlaced
    <3>4. StackedFromBottom'
      <4> SUFFICES ASSUME NEW L \in Deep, NEW M \in Deep,
                          FluidLevel(L) = FluidLevel(M), L < M, tree'[L] # {}
                   PROVE  tree'[M] # {}
        BY DEF StackedFromBottom
      <4>1. CASE M = out
        BY <3>2, <4>1
      <4>2. CASE L = out
        <5>1. M \in out + 1 .. NumLevels - 1
          BY <4>2, ParametersType
        <5>2. tree[M] \cap X = {} /\ tree[M] # {}
          BY <3>1, <4>2, <5>1 DEF WellPlaced
        <5> QED
          BY <3>2, <5>2
      <4>3. CASE L # out /\ M # out
        <5>1. tree'[L] = tree[L] \ X /\ tree'[M] = tree[M] \ X
          BY <3>2, <4>3
        <5>2. tree[M] # {}
          BY <2>2, <5>1 DEF TreeShape, StackedFromBottom
        <5>3. tree[M] \cap X = {}
          BY <3>1, <5>1 DEF WellPlaced, Whole
        <5> QED
          BY <5>1, <5>2, <5>3
      <4> QED
        BY <4>1, <4>2, <4>3
    <3>5. RunsOutgrewLevelAbove'
      <4> SUFFICES ASSUME NEW L \in Deep, NEW f \in tree'[L]
                   PROVE  Cardinality(f) > Capacity(FluidLevel(L) - 1)
        BY DEF RunsOutgrewLevelAbove
      <4>1. CASE f \in tree[L]
        BY <2>2, <4>1 DEF TreeShape, RunsOutgrewLevelAbove
      <4>2. CASE L = out /\ f = UNION X
        BY <1>1, <3>1, <4>2 DEF WellPlaced
      <4> QED
        BY <3>2, <4>1, <4>2
    <3>6. LevelsComplete'
      <4> SUFFICES ASSUME NEW L \in Deep, tree'[L] # {}
                   PROVE  LastLevel(FluidLevel(L)) \in RocksDBLevels
        BY DEF LevelsComplete
      <4>1. CASE L = out
        BY <1>1, <3>1, <4>1 DEF WellPlaced
      <4>2. CASE L # out
        BY <2>2, <3>2, <4>2 DEF TreeShape, LevelsComplete
      <4> QED
        BY <4>1, <4>2
    <3> QED
      BY <3>4, <3>5, <3>6 DEF TreeShape
  <2> QED
    BY <2>1, <2>2
<1>4. ASSUME NEW t \in FlushThreads, OnFlushCompleted(t) PROVE TreeShape'
  BY <1>1, <1>2, <1>4 DEF OnFlushCompleted, TypeOK
<1>5. ASSUME NEW t \in Threads, PickStep(t) \/ Crash(t) PROVE TreeShape'
  <2>1. tree' = tree
    BY <1>5, PickStepMoves DEF TypeOK
  <2> QED
    BY <1>2, <2>1
<1>6. ASSUME NEW w \in Workers,
             StartMerge(w) \/ RejectMerge(w) \/ FailMerge(w) \/ Release(w)
      PROVE  TreeShape'
  BY <1>2, <1>6 DEF StartMerge, RejectMerge, FailMerge, Release, dbVars
<1>7. CASE SealMemtable \/ UNCHANGED vars
  BY <1>2, <1>7 DEF SealMemtable, vars
<1> QED
  BY <1>3, <1>4, <1>5, <1>6, <1>7 DEF Next, WorkerStep

-----------------------------------------------------------------------------
(* The merges.                                                             *)

(* A flush adds a file to L0 and leaves the other levels alone.             *)
LEMMA FlushLeavesLevels ==
  ASSUME TypeOK, NEW t \in FlushThreads, OnFlushCompleted(t)
  PROVE  /\ \A L \in RocksDBLevels : L # 0 => tree'[L] = tree[L]
         /\ tree'[0] = tree[0] \cup {{flushed + 1}}
         /\ AllFiles \subseteq AllFiles'
<1>1. /\ \A L \in RocksDBLevels : L # 0 => tree'[L] = tree[L]
      /\ tree'[0] = tree[0] \cup {{flushed + 1}}
  BY ParametersType DEF OnFlushCompleted, TypeOK
<1>2. \A L \in RocksDBLevels : tree[L] \subseteq tree'[L]
  BY <1>1
<1> QED
  BY <1>1, <1>2 DEF AllFiles

LEMMA WellPlacedKept ==
  ASSUME NEW X, NEW output, WellPlaced(X, output),
         \A L \in 1 .. NumLevels - 1 : tree'[L] = tree[L],
         AllFiles \subseteq AllFiles'
  PROVE  WellPlaced(X, output)'
<1>1. /\ output \in 1 .. NumLevels - 1
      /\ 2 .. NumLevels - 1 \subseteq 1 .. NumLevels - 1
      /\ output + 1 .. NumLevels - 1 \subseteq 1 .. NumLevels - 1
  BY ParametersType DEF WellPlaced
<1>2. Whole(tree, X)'
  BY <1>1 DEF WellPlaced, Whole
<1> QED
  BY <1>1, <1>2 DEF WellPlaced

LEMMA JobsFitNext ==
  ASSUME TypeOK, Sequential, TasksFit, JobsFit, [Next]_vars
  PROVE  JobsFit'
<1> SUFFICES ASSUME ~ ub', NEW w \in Workers, pc'[w] = "merging"
             PROVE  WellPlaced(job[w].inputs, job[w].output)'
  BY DEF JobsFit
<1>1. ~ ub
  BY InvalidForGood
<1>2. ASSUME NEW X, NEW output, X = job'[w].inputs, output = job'[w].output,
             WellPlaced(X, output),
             \A L \in 1 .. NumLevels - 1 : tree'[L] = tree[L],
             AllFiles \subseteq AllFiles'
      PROVE  WellPlaced(job[w].inputs, job[w].output)'
  BY <1>2, WellPlacedKept
<1>3. ASSUME pc[w] = "merging", job'[w] = job[w],
             \A L \in 1 .. NumLevels - 1 : tree'[L] = tree[L],
             AllFiles \subseteq AllFiles'
      PROVE  WellPlaced(job[w].inputs, job[w].output)'
  <2>1. PICK X, output : X = job[w].inputs /\ output = job[w].output
    OBVIOUS
  <2>2. WellPlaced(X, output)
    BY <1>1, <1>3, <2>1 DEF JobsFit
  <2> QED
    BY <1>2, <1>3, <2>1, <2>2
<1>4. ASSUME NEW v \in Workers, StartMerge(v)
      PROVE  WellPlaced(job[w].inputs, job[w].output)'
  <2>1. tree' = tree /\ AllFiles' = AllFiles
    BY <1>4 DEF StartMerge, AllFiles
  <2>2. CASE v = w
    <3>1. Head(queue) = queue[1] /\ 1 \in DOMAIN queue /\ Head(queue) \in Task
      BY <1>4 DEF StartMerge, TypeOK
    <3>2. PICK X, output : /\ X = Widened(queue[1].inputs, queue[1].output)
                           /\ output = queue[1].output
      OBVIOUS
    <3>3. WellPlaced(X, output)
      <4>1. queue[1].inputs # {}
        BY <1>4, <3>1 DEF StartMerge, Rejected
      <4> QED
        BY <1>1, <3>1, <3>2, <4>1 DEF TasksFit, TaskFits
    <3>4. X = job'[w].inputs /\ output = job'[w].output
      BY <1>4, <2>2, <3>1, <3>2 DEF StartMerge, TypeOK, Task
    <3> QED
      BY <1>2, <2>1, <3>3, <3>4
  <2>3. CASE v # w
    BY <1>3, <1>4, <2>1, <2>3 DEF StartMerge, TypeOK, Threads
  <2> QED
    BY <2>2, <2>3
<1>5. ASSUME NEW t \in FlushThreads, OnFlushCompleted(t)
      PROVE  WellPlaced(job[w].inputs, job[w].output)'
  <2>1. pc[w] = "merging" /\ job'[w] = job[w]
    BY <1>5 DEF OnFlushCompleted, TypeOK, Threads
  <2>2. \A L \in 1 .. NumLevels - 1 : L \in RocksDBLevels /\ L # 0
    BY ParametersType DEF RocksDBLevels
  <2> QED
    BY <1>3, <1>5, <2>1, <2>2, FlushLeavesLevels
<1>6. ASSUME NEW t \in Threads, PickStep(t) \/ Crash(t)
      PROVE  WellPlaced(job[w].inputs, job[w].output)'
  <2>1. tree' = tree /\ job' = job /\ pc[w] = "merging"
    BY <1>6, PickStepMoves DEF TypeOK, Threads
  <2> QED
    BY <1>3, <2>1 DEF AllFiles
<1>7. ASSUME NEW v \in Workers, FinishMerge(v)
      PROVE  WellPlaced(job[w].inputs, job[w].output)'
  BY <1>7 DEF FinishMerge, Sequential, TypeOK, Threads
<1>8. ASSUME NEW v \in Workers, RejectMerge(v) \/ FailMerge(v) \/ Release(v)
      PROVE  WellPlaced(job[w].inputs, job[w].output)'
  <2>1. tree' = tree /\ job'[w] = job[w] /\ pc[w] = "merging"
    BY <1>8 DEF RejectMerge, FailMerge, Release, dbVars, TypeOK, Threads
  <2> QED
    BY <1>3, <2>1 DEF AllFiles
<1>9. CASE SealMemtable \/ UNCHANGED vars
  <2>1. tree' = tree /\ job' = job /\ pc' = pc
    BY <1>9 DEF SealMemtable, vars
  <2> QED
    BY <1>3, <2>1 DEF AllFiles
<1> QED
  BY <1>4, <1>5, <1>6, <1>7, <1>8, <1>9 DEF Next, WorkerStep

-----------------------------------------------------------------------------
(* The picks.                                                              *)

LEMMA PicksFitNext ==
  ASSUME SafeInv, OneFlushThread, ViewCurrent, PicksFit, [Next]_vars
  PROVE  PicksFit'
<1> SUFFICES ASSUME ~ ub', NEW t \in FlushThreads \ stale',
                    pc'[t] \in {"measure", "permit", "claim"}
             PROVE  PickFits(t)'
  BY DEF PicksFit
<1>1. ~ ub /\ TypeOK /\ MutexInv /\ t \in Threads /\ t \notin Workers
  BY InvalidForGood, ThreadsAssumption DEF SafeInv, BaseInv, Threads
<1>2. ASSUME t \notin stale, pc[t] \in {"measure", "permit", "claim"},
             pc[t] # "measure" \/ pc'[t] = "measure",
             UNCHANGED <<lazy, mutex>>, pick'[t] = pick[t]
      PROVE  PickFits(t)'
  <2>1. PickFits(t)
    BY <1>1, <1>2 DEF PicksFit
  <2> QED
    BY <1>2, <2>1 DEF PickFits
<1>3. ASSUME NEW u \in Threads, NextLevel(u)
      PROVE  /\ u # t /\ (t \notin stale' => t \notin stale)
             /\ pick'[t] = pick[t] /\ pc'[t] = pc[t]
  <2>1. u # t
    BY <1>1, <1>3 DEF NextLevel, TypeOK
  <2> QED
    BY <1>1, <1>3, <2>1 DEF NextLevel, TypeOK
<1>4. ASSUME NEW u \in Threads, BuildBegin(u) PROVE PickFits(t)'
  <2>1. /\ u # t /\ t \notin stale /\ pc[t] \in {"measure", "permit", "claim"}
        /\ pick' = pick /\ pc'[t] = pc[t] /\ pick[t].inputs = {}
    BY <1>1, <1>4 DEF BuildBegin, TypeOK
  <2> QED
    BY <1>1, <2>1 DEF PicksFit, PickFits
<1>5. ASSUME NEW u \in Threads, BuildEnd(u) PROVE PickFits(t)'
  <2>1. /\ u # t /\ t \notin stale /\ pc[t] \in {"measure", "permit", "claim"}
        /\ pick' = pick /\ pc'[t] = pc[t]
    BY <1>1, <1>5 DEF BuildEnd, TypeOK
  <2>2. mutex # NoThread
    BY <1>1, <1>5, ThreadsAssumption DEF BuildEnd, MutexInv
  <2> QED
    BY <1>1, <2>1, <2>2 DEF PicksFit, PickFits
<1>6. ASSUME NEW u \in Threads, Scan(u) PROVE PickFits(t)'
  <2>1. u # t
    BY <1>1, <1>6 DEF Scan, TypeOK
  <2> QED
    BY <1>1, <1>2, <1>6, <2>1 DEF Scan, TypeOK, viewVars
<1>7. ASSUME NEW u \in Threads, Examine(u) PROVE PickFits(t)'
  <2>1. CASE NextLevel(u)
    BY <1>2, <1>3, <1>7, <2>1 DEF Examine, viewVars
  <2>2. CASE ~ NextLevel(u)
    BY <1>1, <1>2, <1>7, <2>2 DEF Examine, viewVars, TypeOK
  <2> QED
    BY <2>1, <2>2
<1>14. ASSUME NEW u \in Threads, AddFilesToCompaction(u) PROVE PickFits(t)'
  <2>1. ~ Racing /\ mutex = NoThread /\ UNCHANGED <<lazy, mutex>>
    BY <1>14 DEF AddFilesToCompaction, viewVars, Racing
  <2>2. pick' = [pick EXCEPT ![u].inputs =
                   FilesOf(lazy.files, pick[u].lvl) \ lazy.busy]
    BY <1>14, <2>1 DEF AddFilesToCompaction, ReadableViews
  <2>3. CASE u # t
    BY <1>1, <1>2, <1>14, <2>1, <2>3 DEF AddFilesToCompaction, TypeOK
  <2>4. CASE u = t
    <3>1. pc'[t] = "measure" /\ pick[t] \in Pick
      BY <1>1, <1>14, <2>4 DEF AddFilesToCompaction, TypeOK
    <3>2. /\ pick'[t].lvl = pick[t].lvl
          /\ pick'[t].inputs = FilesOf(lazy.files, pick[t].lvl) \ lazy.busy
      BY <1>1, <2>2, <2>4, <3>1 DEF TypeOK, Pick
    <3> QED
      BY <2>1, <3>1, <3>2 DEF PickFits
  <2> QED
    BY <2>3, <2>4
<1>15. ASSUME NEW u \in Threads, Measure(u) PROVE PickFits(t)'
  <2>1. u \notin stale /\ UNCHANGED <<lazy, mutex, stale>>
    BY <1>15 DEF Measure, viewVars
  <2>2. CASE u # t
    BY <1>1, <1>2, <1>15, <2>1, <2>2 DEF Measure, TypeOK
  <2>3. CASE u = t
    <3>1. pick' = [pick EXCEPT ![t].target =
                     GetCompactionTargetLevel(pick[t].lvl, pick[t].inputs)]
      BY <1>15, <2>1, <2>3 DEF Measure
    <3>2. pick[t] \in Pick /\ pc[t] = "measure"
      BY <1>1, <1>15, <2>3 DEF Measure, TypeOK
    <3>3. /\ pick'[t].lvl = pick[t].lvl /\ pick'[t].inputs = pick[t].inputs
          /\ pick'[t].target
               = GetCompactionTargetLevel(pick[t].lvl, pick[t].inputs)
      BY <1>1, <3>1, <3>2 DEF TypeOK, Pick
    <3>4. PickFits(t)
      BY <1>1, <2>1, <2>3, <3>2 DEF PicksFit
    <3> QED
      BY <2>1, <3>3, <3>4 DEF PickFits
  <2> QED
    BY <2>2, <2>3
<1>8. ASSUME NEW u \in Threads, CheckPermit(u) PROVE PickFits(t)'
  <2>1. CASE NextLevel(u)
    BY <1>2, <1>3, <1>8, <2>1 DEF CheckPermit, viewVars
  <2>2. CASE ~ NextLevel(u)
    BY <1>1, <1>2, <1>8, <2>2 DEF CheckPermit, viewVars, TypeOK
  <2> QED
    BY <2>1, <2>2
<1>9. ASSUME NEW u \in Threads, Claim(u) PROVE PickFits(t)'
  <2>1. pc[u] = "claim" /\ NextLevel(u)
    BY <1>9 DEF Claim
  <2> QED
    BY <1>1, <1>3, <2>1, ClaimSeesTree
<1>10. ASSUME NEW u \in Threads, Crash(u) PROVE PickFits(t)'
  BY <1>10 DEF Crash
<1>11. ASSUME NEW w \in Workers, WorkerStep(w) PROVE PickFits(t)'
  <2>1. /\ UNCHANGED <<lazy, mutex, pick, stale>>
        /\ \E label : pc' = [pc EXCEPT ![w] = label]
    BY <1>11 DEF WorkerStep, StartMerge, RejectMerge, FinishMerge, FailMerge,
                 Release, viewVars
  <2> QED
    BY <1>1, <1>2, <2>1 DEF TypeOK
<1>12. ASSUME NEW u \in FlushThreads, OnFlushCompleted(u) PROVE PickFits(t)'
  BY <1>1, <1>2, <1>12 DEF OnFlushCompleted, TypeOK
<1>13. CASE SealMemtable \/ UNCHANGED vars
  BY <1>2, <1>13 DEF SealMemtable, vars
<1> QED
  BY <1>4, <1>5, <1>6, <1>7, <1>8, <1>9, <1>10, <1>11, <1>12, <1>13, <1>14,
     <1>15 DEF Next, PickStep

-----------------------------------------------------------------------------
(* The tasks.                                                              *)

LEMMA FilesOfLevel ==
  ASSUME NEW view, NEW lvl, NEW g
  PROVE  g \in FilesOf(view, lvl)
           <=> \/ lvl = 0 /\ g \in view[0]
               \/ \E L \in RunLevels(lvl) : g \in view[L]
BY DEF FilesOf, RunsOf

(* Every RocksDB level of a fluid level is one of its slots.                *)
LEMMA LevelIsSlot ==
  ASSUME NEW lvl \in Nat \ {0}, LastLevel(lvl) \in RocksDBLevels,
         NEW M \in RunLevels(lvl)
  PROVE  \E j \in 0 .. SmallerRuns :
           /\ M = SlotLevel(lvl, j) /\ M = RunLevel(lvl, SmallerRuns - j)
           /\ M = LastLevel(lvl) - j
<1>1. LastLevel(lvl) \in Nat
  BY SlotsRange, ParametersType
<1>2. M \in LastLevel(lvl) - SmallerRuns .. LastLevel(lvl)
  BY RunLevelsInterval
<1>3. PICK j \in 0 .. SmallerRuns : M = LastLevel(lvl) - j
  <2>1. LastLevel(lvl) - M \in 0 .. SmallerRuns
    BY <1>1, <1>2, ParametersType
  <2> QED
    BY <1>1, <1>2, <2>1, ParametersType
<1> QED
  BY <1>3, SlotsRange, RunLevelIsSlot

(* The slot a push takes is the empty one nearest to the end of its level,  *)
(* or the last one of a level that is full.                                 *)
LEMMA PushSlotPlace ==
  ASSUME NEW view, NEW lvl \in Nat \ {0}, LastLevel(lvl) \in RocksDBLevels,
         NEW i \in PushSlots(view, lvl)
  PROVE  /\ i \in 0 .. SmallerRuns
         /\ \A M \in RunLevels(lvl) : M > SlotLevel(lvl, i) => view[M] # {}
         /\ \/ view[SlotLevel(lvl, i)] = {}
            \/ i = 0 /\ \A M \in RunLevels(lvl) : view[M] # {}
<1> DEFINE empty == EmptySlots(view, lvl)
<1>1. /\ i \in 0 .. SmallerRuns
      /\ \A j \in empty : i <= j
      /\ i \in empty \/ (i = 0 /\ empty = {})
  BY ParametersType DEF PushSlots, EmptySlots
<1>2. \A j \in 0 .. SmallerRuns :
        j \in empty <=> view[SlotLevel(lvl, j)] = {}
  BY RunLevelIsSlot DEF EmptySlots
<1> HIDE DEF empty
<1>3. ASSUME NEW M \in RunLevels(lvl), view[M] = {}
      PROVE  M <= SlotLevel(lvl, i) /\ empty # {}
  <2>1. PICK j \in 0 .. SmallerRuns :
          M = SlotLevel(lvl, j) /\ M = LastLevel(lvl) - j
    BY LevelIsSlot
  <2>2. j \in empty /\ i <= j
    BY <1>1, <1>2, <1>3, <2>1
  <2>3. SlotLevel(lvl, i) = LastLevel(lvl) - i /\ LastLevel(lvl) \in Nat
    BY <1>1, SlotsRange
  <2> QED
    BY <1>1, <2>1, <2>2, <2>3
<1>4. \A M \in RunLevels(lvl) : M > SlotLevel(lvl, i) => view[M] # {}
  <2>1. SlotLevel(lvl, i) \in Int /\ \A M \in RunLevels(lvl) : M \in Int
    BY <1>1, RunLevelIsSlot DEF RunLevels
  <2> QED
    BY <1>3, <2>1
<1> QED
  BY <1>1, <1>2, <1>3, <1>4

LEMMA MoreMemtables ==
  ASSUME NEW S, NEW R, S \subseteq R, R \subseteq 1 .. MaxBatches
  PROVE  /\ Cardinality(S) \in Nat /\ Cardinality(R) \in Nat
         /\ Cardinality(S) <= Cardinality(R)
<1>1. IsFiniteSet(1 .. MaxBatches)
  BY BoundsAssumption, FS_Interval
<1>2. IsFiniteSet(R) /\ IsFiniteSet(S)
  BY <1>1, FS_Subset
<1> QED
  BY <1>2, FS_Subset, FS_CardinalityType

LEMMA CapacityType ==
  ASSUME NEW lvl \in Nat
  PROVE  Capacity(lvl) \in Int
<1>1. SizeRatio ^ lvl \in Int /\ SizeRatio \in Int
  BY ParametersType
<1> QED
  BY <1>1 DEF Capacity

LEMMA IdleWithoutJobNext ==
  ASSUME TypeOK, IdleWithoutJob, [Next]_vars
  PROVE  IdleWithoutJob'
<1> SUFFICES ASSUME NEW w \in Workers, pc'[w] # "merging"
             PROVE  job'[w].inputs = {}
  BY DEF IdleWithoutJob
<1>1. ASSUME job'[w] = job[w], pc[w] # "merging" PROVE job'[w].inputs = {}
  BY <1>1 DEF IdleWithoutJob
<1>2. ASSUME NEW v \in Workers, WorkerStep(v) PROVE job'[w].inputs = {}
  <2>1. CASE StartMerge(v)
    BY <1>1, <2>1 DEF StartMerge, TypeOK, Threads
  <2>2. CASE FinishMerge(v) \/ FailMerge(v)
    <3>1. CASE v = w
      BY <2>2, <3>1 DEF FinishMerge, FailMerge, NoTask, TypeOK
    <3>2. CASE v # w
      BY <1>1, <2>2, <3>2 DEF FinishMerge, FailMerge, TypeOK, Threads
    <3> QED
      BY <3>1, <3>2
  <2>3. CASE RejectMerge(v) \/ Release(v)
    BY <1>1, <2>3 DEF RejectMerge, Release, dbVars, TypeOK, Threads
  <2> QED
    BY <1>2, <2>1, <2>2, <2>3 DEF WorkerStep
<1>3. ASSUME NEW t \in Threads, PickStep(t) \/ Crash(t)
      PROVE  job'[w].inputs = {}
  <2>1. job' = job /\ pc[w] # "merging"
    BY <1>3, PickStepMoves DEF TypeOK, Threads
  <2> QED
    BY <1>1, <2>1
<1>4. ASSUME NEW t \in FlushThreads, OnFlushCompleted(t)
      PROVE  job'[w].inputs = {}
  BY <1>1, <1>4, ThreadsAssumption DEF OnFlushCompleted, TypeOK, Threads
<1>5. CASE SealMemtable \/ UNCHANGED vars
  BY <1>1, <1>5 DEF SealMemtable, vars
<1> QED
  BY <1>2, <1>3, <1>4, <1>5 DEF Next

(* What is being compacted is what one worker merges.                       *)
LEMMA CompactedWhole ==
  ASSUME Sequential, IdleWithoutJob, JobsFit, ~ ub
  PROVE  Whole(tree, BeingCompacted)
<1>1. CASE \E w \in Workers : pc[w] = "merging"
  <2>1. PICK w \in Workers : pc[w] = "merging"
    BY <1>1
  <2>2. \A v \in Workers : v # w => job[v].inputs = {}
    BY <2>1 DEF Sequential, IdleWithoutJob
  <2>3. BeingCompacted = job[w].inputs
    BY <2>2 DEF BeingCompacted
  <2> QED
    BY <2>1, <2>3 DEF JobsFit, WellPlaced
<1>2. CASE \A w \in Workers : pc[w] # "merging"
  <2>1. BeingCompacted = {}
    BY <1>2 DEF BeingCompacted, IdleWithoutJob
  <2> QED
    BY <2>1 DEF Whole
<1> QED
  BY <1>1, <1>2

(* The files of one fluid level, taken together, are whole.                 *)
LEMMA LevelWhole ==
  ASSUME TypeOK, FilesDisjoint, NEW lvl, NEW busy, Whole(tree, busy)
  PROVE  Whole(tree, busy \cup FilesOf(tree, lvl))
<1> SUFFICES ASSUME NEW L \in 2 .. NumLevels - 1, NEW M \in 2 .. NumLevels - 1,
                    FluidLevel(L) = FluidLevel(M),
                    NEW g \in tree[L], g \in busy \/ g \in FilesOf(tree, lvl)
             PROVE  tree[M] \subseteq busy \cup FilesOf(tree, lvl)
  BY DEF Whole
<1>1. L \in RocksDBLevels /\ L # 0 /\ M \in 1 .. NumLevels - 1
  BY ParametersType DEF RocksDBLevels
<1>2. CASE g \in busy
  BY <1>2 DEF Whole
<1>3. CASE g \in FilesOf(tree, lvl)
  <2>1. g # {}
    BY <1>1, TreeType
  <2>2. g \notin tree[0]
    BY <1>1, <2>1, ParametersType, DisjointFiles
  <2>3. PICK N \in RunLevels(lvl) : g \in tree[N]
    BY <1>3, <2>2, FilesOfLevel
  <2>4. N \in RocksDBLevels /\ FluidLevel(N) = lvl
    BY ParametersType DEF RunLevels, RocksDBLevels
  <2>5. FluidLevel(L) = lvl
    BY <1>1, <2>1, <2>3, <2>4, DisjointFiles
  <2>6. M \in RunLevels(lvl)
    BY <1>1, <2>5 DEF RunLevels
  <2> QED
    BY <2>6, FilesOfLevel
<1> QED
  BY <1>2, <1>3

LEMMA ViewsWholeNext ==
  ASSUME SafeInv, OneFlushThread, Sequential, FilesDisjoint, IdleWithoutJob,
         ViewCurrent, ViewsWhole, PicksFit, JobsFit, [Next]_vars
  PROVE  ViewsWhole'
<1> SUFFICES ASSUME ~ ub'
             PROVE  Whole(lazy.files, lazy.busy)' /\ Whole(snapshot.files, snapshot.busy)'
  BY DEF ViewsWhole
<1>1. ~ ub /\ TypeOK
  BY InvalidForGood DEF SafeInv, BaseInv
<1>2. /\ Whole(lazy.files, lazy.busy)
      /\ Whole(snapshot.files, snapshot.busy)
      /\ Whole(EmptyView.files, EmptyView.busy)
  BY <1>1 DEF ViewsWhole, EmptyView, Whole
<1>3. ASSUME UNCHANGED <<lazy, snapshot>>
      PROVE  Whole(lazy.files, lazy.busy)' /\ Whole(snapshot.files, snapshot.busy)'
  BY <1>2, <1>3 DEF Whole
<1>4. ASSUME NEW t \in Threads, BuildBegin(t)
      PROVE  Whole(lazy.files, lazy.busy)' /\ Whole(snapshot.files, snapshot.busy)'
  <2>1. Whole(tree, BeingCompacted)
    BY <1>1, CompactedWhole
  <2>2. /\ snapshot'.files = tree /\ snapshot'.busy = BeingCompacted
        /\ lazy' = EmptyView
    BY <1>4 DEF BuildBegin
  <2> QED
    BY <1>2, <2>1, <2>2 DEF Whole
<1>5. ASSUME NEW t \in Threads, BuildEnd(t)
      PROVE  Whole(lazy.files, lazy.busy)' /\ Whole(snapshot.files, snapshot.busy)'
  BY <1>2, <1>5 DEF BuildEnd, Whole
<1>6. ASSUME NEW t \in Threads, Claim(t)
      PROVE  Whole(lazy.files, lazy.busy)' /\ Whole(snapshot.files, snapshot.busy)'
  <2>1. pc[t] = "claim" /\ t \notin stale /\ ~ Racing /\ snapshot' = snapshot
    BY <1>6 DEF Claim, InvalidAccess
  <2>2. t \in FlushThreads /\ lazy.files = tree
    BY <2>1, ClaimSeesTree
  <2>3. \/ pick[t].inputs = {}
        \/ pick[t].inputs = FilesOf(tree, pick[t].lvl) \ lazy.busy
    BY <1>1, <2>1, <2>2 DEF PicksFit, PickFits
  <2>4. /\ lazy'.files = tree
        /\ lazy'.busy = lazy.busy \cup pick[t].inputs
    BY <1>1, <1>6, <2>1, <2>2 DEF Claim, Names, TypeOK, View
  <2>5. \/ lazy'.busy = lazy.busy
        \/ lazy'.busy = lazy.busy \cup FilesOf(tree, pick[t].lvl)
    BY <2>3, <2>4
  <2>6. Whole(tree, lazy.busy \cup FilesOf(tree, pick[t].lvl))
    BY <1>1, <1>2, <2>2, LevelWhole
  <2> QED
    BY <1>2, <2>1, <2>2, <2>4, <2>5, <2>6 DEF Whole
<1>7. ASSUME NEW t \in Threads,
             \/ Scan(t) \/ Examine(t) \/ AddFilesToCompaction(t) \/ Measure(t)
             \/ CheckPermit(t) \/ Crash(t)
      PROVE  UNCHANGED <<lazy, snapshot>>
  BY <1>7 DEF Scan, Examine, AddFilesToCompaction, Measure, CheckPermit, Crash,
              viewVars
<1>8. ASSUME NEW w \in Workers, WorkerStep(w)
      PROVE  UNCHANGED <<lazy, snapshot>>
  BY <1>8 DEF WorkerStep, StartMerge, RejectMerge, FinishMerge, FailMerge,
              Release, viewVars
<1>9. ASSUME NEW t \in FlushThreads, OnFlushCompleted(t)
      PROVE  UNCHANGED <<lazy, snapshot>>
  BY <1>9 DEF OnFlushCompleted
<1>10. CASE SealMemtable \/ UNCHANGED vars
  BY <1>3, <1>10 DEF SealMemtable, vars
<1> QED
  BY <1>3, <1>4, <1>5, <1>6, <1>7, <1>8, <1>9, <1>10 DEF Next, PickStep

(* What PickCompaction collects from a level of the tree, if anything:      *)
(* beyond level 0, all its files.                                           *)
LEMMA CollectedInputs ==
  ASSUME TypeOK, FilesDisjoint, NEW lvl \in Nat, NEW busy, Whole(tree, busy),
         NEW inputs, inputs = FilesOf(tree, lvl) \ busy, inputs # {}
  PROVE  /\ inputs \subseteq AllFiles
         /\ lvl >= 1 => inputs = FilesOf(tree, lvl)
         /\ LevelsOf(inputs) # {}
         /\ \A L \in LevelsOf(inputs) :
              L \in RocksDBLevels /\ L \in Nat /\ FluidLevel(L) = lvl
<1>1. PICK f \in FilesOf(tree, lvl) : f \notin busy
  OBVIOUS
<1>4. /\ 0 \in RocksDBLevels /\ FluidLevel(0) = 0
      /\ \A N \in RunLevels(lvl) : N \in RocksDBLevels /\ FluidLevel(N) = lvl
  BY ParametersType DEF FluidLevel, RunLevels, RocksDBLevels
<1>5. inputs \subseteq AllFiles
  BY <1>4, FilesOfLevel DEF AllFiles
<1>6. ASSUME lvl >= 1, NEW g \in FilesOf(tree, lvl), g \in busy PROVE FALSE
  <2>1. PICK N \in RunLevels(lvl) : f \in tree[N]
    BY <1>6, FilesOfLevel
  <2>2. PICK L \in RunLevels(lvl) : g \in tree[L]
    BY <1>6, FilesOfLevel
  <2>3. \A M \in RunLevels(lvl) : M \in 2 .. NumLevels - 1
    BY <1>6, ParametersType DEF RunLevels, FluidLevel
  <2>4. tree[N] \subseteq busy
    BY <1>4, <1>6, <2>2, <2>3 DEF Whole
  <2> QED
    BY <1>1, <2>1, <2>4
<1>7. ASSUME NEW L \in LevelsOf(inputs)
      PROVE  L \in RocksDBLevels /\ L \in Nat /\ FluidLevel(L) = lvl
  <2>1. PICK g \in tree[L] : g \in FilesOf(tree, lvl)
    BY DEF LevelsOf
  <2>2. L \in RocksDBLevels /\ L \in Nat
    BY ParametersType DEF LevelsOf, RocksDBLevels
  <2>3. g # {}
    BY <2>2, TreeType
  <2>4. PICK N \in RocksDBLevels : g \in tree[N] /\ FluidLevel(N) = lvl
    BY <1>4, <2>1, FilesOfLevel
  <2>5. L = N
    BY <2>2, <2>3, <2>4, DisjointFiles
  <2> QED
    BY <2>2, <2>4, <2>5
<1>8. LevelsOf(inputs) # {}
  BY <1>5 DEF LevelsOf, AllFiles
<1> QED
  BY <1>5, <1>6, <1>7, <1>8

(* What makes RocksDB level output a place for the files of fluid level     *)
(* lvl.                                                                     *)
Place(lvl, inputs, output) ==
  /\ output \in 1 .. NumLevels - 1
  /\ FluidLevel(output) \in {lvl, lvl + 1}
  /\ \A L \in LevelsOf(inputs) : L <= output
  /\ \A M \in output + 1 .. NumLevels - 1 :
       FluidLevel(M) = FluidLevel(output) => tree[M] # {}
  /\ FluidLevel(output) = lvl + 1 =>
       \/ tree[output] = {}
       \/ \A M \in RunLevels(lvl + 1) : M <= output
  /\ output >= 2 =>
       /\ LastLevel(FluidLevel(output)) \in RocksDBLevels
       /\ Cardinality(UNION inputs) > Capacity(FluidLevel(output) - 1)
  /\ \/ tree[output] \subseteq inputs
     \/ \A L \in RunLevels(FluidLevel(output)) : tree[L] # {}

(* What DB::CompactFiles makes of a request is whole.                       *)
LEMMA PlacedWhole ==
  ASSUME TypeOK, FilesDisjoint, TreeShape, ~ ub, NEW lvl \in Nat,
         NEW inputs, NEW output, Place(lvl, inputs, output),
         lvl >= 1 => inputs = FilesOf(tree, lvl),
         \A L \in LevelsOf(inputs) : L \in Nat /\ FluidLevel(L) = lvl
  PROVE  Whole(tree, Widened(inputs, output))
<1> SUFFICES ASSUME NEW L \in 2 .. NumLevels - 1, NEW M \in 2 .. NumLevels - 1,
                    FluidLevel(L) = FluidLevel(M),
                    NEW g \in tree[L], g \in Widened(inputs, output),
                    NEW h \in tree[M]
             PROVE  h \in Widened(inputs, output)
  BY DEF Whole
<1>1. /\ L \in Nat /\ L >= 2 /\ L \in RocksDBLevels /\ L \in 1 .. NumLevels - 1
      /\ M \in Nat /\ M >= 2 /\ M \in RocksDBLevels /\ M \in 1 .. NumLevels - 1
      /\ output \in Nat /\ output >= 1 /\ output \in RocksDBLevels
  BY ParametersType DEF RocksDBLevels, Place
<1>2. /\ FluidLevel(L) \in Nat /\ FluidLevel(L) >= 1
      /\ FluidLevel(output) \in Nat
  BY <1>1, FluidLevelRange DEF Place
<1>3. \A N \in LevelsOf(inputs) : N <= output
  BY DEF Place
<1>4. L <= output
  BY <1>1, <1>3, WidenedLevels
<1>5. PICK N \in LevelsOf(inputs) : N <= L
  BY <1>1, <1>3, WidenedLevels
<1>6. N \in Nat /\ FluidLevel(N) = lvl
  OBVIOUS
<1>7. FluidLevel(L) >= lvl
  BY <1>1, <1>2, <1>5, <1>6, FluidLevelMonotonic
<1>8. FluidLevel(L) <= FluidLevel(output)
  <2>1. output >= 2
    BY <1>1, <1>4
  <2> QED
    BY <1>1, <1>2, <1>4, <2>1, FluidLevelMonotonic
<1>9. CASE FluidLevel(L) = lvl
  <2>1. M \in RunLevels(lvl)
    BY <1>1, <1>9 DEF RunLevels
  <2>2. h \in inputs
    BY <1>2, <1>9, <2>1, FilesOfLevel
  <2> QED
    BY <2>2 DEF Widened
<1>10. CASE FluidLevel(L) = lvl + 1
  <2>1. FluidLevel(output) = lvl + 1
    BY <1>2, <1>8, <1>10 DEF Place
  <2>2. tree[output] # {}
    <3>1. CASE L = output
      BY <3>1
    <3>2. CASE L # output
      <4>1. L < output /\ output \in 2 .. NumLevels - 1
        BY <1>1, <1>4, <3>2 DEF Place
      <4> QED
        BY <1>10, <2>1, <4>1 DEF TreeShape, StackedFromBottom
    <3> QED
      BY <3>1, <3>2
  <2>3. M \in RunLevels(lvl + 1)
    BY <1>1, <1>10 DEF RunLevels
  <2>4. M <= output
    BY <2>1, <2>2, <2>3 DEF Place
  <2>5. N <= M
    <3>1. CASE N >= 2
      <4>1. FluidLevel(N) < FluidLevel(M)
        BY <1>6, <1>10
      <4> QED
        BY <1>1, <1>6, <3>1, <4>1, FluidLevelMonotonic
    <3>2. CASE N < 2
      BY <1>1, <1>6, <3>2
    <3> QED
      BY <1>6, <3>1, <3>2
  <2> QED
    BY <1>1, <1>3, <2>4, <2>5, WidenedLevels
<1> QED
  BY <1>2, <1>7, <1>8, <1>9, <1>10 DEF Place

LEMMA PlacedTaskFits ==
  ASSUME TypeOK, FilesDisjoint, TreeShape, ~ ub, NEW lvl \in Nat,
         NEW inputs, inputs # {}, inputs \subseteq AllFiles,
         LevelsOf(inputs) # {},
         lvl >= 1 => inputs = FilesOf(tree, lvl),
         \A L \in LevelsOf(inputs) : L \in Nat /\ FluidLevel(L) = lvl,
         NEW output, Place(lvl, inputs, output)
  PROVE  TaskFits([inputs |-> inputs, output |-> output])
<1>1. /\ output \in 1 .. NumLevels - 1 /\ output \in Nat
      /\ output \in RocksDBLevels
      /\ \A L \in LevelsOf(inputs) : L <= output
  BY ParametersType DEF Place, RocksDBLevels
<1>2. PICK X : X = Widened(inputs, output)
  OBVIOUS
<1>3. inputs \subseteq X /\ X \subseteq AllFiles
  BY <1>2, ParametersType DEF Widened, AllFiles
<1>4. Whole(tree, X)
  BY <1>2, PlacedWhole
<1>5. ASSUME NEW M \in 1 .. NumLevels - 1, NEW g \in tree[M]
      PROVE  g \in X <=> M <= output /\ \E L \in LevelsOf(inputs) : L <= M
  BY <1>1, <1>2, <1>5, WidenedLevels
<1>6. tree[output] \subseteq X
  BY <1>1, <1>5
<1>7. \A M \in output + 1 .. NumLevels - 1 : tree[M] \cap X = {}
  <2>1. \A M \in output + 1 .. NumLevels - 1 :
          M \in 1 .. NumLevels - 1 /\ ~ (M <= output)
    BY <1>1, ParametersType
  <2> QED
    BY <1>5, <2>1
<1>8. ASSUME output >= 2
      PROVE  Cardinality(UNION X) > Capacity(FluidLevel(output) - 1)
  <2>1. UNION inputs \subseteq UNION X
    BY <1>3
  <2>2. UNION X \subseteq 1 .. MaxBatches
    <3>1. \A g \in AllFiles : g \subseteq 1 .. MaxBatches
      BY TreeType DEF AllFiles
    <3> QED
      BY <1>3, <3>1
  <2>3. FluidLevel(output) - 1 \in Nat
    BY <1>1, <1>8, FluidLevelRange
  <2> QED
    BY <1>8, <2>1, <2>2, <2>3, MoreMemtables, CapacityType DEF Place
<1>9. WellPlaced(X, output)
  BY <1>1, <1>3, <1>4, <1>6, <1>7, <1>8 DEF WellPlaced, Place
<1> QED
  BY <1>1, <1>2, <1>9 DEF TaskFits, Place

(* A run that stays in its level goes to the last place of it.              *)
LEMMA StayPlace ==
  ASSUME TypeOK, TreeShape, ~ ub, NEW lvl \in Nat,
         NEW inputs, inputs \subseteq AllFiles, LevelsOf(inputs) # {},
         lvl >= 1 => inputs = FilesOf(tree, lvl),
         \A L \in LevelsOf(inputs) :
           L \in RocksDBLevels /\ L \in Nat /\ FluidLevel(L) = lvl
  PROVE  Place(lvl, inputs, SlotLevel(lvl, 0))
<1>1. PICK L0 \in LevelsOf(inputs) : L0 \in Nat /\ FluidLevel(L0) = lvl
  OBVIOUS
<1>2. CASE lvl = 0
  <2>1. SlotLevel(lvl, 0) = 1
    BY <1>2, ParametersType DEF SlotLevel
  <2>2. FluidLevel(1) = 0
    BY DEF FluidLevel
  <2>3. \A L \in 2 .. NumLevels - 1 : L \in Nat /\ FluidLevel(L) # 0
    BY FluidLevelRange, ParametersType
  <2>4. \A L \in LevelsOf(inputs) : L <= 1
    <3>1. ASSUME NEW L \in LevelsOf(inputs), L >= 2 PROVE FALSE
      BY <1>2, <3>1, FluidLevelRange
    <3> QED
      BY <3>1
  <2>5. \A L \in RunLevels(0) : L = 1
    BY <2>3, ParametersType DEF RunLevels
  <2>6. 1 \in 1 .. NumLevels - 1 /\ 1 + 1 = 2
    BY ParametersType
  <2> QED
    BY <1>2, <2>1, <2>2, <2>3, <2>4, <2>5, <2>6 DEF Place
<1>3. CASE lvl # 0
  <2>1. lvl \in Nat \ {0} /\ 0 \in 0 .. SmallerRuns
    BY <1>3, ParametersType
  <2>2. ASSUME NEW L \in LevelsOf(inputs)
        PROVE  L \in 2 .. NumLevels - 1 /\ tree[L] # {}
    BY <1>3, ParametersType DEF FluidLevel, RocksDBLevels, LevelsOf
  <2>3. LastLevel(lvl) \in RocksDBLevels
    BY <1>1, <2>2 DEF TreeShape, LevelsComplete
  <2> DEFINE out == LastLevel(lvl)
  <2>4. SlotLevel(lvl, 0) = out
    BY DEF LastLevel
  <2>5. /\ out \in 2 .. NumLevels - 1 /\ out \in Nat
        /\ FluidLevel(out) = lvl
    BY <2>1, <2>3, <2>4, RunLevelIsSlot
  <2>6. \A L \in Nat : L >= 2 /\ FluidLevel(L) = lvl => L <= out
    BY FluidLevelRange
  <2>7. \A L \in LevelsOf(inputs) : L <= out
    BY <2>2, <2>6
  <2>8. \A M \in out + 1 .. NumLevels - 1 : FluidLevel(M) # lvl
    <3>1. \A M \in out + 1 .. NumLevels - 1 :
            M \in Nat /\ M >= 2 /\ ~ (M <= out)
      BY <2>5, ParametersType
    <3> QED
      BY <2>6, <3>1
  <2>9. Cardinality(UNION inputs) > Capacity(lvl - 1)
    <3>1. PICK f \in tree[L0] : f \in inputs
      BY DEF LevelsOf
    <3>2. Cardinality(f) > Capacity(lvl - 1)
      BY <1>1, <2>2, <3>1 DEF TreeShape, RunsOutgrewLevelAbove
    <3>3. UNION inputs \subseteq 1 .. MaxBatches
      <4>1. \A g \in AllFiles : g \subseteq 1 .. MaxBatches
        BY TreeType DEF AllFiles
      <4> QED
        BY <4>1
    <3>4. lvl - 1 \in Nat
      BY <2>1
    <3>5. f \subseteq UNION inputs
      BY <3>1
    <3> QED
      BY <3>2, <3>3, <3>4, <3>5, MoreMemtables, CapacityType
  <2>10. tree[out] \subseteq inputs
    <3>1. out \in RunLevels(lvl)
      BY <2>5, ParametersType DEF RunLevels
    <3> QED
      BY <2>1, <3>1, FilesOfLevel
  <2>11. out \in 1 .. NumLevels - 1 /\ lvl # lvl + 1
    BY <2>5
  <2> HIDE DEF out
  <2> QED
    BY <2>3, <2>4, <2>5, <2>7, <2>8, <2>9, <2>10, <2>11 DEF Place
<1> QED
  BY <1>2, <1>3

(* A run that is pushed goes above the youngest run of the next level, if   *)
(* there is a place.                                                        *)
LEMMA PushPlace ==
  ASSUME TypeOK, NEW lvl \in Nat, NEW inputs,
         \A L \in LevelsOf(inputs) : L \in Nat /\ FluidLevel(L) = lvl,
         GetCompactionSize(inputs) > Capacity(lvl),
         HasRun(lvl + 1, SmallerRuns),
         NEW i \in PushSlots(tree, lvl + 1)
  PROVE  Place(lvl, inputs, SlotLevel(lvl + 1, i))
<1>1. lvl + 1 \in Nat \ {0} /\ lvl + 1 - 1 = lvl
  OBVIOUS
<1>2. LastLevel(lvl + 1) \in RocksDBLevels
  BY <1>1, FullLevelHasLast
<1>3. PICK out : out = SlotLevel(lvl + 1, i)
  OBVIOUS
<1>4. /\ i \in 0 .. SmallerRuns
      /\ \A M \in RunLevels(lvl + 1) : M > out => tree[M] # {}
      /\ \/ tree[out] = {}
         \/ i = 0 /\ \A M \in RunLevels(lvl + 1) : tree[M] # {}
  BY <1>1, <1>2, <1>3, PushSlotPlace
<1>5. out \in 2 .. NumLevels - 1 /\ FluidLevel(out) = lvl + 1
  BY <1>1, <1>2, <1>3, <1>4, RunLevelIsSlot
<1>6. ASSUME NEW L \in LevelsOf(inputs) PROVE L <= out
  <2>1. CASE L >= 2
    BY <1>5, <2>1, FluidLevelMonotonic
  <2>2. CASE L < 2
    BY <1>5, <2>2
  <2> QED
    BY <1>5, <2>1, <2>2
<1>7. ASSUME NEW M \in out + 1 .. NumLevels - 1, FluidLevel(M) = FluidLevel(out)
      PROVE  tree[M] # {}
  <2>1. M \in RunLevels(lvl + 1) /\ M > out
    BY <1>5, <1>7, ParametersType DEF RunLevels
  <2> QED
    BY <1>4, <2>1
<1>8. ASSUME i = 0, NEW M \in RunLevels(lvl + 1) PROVE M <= out
  <2>1. out = LastLevel(lvl + 1)
    BY <1>3, <1>8 DEF LastLevel
  <2>2. M \in LastLevel(lvl + 1) - SmallerRuns .. LastLevel(lvl + 1)
    BY <1>1, RunLevelsInterval
  <2> QED
    BY <2>1, <2>2
<1>9. Cardinality(UNION inputs) > Capacity(FluidLevel(out) - 1)
  BY <1>1, <1>5 DEF GetCompactionSize
<1>10. out \in 1 .. NumLevels - 1
  BY <1>5
<1> QED
  BY <1>2, <1>3, <1>4, <1>5, <1>6, <1>7, <1>8, <1>9, <1>10 DEF Place

(* The task a thread schedules without an invalid access fits the tree.     *)
LEMMA ClaimedTaskFits ==
  ASSUME TypeOK, FilesDisjoint, TreeShape, ~ ub,
         lazy.files = tree, Whole(tree, lazy.busy),
         NEW t \in Threads, pc[t] = "claim", PickFits(t), ~ SlotOutOfBounds(t),
         ~ Racing, pick[t].inputs # {}, NEW i \in Slots(t)
  PROVE  TaskFits([inputs |-> pick[t].inputs,
                   output |-> SlotLevel(pick[t].target, i)])
<1>1. PICK lvl \in Nat : lvl = pick[t].lvl
  BY ParametersType DEF TypeOK, Pick, LazyLevels
<1>2. PICK inputs : inputs = pick[t].inputs
  OBVIOUS
<1>3. /\ inputs # {} /\ inputs \subseteq AllFiles
      /\ lvl >= 1 => inputs = FilesOf(tree, lvl)
      /\ LevelsOf(inputs) # {}
      /\ \A L \in LevelsOf(inputs) :
           L \in RocksDBLevels /\ L \in Nat /\ FluidLevel(L) = lvl
  <2>1. inputs = FilesOf(tree, lvl) \ lazy.busy /\ inputs # {}
    BY <1>1, <1>2 DEF PickFits
  <2> QED
    BY <2>1, CollectedInputs
<1>4. pick[t].target = GetCompactionTargetLevel(lvl, inputs)
  BY <1>1, <1>2 DEF PickFits
<1>5. Place(lvl, inputs, SlotLevel(pick[t].target, i))
  <2>1. CASE GetCompactionSize(inputs) > Capacity(lvl)
    <3>1. pick[t].target = lvl + 1
      BY <1>4, <2>1 DEF GetCompactionTargetLevel
    <3>2. HasRun(lvl + 1, SmallerRuns)
      BY <1>1, <3>1 DEF SlotOutOfBounds
    <3>3. i \in PushSlots(tree, lvl + 1)
      BY <1>1, <1>4, <3>1 DEF Slots
    <3> QED
      BY <1>3, <2>1, <3>1, <3>2, <3>3, PushPlace
  <2>2. CASE ~ (GetCompactionSize(inputs) > Capacity(lvl))
    <3>1. pick[t].target = lvl
      BY <1>4, <2>2 DEF GetCompactionTargetLevel
    <3>2. i = 0
      BY <1>1, <3>1 DEF Slots
    <3> QED
      BY <1>3, <3>1, <3>2, StayPlace
  <2> QED
    BY <2>1, <2>2
<1> QED
  BY <1>2, <1>3, <1>5, PlacedTaskFits

(* A flush that comes between a task and its merge does not change what the *)
(* task is widened to: the file it adds is younger than all the task names. *)
LEMMA WidenedFlush ==
  ASSUME TypeOK, FilesDisjoint, NEW t \in FlushThreads, OnFlushCompleted(t),
         NEW inputs, inputs \subseteq AllFiles, NEW output
  PROVE  /\ LevelsOf(inputs)' = LevelsOf(inputs)
         /\ Widened(inputs, output)' = Widened(inputs, output)
<1>1. PICK n \in Nat : n = flushed + 1
  BY TreeType
<1>2. /\ \A L \in RocksDBLevels : L # 0 => tree'[L] = tree[L]
      /\ tree'[0] = tree[0] \cup {{n}}
  BY <1>1, FlushLeavesLevels
<1>3. ASSUME NEW g \in AllFiles, NEW m \in g PROVE m \in Nat /\ m < n
  <2>1. m \in 1 .. flushed
    BY <1>3 DEF AllFiles, FilesDisjoint
  <2> QED
    BY <1>1, <2>1, TreeType
<1>4. {n} \notin inputs
  <2>1. ~ (n < n)
    BY <1>1
  <2> QED
    BY <1>3, <2>1
<1>5. inputs \cap tree'[0] = inputs \cap tree[0]
  BY <1>2, <1>4
<1>6. LevelsOf(inputs)' = LevelsOf(inputs)
  <2>1. \A L \in RocksDBLevels : tree'[L] \cap inputs = tree[L] \cap inputs
    BY <1>2, <1>5
  <2> QED
    BY <2>1 DEF LevelsOf
<1>7. Widened(inputs, output)' = Widened(inputs, output)
  <2>1. \A g \in inputs \cap tree[0] : ~ \E m \in {n}, k \in g : m <= k
    BY <1>1, <1>3
  <2>2. {f \in tree'[0] :
           \E g \in inputs \cap tree'[0] : \E m \in f, k \in g : m <= k}
          = {f \in tree[0] :
               \E g \in inputs \cap tree[0] : \E m \in f, k \in g : m <= k}
    BY <1>2, <1>5, <2>1
  <2>3. \A M \in RocksDBLevels : 1 <= M => tree'[M] = tree[M]
    BY <1>2
  <2>4. UNION {tree'[M] : M \in {M \in RocksDBLevels :
               1 <= M /\ M <= output /\ \E L \in LevelsOf(inputs) : L <= M}}
          = UNION {tree[M] : M \in {M \in RocksDBLevels :
               1 <= M /\ M <= output /\ \E L \in LevelsOf(inputs) : L <= M}}
    BY <2>3
  <2> QED
    BY <1>6, <2>2, <2>4 DEF Widened
<1> QED
  BY <1>6, <1>7

LEMMA TaskFitsFlush ==
  ASSUME TypeOK, FilesDisjoint, NEW t \in FlushThreads, OnFlushCompleted(t),
         NEW task, TaskFits(task)
  PROVE  TaskFits(task)'
<1>1. PICK inputs, output, X : /\ inputs = task.inputs /\ output = task.output
                               /\ X = Widened(inputs, output)
  OBVIOUS
<1>2. /\ inputs # {} /\ inputs \subseteq AllFiles
      /\ \A L \in LevelsOf(inputs) : L <= output
      /\ WellPlaced(X, output)
      /\ \/ tree[output] \subseteq inputs
         \/ \A L \in RunLevels(FluidLevel(output)) : tree[L] # {}
  BY <1>1 DEF TaskFits
<1>3. /\ \A L \in RocksDBLevels : L # 0 => tree'[L] = tree[L]
      /\ AllFiles \subseteq AllFiles'
  BY FlushLeavesLevels
<1>4. LevelsOf(inputs)' = LevelsOf(inputs) /\ X = Widened(inputs, output)'
  BY <1>1, <1>2, WidenedFlush
<1>5. \A L \in 1 .. NumLevels - 1 : L \in RocksDBLevels /\ tree'[L] = tree[L]
  BY <1>3, ParametersType DEF RocksDBLevels
<1>6. WellPlaced(X, output)'
  BY <1>2, <1>3, <1>5, WellPlacedKept
<1>7. \/ tree'[output] \subseteq inputs
      \/ \A L \in RunLevels(FluidLevel(output)) : tree'[L] # {}
  <2>1. output \in 1 .. NumLevels - 1
    BY <1>2 DEF WellPlaced
  <2>2. \A L \in RunLevels(FluidLevel(output)) : L \in 1 .. NumLevels - 1
    BY DEF RunLevels
  <2> QED
    BY <1>2, <1>5, <2>1, <2>2
<1>8. WellPlaced(Widened(inputs, output), output)'
  BY <1>4, <1>6
<1> QED
  BY <1>1, <1>2, <1>3, <1>4, <1>7, <1>8 DEF TaskFits

LEMMA TasksFitNext ==
  ASSUME SafeInv, OneFlushThread, Sequential, FilesDisjoint, TreeShape,
         ViewCurrent, ViewsWhole, PicksFit, TasksFit, [Next]_vars
  PROVE  TasksFit'
<1> SUFFICES ASSUME ~ ub', NEW k \in DOMAIN queue', queue'[k].inputs # {}
             PROVE  TaskFits(queue[k])'
  BY DEF TasksFit
<1>1. ~ ub /\ TypeOK
  BY InvalidForGood DEF SafeInv, BaseInv
<1>2. ASSUME UNCHANGED <<tree, queue>> PROVE TaskFits(queue[k])'
  <2>1. TaskFits(queue[k])
    BY <1>1, <1>2 DEF TasksFit
  <2>2. PICK task : task = queue[k]
    OBVIOUS
  <2>3. TaskFits(task)'
    <3>1. TaskFits(task)
      BY <2>1, <2>2
    <3> QED
      BY <1>2, <3>1 DEF TaskFits, WellPlaced, AllFiles, LevelsOf, Widened, Whole
  <2> QED
    BY <1>2, <2>2, <2>3
<1>3. ASSUME NEW w \in Workers, StartMerge(w) \/ RejectMerge(w)
      PROVE  TaskFits(queue[k])'
  <2>1. queue' = Tail(queue) /\ queue # <<>> /\ queue \in Seq(Task)
    BY <1>1, <1>3 DEF StartMerge, RejectMerge, TypeOK
  <2>2. Len(queue) <= 1
    BY DEF Sequential
  <2>3. Len(queue) \in Nat /\ DOMAIN queue' = 1 .. Len(queue) - 1
    BY <2>1
  <2> QED
    BY <2>2, <2>3
<1>4. ASSUME NEW w \in Workers, FinishMerge(w) PROVE TaskFits(queue[k])'
  BY <1>4 DEF FinishMerge, Sequential
<1>5. ASSUME NEW w \in Workers, FailMerge(w) \/ Release(w)
      PROVE  TaskFits(queue[k])'
  BY <1>2, <1>5 DEF FailMerge, Release, dbVars
<1>6. ASSUME NEW t \in FlushThreads, OnFlushCompleted(t)
      PROVE  TaskFits(queue[k])'
  <2>1. queue' = queue
    BY <1>6 DEF OnFlushCompleted
  <2>2. PICK task : task = queue[k]
    OBVIOUS
  <2>3. TaskFits(task)
    BY <1>1, <2>1, <2>2 DEF TasksFit
  <2>4. TaskFits(task)'
    BY <1>1, <1>6, <2>3, TaskFitsFlush
  <2> QED
    BY <2>1, <2>2, <2>4
<1>7. ASSUME NEW t \in Threads, Claim(t) PROVE TaskFits(queue[k])'
  <2>1. /\ pc[t] = "claim" /\ t \notin stale /\ ~ Racing
        /\ ~ SlotOutOfBounds(t)
    BY <1>7 DEF Claim, InvalidAccess
  <2>2. t \in FlushThreads /\ lazy.files = tree /\ queue = <<>>
    BY <2>1, ClaimSeesTree
  <2>3. PickFits(t) /\ Whole(tree, lazy.busy)
    BY <1>1, <2>1, <2>2 DEF PicksFit, ViewsWhole
  <2>4. PICK i \in Slots(t) :
          queue' = Append(queue, [inputs |-> pick[t].inputs,
                                  output |-> SlotLevel(pick[t].target, i)])
    BY <1>7, <2>1 DEF Claim, Names
  <2>5. PICK task : task = [inputs |-> pick[t].inputs,
                            output |-> SlotLevel(pick[t].target, i)]
    OBVIOUS
  <2>6. queue' = Append(<<>>, task)
    BY <2>2, <2>4, <2>5
  <2>7. queue'[k] = task /\ pick[t].inputs # {}
    BY <2>5, <2>6
  <2>8. TaskFits(task)
    BY <1>1, <2>1, <2>2, <2>3, <2>5, <2>7, ClaimedTaskFits
  <2>9. tree' = tree
    BY <1>7 DEF Claim, dbVars
  <2>10. TaskFits(task)'
    BY <2>8, <2>9 DEF TaskFits, WellPlaced, AllFiles, LevelsOf, Widened, Whole
  <2> QED
    BY <2>7, <2>10
<1>8. ASSUME NEW t \in Threads,
             \/ BuildBegin(t) \/ BuildEnd(t) \/ Scan(t) \/ Examine(t)
             \/ AddFilesToCompaction(t) \/ Measure(t) \/ CheckPermit(t)
             \/ Crash(t)
      PROVE  TaskFits(queue[k])'
  BY <1>2, <1>8 DEF BuildBegin, BuildEnd, Scan, Examine,
                    AddFilesToCompaction, Measure, CheckPermit, Crash, dbVars
<1>9. CASE SealMemtable \/ UNCHANGED vars
  BY <1>2, <1>9 DEF SealMemtable, vars
<1> QED
  BY <1>3, <1>4, <1>5, <1>6, <1>7, <1>8, <1>9 DEF Next, PickStep, WorkerStep

-----------------------------------------------------------------------------
(* The theorems.                                                           *)

LEMMA TreeInvInit == Init => TreeInv
<1> SUFFICES ASSUME Init PROVE TreeInv
  OBVIOUS
<1>1. /\ \A L \in RocksDBLevels : tree[L] = {}
      /\ 2 .. NumLevels - 1 \subseteq RocksDBLevels
      /\ \A t \in Threads : pc[t] = "idle"
      /\ \A w \in Workers : w \in Threads /\ pc[w] = "idle"
      /\ \A w \in Workers : job[w].inputs = {}
  BY ParametersType DEF Init, EmptyTree, RocksDBLevels, Threads, NoTask
<1>2. /\ lazy = EmptyView /\ snapshot = EmptyView /\ tree = EmptyTree
      /\ queue = <<>> /\ mutex = NoThread
  BY DEF Init
<1>3. FilesDisjoint /\ JobsOfTree /\ IdleWithoutJob
  BY <1>1 DEF FilesDisjoint, JobsOfTree, IdleWithoutJob
<1>4. ViewCurrent
  BY <1>2 DEF ViewCurrent, CurrentFiles, EmptyView
<1>5. TreeShape
  BY <1>1 DEF TreeShape, StackedFromBottom, RunsOutgrewLevelAbove,
              LevelsComplete
<1>6. ViewsWhole
  BY <1>2 DEF ViewsWhole, Whole, EmptyView
<1>7. PicksFit /\ TasksFit /\ JobsFit
  BY <1>1, <1>2 DEF PicksFit, TasksFit, JobsFit, Threads
<1> QED
  BY <1>3, <1>4, <1>5, <1>6, <1>7 DEF TreeInv

(* With one flush thread, whatever is in the view, in the queue and under   *)
(* way fits the tree, and so does what a walk has collected, which may be   *)
(* less than it counted, or nothing.                                        *)
THEOREM TreeInvariant ==
  ASSUME OneFlushThread
  PROVE  Spec => []TreeInv
<1>1. SafeInv /\ TreeInv /\ [Next]_vars => TreeInv'
  <2> SUFFICES ASSUME SafeInv, TreeInv, [Next]_vars PROVE TreeInv'
    OBVIOUS
  <2>1. Sequential /\ TypeOK /\ MergesSomething /\ MutexInv
    BY SafeIsSequential DEF SafeInv, BaseInv
  <2>2. /\ FilesDisjoint /\ JobsOfTree /\ IdleWithoutJob /\ ViewCurrent
        /\ TreeShape /\ ViewsWhole /\ PicksFit /\ TasksFit /\ JobsFit
    BY DEF TreeInv
  <2>3. FilesDisjoint' /\ JobsOfTree'
    BY <2>1, <2>2, FilesNext
  <2>4. IdleWithoutJob' /\ ViewCurrent' /\ TreeShape'
    BY <2>1, <2>2, IdleWithoutJobNext, ViewCurrentNext, TreeShapeNext
  <2>5. ViewsWhole' /\ PicksFit'
    BY <2>1, <2>2, ViewsWholeNext, PicksFitNext
  <2>6. TasksFit' /\ JobsFit'
    BY <2>1, <2>2, TasksFitNext, JobsFitNext
  <2> QED
    BY <2>3, <2>4, <2>5, <2>6 DEF TreeInv
<1> QED
  BY <1>1, TreeInvInit, SafeInvariant, PTL DEF Spec

(* With one flush thread, the runs of a fluid level are stacked from its    *)
(* last RocksDB level up, whatever merges fail or are refused.              *)
THEOREM LevelsStacked ==
  ASSUME OneFlushThread
  PROVE  Spec => []StackedFromBottom
<1>1. TreeInv => StackedFromBottom
  BY DEF TreeInv, TreeShape
<1> QED
  BY <1>1, TreeInvariant, PTL

(* With one flush thread, a run moves down only when it has outgrown the    *)
(* level above.                                                             *)
THEOREM RunsOutgrow ==
  ASSUME OneFlushThread
  PROVE  Spec => []RunsOutgrewLevelAbove
<1>1. TreeInv => RunsOutgrewLevelAbove
  BY DEF TreeInv, TreeShape
<1> QED
  BY <1>1, TreeInvariant, PTL

(* With one flush thread, ScheduleCompaction merges a pushed run with an    *)
(* older one only in a level whose runs are all occupied.                   *)
THEOREM PushesIntoFullLevels ==
  ASSUME OneFlushThread
  PROVE  Spec => []PushMergesOnlyIntoFullLevel
<1>1. TreeInv => PushMergesOnlyIntoFullLevel
  BY DEF TreeInv, TasksFit, TaskFits, PushMergesOnlyIntoFullLevel
<1> QED
  BY <1>1, TreeInvariant, PTL

(* With one flush thread, DB::CompactFiles accepts every request the        *)
(* scheduler makes that names a file: what comes between the walk over the  *)
(* levels and the merge may leave nothing to name, but never invalidates    *)
(* what is named.                                                           *)
THEOREM RequestsAccepted ==
  ASSUME OneFlushThread
  PROVE  Spec => []RequestsAcceptable
<1>1. SafeInv /\ TreeInv => RequestsAcceptable
  <2> SUFFICES ASSUME SafeInv, TreeInv, ~ ub, NEW k \in DOMAIN queue,
                      queue[k].inputs # {}
               PROVE  ~ Rejected(queue[k])
    BY DEF RequestsAcceptable
  <2>1. TaskFits(queue[k])
    BY DEF TreeInv, TasksFit
  <2>2. queue # <<>>
    OBVIOUS
  <2>3. \A w \in Workers : pc[w] = "idle"
    BY <2>2, SafeIsSequential DEF Sequential
  <2>4. BeingCompacted = {}
    BY <2>3 DEF BeingCompacted, TreeInv, IdleWithoutJob
  <2>5. queue[k].output \in RocksDBLevels
    BY <2>1, ParametersType DEF TaskFits, WellPlaced, RocksDBLevels
  <2>6. \A L \in LevelsOf(queue[k].inputs) : ~ (L > queue[k].output)
    <3>1. queue[k].output \in Int
      BY <2>5, ParametersType DEF RocksDBLevels
    <3>2. \A L \in LevelsOf(queue[k].inputs) : L \in Int
      BY DEF LevelsOf, RocksDBLevels
    <3> QED
      BY <2>1, <3>1, <3>2 DEF TaskFits
  <2> QED
    BY <2>1, <2>3, <2>4, <2>5, <2>6 DEF Rejected, TaskFits
<1> QED
  BY <1>1, SafeInvariant, TreeInvariant, PTL

=============================================================================
