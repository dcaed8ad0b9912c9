-------------------------- MODULE TieredTreeProofs --------------------------
(***************************************************************************)
(* Proof that FluidLSM with one flush thread (max_background_jobs = 1, the *)
(* default) implements TieredTree, for any size ratio, any numbers of runs *)
(* and levels, any pool of workers and any failures: that what its threads *)
(* do with views, permits and tasks is, seen from the files, what a fluid  *)
(* LSM-tree does.                                                          *)
(***************************************************************************)
EXTENDS FluidTreeProofs, FluidTree

Older(S, others) == \A r \in S, q \in others : \A m \in r, n \in q : m < n

LevelFiles(lvl) == FilesOf(tree, lvl)

-----------------------------------------------------------------------------
(* The inductive invariant.                                                *)

(* No memtable is lost.                                                     *)
Covered == UNION AllFiles = 1 .. flushed

(* A RocksDB level beyond 0 has one file at most, all of them older than    *)
(* those of L0, which are flushed memtables.                                *)
FilesShaped ==
  ub \/ /\ \A L \in 1 .. NumLevels - 1 : \A f, g \in tree[L] : f = g
        /\ \A f \in tree[0] : \E n \in 1 .. flushed : f = {n}
        /\ \A L \in 1 .. NumLevels - 1 : Older(tree[L], tree[0])

(* Of level 0, a view has marked the oldest runs.                           *)
BusyIsOlder(view) ==
  LET files == FilesOf(view.files, 0)
  IN  Older(files \cap view.busy, files \ view.busy)

ViewsOlder == ub \/ (BusyIsOlder(lazy) /\ BusyIsOlder(snapshot))

BusyFlushed ==
  ub \/ \A g \in lazy.busy \cup snapshot.busy : g \subseteq 1 .. flushed

Merging == {w \in Workers : pc[w] = "merging"}

Outstanding == queue # <<>> \/ Merging # {}

Rebuilding == \E w \in Workers : pc[w] = "clear"

CurrentBusy == IF mutex = NoThread THEN lazy.busy ELSE snapshot.busy

(* Unless a merge fails, no mark outlives what it was set for.              *)
BusyGone ==
  ub \/ Errors # {} \/ Outstanding \/ Rebuilding
     \/ CurrentBusy \cap AllFiles = {}

IsLargest(files, l) == l \in LazyLevels /\ IsLargestOccupiedLevel(files, l)

(* The largest level of the current view is the tree's, or the one before   *)
(* while a worker that has finished a merge has not rebuilt the view.       *)
ViewLag ==
  ub \/ \E k, l \in LazyLevels :
          /\ IsLargest(CurrentFiles, k) /\ IsLargest(tree, l)
          /\ l = k \/ (l = k + 1 /\ Rebuilding)

(* Where the tasks and merges that name a file put theirs.                  *)
Outputs ==
  {queue[k].output : k \in {k \in DOMAIN queue : queue[k].inputs # {}}}
    \cup {job[w].output : w \in Merging}

Walking == {"examine", "collect", "measure", "permit", "claim"}

(* A walk has settled on the tree's largest level or the one before, and no *)
(* compaction under way begins yet another.                                 *)
PickLag ==
  ub \/ \A t \in FlushThreads :
          pc[t] \in Walking =>
            /\ pick[t].lvl <= pick[t].largest
            /\ \E k, l \in LazyLevels :
                 /\ IsLargest(CurrentFiles, k) /\ IsLargest(tree, l)
                 /\ pick[t].largest <= k
                 /\ l = pick[t].largest \/ l = pick[t].largest + 1
            /\ \A o \in Outputs : FluidLevel(o) <= pick[t].largest + 1

(* A merge of the files X into RocksDB level output, decided on account of  *)
(* the files newest, is a compaction of fluid level l, which can expect      *)
(* one.                                                                     *)
Compacts(l, newest, X, output) ==
  LET S == X \cap LevelFiles(l)
      next == LevelFiles(l + 1)
  IN  /\ newest # {} /\ newest \subseteq S
      /\ newest = S \/ (Errors # {} /\ Older(S \ newest, newest))
      /\ due[l] >= 1
      /\ Older(S, LevelFiles(l) \ S)
      /\ IF Cardinality(UNION newest) <= Capacity(l)
         THEN X = S /\ FluidLevel(output) = l
         ELSE /\ l + 1 \in LazyLevels /\ FluidLevel(output) = l + 1
              /\ \/ Cardinality(next) <= SmallerRuns /\ X = S
                 \/ Cardinality(next) > SmallerRuns /\ X = S \cup next

TaskCompacts(task) ==
  \E l \in LazyLevels :
    Compacts(l, task.inputs, Widened(task.inputs, task.output), task.output)

TasksCompact ==
  ub \/ \A k \in DOMAIN queue : queue[k].inputs = {} \/ TaskCompacts(queue[k])

JobsCompact ==
  ub \/ \A w \in Merging :
          \E l \in LazyLevels, newest \in SUBSET job[w].inputs :
            Compacts(l, newest, job[w].inputs, job[w].output)

(* The current view has one file at most in a RocksDB level beyond 0, and   *)
(* finitely many in each fluid level.                                       *)
ViewShaped ==
  ub \/ /\ \A L \in 1 .. NumLevels - 1 : \A f, g \in CurrentFiles[L] : f = g
        /\ \A l : IsFiniteSet(FilesOf(CurrentFiles, l))

(* Level l has too many runs.                                               *)
TooMany(files, l) ==
  \E largest \in LazyLevels :
    /\ IsLargest(files, largest)
    /\ Triggered(l, largest, Cardinality(FilesOf(files, l)))

DueType == due \in [LazyLevels -> Int] /\ \A l \in LazyLevels : due[l] <= 2

(* A level that has too many runs has two compactions to expect.            *)
DueInTree == ub \/ \A l \in LazyLevels : TooMany(tree, l) => due[l] = 2

(* One of them may have been made since the view was built.                 *)
DueInView ==
  ub \/ \A l \in LazyLevels :
          TooMany(CurrentFiles, l) =>
            due[l] >= 1 /\ (Rebuilding \/ due[l] >= 2)

(* A walk that has begun before the compaction that made the next level the *)
(* largest may judge the one before by the number of runs of the largest.   *)
DueBeforeLargest ==
  ub \/ \A t \in FlushThreads, l \in LazyLevels :
          /\ \/ pc[t] \in {"fill", "scan"} /\ IsLargest(CurrentFiles, l)
             \/ pc[t] = "examine" /\ pick[t].lvl = l /\ pick[t].largest = l
          /\ IsLargest(tree, l + 1)
          => /\ ~ Outstanding
             /\ Rebuilding => IsLargest(CurrentFiles, l)
             /\ Cardinality(LevelFiles(l)) > LargerRuns => due[l] >= 1

(* The level that a walk has found to have too many runs can expect the     *)
(* compaction under way and another.                                        *)
DueInPick ==
  ub \/ \A t \in FlushThreads :
          pc[t] \in Walking \ {"examine"} =>
            /\ due[pick[t].lvl] >= 1
            /\ Outstanding => due[pick[t].lvl] >= 2

DueInv ==
  DueType /\ DueInTree /\ DueInView /\ DueBeforeLargest /\ DueInPick

TierInv ==
  /\ Covered /\ FilesShaped
  /\ ViewsOlder /\ BusyFlushed /\ BusyGone
  /\ ViewLag /\ ViewShaped /\ PickLag /\ DueInv
  /\ TasksCompact /\ JobsCompact

-----------------------------------------------------------------------------
(* The levels.                                                             *)

LEMMA LevelsOfRocksDB ==
  /\ 0 \in RocksDBLevels /\ 0 \in LazyLevels
  /\ \A L \in 1 .. NumLevels - 1 : L \in RocksDBLevels /\ L \in Nat /\ L # 0
  /\ \A L \in RocksDBLevels : L \in Nat /\ FluidLevel(L) \in LazyLevels
  /\ \A L \in RocksDBLevels : L # 0 => L \in 1 .. NumLevels - 1
  /\ \A l \in LazyLevels : l \in Nat
<1>1. ASSUME NEW L \in RocksDBLevels
      PROVE  FluidLevel(L) \in LazyLevels
  <2>1. L \in Nat /\ L <= NumLevels - 1
    BY ParametersType DEF RocksDBLevels
  <2>2. CASE L < 2
    BY <2>1, <2>2, ParametersType DEF FluidLevel, LazyLevels
  <2>3. CASE L >= 2
    <3>1. FluidLevel(L) \in Nat \ {0} /\ LastLevel(FluidLevel(L)) - SmallerRuns <= L
      BY <2>1, <2>3, FluidLevelRange
    <3>2. PICK l \in Nat \ {0} : l = FluidLevel(L)
      BY <3>1
    <3>3. LastLevel(l) = 1 + l * (SmallerRuns + 1)
      BY <3>2, ParametersType DEF LastLevel, SlotLevel
    <3>4. l * (SmallerRuns + 1) = l + l * SmallerRuns
      BY ParametersType
    <3>5. l * SmallerRuns \in Nat /\ l * SmallerRuns >= SmallerRuns
      BY ParametersType, SMT
    <3>6. l <= L
      BY <2>1, <3>1, <3>2, <3>3, <3>4, <3>5, ParametersType
    <3> QED
      BY <2>1, <3>2, <3>6, ParametersType DEF LazyLevels
  <2> QED
    BY <2>1, <2>2, <2>3
<1> QED
  BY <1>1, ParametersType DEF RocksDBLevels, LazyLevels

(* The files of a fluid level are those of its RocksDB levels.              *)
LEMMA LevelFilesAre ==
  ASSUME NEW view, NEW lvl, NEW g
  PROVE  g \in FilesOf(view, lvl)
           <=> \E L \in RocksDBLevels : FluidLevel(L) = lvl /\ g \in view[L]
<1>1. FluidLevel(0) = 0
  BY DEF FluidLevel
<1>2. \A L \in RocksDBLevels :
        FluidLevel(L) = lvl <=> L \in RunLevels(lvl) \/ (L = 0 /\ lvl = 0)
  BY <1>1, LevelsOfRocksDB DEF RunLevels
<1>3. RunLevels(lvl) \subseteq RocksDBLevels
  BY LevelsOfRocksDB DEF RunLevels
<1> QED
  BY <1>2, <1>3, FilesOfLevel, LevelsOfRocksDB

LEMMA FileLevel ==
  ASSUME TypeOK, FilesDisjoint, NEW L \in RocksDBLevels, NEW g \in tree[L],
         NEW lvl
  PROVE  g \in LevelFiles(lvl) <=> FluidLevel(L) = lvl
<1>1. g # {}
  BY TreeType
<1>2. \A M \in RocksDBLevels : g \in tree[M] => M = L
  BY <1>1, DisjointFiles
<1> QED
  BY <1>2, LevelFilesAre DEF LevelFiles

LEMMA FilesAreOfLevels ==
  \A g : g \in AllFiles <=> \E l \in LazyLevels : g \in LevelFiles(l)
BY LevelFilesAre, LevelsOfRocksDB DEF LevelFiles, AllFiles

LEMMA LevelsDisjoint ==
  ASSUME TypeOK, FilesDisjoint, NEW k, NEW l, NEW g,
         g \in LevelFiles(k), g \in LevelFiles(l)
  PROVE  k = l
<1>1. PICK L \in RocksDBLevels : FluidLevel(L) = k /\ g \in tree[L]
  BY LevelFilesAre DEF LevelFiles
<1> QED
  BY <1>1, FileLevel

(* A level is occupied if it has files.                                     *)
LEMMA Occupied ==
  ASSUME NEW view, NEW l
  PROVE  RunsOf(view, l) = {} <=> FilesOf(view, l) = {}
BY DEF FilesOf, RunsOf

LEMMA LargestUnique ==
  ASSUME NEW files, NEW k, NEW l, IsLargest(files, k), IsLargest(files, l)
  PROVE  k = l
<1>1. k \in Nat /\ l \in Nat
  BY LevelsOfRocksDB DEF IsLargest
<1>2. ~ (k < l) /\ ~ (l < k)
  BY <1>1 DEF IsLargest, IsLargestOccupiedLevel
<1> QED
  BY <1>1, <1>2

-----------------------------------------------------------------------------
(* Counting runs.                                                          *)

LEMMA FilesFinite ==
  ASSUME TypeOK
  PROVE  /\ IsFiniteSet(AllFiles)
         /\ \A l \in LazyLevels : LevelFiles(l) \subseteq AllFiles
         /\ \A l : IsFiniteSet(LevelFiles(l))
<1>1. IsFiniteSet(SUBSET (1 .. MaxBatches))
  <2>1. IsFiniteSet(1 .. MaxBatches)
    BY BoundsAssumption, FS_Interval
  <2> QED
    BY <2>1, FS_SUBSET
<1>2. AllFiles \subseteq SUBSET (1 .. MaxBatches)
  BY TreeType DEF AllFiles
<1>3. \A l : LevelFiles(l) \subseteq AllFiles
  BY LevelFilesAre DEF LevelFiles, AllFiles
<1>4. IsFiniteSet(AllFiles)
  BY <1>1, <1>2, FS_Subset
<1> QED
  BY <1>3, <1>4, FS_Subset

LEMMA CountSingletons ==
  ASSUME NEW S, IsFiniteSet(S)
  PROVE  Cardinality({{g} : g \in S}) = Cardinality(S)
<1> DEFINE T == {{g} : g \in S}
           h == [g \in S |-> {g}]
<1>1. h \in Bijection(S, T)
  <2>1. h \in [S -> T] /\ \A a, b \in S : h[a] = h[b] => a = b
    OBVIOUS
  <2>2. \A t \in T : \E a \in S : h[a] = t
    OBVIOUS
  <2> HIDE DEF h, T
  <2> QED
    BY <2>1, <2>2 DEF Bijection, Injection, Surjection, IsInjective
<1>2. ExistsBijection(S, T)
  BY <1>1, Zenon DEF ExistsBijection
<1> HIDE DEF T
<1>3. Cardinality(T) = Cardinality(S)
  BY <1>2, FS_Bijection
<1> QED
  BY <1>3 DEF T

(* A set of which each member has a place of its own is no larger than the  *)
(* set of the places.                                                       *)
LEMMA PlacesOfTheirOwn ==
  ASSUME NEW S, NEW T, IsFiniteSet(T), NEW place \in [S -> T],
         \A a, b \in S : place[a] = place[b] => a = b
  PROVE  Cardinality(S) <= Cardinality(T)
<1>1. place \in Injection(S, T)
  BY DEF Injection, IsInjective
<1> QED
  BY <1>1, FS_Injection

(* When every level beyond 0 has one file at most, the runs are the files,  *)
(* and the live runs of a level the files it has that are not busy.         *)
LEMMA RunsAreFiles ==
  ASSUME NEW view, \A L \in 1 .. NumLevels - 1 : \A f, g \in view[L] : f = g,
         NEW lvl
  PROVE  RunsOf(view, lvl) = {{f} : f \in FilesOf(view, lvl)}
<1>1. \A L \in RunLevels(lvl) : \A f \in view[L] : view[L] = {f}
  BY DEF RunLevels
<1>2. ASSUME NEW run \in RunsOf(view, lvl)
      PROVE  \E f \in FilesOf(view, lvl) : run = {f}
  <2>1. CASE lvl = 0 /\ \E f \in view[0] : run = {f}
    BY <2>1, FilesOfLevel
  <2>2. CASE \E L \in RunLevels(lvl) : run = view[L]
    <3>1. PICK L \in RunLevels(lvl) : run = view[L]
      BY <2>2
    <3>2. PICK f : f \in view[L]
      BY <3>1 DEF RunsOf
    <3> QED
      BY <1>1, <3>1, <3>2, FilesOfLevel
  <2> QED
    BY <2>1, <2>2 DEF RunsOf
<1>3. ASSUME NEW f \in FilesOf(view, lvl)
      PROVE  {f} \in RunsOf(view, lvl)
  <2>1. CASE lvl = 0 /\ f \in view[0]
    BY <2>1 DEF RunsOf
  <2>2. CASE \E L \in RunLevels(lvl) : f \in view[L]
    <3>1. PICK L \in RunLevels(lvl) : f \in view[L]
      BY <2>2
    <3>2. view[L] = {f}
      BY <1>1, <3>1
    <3> QED
      BY <3>2 DEF RunsOf
  <2> QED
    BY <2>1, <2>2, FilesOfLevel
<1> QED
  BY <1>2, <1>3

LEMMA LiveRunsAreFiles ==
  ASSUME TypeOK, FilesShaped, ~ ub, NEW lvl \in LazyLevels, NEW busy
  PROVE  NumLiveRuns(tree, busy, lvl) = Cardinality(LevelFiles(lvl) \ busy)
<1>1. {run \in RunsOf(tree, lvl) : run \cap busy = {}}
        = {{f} : f \in LevelFiles(lvl) \ busy}
  <2>1. RunsOf(tree, lvl) = {{f} : f \in LevelFiles(lvl)}
    BY RunsAreFiles DEF FilesShaped, LevelFiles
  <2> QED
    BY <2>1
<1>2. IsFiniteSet(LevelFiles(lvl) \ busy)
  BY FilesFinite, FS_Difference
<1> QED
  BY <1>1, <1>2, CountSingletons DEF NumLiveRuns

(* A level has SmallerRuns + 1 places.                                      *)
LEMMA LevelPlaces ==
  ASSUME NEW lvl \in Nat \ {0}, LastLevel(lvl) \in RocksDBLevels
  PROVE  IsFiniteSet(RunLevels(lvl))
         /\ Cardinality(RunLevels(lvl)) = SmallerRuns + 1
<1>1. PICK last \in Int : last = LastLevel(lvl)
  BY SlotsRange, ParametersType
<1>2. PICK first \in Int : first = last - SmallerRuns
  BY ParametersType
<1>3. RunLevels(lvl) = first .. last
  <2>1. \A L \in first .. last : L <= NumLevels - 1
    BY <1>1, <1>2, ParametersType DEF RocksDBLevels
  <2> QED
    BY <1>1, <1>2, <2>1, RunLevelsInterval
<1>4. IsFiniteSet(first .. last) /\ Cardinality(first .. last) = last - first + 1
  BY <1>2, FS_Interval, ParametersType
<1> QED
  BY <1>2, <1>3, <1>4, ParametersType

(* A level with an empty place has at most SmallerRuns runs, ...            *)
LEMMA RoomLeft ==
  ASSUME FilesShaped, ~ ub, NEW lvl \in Nat \ {0},
         LastLevel(lvl) \in RocksDBLevels,
         NEW L \in RunLevels(lvl), tree[L] = {}
  PROVE  Cardinality(LevelFiles(lvl)) <= SmallerRuns
<1> DEFINE places == RunLevels(lvl) \ {L}
           place == [f \in LevelFiles(lvl) |-> CHOOSE M \in places : f \in tree[M]]
<1>1. IsFiniteSet(places) /\ Cardinality(places) = SmallerRuns
  BY LevelPlaces, FS_RemoveElement, ParametersType
<1>2. ASSUME NEW f \in LevelFiles(lvl)
      PROVE  \E M \in places : f \in tree[M]
  BY FilesOfLevel DEF LevelFiles
<1>3. \A f \in LevelFiles(lvl) : place[f] \in places /\ f \in tree[place[f]]
  BY <1>2
<1>4. place \in [LevelFiles(lvl) -> places]
  BY <1>3
<1>5. \A M \in places : \A f, g \in tree[M] : f = g
  BY DEF FilesShaped, RunLevels
<1>6. \A f, g \in LevelFiles(lvl) : place[f] = place[g] => f = g
  BY <1>3, <1>5
<1> HIDE DEF place, places
<1> QED
  BY <1>1, <1>4, <1>6, PlacesOfTheirOwn

(* ... and one without has more.                                            *)
LEMMA LevelFull ==
  ASSUME TypeOK, FilesDisjoint, NEW lvl \in Nat \ {0},
         LastLevel(lvl) \in RocksDBLevels,
         \A L \in RunLevels(lvl) : tree[L] # {}
  PROVE  Cardinality(LevelFiles(lvl)) > SmallerRuns
<1> DEFINE place == [L \in RunLevels(lvl) |-> CHOOSE f : f \in tree[L]]
<1>1. \A L \in RunLevels(lvl) : place[L] \in tree[L]
  OBVIOUS
<1>2. place \in [RunLevels(lvl) -> LevelFiles(lvl)]
  BY <1>1, FilesOfLevel DEF LevelFiles
<1>3. \A L \in RunLevels(lvl) : L \in RocksDBLevels
  BY LevelsOfRocksDB DEF RunLevels
<1>4. ASSUME NEW L \in RunLevels(lvl), NEW M \in RunLevels(lvl),
             place[L] = place[M]
      PROVE  L = M
  <2>1. PICK g : g = place[L]
    OBVIOUS
  <2>2. g \in tree[L] /\ g \in tree[M]
    BY <1>1, <1>4, <2>1
  <2>3. g # {}
    BY <1>3, <2>2, TreeType
  <2> QED
    BY <1>3, <2>2, <2>3, DisjointFiles
<1> HIDE DEF place
<1>5. Cardinality(RunLevels(lvl)) <= Cardinality(LevelFiles(lvl))
  BY <1>2, <1>4, FilesFinite, PlacesOfTheirOwn
<1>6. Cardinality(LevelFiles(lvl)) \in Nat
  BY FilesFinite, FS_CardinalityType
<1> QED
  BY <1>5, <1>6, LevelPlaces, ParametersType

-----------------------------------------------------------------------------
(* The files.                                                              *)

(* A step that leaves the files alone, a flush, or the end of a merge.      *)
LEMMA StepsOfTree ==
  ASSUME TypeOK, [Next]_vars
  PROVE  \/ UNCHANGED <<tree, flushed>>
         \/ \E t \in FlushThreads : OnFlushCompleted(t)
         \/ \E w \in Workers : FinishMerge(w)
<1>1. ASSUME NEW t \in Threads, PickStep(t) \/ Crash(t)
      PROVE  UNCHANGED <<tree, flushed>>
  BY <1>1, PickStepMoves DEF TypeOK
<1>2. ASSUME NEW w \in Workers, WorkerStep(w), ~ FinishMerge(w)
      PROVE  UNCHANGED <<tree, flushed>>
  BY <1>2 DEF WorkerStep, StartMerge, RejectMerge, FailMerge, Release, dbVars
<1>3. CASE SealMemtable \/ UNCHANGED vars
  BY <1>3 DEF SealMemtable, vars
<1> QED
  BY <1>1, <1>2, <1>3 DEF Next

LEMMA CoveredNext ==
  ASSUME TypeOK, JobsOfTree, Covered, [Next]_vars
  PROVE  Covered'
<1>1. CASE UNCHANGED <<tree, flushed>>
  BY <1>1 DEF Covered, AllFiles
<1>2. ASSUME NEW t \in FlushThreads, OnFlushCompleted(t) PROVE Covered'
  <2>1. PICK n \in Nat : n = flushed + 1 /\ flushed = n - 1
    BY TreeType
  <2>2. /\ \A L \in RocksDBLevels : L # 0 => tree'[L] = tree[L]
        /\ tree'[0] = tree[0] \cup {{n}}
    BY <1>2, <2>1, FlushLeavesLevels
  <2>3. AllFiles' = AllFiles \cup {{n}}
    BY <2>2, LevelsOfRocksDB DEF AllFiles
  <2>4. UNION AllFiles' = (UNION AllFiles) \cup {n}
    BY <2>3
  <2>5. flushed' = n
    BY <1>2, <2>1 DEF OnFlushCompleted
  <2>6. 1 .. n = (1 .. n - 1) \cup {n}
    <3>1. n >= 1
      BY <2>1, TreeType
    <3> QED
      BY <3>1
  <2> QED
    BY <2>1, <2>4, <2>5, <2>6 DEF Covered
<1>3. ASSUME NEW w \in Workers, FinishMerge(w) PROVE Covered'
  <2> DEFINE X == job[w].inputs
             out == job[w].output
  <2>1. /\ X \subseteq AllFiles /\ out \in RocksDBLevels
        /\ flushed' = flushed
    BY <1>3 DEF FinishMerge, JobsOfTree
  <2>2. \A L \in RocksDBLevels :
          tree'[L] = (tree[L] \ X) \cup (IF L = out THEN {UNION X} ELSE {})
    BY <1>3 DEF FinishMerge
  <2> HIDE DEF X, out
  <2>3. \A g : g \in AllFiles' <=> g \in AllFiles \ X \/ g = UNION X
    BY <2>1, <2>2 DEF AllFiles
  <2>4. ASSUME NEW m PROVE m \in UNION AllFiles' <=> m \in UNION AllFiles
    <3>1. ASSUME m \in UNION AllFiles' PROVE m \in UNION AllFiles
      BY <2>1, <2>3, <3>1
    <3>2. ASSUME NEW g \in AllFiles, m \in g PROVE m \in UNION AllFiles'
      <4>1. CASE g \in X
        <5>1. m \in UNION X /\ UNION X \in AllFiles'
          BY <2>3, <3>2, <4>1
        <5> QED
          BY <5>1
      <4>2. CASE g \notin X
        BY <2>3, <3>2, <4>2
      <4> QED
        BY <4>1, <4>2
    <3> QED
      BY <3>1, <3>2
  <2> QED
    BY <2>1, <2>4 DEF Covered
<1> QED
  BY <1>1, <1>2, <1>3, StepsOfTree

(* What a compaction leaves of level 0 is younger than what it takes.       *)
LEMMA CompactsOldest ==
  ASSUME TypeOK, FilesDisjoint, NEW l \in LazyLevels, NEW newest, NEW X,
         NEW output, Compacts(l, newest, X, output)
  PROVE  Older(X \cap LevelFiles(0), LevelFiles(0) \ X)
<1>1. CASE l = 0
  <2>1. LevelFiles(0) \ (X \cap LevelFiles(0)) = LevelFiles(0) \ X
    OBVIOUS
  <2> QED
    BY <1>1, <2>1 DEF Compacts
<1>2. CASE l # 0
  <2>1. X \subseteq LevelFiles(l) \cup LevelFiles(l + 1)
    BY DEF Compacts
  <2>2. l + 1 # 0
    BY LevelsOfRocksDB
  <2>3. X \cap LevelFiles(0) = {}
    BY <1>2, <2>1, <2>2, LevelsDisjoint
  <2> QED
    BY <2>3 DEF Older
<1> QED
  BY <1>1, <1>2

LEMMA JobOldest ==
  ASSUME TypeOK, FilesDisjoint, JobsCompact, ~ ub, NEW w \in Merging
  PROVE  Older(job[w].inputs \cap LevelFiles(0), LevelFiles(0) \ job[w].inputs)
<1>1. PICK l \in LazyLevels, newest \in SUBSET job[w].inputs :
        Compacts(l, newest, job[w].inputs, job[w].output)
  BY DEF JobsCompact
<1> QED
  BY <1>1, CompactsOldest

LEMMA FilesShapedNext ==
  ASSUME TypeOK, FilesDisjoint, FilesShaped, JobsFit, JobsCompact, [Next]_vars
  PROVE  FilesShaped'
<1> SUFFICES ASSUME ~ ub'
             PROVE  /\ \A L \in 1 .. NumLevels - 1 : \A f, g \in tree'[L] : f = g
                    /\ \A f \in tree'[0] : \E n \in 1 .. flushed' : f = {n}
                    /\ \A L \in 1 .. NumLevels - 1 : Older(tree'[L], tree'[0])
  BY DEF FilesShaped, Older
<1>1. ~ ub
  BY InvalidForGood
<1>2. /\ \A L \in 1 .. NumLevels - 1 : \A f, g \in tree[L] : f = g
      /\ \A f \in tree[0] : \E n \in 1 .. flushed : f = {n}
      /\ \A L \in 1 .. NumLevels - 1 : Older(tree[L], tree[0])
  BY <1>1 DEF FilesShaped
<1>3. CASE UNCHANGED <<tree, flushed>>
  BY <1>2, <1>3
<1>4. ASSUME NEW t \in FlushThreads, OnFlushCompleted(t)
      PROVE  /\ \A L \in 1 .. NumLevels - 1 : \A f, g \in tree'[L] : f = g
             /\ \A f \in tree'[0] : \E n \in 1 .. flushed' : f = {n}
             /\ \A L \in 1 .. NumLevels - 1 : Older(tree'[L], tree'[0])
  <2>1. PICK n \in Nat : n = flushed + 1 /\ flushed = n - 1 /\ flushed \in Nat
    BY TreeType
  <2>2. /\ \A L \in 1 .. NumLevels - 1 : tree'[L] = tree[L]
        /\ tree'[0] = tree[0] \cup {{n}}
    BY <1>4, <2>1, FlushLeavesLevels, LevelsOfRocksDB
  <2>3. flushed' = n
    BY <1>4, <2>1 DEF OnFlushCompleted
  <2>4. \A f \in tree'[0] : \E k \in 1 .. flushed' : f = {k}
    <3>1. n \in 1 .. n /\ \A k \in 1 .. flushed : k \in 1 .. n
      BY <2>1
    <3> QED
      BY <1>2, <2>2, <2>3, <3>1
  <2>5. \A L \in 1 .. NumLevels - 1 : Older(tree'[L], tree'[0])
    <3>1. ASSUME NEW L \in 1 .. NumLevels - 1, NEW f \in tree[L], NEW m \in f
          PROVE  m < n
      <4>1. m \in 1 .. flushed
        BY <3>1, LevelsOfRocksDB DEF FilesDisjoint
      <4> QED
        BY <2>1, <4>1
    <3> QED
      BY <1>2, <2>2, <3>1 DEF Older
  <2> QED
    BY <1>2, <2>2, <2>4, <2>5
<1>5. ASSUME NEW w \in Workers, FinishMerge(w)
      PROVE  /\ \A L \in 1 .. NumLevels - 1 : \A f, g \in tree'[L] : f = g
             /\ \A f \in tree'[0] : \E n \in 1 .. flushed' : f = {n}
             /\ \A L \in 1 .. NumLevels - 1 : Older(tree'[L], tree'[0])
  <2> DEFINE X == job[w].inputs
             out == job[w].output
  <2>1. w \in Merging /\ flushed' = flushed
    BY <1>5 DEF FinishMerge, Merging
  <2>2. WellPlaced(X, out)
    BY <1>1, <2>1 DEF JobsFit, Merging
  <2>3. \A L \in RocksDBLevels :
          tree'[L] = (tree[L] \ X) \cup (IF L = out THEN {UNION X} ELSE {})
    BY <1>5 DEF FinishMerge
  <2>4. Older(X \cap LevelFiles(0), LevelFiles(0) \ X)
    BY <1>1, <2>1, JobOldest
  <2> HIDE DEF X, out
  <2>5. /\ out \in 1 .. NumLevels - 1 /\ out # 0
        /\ X \subseteq AllFiles /\ tree[out] \subseteq X
    BY <2>2, LevelsOfRocksDB DEF WellPlaced
  <2>6. /\ tree'[0] = tree[0] \ X
        /\ \A L \in 1 .. NumLevels - 1 :
             tree'[L] = (tree[L] \ X) \cup (IF L = out THEN {UNION X} ELSE {})
    BY <2>3, <2>5, LevelsOfRocksDB
  <2>7. tree'[out] = {UNION X}
    BY <2>5, <2>6
  <2>8. ASSUME NEW g \in tree[0] \ X, NEW n \in g, NEW f \in X, NEW m \in f
        PROVE  m < n
    <3>1. PICK M \in RocksDBLevels : f \in tree[M]
      BY <2>5 DEF AllFiles
    <3>2. CASE M = 0
      <4>1. f \in X \cap LevelFiles(0) /\ g \in LevelFiles(0) \ X
        BY <3>1, <3>2, FilesOfLevel DEF LevelFiles
      <4> QED
        BY <2>4, <4>1 DEF Older
    <3>3. CASE M # 0
      BY <1>2, <3>1, <3>3, LevelsOfRocksDB DEF Older
    <3> QED
      BY <3>2, <3>3
  <2>9. \A L \in 1 .. NumLevels - 1 : Older(tree'[L], tree'[0])
    BY <1>2, <2>6, <2>8 DEF Older
  <2>10. \A L \in 1 .. NumLevels - 1 : \A f, g \in tree'[L] : f = g
    BY <1>2, <2>6, <2>7
  <2> QED
    BY <1>2, <2>1, <2>6, <2>9, <2>10
<1> QED
  BY <1>3, <1>4, <1>5, StepsOfTree

-----------------------------------------------------------------------------
(* The marks in the views.                                                 *)

LEMMA CompactedFiles ==
  ASSUME Sequential, IdleWithoutJob
  PROVE  \/ Merging = {} /\ BeingCompacted = {}
         \/ \E w \in Merging : BeingCompacted = job[w].inputs
<1>1. CASE Merging # {}
  <2>1. PICK w \in Merging : TRUE
    BY <1>1
  <2>2. \A v \in Workers : v # w => job[v].inputs = {}
    BY <2>1 DEF Sequential, IdleWithoutJob, Merging
  <2>3. BeingCompacted = job[w].inputs
    BY <2>1, <2>2 DEF BeingCompacted, Merging
  <2> QED
    BY <2>1, <2>3
<1>2. CASE Merging = {}
  BY <1>2 DEF BeingCompacted, IdleWithoutJob, Merging
<1> QED
  BY <1>1, <1>2

(* What a claim without an invalid access marks: all of a level, or nothing *)
(* of one that has been emptied.                                            *)
LEMMA ClaimMarksLevel ==
  ASSUME SafeInv, OneFlushThread, ViewCurrent, PicksFit, ~ ub,
         NEW t \in Threads, Claim(t), ~ ub'
  PROVE  /\ t \in FlushThreads \ stale /\ ~ SlotOutOfBounds(t)
         /\ mutex = NoThread /\ queue = <<>> /\ lazy.files = tree
         /\ \A u \in Threads : u # t => pc[u] = "idle"
         /\ PickFits(t)
         /\ snapshot' = snapshot /\ lazy'.files = tree
         /\ \/ lazy'.busy = lazy.busy
            \/ lazy'.busy = lazy.busy \cup LevelFiles(pick[t].lvl)
         /\ \E i \in Slots(t) :
              queue' = Append(<<>>, [inputs |-> pick[t].inputs,
                                     output |-> SlotLevel(pick[t].target, i)])
<1>1. TypeOK
  BY DEF SafeInv, BaseInv
<1>2. /\ pc[t] = "claim" /\ t \notin stale /\ ~ Racing /\ snapshot' = snapshot
      /\ ~ SlotOutOfBounds(t)
  BY DEF Claim, InvalidAccess
<1>3. /\ t \in FlushThreads /\ lazy.files = tree /\ mutex = NoThread
      /\ queue = <<>> /\ \A u \in Threads : u # t => pc[u] = "idle"
  BY <1>2, ClaimSeesTree
<1>4. /\ PickFits(t)
      /\ \/ pick[t].inputs = {}
         \/ pick[t].inputs = LevelFiles(pick[t].lvl) \ lazy.busy
  BY <1>2, <1>3 DEF PicksFit, PickFits, LevelFiles
<1>5. Names(t) = {pick[t].inputs}
  BY <1>2 DEF Names
<1>6. /\ lazy'.files = tree
      /\ lazy'.busy = lazy.busy \cup pick[t].inputs
  BY <1>1, <1>2, <1>3, <1>5 DEF Claim, TypeOK, View
<1>7. \E i \in Slots(t) :
        queue' = Append(<<>>, [inputs |-> pick[t].inputs,
                               output |-> SlotLevel(pick[t].target, i)])
  BY <1>3, <1>5 DEF Claim
<1> QED
  BY <1>2, <1>3, <1>4, <1>6, <1>7

(* A step that does not rebuild the view or claim leaves it alone.          *)
LEMMA StepsOfView ==
  ASSUME [Next]_vars
  PROVE  \/ UNCHANGED <<lazy, snapshot, mutex>>
         \/ \E t \in Threads : BuildBegin(t) \/ BuildEnd(t) \/ Claim(t)
<1>1. ASSUME NEW t \in Threads,
             \/ Scan(t) \/ Examine(t) \/ AddFilesToCompaction(t)
             \/ Measure(t) \/ CheckPermit(t) \/ Crash(t)
      PROVE  UNCHANGED <<lazy, snapshot, mutex>>
  BY <1>1 DEF Scan, Examine, AddFilesToCompaction, Measure, CheckPermit, Crash,
              viewVars
<1>2. ASSUME NEW w \in Workers, WorkerStep(w)
      PROVE  UNCHANGED <<lazy, snapshot, mutex>>
  BY <1>2 DEF WorkerStep, StartMerge, RejectMerge, FinishMerge, FailMerge,
              Release, viewVars
<1>3. ASSUME NEW t \in FlushThreads, OnFlushCompleted(t)
      PROVE  UNCHANGED <<lazy, snapshot, mutex>>
  BY <1>3 DEF OnFlushCompleted
<1>4. CASE SealMemtable \/ UNCHANGED vars
  BY <1>4 DEF SealMemtable, vars
<1> QED
  BY <1>1, <1>2, <1>3, <1>4 DEF Next, PickStep

LEMMA ViewsOlderNext ==
  ASSUME SafeInv, OneFlushThread, Sequential, FilesDisjoint, IdleWithoutJob,
         ViewCurrent, PicksFit, JobsCompact, ViewsOlder, [Next]_vars
  PROVE  ViewsOlder'
<1> SUFFICES ASSUME ~ ub'
             PROVE  BusyIsOlder(lazy') /\ BusyIsOlder(snapshot')
  BY DEF ViewsOlder, BusyIsOlder, Older
<1>1. ~ ub /\ TypeOK
  BY InvalidForGood DEF SafeInv, BaseInv
<1>2. BusyIsOlder(lazy) /\ BusyIsOlder(snapshot) /\ BusyIsOlder(EmptyView)
  BY <1>1 DEF ViewsOlder, EmptyView, BusyIsOlder, Older
<1>3. CASE UNCHANGED <<lazy, snapshot, mutex>>
  BY <1>2, <1>3
<1>4. ASSUME NEW t \in Threads, BuildBegin(t)
      PROVE  BusyIsOlder(lazy') /\ BusyIsOlder(snapshot')
  <2>1. /\ snapshot'.files = tree /\ snapshot'.busy = BeingCompacted
        /\ lazy' = EmptyView
    BY <1>4 DEF BuildBegin
  <2>2. Older(LevelFiles(0) \cap BeingCompacted, LevelFiles(0) \ BeingCompacted)
    <3>1. CASE BeingCompacted = {}
      BY <3>1 DEF Older
    <3>2. CASE \E w \in Merging : BeingCompacted = job[w].inputs
      BY <1>1, <3>2, JobOldest DEF Older
    <3> QED
      BY <3>1, <3>2, CompactedFiles
  <2> QED
    BY <1>2, <2>1, <2>2 DEF BusyIsOlder, LevelFiles
<1>5. ASSUME NEW t \in Threads, BuildEnd(t)
      PROVE  BusyIsOlder(lazy') /\ BusyIsOlder(snapshot')
  BY <1>2, <1>5 DEF BuildEnd
<1>6. ASSUME NEW t \in Threads, Claim(t)
      PROVE  BusyIsOlder(lazy') /\ BusyIsOlder(snapshot')
  <2>1. /\ lazy.files = tree /\ snapshot' = snapshot /\ lazy'.files = tree
        /\ \/ lazy'.busy = lazy.busy
           \/ lazy'.busy = lazy.busy \cup LevelFiles(pick[t].lvl)
    BY <1>1, <1>6, ClaimMarksLevel
  <2>2. Older(LevelFiles(0) \cap lazy.busy, LevelFiles(0) \ lazy.busy)
    BY <1>2, <2>1 DEF BusyIsOlder, LevelFiles
  <2>3. Older(LevelFiles(0) \cap lazy'.busy, LevelFiles(0) \ lazy'.busy)
    <3>0. CASE lazy'.busy = lazy.busy
      BY <2>2, <3>0
    <3>1. CASE pick[t].lvl = 0 /\ lazy'.busy # lazy.busy
      <4>1. LevelFiles(0) \ lazy'.busy = {}
        BY <2>1, <3>1
      <4> QED
        BY <4>1 DEF Older
    <3>2. CASE pick[t].lvl # 0 /\ lazy'.busy # lazy.busy
      <4>1. LevelFiles(0) \cap LevelFiles(pick[t].lvl) = {}
        BY <1>1, <3>2, LevelsDisjoint
      <4>2. /\ LevelFiles(0) \cap lazy'.busy = LevelFiles(0) \cap lazy.busy
            /\ LevelFiles(0) \ lazy'.busy = LevelFiles(0) \ lazy.busy
        BY <2>1, <4>1
      <4> QED
        BY <2>2, <4>2
    <3> QED
      BY <3>0, <3>1, <3>2
  <2> QED
    BY <1>2, <2>1, <2>3 DEF BusyIsOlder, LevelFiles
<1> QED
  BY <1>3, <1>4, <1>5, <1>6, StepsOfView

LEMMA BusyFlushedNext ==
  ASSUME SafeInv, OneFlushThread, Sequential, FilesDisjoint, IdleWithoutJob,
         JobsOfTree, ViewCurrent, PicksFit, BusyFlushed, [Next]_vars
  PROVE  BusyFlushed'
<1> SUFFICES ASSUME ~ ub', NEW g \in lazy'.busy \cup snapshot'.busy
             PROVE  g \subseteq 1 .. flushed'
  BY DEF BusyFlushed
<1>1. ~ ub /\ TypeOK
  BY InvalidForGood DEF SafeInv, BaseInv
<1>2. 1 .. flushed \subseteq 1 .. flushed'
  <2>1. flushed \in Nat
    BY <1>1, TreeType
  <2>2. flushed' = flushed \/ flushed' = flushed + 1
    BY <1>1, StepsOfTree DEF OnFlushCompleted, FinishMerge
  <2> QED
    BY <2>1, <2>2
<1> SUFFICES g \subseteq 1 .. flushed
  BY <1>2
<1>3. \A f \in AllFiles : f \subseteq 1 .. flushed
  BY DEF AllFiles, FilesDisjoint
<1>4. \A f \in lazy.busy \cup snapshot.busy : f \subseteq 1 .. flushed
  BY <1>1 DEF BusyFlushed
<1>5. ASSUME NEW t \in Threads, BuildBegin(t) PROVE g \subseteq 1 .. flushed
  <2>1. lazy'.busy = {} /\ snapshot'.busy = BeingCompacted
    BY <1>5 DEF BuildBegin, EmptyView
  <2>2. BeingCompacted \subseteq AllFiles
    BY CompactedFiles DEF JobsOfTree, Merging
  <2> QED
    BY <1>3, <2>1, <2>2
<1>6. ASSUME NEW t \in Threads, BuildEnd(t) PROVE g \subseteq 1 .. flushed
  BY <1>4, <1>6 DEF BuildEnd, EmptyView
<1>7. ASSUME NEW t \in Threads, Claim(t) PROVE g \subseteq 1 .. flushed
  <2>1. /\ snapshot' = snapshot
        /\ \/ lazy'.busy = lazy.busy
           \/ lazy'.busy = lazy.busy \cup LevelFiles(pick[t].lvl)
    BY <1>1, <1>7, ClaimMarksLevel
  <2>2. pick[t].lvl \in LazyLevels
    BY <1>1 DEF TypeOK, Pick
  <2> QED
    BY <1>1, <1>3, <1>4, <2>1, <2>2, FilesFinite
<1> QED
  BY <1>4, <1>5, <1>6, <1>7, StepsOfView
(* A flush adds one file, the youngest.                                     *)
LEMMA FlushAddsFile ==
  ASSUME TypeOK, NEW t \in FlushThreads, OnFlushCompleted(t)
  PROVE  \E n \in Nat : n = flushed + 1 /\ AllFiles' = AllFiles \cup {{n}}
<1>1. PICK n \in Nat : n = flushed + 1
  BY TreeType
<1>2. /\ \A L \in RocksDBLevels : L # 0 => tree'[L] = tree[L]
      /\ tree'[0] = tree[0] \cup {{n}}
  BY <1>1, FlushLeavesLevels
<1>3. AllFiles' = AllFiles \cup {{n}}
  BY <1>2, LevelsOfRocksDB DEF AllFiles
<1> QED
  BY <1>1, <1>3

LEMMA BusyGoneNext ==
  ASSUME SafeInv, Sequential, IdleWithoutJob, BusyFlushed, BusyGone,
         [Next]_vars
  PROVE  BusyGone'
<1> SUFFICES ASSUME ~ ub', Errors = {}, ~ Outstanding', ~ Rebuilding'
             PROVE  CurrentBusy' \cap AllFiles' = {}
  BY DEF BusyGone
<1>1. ~ ub /\ TypeOK /\ MutexInv
  BY InvalidForGood DEF SafeInv, BaseInv
<1>2. ASSUME UNCHANGED queue,
             \A w \in Workers : pc[w] \in {"merging", "clear"} => pc'[w] = pc[w]
      PROVE  ~ Outstanding /\ ~ Rebuilding /\ CurrentBusy \cap AllFiles = {}
  <2>1. ~ Outstanding /\ ~ Rebuilding
    BY <1>2 DEF Outstanding, Rebuilding, Merging
  <2> QED
    BY <1>1, <2>1 DEF BusyGone
<1>3. ASSUME UNCHANGED <<lazy, snapshot, mutex, tree, queue>>,
             \A w \in Workers : pc[w] \in {"merging", "clear"} => pc'[w] = pc[w]
      PROVE  CurrentBusy' \cap AllFiles' = {}
  BY <1>2, <1>3 DEF CurrentBusy, AllFiles
<1>4. ASSUME NEW t \in Threads, BuildBegin(t)
      PROVE  CurrentBusy' \cap AllFiles' = {}
  <2>1. /\ mutex' # NoThread /\ snapshot'.busy = BeingCompacted
        /\ queue' = queue /\ pc[t] = "clear"
    BY <1>4, ThreadsAssumption DEF BuildBegin
  <2>2. Merging = {}
    <3>1. \A w \in Workers : pc[w] = "merging" => pc'[w] = "merging"
      BY <1>1, <1>4, <2>1 DEF BuildBegin, TypeOK
    <3> QED
      BY <3>1 DEF Outstanding, Merging
  <2>3. BeingCompacted = {}
    BY <2>2, CompactedFiles
  <2> QED
    BY <2>1, <2>3 DEF CurrentBusy
<1>5. ASSUME NEW t \in Threads, BuildEnd(t)
      PROVE  CurrentBusy' \cap AllFiles' = {}
  <2>1. /\ mutex # NoThread /\ mutex' = NoThread /\ lazy' = snapshot
        /\ UNCHANGED <<tree, queue>>
    BY <1>1, <1>5, ThreadsAssumption DEF BuildEnd, MutexInv, dbVars
  <2>2. \A w \in Workers : pc[w] \in {"merging", "clear"} => pc'[w] = pc[w]
    BY <1>1, <1>5 DEF BuildEnd, TypeOK
  <2>3. CurrentBusy \cap AllFiles = {}
    BY <1>2, <2>1, <2>2
  <2> QED
    BY <2>1, <2>3 DEF CurrentBusy, AllFiles
<1>6. ASSUME NEW t \in Threads, Claim(t) PROVE FALSE
  <2>1. \E task : queue' = Append(queue, task)
    BY <1>6 DEF Claim
  <2>2. queue \in Seq(Task)
    BY <1>1 DEF TypeOK
  <2>3. queue' # <<>>
    BY <2>1, <2>2
  <2> QED
    BY <2>3 DEF Outstanding
<1>7. ASSUME NEW t \in Threads,
             \/ Scan(t) \/ Examine(t) \/ AddFilesToCompaction(t)
             \/ Measure(t) \/ CheckPermit(t) \/ Crash(t)
      PROVE  CurrentBusy' \cap AllFiles' = {}
  <2>1. UNCHANGED <<lazy, snapshot, mutex, tree, queue>>
    BY <1>7 DEF Scan, Examine, AddFilesToCompaction, Measure, CheckPermit,
                Crash, dbVars, viewVars
  <2>2. \A w \in Workers : pc[w] = "merging" => pc'[w] = pc[w]
    BY <1>1, <1>7, PickStepMoves DEF PickStep, TypeOK, Threads
  <2>3. pc[t] # "clear" \/ pc' = pc
    BY <1>7 DEF Scan, Examine, AddFilesToCompaction, Measure, CheckPermit,
                Crash
  <2>4. \A w \in Workers : pc[w] = "clear" => pc'[w] = pc[w]
    BY <1>1, <1>7, <2>3, PickStepMoves DEF PickStep, TypeOK, Threads
  <2> QED
    BY <1>3, <2>1, <2>2, <2>4
<1>8. ASSUME NEW w \in Workers, WorkerStep(w)
      PROVE  CurrentBusy' \cap AllFiles' = {}
  <2>1. CASE StartMerge(w)
    BY <1>1, <2>1 DEF StartMerge, TypeOK, Threads, Outstanding, Merging
  <2>2. CASE RejectMerge(w) \/ FinishMerge(w)
    BY <1>1, <2>2 DEF RejectMerge, FinishMerge, TypeOK, Threads, Rebuilding
  <2>3. CASE FailMerge(w)
    BY <2>3 DEF FailMerge
  <2>4. CASE Release(w)
    <3>1. UNCHANGED <<lazy, snapshot, mutex, tree, queue>>
      BY <2>4 DEF Release, dbVars, viewVars
    <3> QED
      BY <1>1, <1>3, <2>4, <3>1 DEF Release, TypeOK
  <2> QED
    BY <1>8, <2>1, <2>2, <2>3, <2>4 DEF WorkerStep
<1>9. ASSUME NEW t \in FlushThreads, OnFlushCompleted(t)
      PROVE  CurrentBusy' \cap AllFiles' = {}
  <2>1. UNCHANGED <<lazy, snapshot, mutex, queue>>
    BY <1>9 DEF OnFlushCompleted
  <2>2. \A w \in Workers : pc[w] \in {"merging", "clear"} => pc'[w] = pc[w]
    BY <1>1, <1>9, ThreadsAssumption DEF OnFlushCompleted, TypeOK
  <2>3. CurrentBusy \cap AllFiles = {} /\ CurrentBusy' = CurrentBusy
    BY <1>2, <2>1, <2>2 DEF CurrentBusy
  <2>4. PICK n \in Nat : n = flushed + 1 /\ AllFiles' = AllFiles \cup {{n}}
    BY <1>1, <1>9, FlushAddsFile
  <2>5. {n} \notin CurrentBusy
    <3>1. \A g \in CurrentBusy : g \subseteq 1 .. flushed
      BY <1>1 DEF BusyFlushed, CurrentBusy
    <3>2. n \notin 1 .. flushed
      BY <1>1, <2>4, TreeType
    <3> QED
      BY <3>1, <3>2
  <2> QED
    BY <2>3, <2>4, <2>5
<1>10. CASE SealMemtable \/ UNCHANGED vars
  BY <1>3, <1>10 DEF SealMemtable, vars
<1> QED
  BY <1>4, <1>5, <1>6, <1>7, <1>8, <1>9, <1>10 DEF Next, PickStep

-----------------------------------------------------------------------------
(* The largest level.                                                      *)

LEMMA LargestIs ==
  ASSUME NEW files, NEW l
  PROVE  IsLargest(files, l)
           <=> /\ l \in LazyLevels
               /\ l = 0 \/ FilesOf(files, l) # {}
               /\ \A m \in LazyLevels : m > l => FilesOf(files, m) = {}
BY Occupied DEF IsLargest, IsLargestOccupiedLevel

(* What the end of a merge makes of a level.                                *)
LEMMA MergedLevel ==
  ASSUME NEW w \in Workers, FinishMerge(w), job[w].output \in RocksDBLevels,
         NEW lvl, NEW g
  PROVE  g \in LevelFiles(lvl)'
           <=> \/ g \in LevelFiles(lvl) \ job[w].inputs
               \/ lvl = FluidLevel(job[w].output) /\ g = UNION job[w].inputs
<1>1. PICK X, out, view :
        X = job[w].inputs /\ out = job[w].output /\ view = tree'
  OBVIOUS
<1>2. \A L \in RocksDBLevels :
        view[L] = (tree[L] \ X) \cup (IF L = out THEN {UNION X} ELSE {})
  BY <1>1 DEF FinishMerge
<1>3. out \in RocksDBLevels
  BY <1>1
<1>4. g \in FilesOf(view, lvl)
        <=> \E L \in RocksDBLevels : FluidLevel(L) = lvl /\ g \in view[L]
  BY LevelFilesAre
<1>5. g \in LevelFiles(lvl)
        <=> \E L \in RocksDBLevels : FluidLevel(L) = lvl /\ g \in tree[L]
  BY LevelFilesAre DEF LevelFiles
<1>6. g \in FilesOf(view, lvl)
        <=> g \in LevelFiles(lvl) \ X \/ (lvl = FluidLevel(out) /\ g = UNION X)
  BY <1>2, <1>3, <1>4, <1>5
<1> QED
  BY <1>1, <1>6 DEF LevelFiles

(* What a flush makes of it.                                                *)
LEMMA FlushedLevel ==
  ASSUME TypeOK, NEW t \in FlushThreads, OnFlushCompleted(t)
  PROVE  \A lvl \in LazyLevels :
           LevelFiles(lvl)'
             = LevelFiles(lvl) \cup (IF lvl = 0 THEN {{flushed + 1}} ELSE {})
<1>1. PICK n, view : n = flushed + 1 /\ view = tree'
  OBVIOUS
<1>2. /\ \A L \in RocksDBLevels : L # 0 => view[L] = tree[L]
      /\ view[0] = tree[0] \cup {{n}}
  BY <1>1, FlushLeavesLevels
<1>3. FluidLevel(0) = 0
  BY DEF FluidLevel
<1>4. ASSUME NEW lvl \in LazyLevels, NEW g
      PROVE  g \in FilesOf(view, lvl)
               <=> g \in FilesOf(tree, lvl) \/ (lvl = 0 /\ g = {n})
  BY <1>2, <1>3, LevelFilesAre, LevelsOfRocksDB
<1>5. \A lvl \in LazyLevels :
        FilesOf(view, lvl) = FilesOf(tree, lvl) \cup (IF lvl = 0 THEN {{n}} ELSE {})
  BY <1>4
<1> QED
  BY <1>1, <1>5 DEF LevelFiles

(* A compaction takes something, and leaves the levels beyond its output    *)
(* alone.                                                                   *)
LEMMA CompactsDown ==
  ASSUME TypeOK, FilesDisjoint, NEW l \in LazyLevels, NEW newest, NEW X,
         NEW output \in RocksDBLevels, Compacts(l, newest, X, output)
  PROVE  /\ newest # {} /\ newest \subseteq LevelFiles(l) /\ newest \subseteq X
         /\ FluidLevel(output) \in {l, l + 1}
         /\ \A m \in LazyLevels :
              m > FluidLevel(output) => X \cap LevelFiles(m) = {}
<1>1. newest # {}
  BY DEF Compacts
<1>2. newest \subseteq LevelFiles(l) /\ newest \subseteq X
  BY DEF Compacts
<1>3. FluidLevel(output) \in {l, l + 1}
  BY DEF Compacts
<1>4. X \subseteq LevelFiles(l) \cup LevelFiles(FluidLevel(output))
  BY DEF Compacts
<1>5. ASSUME NEW m \in LazyLevels, m > FluidLevel(output)
      PROVE  X \cap LevelFiles(m) = {}
  <2>1. m # l /\ m # FluidLevel(output)
    BY <1>3, <1>5, LevelsOfRocksDB
  <2> QED
    BY <1>4, <2>1, LevelsDisjoint
<1> QED
  BY <1>1, <1>2, <1>3, <1>5

LEMMA LargestAfterMerge ==
  ASSUME TypeOK, FilesDisjoint, NEW w \in Workers, FinishMerge(w),
         job[w].output \in RocksDBLevels,
         NEW c \in LazyLevels, NEW newest,
         Compacts(c, newest, job[w].inputs, job[w].output),
         NEW l, IsLargest(tree, l)
  PROVE  \E k \in LazyLevels :
           /\ IsLargest(tree, k)'
           /\ k = l \/ (k = l + 1 /\ FluidLevel(job[w].output) = k)
           /\ FluidLevel(job[w].output) <= k
<1>1. PICK X, out : X = job[w].inputs /\ out = job[w].output
  OBVIOUS
<1>2. out \in RocksDBLevels /\ Compacts(c, newest, X, out)
  BY <1>1
<1>3. PICK d \in LazyLevels : d = FluidLevel(out)
  BY <1>2, LevelsOfRocksDB
<1>4. /\ newest # {} /\ newest \subseteq LevelFiles(c)
      /\ d \in {c, c + 1}
      /\ \A m \in LazyLevels : m > d => X \cap LevelFiles(m) = {}
  BY <1>2, <1>3, CompactsDown
<1>5. /\ l \in LazyLevels
      /\ l = 0 \/ LevelFiles(l) # {}
      /\ \A m \in LazyLevels : m > l => LevelFiles(m) = {}
  BY LargestIs DEF LevelFiles
<1>6. l \in Nat /\ c \in Nat /\ d \in Nat /\ \A m \in LazyLevels : m \in Nat
  BY <1>5, LevelsOfRocksDB
<1>7. d <= l + 1
  BY <1>4, <1>5, <1>6
<1>8. ASSUME NEW m, NEW g
      PROVE  g \in LevelFiles(m)'
               <=> g \in LevelFiles(m) \ X \/ (m = d /\ g = UNION X)
  BY <1>1, <1>3, MergedLevel
<1>9. PICK k : k = IF d = l + 1 THEN l + 1 ELSE l
  OBVIOUS
<1>10. k \in LazyLevels /\ k >= d /\ k >= l
  BY <1>3, <1>5, <1>6, <1>7, <1>9
<1>11. k = 0 \/ LevelFiles(k)' # {}
  <2>1. CASE k = d
    BY <1>8, <2>1
  <2>2. CASE k # d
    <3>1. k = l /\ X \cap LevelFiles(l) = {}
      BY <1>4, <1>5, <1>6, <1>9, <1>10, <2>2
    <3> QED
      BY <1>5, <1>8, <3>1
  <2> QED
    BY <2>1, <2>2
<1>12. ASSUME NEW m \in LazyLevels, m > k PROVE LevelFiles(m)' = {}
  <2>1. m > l /\ m # d
    BY <1>6, <1>10, <1>12
  <2> QED
    BY <1>5, <1>8, <2>1
<1>13. PICK view : view = tree'
  OBVIOUS
<1>14. IsLargest(view, k)
  BY <1>10, <1>11, <1>12, <1>13, LargestIs DEF LevelFiles
<1>15. FluidLevel(job[w].output) = d
  BY <1>1, <1>3
<1>16. IsLargest(tree, k)'
  BY <1>13, <1>14
<1>17. (k = l \/ (k = l + 1 /\ d = k)) /\ d <= k
  BY <1>6, <1>9, <1>10
<1> QED
  BY <1>10, <1>15, <1>16, <1>17

LEMMA LargestAfterFlush ==
  ASSUME TypeOK, NEW t \in FlushThreads, OnFlushCompleted(t),
         NEW l, IsLargest(tree, l)
  PROVE  IsLargest(tree, l)'
<1>1. PICK view : view = tree'
  OBVIOUS
<1>2. \A m \in LazyLevels : m # 0 => FilesOf(view, m) = FilesOf(tree, m)
  BY <1>1, FlushedLevel DEF LevelFiles
<1>3. /\ l \in LazyLevels
      /\ l = 0 \/ FilesOf(tree, l) # {}
      /\ \A m \in LazyLevels : m > l => FilesOf(tree, m) = {}
  BY LargestIs
<1>4. \A m \in LazyLevels : m > l => m # 0
  BY <1>3, LevelsOfRocksDB
<1>5. IsLargest(view, l)
  BY <1>2, <1>3, <1>4, LargestIs
<1> QED
  BY <1>1, <1>5

-----------------------------------------------------------------------------
(* The levels of the abstract tree.                                        *)

LEMMA UnionsOfSingletons ==
  ASSUME NEW F PROVE {UNION run : run \in {{f} : f \in F}} = F
<1> DEFINE R == {{f} : f \in F}
<1>1. \A f : UNION {f} = f
  OBVIOUS
<1>2. \A f \in F : {f} \in R
  OBVIOUS
<1>3. \A run \in R : \E f \in F : run = {f}
  OBVIOUS
<1> HIDE DEF R
<1>4. ASSUME NEW g \in F PROVE g \in {UNION run : run \in R}
  <2>1. {g} \in R /\ UNION {g} = g
    BY <1>1, <1>2
  <2> QED
    BY Zenon, <2>1
<1>5. ASSUME NEW g \in {UNION run : run \in R} PROVE g \in F
  <2>1. PICK run \in R : g = UNION run
    BY <1>5
  <2> QED
    BY <1>1, <1>3, <2>1
<1>6. {UNION run : run \in R} = F
  BY <1>4, <1>5
<1> QED
  BY <1>6 DEF R

LEMMA RunsAre ==
  ASSUME NEW view, \A L \in 1 .. NumLevels - 1 : \A f, g \in view[L] : f = g
  PROVE  [lvl \in LazyLevels |-> {UNION run : run \in RunsOf(view, lvl)}]
           = [lvl \in LazyLevels |-> FilesOf(view, lvl)]
<1>1. ASSUME NEW lvl \in LazyLevels
      PROVE  {UNION run : run \in RunsOf(view, lvl)} = FilesOf(view, lvl)
  <2>1. RunsOf(view, lvl) = {{f} : f \in FilesOf(view, lvl)}
    BY RunsAreFiles
  <2> QED
    BY <2>1, UnionsOfSingletons
<1> QED
  BY <1>1

LEMMA TreeCardinality == \A S : Tree!Cardinality(S) = Cardinality(S)
BY Zenon DEF Tree!Cardinality, Tree!IsFiniteSet, Cardinality, IsFiniteSet

LEMMA LargestRefined ==
  ASSUME NEW files, NEW k, IsLargest(files, k),
         NEW r, r = [lvl \in LazyLevels |-> FilesOf(files, lvl)]
  PROVE  k = CHOOSE l \in LazyLevels :
               /\ l = 0 \/ r[l] # {}
               /\ \A m \in LazyLevels : m > l => r[m] = {}
<1>1. \A l : (/\ l \in LazyLevels
              /\ l = 0 \/ r[l] # {}
              /\ \A m \in LazyLevels : m > l => r[m] = {})
             <=> IsLargest(files, l)
  BY LargestIs
<1> QED
  BY <1>1, LargestUnique

LEMMA OverfullRefined ==
  ASSUME NEW files, NEW l \in LazyLevels, TooMany(files, l),
         NEW r, r = [lvl \in LazyLevels |-> FilesOf(files, lvl)]
  PROVE  LET largest == CHOOSE k \in LazyLevels :
                          /\ k = 0 \/ r[k] # {}
                          /\ \A m \in LazyLevels : m > k => r[m] = {}
         IN  \/ l < largest /\ Cardinality(r[l]) > SmallerRuns
             \/ l = largest /\ Cardinality(r[l]) > LargerRuns
<1>1. PICK k \in LazyLevels :
        IsLargest(files, k) /\ Triggered(l, k, Cardinality(FilesOf(files, l)))
  BY DEF TooMany
<1>2. k = CHOOSE m \in LazyLevels :
            /\ m = 0 \/ r[m] # {}
            /\ \A n \in LazyLevels : n > m => r[n] = {}
  BY <1>1, LargestRefined
<1> QED
  BY <1>1, <1>2 DEF Triggered

-----------------------------------------------------------------------------
(* What a step makes of the compactions to expect.                         *)

DueStep ==
  /\ tree' = tree => due' = due
  /\ \A l \in LazyLevels : due'[l] >= due[l] - 1
  /\ \A l \in LazyLevels : tree' # tree /\ TooMany(tree, l)' => due'[l] = 2
  /\ (\A w \in Workers : ~ FinishMerge(w))
       => \A l \in LazyLevels : due'[l] >= due[l]

LEMMA DueTypeNext ==
  ASSUME DueType, [TreeNext]_treeVars
  PROVE  DueType'
<1>1. CASE UNCHANGED due
  BY <1>1 DEF DueType
<1>2. CASE Tree!Account
  <2>1. due' = [l \in LazyLevels |->
                  IF Tree!Overfull(l)' THEN 2
                  ELSE IF Tree!Compacted(l) THEN due[l] - 1 ELSE due[l]]
    BY <1>2 DEF Tree!Account
  <2>2. ASSUME NEW l \in LazyLevels
        PROVE  due'[l] \in Int /\ due'[l] <= 2
    <3>1. due'[l] \in {2, due[l] - 1, due[l]}
      BY <2>1
    <3>2. due[l] \in Int /\ due[l] <= 2
      BY DEF DueType
    <3> QED
      BY <3>1, <3>2
  <2>3. PICK d : d = due'
    OBVIOUS
  <2>4. d = [l \in LazyLevels |-> d[l]]
    BY <2>1, <2>3
  <2> QED
    BY <2>2, <2>3, <2>4 DEF DueType
<1> QED
  BY <1>1, <1>2 DEF TreeNext, treeVars

LEMMA DueAccounted ==
  ASSUME FilesShaped, FilesShaped', ~ ub, ~ ub', DueType, Tree!Account
  PROVE  /\ \A l \in LazyLevels :
              /\ due'[l] >= due[l] - 1
              /\ TooMany(tree, l)' => due'[l] = 2
              /\ LevelFiles(l) \subseteq LevelFiles(l)' => due'[l] >= due[l]
<1>1. PICK view, result : view = tree /\ result = tree'
  OBVIOUS
<1>2. /\ \A L \in 1 .. NumLevels - 1 : \A f, g \in view[L] : f = g
      /\ \A L \in 1 .. NumLevels - 1 : \A f, g \in result[L] : f = g
  BY <1>1 DEF FilesShaped
<1>3. Levels = [lvl \in LazyLevels |-> FilesOf(view, lvl)]
  BY <1>1, <1>2, RunsAre DEF Levels
<1>4. Levels' = [lvl \in LazyLevels |-> FilesOf(result, lvl)]
  BY <1>1, <1>2, RunsAre DEF Levels
<1>5. due' = [l \in LazyLevels |->
                IF Tree!Overfull(l)' THEN 2
                ELSE IF Tree!Compacted(l) THEN due[l] - 1 ELSE due[l]]
  BY DEF Tree!Account
<1>6. ASSUME NEW l \in LazyLevels
      PROVE  /\ due'[l] >= due[l] - 1
             /\ TooMany(tree, l)' => due'[l] = 2
             /\ LevelFiles(l) \subseteq LevelFiles(l)' => due'[l] >= due[l]
  <2>1. due[l] \in Int /\ due[l] <= 2
    BY DEF DueType
  <2>2. due'[l] = IF Tree!Overfull(l)' THEN 2
                  ELSE IF Tree!Compacted(l) THEN due[l] - 1 ELSE due[l]
    BY <1>5
  <2>3. ASSUME TooMany(result, l) PROVE Tree!Overfull(l)'
    BY <1>4, <2>3, OverfullRefined, TreeCardinality
       DEF Tree!Overfull, Tree!Largest
  <2>4. ASSUME FilesOf(view, l) \subseteq FilesOf(result, l)
        PROVE  ~ Tree!Compacted(l)
    BY <1>3, <1>4, <2>4 DEF Tree!Compacted, Tree!Lost
  <2>5. due'[l] \in {2, due[l] - 1, due[l]}
    BY <2>2
  <2>6. TooMany(result, l) => due'[l] = 2
    BY <2>2, <2>3
  <2>7. FilesOf(view, l) \subseteq FilesOf(result, l) => due'[l] >= due[l]
    BY <2>1, <2>2, <2>4
  <2> QED
    BY <1>1, <2>1, <2>5, <2>6, <2>7 DEF LevelFiles
<1> QED
  BY <1>6

LEMMA DueSteps ==
  ASSUME TypeOK, FilesShaped, FilesShaped', ~ ub, ~ ub', DueType,
         [TreeNext]_treeVars
  PROVE  DueStep
<1>1. CASE tree' = tree
  <2>1. due' = due
    BY <1>1 DEF TreeNext, treeVars
  <2> QED
    BY <1>1, <2>1 DEF DueType, DueStep
<1>2. CASE tree' # tree
  <2>1. Tree!Account /\ [Next]_vars
    BY <1>2 DEF TreeNext, treeVars, vars
  <2>2. \A l \in LazyLevels :
          /\ due'[l] >= due[l] - 1
          /\ TooMany(tree, l)' => due'[l] = 2
          /\ LevelFiles(l) \subseteq LevelFiles(l)' => due'[l] >= due[l]
    BY <2>1, DueAccounted
  <2>3. ASSUME NEW t \in FlushThreads, OnFlushCompleted(t), NEW l \in LazyLevels
        PROVE  due'[l] >= due[l]
    <3>1. LevelFiles(l) \subseteq LevelFiles(l)'
      BY <2>3, FlushedLevel
    <3> QED
      BY <2>2, <3>1
  <2> QED
    BY <1>2, <2>1, <2>2, <2>3, StepsOfTree DEF DueStep
<1> QED
  BY <1>1, <1>2

-----------------------------------------------------------------------------
(* The view.                                                               *)

(* The current view changes, and a thread leaves "clear", only by the       *)
(* snapshot of BuildStructure.                                              *)
LEMMA StepsOfBuild ==
  ASSUME TypeOK, MutexInv, [Next]_vars,
         \A t \in Threads : ~ BuildBegin(t)
  PROVE  /\ CurrentFiles' = CurrentFiles
         /\ \A u \in Threads : pc[u] = "clear" => pc'[u] = "clear"
<1>1. ASSUME NEW t \in Threads, BuildEnd(t)
      PROVE  /\ CurrentFiles' = CurrentFiles
             /\ \A u \in Threads : pc[u] = "clear" => pc'[u] = "clear"
  <2>1. mutex # NoThread /\ mutex' = NoThread /\ lazy' = snapshot
    BY <1>1, ThreadsAssumption DEF BuildEnd, MutexInv
  <2> QED
    BY <1>1, <2>1 DEF BuildEnd, TypeOK, CurrentFiles
<1>2. ASSUME NEW t \in Threads,
             \/ Scan(t) \/ Examine(t) \/ AddFilesToCompaction(t)
             \/ Measure(t) \/ CheckPermit(t) \/ Claim(t) \/ Crash(t)
      PROVE  /\ CurrentFiles' = CurrentFiles
             /\ \A u \in Threads : pc[u] = "clear" => pc'[u] = "clear"
  <2>1. UNCHANGED <<mutex, snapshot>> /\ lazy'.files = lazy.files
    BY <1>2 DEF Scan, Examine, AddFilesToCompaction, Measure, CheckPermit,
                Claim, Crash, viewVars, TypeOK, View
  <2>2. pc[t] # "clear" \/ pc' = pc
    BY <1>2 DEF Scan, Examine, AddFilesToCompaction, Measure, CheckPermit,
                Claim, Crash
  <2>3. \A u \in Threads : pc[u] = "clear" => pc'[u] = "clear"
    BY <1>2, <2>2, PickStepMoves DEF PickStep, TypeOK
  <2> QED
    BY <2>1, <2>3 DEF CurrentFiles
<1>3. ASSUME NEW w \in Workers, WorkerStep(w)
      PROVE  /\ CurrentFiles' = CurrentFiles
             /\ \A u \in Threads : pc[u] = "clear" => pc'[u] = "clear"
  BY <1>3 DEF WorkerStep, StartMerge, RejectMerge, FinishMerge, FailMerge,
              Release, viewVars, CurrentFiles, TypeOK
<1>4. ASSUME NEW t \in FlushThreads, OnFlushCompleted(t)
      PROVE  /\ CurrentFiles' = CurrentFiles
             /\ \A u \in Threads : pc[u] = "clear" => pc'[u] = "clear"
  BY <1>4 DEF OnFlushCompleted, CurrentFiles, TypeOK
<1>5. CASE SealMemtable \/ UNCHANGED vars
  BY <1>5 DEF SealMemtable, vars, CurrentFiles
<1> QED
  BY <1>1, <1>2, <1>3, <1>4, <1>5 DEF Next, PickStep

LEMMA ViewLagNext ==
  ASSUME SafeInv, Sequential, FilesDisjoint, JobsOfTree, JobsCompact, ViewLag,
         [Next]_vars
  PROVE  ViewLag'
<1> SUFFICES ASSUME ~ ub' PROVE ViewLag'
  BY DEF ViewLag
<1>1. ~ ub /\ TypeOK /\ MutexInv
  BY InvalidForGood DEF SafeInv, BaseInv
<1>2. PICK k \in LazyLevels, l \in LazyLevels :
        /\ IsLargest(CurrentFiles, k) /\ IsLargest(tree, l)
        /\ l = k \/ (l = k + 1 /\ Rebuilding)
  BY <1>1 DEF ViewLag
<1>3. ASSUME NEW t \in Threads, BuildBegin(t) PROVE ViewLag'
  <2>1. CurrentFiles' = tree /\ tree' = tree
    BY <1>3, ThreadsAssumption DEF BuildBegin, CurrentFiles, dbVars
  <2> QED
    BY <1>2, <2>1 DEF ViewLag
<1>4. CASE \A t \in Threads : ~ BuildBegin(t)
  <2>1. CurrentFiles' = CurrentFiles /\ (Rebuilding => Rebuilding')
    BY <1>1, <1>4, StepsOfBuild DEF Rebuilding, Threads
  <2>2. IsLargest(CurrentFiles, k)'
    BY <1>2, <2>1 DEF IsLargest, IsLargestOccupiedLevel
  <2>3. CASE UNCHANGED <<tree, flushed>>
    <3>1. IsLargest(tree, l)'
      BY <1>2, <2>3
    <3> QED
      BY <1>2, <2>1, <2>2, <3>1 DEF ViewLag
  <2>4. ASSUME NEW t \in FlushThreads, OnFlushCompleted(t) PROVE ViewLag'
    <3>1. IsLargest(tree, l)'
      BY <1>1, <1>2, <2>4, LargestAfterFlush
    <3> QED
      BY <1>2, <2>1, <2>2, <3>1 DEF ViewLag
  <2>5. ASSUME NEW w \in Workers, FinishMerge(w) PROVE ViewLag'
    <3>1. w \in Merging /\ pc[w] = "merging"
      BY <2>5 DEF FinishMerge, Merging
    <3>2. l = k
      BY <1>2, <3>1 DEF Rebuilding, Sequential
    <3>3. Rebuilding'
      BY <1>1, <2>5 DEF FinishMerge, Rebuilding, TypeOK, Threads
    <3>4. PICK c \in LazyLevels, newest \in SUBSET job[w].inputs :
            Compacts(c, newest, job[w].inputs, job[w].output)
      BY <1>1, <3>1 DEF JobsCompact
    <3>5. job[w].output \in RocksDBLevels
      BY <3>1 DEF JobsOfTree
    <3>6. PICK n \in LazyLevels : IsLargest(tree, n)' /\ (n = l \/ n = l + 1)
      BY <1>1, <1>2, <2>5, <3>4, <3>5, LargestAfterMerge
    <3> QED
      BY <2>2, <3>2, <3>3, <3>6 DEF ViewLag
  <2> QED
    BY <1>1, <2>3, <2>4, <2>5, StepsOfTree
<1> QED
  BY <1>3, <1>4

LEMMA ViewShapedNext ==
  ASSUME SafeInv, FilesShaped, ViewShaped, [Next]_vars
  PROVE  ViewShaped'
<1> SUFFICES ASSUME ~ ub' PROVE ViewShaped'
  BY DEF ViewShaped
<1>1. ~ ub /\ TypeOK /\ MutexInv
  BY InvalidForGood DEF SafeInv, BaseInv
<1>2. PICK view, result : view = CurrentFiles /\ result = CurrentFiles'
  OBVIOUS
<1>3. /\ \A L \in 1 .. NumLevels - 1 : \A f, g \in result[L] : f = g
      /\ \A l : IsFiniteSet(FilesOf(result, l))
  <2>1. CASE \E t \in Threads : BuildBegin(t)
    <3>1. result = tree
      BY <1>2, <2>1, ThreadsAssumption DEF BuildBegin, CurrentFiles
    <3> QED
      BY <1>1, <3>1, FilesFinite DEF FilesShaped, LevelFiles
  <2>2. CASE \A t \in Threads : ~ BuildBegin(t)
    <3>1. result = view
      BY <1>1, <1>2, <2>2, StepsOfBuild
    <3> QED
      BY <1>1, <1>2, <3>1 DEF ViewShaped
  <2> QED
    BY <2>1, <2>2
<1> QED
  BY <1>2, <1>3 DEF ViewShaped

-----------------------------------------------------------------------------
(* The tasks and the merges.                                               *)

(* What a walk has collected from fluid level lvl.                          *)
Collected(lvl, inputs) ==
  /\ inputs # {} /\ inputs \subseteq LevelFiles(lvl)
  /\ lvl >= 1 => inputs = LevelFiles(lvl)
  /\ LevelsOf(inputs) # {}
  /\ \A L \in LevelsOf(inputs) :
       L \in RocksDBLevels /\ L \in Nat /\ FluidLevel(L) = lvl

(* DB::CompactFiles takes files of the level and of the one the output goes *)
(* to.                                                                      *)
LEMMA TakenFiles ==
  ASSUME TypeOK, FilesDisjoint, NEW lvl \in LazyLevels,
         NEW inputs, Collected(lvl, inputs),
         NEW output, Place(lvl, inputs, output)
  PROVE  /\ inputs \subseteq Widened(inputs, output)
         /\ Widened(inputs, output)
              \subseteq LevelFiles(lvl) \cup LevelFiles(FluidLevel(output))
<1>1. /\ output \in RocksDBLevels /\ output \in Nat
      /\ \A L \in LevelsOf(inputs) : L <= output
      /\ FluidLevel(output) \in {lvl, lvl + 1}
      /\ FluidLevel(output) \in Nat /\ lvl \in Nat
  BY LevelsOfRocksDB DEF Place
<1>2. PICK X : X = Widened(inputs, output)
  OBVIOUS
<1>3. inputs \subseteq X
  BY <1>2 DEF Widened
<1>4. ASSUME NEW g \in X
      PROVE  g \in LevelFiles(lvl) \cup LevelFiles(FluidLevel(output))
  <2>1. CASE g \in inputs
    BY <2>1 DEF Collected
  <2>2. CASE /\ g \notin inputs /\ g \in tree[0]
             /\ \E h \in inputs \cap tree[0] : \E m \in g, n \in h : m <= n
    <3>1. 0 \in LevelsOf(inputs)
      BY <2>2, LevelsOfRocksDB DEF LevelsOf
    <3>2. FluidLevel(0) = lvl
      BY <3>1 DEF Collected
    <3> QED
      BY <2>2, <3>2, FileLevel, LevelsOfRocksDB
  <2>3. ASSUME NEW M \in RocksDBLevels, g \in tree[M], 1 <= M, M <= output,
               NEW L \in LevelsOf(inputs), L <= M
        PROVE  g \in LevelFiles(lvl) \cup LevelFiles(FluidLevel(output))
    <3>1. /\ L \in Nat /\ FluidLevel(L) = lvl
          /\ M \in Nat /\ FluidLevel(M) \in Nat
      BY LevelsOfRocksDB DEF Collected
    <3>2. FluidLevel(M) >= lvl
      <4>1. CASE M < 2
        <5>1. L < 2 /\ FluidLevel(M) = 0 /\ FluidLevel(L) = 0
          BY <2>3, <3>1, <4>1 DEF FluidLevel
        <5> QED
          BY <3>1, <5>1
      <4>2. CASE M >= 2
        BY <1>1, <2>3, <3>1, <4>2, FluidLevelMonotonic
      <4> QED
        BY <3>1, <4>1, <4>2
    <3>3. FluidLevel(M) <= FluidLevel(output)
      <4>1. CASE output < 2
        BY <1>1, <2>3, <3>1, <4>1 DEF FluidLevel
      <4>2. CASE output >= 2
        BY <1>1, <2>3, <3>1, <4>2, FluidLevelMonotonic
      <4> QED
        BY <1>1, <4>1, <4>2
    <3>4. FluidLevel(M) = lvl \/ FluidLevel(M) = FluidLevel(output)
      BY <1>1, <3>1, <3>2, <3>3
    <3> QED
      BY <2>3, <3>4, FileLevel
  <2> QED
    BY <1>2, <2>1, <2>2, <2>3 DEF Widened
<1> QED
  BY <1>2, <1>3, <1>4

(* Of level 0 it takes the oldest files.                                    *)
LEMMA OldestTaken ==
  ASSUME TypeOK, FilesDisjoint, FilesShaped, ~ ub,
         NEW inputs, Collected(0, inputs),
         NEW output, Place(0, inputs, output),
         NEW X, X = Widened(inputs, output)
  PROVE  Older(X \cap LevelFiles(0), LevelFiles(0) \ X)
<1>1. /\ output \in RocksDBLevels /\ output \in Nat /\ 1 <= output
      /\ \A L \in LevelsOf(inputs) : L <= output
  BY LevelsOfRocksDB DEF Place
<1>2. ASSUME NEW g \in LevelFiles(0)
      PROVE  g \in tree[0] \/ g \in tree[1]
  <2>1. PICK M \in RocksDBLevels : FluidLevel(M) = 0 /\ g \in tree[M]
    BY LevelFilesAre DEF LevelFiles
  <2>2. M \in Nat
    BY LevelsOfRocksDB
  <2>3. M < 2
    BY <2>1, <2>2, FluidLevelRange
  <2> QED
    BY <2>1, <2>2, <2>3
<1>3. tree[1] \subseteq X
  <2>1. PICK L \in LevelsOf(inputs) : TRUE
    BY DEF Collected
  <2>2. L \in Nat /\ FluidLevel(L) = 0
    BY DEF Collected
  <2>3. L <= 1
    BY <2>2, FluidLevelRange
  <2>4. 1 \in 1 .. NumLevels - 1
    BY ParametersType
  <2> QED
    BY <1>1, <2>3, <2>4, WidenedLevels
<1>4. /\ \A f \in tree[0] : \E n \in 1 .. flushed : f = {n}
      /\ Older(tree[1], tree[0])
  BY ParametersType DEF FilesShaped
<1>5. ASSUME NEW g \in X \cap tree[0], g \notin inputs
      PROVE  \E h \in inputs \cap tree[0] : \E m \in g, n \in h : m <= n
  <2>1. g # {} /\ 0 \in RocksDBLevels
    BY TreeType, LevelsOfRocksDB
  <2>2. \A M \in RocksDBLevels : g \in tree[M] => M = 0
    BY <2>1, DisjointFiles
  <2> QED
    BY <1>5, <2>2 DEF Widened
<1>6. \A g \in tree[0] \ X : \A h \in inputs \cap tree[0] :
        \A m \in g, n \in h : ~ (m <= n)
  BY DEF Widened
<1>7. ASSUME NEW r \in X \cap LevelFiles(0), NEW q \in LevelFiles(0) \ X,
             NEW m \in r, NEW n \in q
      PROVE  m < n
  <2>1. q \in tree[0]
    BY <1>2, <1>3
  <2>2. PICK b \in 1 .. flushed : q = {b}
    BY <1>4, <2>1
  <2>3. CASE r \in tree[1]
    BY <1>4, <2>1, <2>3 DEF Older
  <2>4. CASE r \in tree[0]
    <3>1. PICK a \in 1 .. flushed : r = {a}
      BY <1>4, <2>4
    <3>2. flushed \in Nat
      BY TreeType
    <3>3. CASE r \in inputs
      <4>1. ~ (n <= m)
        BY <1>6, <2>1, <2>4, <3>3
      <4> QED
        BY <2>2, <3>1, <3>2, <4>1
    <3>4. CASE r \notin inputs
      <4>1. PICK h \in inputs \cap tree[0] : \E k \in r, o \in h : k <= o
        BY <1>5, <2>4, <3>4
      <4>2. PICK c \in 1 .. flushed : h = {c}
        BY <1>4, <4>1
      <4>3. a <= c
        BY <3>1, <4>1, <4>2
      <4>4. ~ (b <= c)
        BY <1>6, <2>1, <2>2, <4>1, <4>2
      <4> QED
        BY <2>2, <3>1, <3>2, <4>2, <4>3, <4>4
    <3> QED
      BY <3>3, <3>4
  <2> QED
    BY <1>2, <2>3, <2>4
<1> QED
  BY <1>7 DEF Older

(* Of the level it pushes into it takes nothing, if that has a place left,  *)
(* or else all.                                                             *)
LEMMA PushedFiles ==
  ASSUME TypeOK, FilesDisjoint, FilesShaped, TreeShape, ~ ub,
         NEW lvl \in LazyLevels, NEW inputs, Collected(lvl, inputs),
         HasRun(lvl + 1, SmallerRuns), NEW i \in PushSlots(tree, lvl + 1),
         NEW output, output = SlotLevel(lvl + 1, i), Place(lvl, inputs, output),
         NEW X, X = Widened(inputs, output)
  PROVE  /\ FluidLevel(output) = lvl + 1 /\ lvl + 1 \in LazyLevels
         /\ \/ /\ Cardinality(LevelFiles(lvl + 1)) <= SmallerRuns
               /\ X \subseteq LevelFiles(lvl)
            \/ /\ Cardinality(LevelFiles(lvl + 1)) > SmallerRuns
               /\ LevelFiles(lvl + 1) \subseteq X
<1>1. PICK next \in Nat \ {0} : next = lvl + 1
  BY LevelsOfRocksDB
<1>2. LastLevel(next) \in RocksDBLevels
  BY <1>1, FullLevelHasLast
<1>3. /\ i \in 0 .. SmallerRuns /\ output = SlotLevel(next, i)
      /\ \/ tree[output] = {}
         \/ i = 0 /\ \A M \in RunLevels(next) : tree[M] # {}
  BY <1>1, <1>2, PushSlotPlace
<1>4. /\ output \in 2 .. NumLevels - 1 /\ FluidLevel(output) = next
  BY <1>2, <1>3, RunLevelIsSlot
<1>5. /\ output \in RocksDBLevels /\ output \in Nat /\ output >= 2
      /\ output \in 1 .. NumLevels - 1
      /\ \A L \in LevelsOf(inputs) : L <= output
      /\ next \in LazyLevels
  <2>1. output \in 1 .. NumLevels - 1
    BY DEF Place
  <2>2. output \in RocksDBLevels /\ output \in Nat
    BY <2>1, LevelsOfRocksDB
  <2>3. FluidLevel(output) \in LazyLevels
    BY <2>2, LevelsOfRocksDB
  <2> QED
    BY <1>4, <2>1, <2>2, <2>3 DEF Place
<1>6. output \in RunLevels(next)
  BY <1>4, <1>5 DEF RunLevels
<1>7. ASSUME NEW g \in LevelFiles(next)
      PROVE  \E M \in RunLevels(next) :
               /\ g \in tree[M] /\ M \in 2 .. NumLevels - 1 /\ M \in Nat
               /\ g \in X <=> M <= output
  <2>1. PICK M \in RunLevels(next) : g \in tree[M]
    BY FilesOfLevel DEF LevelFiles
  <2>2. /\ M \in 1 .. NumLevels - 1 /\ M \in Nat /\ FluidLevel(M) = next
    BY ParametersType DEF RunLevels
  <2>3. M >= 2
    BY <2>2 DEF FluidLevel
  <2>4. PICK L \in LevelsOf(inputs) : TRUE
    BY DEF Collected
  <2>5. L \in Nat /\ FluidLevel(L) = lvl /\ lvl \in Nat
    BY LevelsOfRocksDB DEF Collected
  <2>6. L <= M
    <3>1. CASE L >= 2
      BY <1>1, <2>2, <2>5, <3>1, FluidLevelMonotonic
    <3>2. CASE L < 2
      BY <2>2, <2>3, <2>5, <3>2
    <3> QED
      BY <2>5, <3>1, <3>2
  <2>7. g \in X <=> M <= output
    BY <1>5, <2>1, <2>2, <2>6, WidenedLevels
  <2> QED
    BY <2>1, <2>2, <2>3, <2>7
<1>8. CASE tree[output] = {}
  <2>1. Cardinality(LevelFiles(next)) <= SmallerRuns
    BY <1>2, <1>6, <1>8, RoomLeft
  <2>2. ASSUME NEW g \in LevelFiles(next), g \in X PROVE FALSE
    <3>1. PICK M \in RunLevels(next) :
            g \in tree[M] /\ M \in 2 .. NumLevels - 1 /\ M <= output
      BY <1>7, <2>2
    <3>2. M # output /\ M < output /\ FluidLevel(M) = FluidLevel(output)
      BY <1>4, <1>5, <1>8, <3>1 DEF RunLevels
    <3>3. tree[output] # {}
      BY <1>4, <3>1, <3>2 DEF TreeShape, StackedFromBottom
    <3> QED
      BY <1>8, <3>3
  <2>3. X \subseteq LevelFiles(lvl) \cup LevelFiles(next)
    BY <1>4, TakenFiles
  <2> QED
    BY <1>1, <1>4, <1>5, <2>1, <2>2, <2>3
<1>9. CASE i = 0 /\ \A M \in RunLevels(next) : tree[M] # {}
  <2>1. Cardinality(LevelFiles(next)) > SmallerRuns
    BY <1>2, <1>9, LevelFull
  <2>2. output = LastLevel(next)
    BY <1>3, <1>9 DEF LastLevel
  <2>3. ASSUME NEW M \in RunLevels(next) PROVE M <= output
    <3>1. M \in LastLevel(next) - SmallerRuns .. LastLevel(next)
      BY RunLevelsInterval
    <3> QED
      BY <2>2, <3>1
  <2>4. LevelFiles(next) \subseteq X
    BY <1>7, <2>3
  <2> QED
    BY <1>1, <1>4, <1>5, <2>1, <2>4
<1> QED
  BY <1>3, <1>8, <1>9

LEMMA ClaimedTaskCompacts ==
  ASSUME SafeInv, OneFlushThread, FilesDisjoint, FilesShaped, TreeShape,
         ViewCurrent, ViewsWhole, ViewsOlder, BusyGone,
         PicksFit, DueType, DueInPick, ~ ub,
         NEW t \in Threads, Claim(t), ~ ub', NEW i \in Slots(t),
         NEW inputs, inputs = pick[t].inputs, inputs # {},
         NEW output, output = SlotLevel(pick[t].target, i)
  PROVE  Compacts(pick[t].lvl, inputs, Widened(inputs, output), output)
<1>1. TypeOK /\ pc[t] = "claim"
  BY DEF SafeInv, BaseInv, Claim
<1>2. /\ t \in FlushThreads \ stale /\ ~ SlotOutOfBounds(t)
      /\ mutex = NoThread /\ queue = <<>> /\ lazy.files = tree
      /\ \A u \in Threads : u # t => pc[u] = "idle"
      /\ PickFits(t)
  BY ClaimMarksLevel
<1>0. PICK X : X = Widened(inputs, output)
  OBVIOUS
<1>3. PICK lvl \in LazyLevels : /\ lvl = pick[t].lvl
                               /\ X = Widened(inputs, output)
  BY <1>0, <1>1 DEF TypeOK, Pick
<1>4. /\ inputs = LevelFiles(lvl) \ lazy.busy
      /\ pick[t].target = GetCompactionTargetLevel(lvl, inputs)
  BY <1>1, <1>2, <1>3 DEF PickFits, LevelFiles
<1>5. lvl \in Nat
  BY LevelsOfRocksDB
<1>6. /\ inputs # {} /\ inputs \subseteq AllFiles
      /\ lvl >= 1 => inputs = LevelFiles(lvl)
      /\ LevelsOf(inputs) # {}
      /\ \A L \in LevelsOf(inputs) :
           L \in RocksDBLevels /\ L \in Nat /\ FluidLevel(L) = lvl
  <2>1. Whole(tree, lazy.busy)
    BY <1>2 DEF ViewsWhole
  <2> QED
    BY <1>1, <1>4, <1>5, <2>1, CollectedInputs DEF LevelFiles
<1>7. Collected(lvl, inputs)
  BY <1>4, <1>6 DEF Collected
<1>8. \/ /\ GetCompactionSize(inputs) > Capacity(lvl)
         /\ pick[t].target = lvl + 1 /\ HasRun(lvl + 1, SmallerRuns)
         /\ i \in PushSlots(tree, lvl + 1)
      \/ /\ ~ (GetCompactionSize(inputs) > Capacity(lvl))
         /\ pick[t].target = lvl /\ i = 0
  <2>1. ~ Racing
    BY <1>2 DEF Racing
  <2> QED
    BY <1>2, <1>3, <1>4, <1>5, <2>1
       DEF Slots, SlotOutOfBounds, GetCompactionTargetLevel
<1>9. Place(lvl, inputs, output)
  BY <1>1, <1>5, <1>6, <1>8, PushPlace, StayPlace DEF LevelFiles
<1>10. due[lvl] >= 1
  BY <1>1, <1>2, <1>3 DEF DueInPick, Walking
<1>11. /\ inputs \subseteq X
       /\ X \subseteq LevelFiles(lvl) \cup LevelFiles(FluidLevel(output))
  BY <1>1, <1>3, <1>7, <1>9, TakenFiles
<1>12. PICK S : S = X \cap LevelFiles(lvl)
  OBVIOUS
<1>13. inputs \subseteq S
  BY <1>4, <1>11, <1>12
<1>14. inputs = S \/ (Errors # {} /\ Older(S \ inputs, inputs))
  <2>1. CASE Errors = {}
    <3>1. ~ Outstanding /\ ~ Rebuilding
      BY <1>1, <1>2, ThreadsAssumption
         DEF Outstanding, Rebuilding, Merging, Threads
    <3>2. lazy.busy \cap AllFiles = {}
      BY <1>2, <2>1, <3>1 DEF BusyGone, CurrentBusy
    <3>3. LevelFiles(lvl) \subseteq AllFiles
      BY <1>1, FilesFinite
    <3> QED
      BY <1>4, <1>12, <1>13, <3>2, <3>3
  <2>2. CASE Errors # {} /\ lvl = 0
    <3>1. Older(LevelFiles(0) \cap lazy.busy, LevelFiles(0) \ lazy.busy)
      BY <1>2 DEF ViewsOlder, BusyIsOlder, LevelFiles
    <3> QED
      BY <1>4, <1>12, <2>2, <3>1 DEF Older
  <2>3. CASE lvl # 0
    BY <1>5, <1>6, <1>12, <1>13, <2>3
  <2> QED
    BY <2>1, <2>2, <2>3
<1>15. Older(S, LevelFiles(lvl) \ S)
  <2>1. LevelFiles(lvl) \ S = LevelFiles(lvl) \ X
    BY <1>12
  <2>2. CASE lvl = 0
    BY <1>1, <1>3, <1>7, <1>9, <1>12, <2>1, <2>2, OldestTaken
  <2>3. CASE lvl # 0
    <3>1. LevelFiles(lvl) \ S = {}
      BY <1>5, <1>6, <1>13, <2>3
    <3> QED
      BY <3>1 DEF Older
  <2> QED
    BY <2>2, <2>3
<1>16. IF Cardinality(UNION inputs) <= Capacity(lvl)
       THEN X = S /\ FluidLevel(output) = lvl
       ELSE /\ lvl + 1 \in LazyLevels /\ FluidLevel(output) = lvl + 1
            /\ \/ Cardinality(LevelFiles(lvl + 1)) <= SmallerRuns /\ X = S
               \/ /\ Cardinality(LevelFiles(lvl + 1)) > SmallerRuns
                  /\ X = S \cup LevelFiles(lvl + 1)
  <2>1. Cardinality(UNION inputs) <= Capacity(lvl)
          <=> ~ (GetCompactionSize(inputs) > Capacity(lvl))
    <3>1. UNION inputs \subseteq 1 .. MaxBatches
      <4>1. \A g \in AllFiles : g \subseteq 1 .. MaxBatches
        BY <1>1, TreeType DEF AllFiles
      <4> QED
        BY <1>6, <4>1
    <3>2. Cardinality(UNION inputs) \in Nat
      BY <3>1, MoreMemtables
    <3> QED
      BY <1>5, <3>2, CapacityType DEF GetCompactionSize
  <2>2. CASE ~ (GetCompactionSize(inputs) > Capacity(lvl))
    <3>1. output = SlotLevel(lvl, 0)
      BY <1>8, <2>2
    <3>2. FluidLevel(output) = lvl
      <4>1. CASE lvl = 0
        <5>1. output = 1
          BY <3>1, <4>1, ParametersType DEF SlotLevel
        <5> QED
          BY <4>1, <5>1 DEF FluidLevel
      <4>2. CASE lvl # 0
        <5>1. PICK L \in LevelsOf(inputs) : TRUE
          BY <1>6
        <5>2. L \in RocksDBLevels /\ L \in Nat /\ FluidLevel(L) = lvl
          BY <1>6
        <5>3. L \in 2 .. NumLevels - 1 /\ tree[L] # {}
          BY <4>2, <5>2, ParametersType DEF FluidLevel, RocksDBLevels, LevelsOf
        <5>4. LastLevel(lvl) \in RocksDBLevels
          BY <5>2, <5>3 DEF TreeShape, LevelsComplete
        <5> QED
          BY <1>5, <3>1, <4>2, <5>4, RunLevelIsSlot, ParametersType
      <4> QED
        BY <4>1, <4>2
    <3> QED
      BY <1>11, <1>12, <2>1, <2>2, <3>2
  <2>3. CASE GetCompactionSize(inputs) > Capacity(lvl)
    <3>1. /\ output = SlotLevel(lvl + 1, i)
          /\ HasRun(lvl + 1, SmallerRuns) /\ i \in PushSlots(tree, lvl + 1)
      BY <1>8, <2>3
    <3>2. /\ FluidLevel(output) = lvl + 1 /\ lvl + 1 \in LazyLevels
          /\ \/ /\ Cardinality(LevelFiles(lvl + 1)) <= SmallerRuns
                /\ X \subseteq LevelFiles(lvl)
             \/ /\ Cardinality(LevelFiles(lvl + 1)) > SmallerRuns
                /\ LevelFiles(lvl + 1) \subseteq X
      BY <1>1, <1>3, <1>7, <1>9, <3>1, PushedFiles
    <3> QED
      BY <1>11, <1>12, <2>1, <2>3, <3>2
  <2> QED
    BY <2>2, <2>3
<1> QED
  BY <1>3, <1>10, <1>12, <1>13, <1>14, <1>15, <1>16 DEF Compacts

LEMMA CompactsKept ==
  ASSUME UNCHANGED <<tree, due>>, NEW l, NEW newest, NEW X, NEW output,
         Compacts(l, newest, X, output)
  PROVE  Compacts(l, newest, X, output)'
BY DEF Compacts, LevelFiles

(* A flush makes no compaction another one.                                 *)
LEMMA CompactsFlush ==
  ASSUME TypeOK, FilesDisjoint, NEW t \in FlushThreads, OnFlushCompleted(t),
         NEW l \in LazyLevels, NEW newest, NEW X, X \subseteq AllFiles,
         NEW output, Compacts(l, newest, X, output),
         DueType, DueType', due'[l] >= due[l]
  PROVE  Compacts(l, newest, X, output)'
<1>1. PICK n \in Nat : n = flushed + 1
  BY TreeType
<1>2. \A k \in LazyLevels :
        LevelFiles(k)' = LevelFiles(k) \cup (IF k = 0 THEN {{n}} ELSE {})
  BY <1>1, FlushedLevel
<1>3. ASSUME NEW g \in X, NEW m \in g PROVE m < n
  <2>1. m \in 1 .. flushed
    BY <1>3 DEF AllFiles, FilesDisjoint
  <2> QED
    BY <1>1, <2>1, TreeType
<1>4. {n} \notin X
  <2>1. ~ (n < n)
    BY <1>1
  <2> QED
    BY <1>3, <2>1
<1>5. PICK S : S = X \cap LevelFiles(l)
  OBVIOUS
<1>6. S = X \cap LevelFiles(l)'
  BY <1>2, <1>4, <1>5
<1>7. /\ newest \subseteq S
      /\ newest = S \/ (Errors # {} /\ Older(S \ newest, newest))
      /\ newest # {} /\ due[l] >= 1
      /\ Older(S, LevelFiles(l) \ S)
      /\ IF Cardinality(UNION newest) <= Capacity(l)
         THEN X = S /\ FluidLevel(output) = l
         ELSE /\ l + 1 \in LazyLevels /\ FluidLevel(output) = l + 1
              /\ \/ Cardinality(LevelFiles(l + 1)) <= SmallerRuns /\ X = S
                 \/ /\ Cardinality(LevelFiles(l + 1)) > SmallerRuns
                    /\ X = S \cup LevelFiles(l + 1)
  BY <1>5 DEF Compacts
<1>8. due'[l] >= 1
  BY <1>7 DEF DueType
<1>9. Older(S, LevelFiles(l)' \ S)
  <2>1. \A g \in LevelFiles(l)' \ S : g \in LevelFiles(l) \ S \/ g = {n}
    BY <1>2
  <2> QED
    BY <1>3, <1>5, <1>7, <2>1 DEF Older
<1>10. l + 1 \in LazyLevels => LevelFiles(l + 1)' = LevelFiles(l + 1)
  <2>1. l + 1 # 0
    BY LevelsOfRocksDB
  <2> QED
    BY <1>2, <2>1
<1>11. IF Cardinality(UNION newest) <= Capacity(l)
       THEN X = S /\ FluidLevel(output) = l
       ELSE /\ l + 1 \in LazyLevels /\ FluidLevel(output) = l + 1
            /\ \/ Cardinality(LevelFiles(l + 1)') <= SmallerRuns /\ X = S
               \/ /\ Cardinality(LevelFiles(l + 1)') > SmallerRuns
                  /\ X = S \cup LevelFiles(l + 1)'
  BY <1>7, <1>10
<1> QED
  BY <1>6, <1>7, <1>8, <1>9, <1>11 DEF Compacts

LEMMA FlushNoMerge ==
  ASSUME TypeOK, NEW t \in FlushThreads, OnFlushCompleted(t)
  PROVE  \A w \in Workers : ~ FinishMerge(w)
<1> SUFFICES ASSUME NEW w \in Workers, FinishMerge(w) PROVE FALSE
  OBVIOUS
<1> QED
  BY ThreadsAssumption DEF OnFlushCompleted, FinishMerge, TypeOK, Threads

LEMMA TasksCompactNext ==
  ASSUME SafeInv, OneFlushThread, Sequential, TreeInv, FilesShaped,
         ViewsOlder, BusyGone, DueType, DueType', DueInPick, TasksCompact,
         [Next]_vars, DueStep
  PROVE  TasksCompact'
<1> SUFFICES ASSUME ~ ub', NEW k \in DOMAIN queue', queue'[k].inputs # {}
             PROVE  TaskCompacts(queue[k])'
  BY DEF TasksCompact
<1>1. ~ ub /\ TypeOK
  BY InvalidForGood DEF SafeInv, BaseInv
<1>2. PICK task : task = queue'[k]
  OBVIOUS
<1> SUFFICES TaskCompacts(task)'
  BY <1>2
<1>3. PICK inputs, output : inputs = task.inputs /\ output = task.output
  OBVIOUS
<1>4. ASSUME queue' = queue
      PROVE  \E l \in LazyLevels :
               Compacts(l, inputs, Widened(inputs, output), output)
  BY <1>1, <1>2, <1>3, <1>4 DEF TasksCompact, TaskCompacts
<1>5. ASSUME NEW l \in LazyLevels, NEW X, X = Widened(inputs, output)',
             Compacts(l, inputs, X, output)'
      PROVE  TaskCompacts(task)'
  <2>1. Compacts(l, inputs, Widened(inputs, output), output)'
    BY <1>5
  <2> QED
    BY <1>3, <2>1 DEF TaskCompacts
<1>6. ASSUME tree' = tree, NEW l \in LazyLevels,
             Compacts(l, inputs, Widened(inputs, output), output)
      PROVE  TaskCompacts(task)'
  <2>1. PICK X : X = Widened(inputs, output)
    OBVIOUS
  <2>2. X = Widened(inputs, output)'
    BY <1>6, <2>1 DEF Widened, LevelsOf
  <2> QED
    BY <1>5, <1>6, <2>1, <2>2, CompactsKept DEF DueStep
<1>7. ASSUME UNCHANGED <<tree, queue>> PROVE TaskCompacts(task)'
  BY <1>4, <1>6, <1>7
<1>8. ASSUME NEW w \in Workers, StartMerge(w) \/ RejectMerge(w)
      PROVE  FALSE
  <2>1. queue' = Tail(queue) /\ queue # <<>> /\ queue \in Seq(Task)
    BY <1>1, <1>8 DEF StartMerge, RejectMerge, TypeOK
  <2>2. Len(queue) <= 1
    BY DEF Sequential
  <2>3. Len(queue) \in Nat /\ DOMAIN queue' = 1 .. Len(queue) - 1
    BY <2>1
  <2> QED
    BY <2>2, <2>3
<1>9. ASSUME NEW w \in Workers, FinishMerge(w) PROVE FALSE
  BY <1>9 DEF FinishMerge, Sequential
<1>10. ASSUME NEW w \in Workers, FailMerge(w) \/ Release(w)
       PROVE  TaskCompacts(task)'
  BY <1>7, <1>10 DEF FailMerge, Release, dbVars
<1>11. ASSUME NEW t \in FlushThreads, OnFlushCompleted(t)
       PROVE  TaskCompacts(task)'
  <2>1. queue' = queue
    BY <1>11 DEF OnFlushCompleted
  <2>2. PICK X : X = Widened(inputs, output)
    OBVIOUS
  <2>3. PICK l \in LazyLevels : Compacts(l, inputs, X, output)
    BY <1>4, <2>1, <2>2
  <2>4. inputs \subseteq AllFiles /\ X \subseteq AllFiles
    BY <1>1, <1>2, <1>3, <2>1, <2>2
       DEF TreeInv, TasksFit, TaskFits, WellPlaced
  <2>5. X = Widened(inputs, output)'
    BY <1>1, <1>11, <2>2, <2>4, WidenedFlush DEF TreeInv
  <2>6. due'[l] >= due[l]
    BY <1>1, <1>11, FlushNoMerge DEF DueStep
  <2>7. Compacts(l, inputs, X, output)'
    BY <1>1, <1>11, <2>3, <2>4, <2>6, CompactsFlush DEF TreeInv
  <2> QED
    BY <1>5, <2>5, <2>7
<1>12. ASSUME NEW t \in Threads, Claim(t) PROVE TaskCompacts(task)'
  <2>1. PICK i \in Slots(t) :
          queue' = Append(<<>>, [inputs |-> pick[t].inputs,
                                 output |-> SlotLevel(pick[t].target, i)])
    BY <1>1, <1>12, ClaimMarksLevel DEF TreeInv
  <2>2. inputs = pick[t].inputs /\ output = SlotLevel(pick[t].target, i)
    BY <1>2, <1>3, <2>1
  <2>3. Compacts(pick[t].lvl, inputs, Widened(inputs, output), output)
    <3>1. inputs # {}
      BY <1>2, <1>3
    <3> QED
      BY <1>1, <1>12, <2>2, <3>1, ClaimedTaskCompacts DEF TreeInv
  <2>4. PICK l \in LazyLevels : l = pick[t].lvl
    BY <1>1 DEF TypeOK, Pick
  <2>5. tree' = tree
    BY <1>12 DEF Claim, dbVars
  <2> QED
    BY <1>6, <2>3, <2>4, <2>5
<1>13. ASSUME NEW t \in Threads,
              \/ BuildBegin(t) \/ BuildEnd(t) \/ Scan(t) \/ Examine(t)
              \/ AddFilesToCompaction(t) \/ Measure(t)
              \/ CheckPermit(t) \/ Crash(t)
       PROVE  TaskCompacts(task)'
  BY <1>7, <1>13 DEF BuildBegin, BuildEnd, Scan, Examine, AddFilesToCompaction,
                     Measure, CheckPermit, Crash, dbVars
<1>14. CASE SealMemtable \/ UNCHANGED vars
  BY <1>7, <1>14 DEF SealMemtable, vars
<1> QED
  BY <1>8, <1>9, <1>10, <1>11, <1>12, <1>13, <1>14
     DEF Next, PickStep, WorkerStep

LEMMA JobsCompactNext ==
  ASSUME TypeOK, Sequential, FilesDisjoint, JobsOfTree, TasksCompact,
         JobsCompact, DueType, DueType', [Next]_vars, DueStep
  PROVE  JobsCompact'
<1> SUFFICES ASSUME ~ ub', NEW w \in Workers, pc'[w] = "merging"
             PROVE  \E l \in LazyLevels, newest \in SUBSET job'[w].inputs :
                      Compacts(l, newest, job[w].inputs, job[w].output)'
  BY DEF JobsCompact, Merging
<1>1. ~ ub
  BY InvalidForGood
<1>2. PICK X, output : X = job'[w].inputs /\ output = job'[w].output
  OBVIOUS
<1> SUFFICES \E l \in LazyLevels, newest \in SUBSET X :
               Compacts(l, newest, X, output)'
  <2>1. PICK l \in LazyLevels, newest \in SUBSET X :
          Compacts(l, newest, X, output)'
    OBVIOUS
  <2>2. Compacts(l, newest, job[w].inputs, job[w].output)'
    BY <1>2, <2>1
  <2> QED
    BY <1>2, <2>1, <2>2
<1>3. ASSUME pc[w] = "merging", job'[w] = job[w]
      PROVE  /\ X \subseteq AllFiles
             /\ \E l \in LazyLevels, newest \in SUBSET X :
                  Compacts(l, newest, X, output)
  <2>1. w \in Merging /\ X = job[w].inputs /\ output = job[w].output
    BY <1>2, <1>3 DEF Merging
  <2>2. X \subseteq AllFiles
    BY <1>3, <2>1 DEF JobsOfTree
  <2> QED
    BY <1>1, <2>1, <2>2 DEF JobsCompact
<1>4. ASSUME pc[w] = "merging", job'[w] = job[w], tree' = tree
      PROVE  \E l \in LazyLevels, newest \in SUBSET X :
               Compacts(l, newest, X, output)'
  <2>1. PICK l \in LazyLevels, newest \in SUBSET X :
          Compacts(l, newest, X, output)
    BY <1>3, <1>4
  <2>2. Compacts(l, newest, X, output)'
    BY <1>4, <2>1, CompactsKept DEF DueStep
  <2> QED
    BY <2>2
<1>5. ASSUME NEW v \in Workers, StartMerge(v)
      PROVE  \E l \in LazyLevels, newest \in SUBSET X :
               Compacts(l, newest, X, output)'
  <2>1. tree' = tree
    BY <1>5 DEF StartMerge
  <2>2. CASE v = w
    <3>1. Head(queue) = queue[1] /\ 1 \in DOMAIN queue /\ Head(queue) \in Task
      BY <1>5 DEF StartMerge, TypeOK
    <3>2. PICK inputs : inputs = queue[1].inputs
      OBVIOUS
    <3>3. X = Widened(inputs, output) /\ output = queue[1].output
      BY <1>2, <1>5, <2>2, <3>1, <3>2 DEF StartMerge, TypeOK, Task
    <3>4. inputs \subseteq X
      BY <3>3 DEF Widened
    <3>5. inputs # {}
      BY <1>5, <3>1, <3>2 DEF StartMerge, Rejected
    <3>6. PICK l \in LazyLevels : Compacts(l, inputs, X, output)
      BY <1>1, <3>1, <3>2, <3>3, <3>5 DEF TasksCompact, TaskCompacts
    <3>7. Compacts(l, inputs, X, output)'
      BY <2>1, <3>6, CompactsKept DEF DueStep
    <3> QED
      BY <3>4, <3>7
  <2>3. CASE v # w
    BY <1>4, <1>5, <2>1, <2>3 DEF StartMerge, TypeOK, Threads
  <2> QED
    BY <2>2, <2>3
<1>6. ASSUME NEW t \in FlushThreads, OnFlushCompleted(t)
      PROVE  \E l \in LazyLevels, newest \in SUBSET X :
               Compacts(l, newest, X, output)'
  <2>1. pc[w] = "merging" /\ job'[w] = job[w]
    BY <1>6 DEF OnFlushCompleted, TypeOK, Threads
  <2>2. PICK l \in LazyLevels, newest \in SUBSET X :
          Compacts(l, newest, X, output)
    BY <1>3, <2>1
  <2>3. X \subseteq AllFiles
    BY <1>3, <2>1
  <2>4. due'[l] >= due[l]
    BY <1>6, FlushNoMerge DEF DueStep
  <2>5. Compacts(l, newest, X, output)'
    BY <1>6, <2>2, <2>3, <2>4, CompactsFlush
  <2> QED
    BY <2>5
<1>7. ASSUME NEW t \in Threads, PickStep(t) \/ Crash(t)
      PROVE  \E l \in LazyLevels, newest \in SUBSET X :
               Compacts(l, newest, X, output)'
  <2>1. tree' = tree /\ job' = job /\ pc[w] = "merging"
    BY <1>7, PickStepMoves DEF TypeOK, Threads
  <2> QED
    BY <1>4, <2>1
<1>8. ASSUME NEW v \in Workers, FinishMerge(v) PROVE FALSE
  BY <1>8 DEF FinishMerge, Sequential, TypeOK, Threads
<1>9. ASSUME NEW v \in Workers, RejectMerge(v) \/ FailMerge(v) \/ Release(v)
      PROVE  \E l \in LazyLevels, newest \in SUBSET X :
               Compacts(l, newest, X, output)'
  <2>1. tree' = tree /\ job'[w] = job[w] /\ pc[w] = "merging"
    BY <1>9 DEF RejectMerge, FailMerge, Release, dbVars, TypeOK, Threads
  <2> QED
    BY <1>4, <2>1
<1>10. CASE SealMemtable \/ UNCHANGED vars
  BY <1>4, <1>10 DEF SealMemtable, vars
<1> QED
  BY <1>5, <1>6, <1>7, <1>8, <1>9, <1>10 DEF Next, WorkerStep

-----------------------------------------------------------------------------
(* The picks.                                                              *)

LEMMA OutputsNext ==
  ASSUME TypeOK, [Next]_vars, Len(queue') <= Len(queue)
  PROVE  Outputs' \subseteq Outputs
<1>1. ASSUME queue' = queue,
             \A w \in Workers :
               pc'[w] = "merging" => pc[w] = "merging" /\ job'[w] = job[w]
      PROVE  Outputs' \subseteq Outputs
  BY <1>1 DEF Outputs, Merging
<1>2. ASSUME NEW w \in Workers, StartMerge(w) \/ RejectMerge(w)
      PROVE  Outputs' \subseteq Outputs
  <2>1. /\ queue \in Seq(Task) /\ queue # <<>> /\ queue' = Tail(queue)
        /\ 1 \in DOMAIN queue /\ Head(queue) = queue[1] /\ queue[1] \in Task
    BY <1>2 DEF StartMerge, RejectMerge, TypeOK
  <2>2. ASSUME NEW k \in DOMAIN queue', queue'[k].inputs # {}
        PROVE  queue'[k].output \in Outputs
    <3>1. PICK n \in DOMAIN queue : queue[n] = queue'[k]
      BY <2>1, <2>2
    <3> QED
      BY <2>2, <3>1 DEF Outputs
  <2>3. \A v \in Workers :
          pc'[v] = "merging" =>
            \/ pc[v] = "merging" /\ job'[v] = job[v]
            \/ job'[v].output = queue[1].output /\ queue[1].inputs # {}
    BY <1>2, <2>1
       DEF StartMerge, RejectMerge, Rejected, TypeOK, Threads, Task, dbVars
  <2>4. \A v \in Merging' : job'[v].output \in Outputs
    BY <2>1, <2>3 DEF Merging, Outputs
  <2> QED
    BY <2>2, <2>4 DEF Outputs
<1>3. ASSUME NEW w \in Workers, FinishMerge(w) \/ FailMerge(w) \/ Release(w)
      PROVE  Outputs' \subseteq Outputs
  BY <1>1, <1>3 DEF FinishMerge, FailMerge, Release, dbVars, TypeOK, Threads
<1>4. ASSUME NEW t \in Threads, PickStep(t) \/ Crash(t)
      PROVE  Outputs' \subseteq Outputs
  <2>1. ~ Claim(t)
    <3>1. SUFFICES ASSUME Claim(t) PROVE FALSE
      OBVIOUS
    <3>2. \E task : queue' = Append(queue, task)
      BY <3>1 DEF Claim
    <3> QED
      BY <3>2 DEF TypeOK
  <2>2. queue' = queue
    BY <1>4, <2>1
       DEF PickStep, BuildBegin, BuildEnd, Scan, Examine, AddFilesToCompaction,
           Measure, CheckPermit, Crash
  <2> QED
    BY <1>1, <1>4, <2>2, PickStepMoves DEF TypeOK, Threads
<1>5. ASSUME NEW t \in FlushThreads, OnFlushCompleted(t)
      PROVE  Outputs' \subseteq Outputs
  BY <1>1, <1>5 DEF OnFlushCompleted, TypeOK, Threads
<1>6. CASE SealMemtable \/ UNCHANGED vars
  BY <1>1, <1>6 DEF SealMemtable, vars
<1> QED
  BY <1>2, <1>3, <1>4, <1>5, <1>6 DEF Next, WorkerStep

LEMMA QueueGrows ==
  ASSUME TypeOK, [Next]_vars, \A t \in Threads : ~ Claim(t)
  PROVE  Len(queue') <= Len(queue)
<1>1. CASE queue' = queue
  BY <1>1 DEF TypeOK
<1>2. ASSUME NEW w \in Workers, StartMerge(w) \/ RejectMerge(w)
      PROVE  Len(queue') <= Len(queue)
  <2>1. queue' = Tail(queue) /\ queue # <<>> /\ queue \in Seq(Task)
    BY <1>2 DEF StartMerge, RejectMerge, TypeOK
  <2> QED
    BY <2>1
<1>3. ASSUME NEW w \in Workers, FinishMerge(w) \/ FailMerge(w) \/ Release(w)
      PROVE  queue' = queue
  BY <1>3 DEF FinishMerge, FailMerge, Release
<1>4. ASSUME NEW t \in Threads, PickStep(t) \/ Crash(t) PROVE queue' = queue
  BY <1>4 DEF PickStep, BuildBegin, BuildEnd, Scan, Examine,
              AddFilesToCompaction, Measure, CheckPermit, Crash
<1>5. ASSUME NEW t \in FlushThreads, OnFlushCompleted(t)
      PROVE  queue' = queue
  BY <1>5 DEF OnFlushCompleted
<1>6. CASE SealMemtable \/ UNCHANGED vars
  BY <1>1, <1>6 DEF SealMemtable, vars
<1> QED
  BY <1>1, <1>2, <1>3, <1>4, <1>5, <1>6 DEF Next, WorkerStep

(* No compaction under way goes beyond the level after the largest.         *)
LEMMA OutputsWithin ==
  ASSUME TypeOK, FilesDisjoint, JobsOfTree, TasksFit, TasksCompact,
         JobsCompact, ~ ub, NEW l, IsLargest(tree, l), NEW o \in Outputs
  PROVE  FluidLevel(o) <= l + 1
<1>1. ASSUME NEW c \in LazyLevels, NEW newest, NEW X, o \in RocksDBLevels,
             Compacts(c, newest, X, o)
      PROVE  FluidLevel(o) <= l + 1
  <2>1. /\ newest # {} /\ newest \subseteq LevelFiles(c)
        /\ FluidLevel(o) \in {c, c + 1}
    BY <1>1, CompactsDown
  <2>2. \A m \in LazyLevels : m > l => LevelFiles(m) = {}
    BY LargestIs DEF LevelFiles
  <2>3. l \in LazyLevels
    BY LargestIs
  <2>4. l \in Nat /\ c \in Nat
    BY <2>3, LevelsOfRocksDB
  <2> QED
    BY <2>1, <2>2, <2>4
<1>2. ASSUME NEW k \in DOMAIN queue, queue[k].inputs # {},
             o = queue[k].output
      PROVE  FluidLevel(o) <= l + 1
  <2>1. TaskFits(queue[k]) /\ TaskCompacts(queue[k])
    BY <1>2 DEF TasksFit, TasksCompact
  <2>2. o \in RocksDBLevels
    BY <1>2, <2>1, LevelsOfRocksDB DEF TaskFits, WellPlaced
  <2>3. PICK X, inputs : X = Widened(inputs, o) /\ inputs = queue[k].inputs
    OBVIOUS
  <2>4. PICK c \in LazyLevels : Compacts(c, inputs, X, o)
    BY <1>2, <2>1, <2>3 DEF TaskCompacts
  <2> QED
    BY <1>1, <2>2, <2>4
<1>3. ASSUME NEW w \in Merging, o = job[w].output
      PROVE  FluidLevel(o) <= l + 1
  <2>1. o \in RocksDBLevels
    BY <1>3 DEF JobsOfTree, Merging
  <2>2. PICK X : X = job[w].inputs
    OBVIOUS
  <2>3. PICK c \in LazyLevels, newest \in SUBSET X : Compacts(c, newest, X, o)
    BY <1>3, <2>2 DEF JobsCompact
  <2> QED
    BY <1>1, <2>1, <2>3
<1> QED
  BY <1>2, <1>3 DEF Outputs

(* A walk goes on, at its level or at the one above.                        *)
WalksOn(t) ==
  /\ pc[t] \in Walking /\ pc'[t] \in Walking
  /\ pick'[t].largest = pick[t].largest
  /\ \/ pick'[t].lvl = pick[t].lvl /\ (pc'[t] = "examine" => pc[t] = "examine")
     \/ pick'[t].lvl = pick[t].lvl - 1 /\ pc'[t] = "examine"

(* What a step makes of the walk of a flush thread.                         *)
LEMMA StepsOfWalk ==
  ASSUME TypeOK, NEW t \in FlushThreads, [Next]_vars
  PROVE  \/ pc'[t] = pc[t] /\ pick'[t] = pick[t]
         \/ pc'[t] \in {"clear", "idle"}
         \/ BuildBegin(t) \/ BuildEnd(t) \/ Scan(t)
         \/ WalksOn(t) /\ tree' = tree
<1> DEFINE Goal == \/ pc'[t] = pc[t] /\ pick'[t] = pick[t]
                   \/ pc'[t] \in {"clear", "idle"}
                   \/ BuildBegin(t) \/ BuildEnd(t) \/ Scan(t)
                   \/ WalksOn(t) /\ tree' = tree
<1>1. t \in Threads /\ t \notin Workers /\ pick[t] \in Pick
  BY ThreadsAssumption DEF Threads, TypeOK
<1>2. ASSUME NEW u \in Threads, NextLevel(u), u = t => pc[u] \in Walking,
             tree' = tree
      PROVE  Goal
  <2>1. CASE u # t
    BY <1>1, <1>2, <2>1 DEF NextLevel, TypeOK
  <2>2. CASE u = t /\ pick[t].lvl = 0
    BY <1>1, <1>2, <2>2 DEF NextLevel, TypeOK
  <2>3. CASE u = t /\ pick[t].lvl # 0
    <3>1. /\ pick' = [pick EXCEPT ![t] = [NoPick EXCEPT !.lvl = pick[t].lvl - 1,
                                                   !.largest = pick[t].largest]]
          /\ pc' = [pc EXCEPT ![t] = "examine"]
      BY <1>2, <2>3 DEF NextLevel
    <3>2. /\ pick'[t].lvl = pick[t].lvl - 1
          /\ pick'[t].largest = pick[t].largest /\ pc'[t] = "examine"
      BY <1>1, <3>1 DEF NoPick, TypeOK
    <3> QED
      BY <1>2, <2>3, <3>2 DEF WalksOn, Walking
  <2> QED
    BY <2>1, <2>2, <2>3
<1>3. ASSUME NEW u \in Threads, u # t, NEW label, pc' = [pc EXCEPT ![u] = label],
             pick' = pick \/ \E p : pick' = [pick EXCEPT ![u] = p]
      PROVE  Goal
  BY <1>1, <1>3 DEF TypeOK
<1>4. ASSUME pc[t] \in Walking, NEW label \in Walking \ {"examine"},
             pc' = [pc EXCEPT ![t] = label], tree' = tree,
             \/ pick' = pick
             \/ \E x : pick' = [pick EXCEPT ![t].inputs = x]
             \/ \E x : pick' = [pick EXCEPT ![t].target = x]
      PROVE  Goal
  <2>1. pick'[t].lvl = pick[t].lvl /\ pick'[t].largest = pick[t].largest
    BY <1>1, <1>4 DEF TypeOK, Pick
  <2>2. pc'[t] = label
    BY <1>1, <1>4 DEF TypeOK
  <2> QED
    BY <1>4, <2>1, <2>2 DEF WalksOn
<1> HIDE DEF Goal
<1>5. ASSUME NEW u \in Threads, BuildBegin(u) \/ BuildEnd(u) PROVE Goal
  <2>1. CASE u = t
    BY <1>5, <2>1 DEF Goal
  <2>2. CASE u # t
    BY <1>3, <1>5, <2>2 DEF BuildBegin, BuildEnd
  <2> QED
    BY <2>1, <2>2
<1>6. ASSUME NEW u \in Threads, Scan(u) PROVE Goal
  <2>1. CASE u = t
    BY <1>6, <2>1 DEF Goal
  <2>2. CASE u # t
    BY <1>3, <1>6, <2>2 DEF Scan
  <2> QED
    BY <2>1, <2>2
<1>7. ASSUME NEW u \in Threads, Examine(u) PROVE Goal
  <2>1. CASE NextLevel(u)
    BY <1>2, <1>7, <2>1 DEF Examine, dbVars, Walking
  <2>2. CASE pc' = [pc EXCEPT ![u] = "collect"] /\ pick' = pick
    <3>1. CASE u = t
      BY <1>4, <1>7, <2>2, <3>1 DEF Examine, dbVars, Walking
    <3>2. CASE u # t
      BY <1>3, <2>2, <3>2
    <3> QED
      BY <3>1, <3>2
  <2> QED
    BY <1>7, <2>1, <2>2 DEF Examine
<1>8. ASSUME NEW u \in Threads, AddFilesToCompaction(u) \/ Measure(u)
      PROVE  Goal
  <2>1. CASE u = t /\ AddFilesToCompaction(u)
    BY <1>4, <2>1 DEF AddFilesToCompaction, dbVars, Walking
  <2>2. CASE u = t /\ Measure(u)
    BY <1>4, <2>2 DEF Measure, dbVars, Walking
  <2>3. CASE u # t /\ AddFilesToCompaction(u)
    BY <1>3, <2>3 DEF AddFilesToCompaction
  <2>4. CASE u # t /\ Measure(u)
    BY <1>3, <2>4 DEF Measure
  <2> QED
    BY <1>8, <2>1, <2>2, <2>3, <2>4
<1>9. ASSUME NEW u \in Threads, CheckPermit(u) PROVE Goal
  <2>1. CASE NextLevel(u)
    BY <1>2, <1>9, <2>1 DEF CheckPermit, dbVars, Walking
  <2>2. CASE pc' = [pc EXCEPT ![u] = "claim"] /\ pick' = pick
    <3>1. CASE u = t
      BY <1>4, <1>9, <2>2, <3>1 DEF CheckPermit, dbVars, Walking
    <3>2. CASE u # t
      BY <1>3, <2>2, <3>2
    <3> QED
      BY <3>1, <3>2
  <2> QED
    BY <1>9, <2>1, <2>2 DEF CheckPermit
<1>10. ASSUME NEW u \in Threads, Claim(u) PROVE Goal
  BY <1>2, <1>10 DEF Claim, dbVars, Walking
<1>11. ASSUME NEW w \in Workers, WorkerStep(w) PROVE Goal
  <2>1. pick' = pick /\ \E label : pc' = [pc EXCEPT ![w] = label]
    BY <1>11 DEF WorkerStep, StartMerge, RejectMerge, FinishMerge, FailMerge,
                 Release
  <2> QED
    BY <1>1, <1>3, <2>1 DEF Threads
<1>12. ASSUME NEW u \in FlushThreads, OnFlushCompleted(u) PROVE Goal
  <2>1. pick' = pick /\ pc' = [pc EXCEPT ![u] = "clear"]
    BY <1>12 DEF OnFlushCompleted
  <2> QED
    BY <1>1, <2>1 DEF Goal, TypeOK
<1>13. ASSUME UNCHANGED <<pc, pick>> PROVE Goal
  BY <1>13 DEF Goal
<1>14. (\E u \in Threads : Crash(u)) \/ SealMemtable \/ UNCHANGED vars
         => UNCHANGED <<pc, pick>>
  BY DEF Crash, SealMemtable, vars
<1> QED
  BY <1>5, <1>6, <1>7, <1>8, <1>9, <1>10, <1>11, <1>12, <1>13, <1>14
     DEF Next, PickStep, Goal

LEMMA PickLagNext ==
  ASSUME SafeInv, OneFlushThread, Sequential, TreeInv, FilesShaped,
         ViewsOlder, BusyGone, ViewLag, PickLag, DueType, DueInPick,
         TasksCompact, JobsCompact, [Next]_vars
  PROVE  PickLag'
<1> SUFFICES ASSUME ~ ub', NEW t \in FlushThreads, pc'[t] \in Walking
             PROVE  /\ pick'[t].lvl <= pick'[t].largest
                    /\ \E k, l \in LazyLevels :
                         /\ IsLargest(CurrentFiles, k)' /\ IsLargest(tree, l)'
                         /\ pick'[t].largest <= k
                         /\ l = pick'[t].largest \/ l = pick'[t].largest + 1
                    /\ \A o \in Outputs' : FluidLevel(o) <= pick'[t].largest + 1
  BY DEF PickLag
<1>1. ~ ub /\ TypeOK /\ MutexInv /\ t \in Threads /\ t \notin Workers
  BY InvalidForGood, ThreadsAssumption DEF SafeInv, BaseInv, Threads
<1>2. /\ FilesDisjoint /\ JobsOfTree /\ TasksFit /\ ViewCurrent /\ PicksFit
  BY DEF TreeInv
<1>3. /\ pick[t].lvl \in Nat /\ pick[t].largest \in Nat
      /\ \A l \in LazyLevels : l \in Nat
  BY <1>1, LevelsOfRocksDB DEF TypeOK, Pick
<1>4. ASSUME Scan(t)
      PROVE  /\ pick'[t].lvl = pick'[t].largest
             /\ \E k, l \in LazyLevels :
                  /\ IsLargest(CurrentFiles, k)' /\ IsLargest(tree, l)'
                  /\ k = pick'[t].largest
                  /\ l = k \/ l = k + 1
             /\ \A o \in Outputs' : FluidLevel(o) <= pick'[t].largest + 1
  <2>1. tree' = tree /\ queue' = queue /\ CurrentFiles' = CurrentFiles
    BY <1>4 DEF Scan, dbVars, viewVars, CurrentFiles
  <2>2. ~ Racing /\ CurrentFiles = lazy.files
    BY <1>4 DEF Scan, Racing, CurrentFiles
  <2>3. PICK k \in LazyLevels :
          /\ IsLargestOccupiedLevel(lazy.files, k)
          /\ pick' = [pick EXCEPT ![t] =
                        [NoPick EXCEPT !.lvl = k, !.largest = k]]
    BY <1>4, <2>2 DEF Scan, ReadableViews
  <2>4. pick'[t].lvl = k /\ pick'[t].largest = k /\ k \in Nat
    BY <1>1, <1>3, <2>3 DEF NoPick, TypeOK
  <2>5. IsLargest(CurrentFiles, k)
    BY <2>2, <2>3 DEF IsLargest
  <2>6. PICK l \in LazyLevels :
          IsLargest(tree, l) /\ (l = k \/ (l = k + 1 /\ Rebuilding))
    <3>1. PICK j \in LazyLevels, l \in LazyLevels :
            /\ IsLargest(CurrentFiles, j) /\ IsLargest(tree, l)
            /\ l = j \/ (l = j + 1 /\ Rebuilding)
      BY <1>1 DEF ViewLag
    <3>2. j = k
      BY <2>5, <3>1, LargestUnique
    <3> QED
      BY <3>1, <3>2
  <2>7. Len(queue') <= Len(queue)
    BY <1>1, <2>1 DEF TypeOK
  <2>8. Outputs' \subseteq Outputs
    BY <1>1, <2>7, OutputsNext
  <2>9. ASSUME NEW o \in Outputs PROVE FluidLevel(o) <= k + 1
    <3>1. CASE l = k
      BY <1>1, <1>2, <2>6, <3>1, OutputsWithin
    <3>2. CASE Rebuilding
      <4>1. PICK v \in Workers : pc[v] = "clear"
        BY <3>2 DEF Rebuilding
      <4>2. queue = <<>> /\ Merging = {}
        BY <4>1 DEF Sequential, Merging
      <4> QED
        BY <4>2 DEF Outputs
    <3> QED
      BY <2>6, <3>1, <3>2
  <2>10. IsLargest(tree, l)' /\ IsLargest(CurrentFiles, k)'
    <3>1. PICK files, view :
            files = tree' /\ view = CurrentFiles' /\ files = tree
            /\ view = CurrentFiles
      BY <2>1
    <3>2. IsLargest(files, l) /\ IsLargest(view, k)
      BY <2>5, <2>6, <3>1
    <3> QED
      BY <3>1, <3>2
  <2> QED
    BY <2>4, <2>6, <2>8, <2>9, <2>10
<1>5. ASSUME pc[t] \in Walking, pick'[t].largest = pick[t].largest,
             pick'[t].lvl = pick[t].lvl \/ pick'[t].lvl = pick[t].lvl - 1
      PROVE  /\ pick'[t].lvl <= pick'[t].largest
             /\ \E k, l \in LazyLevels :
                  /\ IsLargest(CurrentFiles, k)' /\ IsLargest(tree, l)'
                  /\ pick'[t].largest <= k
                  /\ l = pick'[t].largest \/ l = pick'[t].largest + 1
             /\ \A o \in Outputs' : FluidLevel(o) <= pick'[t].largest + 1
  <2>1. /\ pick[t].lvl <= pick[t].largest
        /\ \A o \in Outputs : FluidLevel(o) <= pick[t].largest + 1
    BY <1>1, <1>5 DEF PickLag
  <2>2. PICK k \in LazyLevels, l \in LazyLevels :
          /\ IsLargest(CurrentFiles, k) /\ IsLargest(tree, l)
          /\ pick[t].largest <= k
          /\ l = pick[t].largest \/ l = pick[t].largest + 1
    BY <1>1, <1>5 DEF PickLag
  <2>3. pick'[t].lvl <= pick'[t].largest
    BY <1>3, <1>5, <2>1
  <2>4. \E j \in LazyLevels :
          IsLargest(CurrentFiles, j)' /\ pick[t].largest <= j
    <3>1. CASE \E u \in Threads : BuildBegin(u)
      <4>1. CurrentFiles' = tree
        BY <3>1, ThreadsAssumption DEF BuildBegin, CurrentFiles
      <4>2. IsLargest(CurrentFiles, l)'
        BY <2>2, <4>1 DEF IsLargest, IsLargestOccupiedLevel
      <4> QED
        BY <1>3, <2>2, <4>2
    <3>2. CASE \A u \in Threads : ~ BuildBegin(u)
      <4>1. CurrentFiles' = CurrentFiles
        BY <1>1, <3>2, StepsOfBuild
      <4>2. IsLargest(CurrentFiles, k)'
        BY <2>2, <4>1 DEF IsLargest, IsLargestOccupiedLevel
      <4> QED
        BY <2>2, <4>2
    <3> QED
      BY <3>1, <3>2
  <2>5. \E j \in LazyLevels :
          /\ IsLargest(tree, j)'
          /\ j = pick[t].largest \/ j = pick[t].largest + 1
    <3>1. CASE UNCHANGED <<tree, flushed>>
      <4>1. IsLargest(tree, l)'
        BY <2>2, <3>1
      <4> QED
        BY <2>2, <4>1
    <3>2. ASSUME NEW u \in FlushThreads, OnFlushCompleted(u)
          PROVE  IsLargest(tree, l)'
      BY <1>1, <2>2, <3>2, LargestAfterFlush
    <3>3. ASSUME NEW w \in Workers, FinishMerge(w)
          PROVE  \E j \in LazyLevels :
                   /\ IsLargest(tree, j)'
                   /\ j = pick[t].largest \/ j = pick[t].largest + 1
      <4>1. w \in Merging /\ pc[w] = "merging"
        BY <3>3 DEF FinishMerge, Merging
      <4>2. PICK d : d = FluidLevel(job[w].output)
        OBVIOUS
      <4>3. job[w].output \in RocksDBLevels /\ d <= pick[t].largest + 1
        BY <1>2, <2>1, <4>1, <4>2 DEF JobsOfTree, Outputs
      <4>4. PICK c \in LazyLevels, newest \in SUBSET job[w].inputs :
              Compacts(c, newest, job[w].inputs, job[w].output)
        BY <1>1, <4>1 DEF JobsCompact
      <4>5. PICK j \in LazyLevels :
              IsLargest(tree, j)' /\ (j = l \/ (j = l + 1 /\ d = j))
        BY <1>1, <1>2, <2>2, <3>3, <4>2, <4>3, <4>4, LargestAfterMerge
      <4>6. j = pick[t].largest \/ j = pick[t].largest + 1
        BY <1>3, <2>2, <4>3, <4>5
      <4> QED
        BY <4>5, <4>6
    <3> QED
      BY <1>1, <2>2, <3>1, <3>2, <3>3, StepsOfTree
  <2>6. \A o \in Outputs' : FluidLevel(o) <= pick[t].largest + 1
    <3>1. CASE Len(queue') <= Len(queue)
      BY <1>1, <2>1, <3>1, OutputsNext
    <3>2. ASSUME NEW u \in Threads, Claim(u), NEW o \in Outputs'
          PROVE  FluidLevel(o) <= pick[t].largest + 1
      <4>1. pc[u] = "claim"
        BY <3>2 DEF Claim
      <4>2. u = t
        BY <1>1, <1>2, <1>5, <4>1, ClaimSeesTree DEF Walking
      <4>3. PICK i \in Slots(t) :
              queue' = Append(<<>>, [inputs |-> pick[t].inputs,
                                     output |-> SlotLevel(pick[t].target, i)])
        BY <1>1, <1>2, <3>2, <4>2, ClaimMarksLevel
      <4>4. PICK inputs, output :
              inputs = pick[t].inputs /\ output = SlotLevel(pick[t].target, i)
        OBVIOUS
      <4>5. Merging' = {}
        <5>1. \A v \in Workers : pc[v] = "idle"
          BY <1>1, <1>2, <4>1, <4>2, ClaimSeesTree DEF Threads
        <5>2. \A v \in Workers : pc'[v] = pc[v]
          BY <1>1, <3>2, <4>2, PickStepMoves DEF PickStep, TypeOK, Threads
        <5> QED
          BY <5>1, <5>2 DEF Merging
      <4>6. o = output /\ inputs # {}
        <5>1. /\ DOMAIN queue' = {1} /\ queue'[1].output = output
              /\ queue'[1].inputs = inputs
          BY <4>3, <4>4
        <5> QED
          BY <3>2, <4>5, <5>1 DEF Outputs
      <4>7. FluidLevel(output) \in {pick[t].lvl, pick[t].lvl + 1}
        <5>1. Compacts(pick[t].lvl, inputs, Widened(inputs, output), output)
          BY <1>1, <3>2, <4>2, <4>4, <4>6, ClaimedTaskCompacts DEF TreeInv
        <5> QED
          BY <5>1 DEF Compacts
      <4> QED
        BY <1>3, <2>1, <4>6, <4>7
    <3> QED
      BY <1>1, <3>1, <3>2, QueueGrows
  <2> QED
    BY <1>5, <2>3, <2>4, <2>5, <2>6
<1>6. CASE Scan(t)
  BY <1>3, <1>4, <1>6
<1>7. CASE pc'[t] = pc[t] /\ pick'[t] = pick[t]
  BY <1>5, <1>7
<1>8. CASE WalksOn(t)
  BY <1>5, <1>8 DEF WalksOn
<1>9. ~ BuildBegin(t) /\ ~ BuildEnd(t) /\ pc'[t] \notin {"clear", "idle"}
  BY <1>1 DEF BuildBegin, BuildEnd, Walking, TypeOK
<1> QED
  BY <1>1, <1>6, <1>7, <1>8, <1>9, StepsOfWalk

-----------------------------------------------------------------------------
(* The compactions to expect.                                              *)

(* Only a claim puts a compaction under way, and only one under way has a   *)
(* worker rebuild the view.                                                 *)
LEMMA StepsOfMerges ==
  ASSUME TypeOK, [Next]_vars, \A t \in Threads : ~ Claim(t)
  PROVE  /\ Outstanding' => Outstanding
         /\ Rebuilding' => Rebuilding \/ Outstanding
<1>1. ASSUME queue' = queue,
             \A w \in Workers :
               pc'[w] \in {"merging", "clear"} => pc[w] \in {"merging", pc'[w]}
      PROVE  /\ Outstanding' => Outstanding
             /\ Rebuilding' => Rebuilding \/ Outstanding
  BY <1>1 DEF Outstanding, Rebuilding, Merging
<1>2. ASSUME NEW w \in Workers, StartMerge(w) \/ RejectMerge(w)
      PROVE  Outstanding
  BY <1>2 DEF StartMerge, RejectMerge, Outstanding
<1>3. ASSUME NEW w \in Workers, FinishMerge(w) \/ FailMerge(w)
      PROVE  Outstanding
  BY <1>3 DEF FinishMerge, FailMerge, Outstanding, Merging
<1>4. ASSUME NEW w \in Workers, Release(w)
      PROVE  /\ Outstanding' => Outstanding
             /\ Rebuilding' => Rebuilding \/ Outstanding
  BY <1>1, <1>4 DEF Release, TypeOK
<1>5. ASSUME NEW t \in Threads, PickStep(t) \/ Crash(t)
      PROVE  /\ Outstanding' => Outstanding
             /\ Rebuilding' => Rebuilding \/ Outstanding
  <2>1. queue' = queue
    BY <1>5 DEF PickStep, BuildBegin, BuildEnd, Scan, Examine,
                AddFilesToCompaction, Measure, CheckPermit, Crash
  <2> QED
    BY <1>1, <1>5, <2>1, PickStepMoves DEF TypeOK, Threads
<1>6. ASSUME NEW t \in FlushThreads, OnFlushCompleted(t)
      PROVE  /\ Outstanding' => Outstanding
             /\ Rebuilding' => Rebuilding \/ Outstanding
  BY <1>1, <1>6, ThreadsAssumption DEF OnFlushCompleted, TypeOK, Threads
<1>7. CASE SealMemtable \/ UNCHANGED vars
  BY <1>1, <1>7 DEF SealMemtable, vars
<1> QED
  BY <1>2, <1>3, <1>4, <1>5, <1>6, <1>7 DEF Next, WorkerStep

(* The end of a merge leaves none under way.                                *)
LEMMA MergeEnds ==
  ASSUME TypeOK, Sequential, NEW w \in Workers, FinishMerge(w)
  PROVE  /\ Outstanding /\ ~ Rebuilding /\ ~ Outstanding' /\ Rebuilding'
         /\ \A t \in FlushThreads : pc'[t] = pc[t] /\ pick'[t] = pick[t]
         /\ \A t \in Threads : ~ BuildBegin(t) /\ ~ Claim(t)
<1>1. /\ pc[w] = "merging" /\ queue' = queue /\ pick' = pick
      /\ pc' = [pc EXCEPT ![w] = "clear"]
  BY DEF FinishMerge
<1>2. queue = <<>> /\ \A v \in Workers : v # w => pc[v] = "idle"
  BY <1>1 DEF Sequential
<1>3. /\ Outstanding /\ ~ Rebuilding /\ ~ Outstanding' /\ Rebuilding'
  BY <1>1, <1>2 DEF Outstanding, Rebuilding, Merging, TypeOK, Threads
<1>4. \A t \in FlushThreads : pc'[t] = pc[t] /\ pick'[t] = pick[t]
  BY <1>1, ThreadsAssumption DEF TypeOK, Threads
<1>5. ASSUME NEW t \in Threads, BuildBegin(t) PROVE FALSE
  BY <1>1, <1>5 DEF BuildBegin, TypeOK, Threads
<1>6. ASSUME NEW t \in Threads, Claim(t) PROVE FALSE
  <2>1. queue' # queue
    BY <1>6 DEF Claim, TypeOK
  <2> QED
    BY <1>1, <2>1
<1> QED
  BY <1>3, <1>4, <1>5, <1>6

LEMMA DueInViewNext ==
  ASSUME SafeInv, Sequential, DueType, DueType', DueInView, DueInTree',
         [Next]_vars, DueStep
  PROVE  DueInView'
<1> SUFFICES ASSUME ~ ub', NEW l \in LazyLevels, TooMany(CurrentFiles, l)'
             PROVE  due'[l] >= 1 /\ (Rebuilding' \/ due'[l] >= 2)
  BY DEF DueInView
<1>1. ~ ub /\ TypeOK /\ MutexInv
  BY InvalidForGood DEF SafeInv, BaseInv
<1>2. due[l] \in Int /\ due'[l] \in Int
  BY DEF DueType
<1>3. CASE \E t \in Threads : BuildBegin(t)
  <2>1. CurrentFiles' = tree'
    BY <1>3, ThreadsAssumption DEF BuildBegin, CurrentFiles, dbVars
  <2>2. TooMany(tree, l)'
    BY <2>1 DEF TooMany, IsLargest, IsLargestOccupiedLevel
  <2> QED
    BY <2>2 DEF DueInTree
<1>4. CASE \A t \in Threads : ~ BuildBegin(t)
  <2>1. CurrentFiles' = CurrentFiles /\ (Rebuilding => Rebuilding')
    BY <1>1, <1>4, StepsOfBuild DEF Rebuilding, Threads
  <2>2. TooMany(CurrentFiles, l)
    BY <2>1 DEF TooMany, IsLargest, IsLargestOccupiedLevel
  <2>3. due[l] >= 1 /\ (Rebuilding \/ due[l] >= 2)
    BY <1>1, <2>2 DEF DueInView
  <2>4. CASE \E w \in Workers : FinishMerge(w)
    <3>1. ~ Rebuilding /\ Rebuilding'
      BY <1>1, <2>4, MergeEnds
    <3>2. due'[l] >= due[l] - 1
      BY DEF DueStep
    <3> QED
      BY <1>2, <2>3, <3>1, <3>2
  <2>5. CASE \A w \in Workers : ~ FinishMerge(w)
    <3>1. due'[l] >= due[l]
      BY <2>5 DEF DueStep
    <3> QED
      BY <1>2, <2>1, <2>3, <3>1
  <2> QED
    BY <2>4, <2>5
<1> QED
  BY <1>3, <1>4

LEMMA DueInTreeNext ==
  ASSUME TypeOK, DueInTree, [Next]_vars, DueStep
  PROVE  DueInTree'
<1> SUFFICES ASSUME ~ ub', NEW l \in LazyLevels, TooMany(tree, l)'
             PROVE  due'[l] = 2
  BY DEF DueInTree
<1>1. ~ ub
  BY InvalidForGood
<1>2. CASE tree' = tree
  <2>1. TooMany(tree, l)
    BY <1>2 DEF TooMany, IsLargest, IsLargestOccupiedLevel
  <2> QED
    BY <1>1, <1>2, <2>1 DEF DueInTree, DueStep
<1>3. CASE tree' # tree
  BY <1>3 DEF DueStep
<1> QED
  BY <1>2, <1>3

(* The end of a merge that makes the next level the largest.                *)
LEMMA LargestMoves ==
  ASSUME TypeOK, Sequential, FilesDisjoint, JobsOfTree, JobsCompact, ViewLag,
         DueType, DueInTree, DueStep, ~ ub,
         NEW w \in Workers, FinishMerge(w),
         NEW m \in LazyLevels, IsLargest(tree, m), IsLargest(tree, m + 1)'
  PROVE  /\ IsLargest(CurrentFiles, m)
         /\ Cardinality(LevelFiles(m)') > LargerRuns => due'[m] >= 1
<1>1. w \in Merging /\ ~ Rebuilding /\ m \in Nat
  BY MergeEnds, LevelsOfRocksDB DEF FinishMerge, Merging
<1>2. IsLargest(CurrentFiles, m)
  <2>1. PICK k \in LazyLevels, l \in LazyLevels :
          IsLargest(CurrentFiles, k) /\ IsLargest(tree, l) /\ l = k
    BY <1>1 DEF ViewLag
  <2> QED
    BY <2>1, LargestUnique
<1>3. PICK c \in LazyLevels, newest \in SUBSET job[w].inputs :
        Compacts(c, newest, job[w].inputs, job[w].output)
  BY <1>1 DEF JobsCompact
<1>4. job[w].output \in RocksDBLevels
  BY <1>1 DEF JobsOfTree, Merging
<1>5. FluidLevel(job[w].output) = m + 1
  <2>1. PICK k \in LazyLevels :
          /\ IsLargest(tree, k)'
          /\ k = m \/ (k = m + 1 /\ FluidLevel(job[w].output) = k)
    BY <1>3, <1>4, LargestAfterMerge
  <2>2. PICK view : view = tree'
    OBVIOUS
  <2>3. IsLargest(view, k) /\ IsLargest(view, m + 1)
    BY <2>1, <2>2
  <2>4. k = m + 1
    BY <2>3, LargestUnique
  <2> QED
    BY <1>1, <2>1, <2>4
<1>6. LevelFiles(m)' \subseteq LevelFiles(m)
  BY <1>1, <1>4, <1>5, MergedLevel
<1>7. ASSUME Cardinality(LevelFiles(m)') > LargerRuns PROVE due'[m] >= 1
  <2>1. PICK F : F = LevelFiles(m)'
    OBVIOUS
  <2>2. IsFiniteSet(LevelFiles(m)) /\ F \subseteq LevelFiles(m)
    BY <1>6, <2>1, FilesFinite
  <2>3. /\ Cardinality(F) <= Cardinality(LevelFiles(m))
        /\ Cardinality(F) \in Nat /\ Cardinality(LevelFiles(m)) \in Nat
    BY <2>2, FS_Subset, FS_CardinalityType
  <2>4. Cardinality(LevelFiles(m)) > LargerRuns
    BY <1>7, <2>1, <2>3, ParametersType
  <2>5. TooMany(tree, m)
    BY <2>4 DEF TooMany, Triggered, LevelFiles
  <2>6. due[m] = 2 /\ due'[m] >= due[m] - 1
    BY <2>5 DEF DueInTree, DueStep
  <2> QED
    BY <2>6 DEF DueType
<1> QED
  BY <1>2, <1>7

LEMMA DueBeforeLargestNext ==
  ASSUME SafeInv, OneFlushThread, Sequential, TreeInv, ViewLag, PickLag,
         JobsCompact, DueType, DueType', DueInTree, DueBeforeLargest,
         [Next]_vars, DueStep
  PROVE  DueBeforeLargest'
<1> DEFINE Before(t, l) ==
      \/ pc[t] \in {"fill", "scan"} /\ IsLargest(CurrentFiles, l)
      \/ pc[t] = "examine" /\ pick[t].lvl = l /\ pick[t].largest = l
<1> SUFFICES ASSUME ~ ub', NEW t \in FlushThreads, NEW l \in LazyLevels,
                    Before(t, l)', IsLargest(tree, l + 1)'
             PROVE  /\ ~ Outstanding'
                    /\ Rebuilding' => IsLargest(CurrentFiles, l)'
                    /\ Cardinality(LevelFiles(l)') > LargerRuns => due'[l] >= 1
  BY DEF DueBeforeLargest
<1>1. ~ ub /\ TypeOK /\ MutexInv /\ t \in Threads /\ t \notin Workers
  BY InvalidForGood, ThreadsAssumption DEF SafeInv, BaseInv, Threads
<1>2. FilesDisjoint /\ JobsOfTree /\ ViewCurrent
  BY DEF TreeInv
<1>3. l \in Nat /\ pick[t].lvl \in Nat /\ pick[t].largest \in Nat
  BY <1>1, LevelsOfRocksDB DEF TypeOK, Pick
<1>4. ASSUME Before(t, l), IsLargest(tree, l + 1)
      PROVE  /\ ~ Outstanding
             /\ Rebuilding => IsLargest(CurrentFiles, l)
             /\ Cardinality(LevelFiles(l)) > LargerRuns => due[l] >= 1
  BY <1>1, <1>4 DEF DueBeforeLargest
<1>5. CASE \E u \in Threads : BuildBegin(u)
  <2>1. PICK u \in Threads : BuildBegin(u)
    BY <1>5
  <2>2. /\ CurrentFiles' = tree /\ tree' = tree /\ queue' = queue
        /\ pick' = pick /\ pc' = [pc EXCEPT ![u] = "fill"] /\ pc[u] = "clear"
    BY <2>1, ThreadsAssumption DEF BuildBegin, CurrentFiles, dbVars
  <2>3. IsLargest(tree, l + 1)
    BY <2>2
  <2>4. ~ IsLargest(CurrentFiles, l)'
    <3>1. SUFFICES ASSUME IsLargest(CurrentFiles, l)' PROVE FALSE
      OBVIOUS
    <3>2. IsLargest(tree, l)
      BY <2>2, <3>1 DEF IsLargest, IsLargestOccupiedLevel
    <3> QED
      BY <1>3, <2>3, <3>2, LargestUnique
  <2>5. pc'[t] = "examine" /\ pick'[t].lvl = l /\ pick'[t].largest = l
    BY <2>4
  <2>6. u # t /\ pc[t] = "examine"
    BY <1>1, <2>2, <2>5 DEF TypeOK
  <2>7. Before(t, l)
    BY <2>2, <2>5, <2>6
  <2>8. /\ ~ Outstanding
        /\ Cardinality(LevelFiles(l)) > LargerRuns => due[l] >= 1
    BY <1>4, <2>3, <2>7
  <2>9. ~ Outstanding'
    BY <1>1, <2>1, <2>2, <2>8 DEF Outstanding, Merging, TypeOK
  <2>10. u \in Workers
    <3>1. u \notin FlushThreads
      <4>1. PICK f : FlushThreads = {f}
        BY ThreadsAssumption, FS_Singleton DEF OneFlushThread
      <4> QED
        BY <2>6, <4>1
    <3> QED
      BY <3>1 DEF Threads
  <2>11. ~ Rebuilding'
    <3>1. \A v \in Workers : v # u => pc[v] = "idle"
      BY <2>2, <2>10 DEF Sequential
    <3> QED
      BY <1>1, <2>2, <2>10, <3>1 DEF Rebuilding, TypeOK
  <2>12. Cardinality(LevelFiles(l)') > LargerRuns => due'[l] >= 1
    BY <2>2, <2>8 DEF DueStep, LevelFiles
  <2> QED
    BY <2>9, <2>11, <2>12
<1>6. CASE \A u \in Threads : ~ BuildBegin(u)
  <2>1. CurrentFiles' = CurrentFiles
    BY <1>1, <1>6, StepsOfBuild
  <2>2. IsLargest(CurrentFiles, l)' <=> IsLargest(CurrentFiles, l)
    BY <2>1 DEF IsLargest, IsLargestOccupiedLevel
  <2>3. Before(t, l)
    <3>1. CASE pc'[t] = pc[t] /\ pick'[t] = pick[t]
      BY <2>2, <3>1
    <3>2. CASE BuildEnd(t)
      <4>1. pc[t] = "fill" /\ pc'[t] = "scan"
        BY <1>1, <3>2 DEF BuildEnd, TypeOK
      <4> QED
        BY <2>2, <4>1
    <3>3. CASE Scan(t)
      <4>1. ~ Racing /\ pc[t] = "scan" /\ pc'[t] = "examine"
        BY <1>1, <3>3 DEF Scan, TypeOK
      <4>2. PICK k \in LazyLevels :
              /\ IsLargestOccupiedLevel(lazy.files, k)
              /\ pick' = [pick EXCEPT ![t] =
                            [NoPick EXCEPT !.lvl = k, !.largest = k]]
        BY <3>3, <4>1 DEF Scan, ReadableViews
      <4>3. k = l
        BY <1>1, <4>1, <4>2 DEF NoPick, TypeOK
      <4>4. IsLargest(CurrentFiles, l)
        BY <4>1, <4>2, <4>3 DEF Racing, CurrentFiles, IsLargest
      <4> QED
        BY <4>1, <4>4
    <3>4. CASE WalksOn(t)
      <4>1. pick[t].lvl <= pick[t].largest
        BY <1>1, <3>4 DEF PickLag, WalksOn
      <4>2. /\ pc'[t] = "examine" /\ pick'[t].lvl = l /\ pick'[t].largest = l
        BY <3>4 DEF WalksOn, Walking
      <4>3. pick[t].largest = l /\ pick'[t].lvl # pick[t].lvl - 1
        BY <1>3, <3>4, <4>1, <4>2 DEF WalksOn
      <4>4. pc[t] = "examine" /\ pick[t].lvl = l
        BY <3>4, <4>2, <4>3 DEF WalksOn
      <4> QED
        BY <4>3, <4>4
    <3> HIDE DEF Before
    <3>5. pc'[t] \notin {"clear", "idle"} /\ ~ BuildBegin(t)
      BY <1>1, <1>6 DEF Before
    <3> QED
      BY <1>1, <3>1, <3>2, <3>3, <3>4, <3>5, StepsOfWalk
  <2>4. CASE \E w \in Workers : FinishMerge(w)
    <3>1. PICK w \in Workers : FinishMerge(w)
      BY <2>4
    <3>2. w \in Merging
      BY <3>1 DEF FinishMerge, Merging
    <3>3. Outstanding /\ ~ Outstanding'
      BY <1>1, <3>1, MergeEnds
    <3>4. PICK m \in LazyLevels : IsLargest(tree, m)
      BY <1>1 DEF ViewLag
    <3>5. PICK c \in LazyLevels, newest \in SUBSET job[w].inputs :
            Compacts(c, newest, job[w].inputs, job[w].output)
      BY <1>1, <3>2 DEF JobsCompact
    <3>6. job[w].output \in RocksDBLevels
      BY <1>2, <3>2 DEF JobsOfTree, Merging
    <3>7. PICK k \in LazyLevels : IsLargest(tree, k)' /\ (k = m \/ k = m + 1)
      BY <1>1, <1>2, <3>1, <3>4, <3>5, <3>6, LargestAfterMerge
    <3>8. k = l + 1
      <4>1. PICK view : view = tree'
        OBVIOUS
      <4>2. IsLargest(view, k) /\ IsLargest(view, l + 1)
        BY <3>7, <4>1
      <4> QED
        BY <4>2, LargestUnique
    <3>9. m # l + 1
      <4>1. SUFFICES ASSUME m = l + 1 PROVE FALSE
        OBVIOUS
      <4>2. ~ Outstanding
        BY <1>4, <2>3, <3>4, <4>1
      <4> QED
        BY <3>3, <4>2
    <3>10. m = l
      <4>1. m \in Nat /\ (k = m \/ k = m + 1)
        BY <3>7, LevelsOfRocksDB
      <4> QED
        BY <1>3, <3>8, <3>9, <4>1
    <3>11. /\ IsLargest(CurrentFiles, l)
           /\ Cardinality(LevelFiles(l)') > LargerRuns => due'[l] >= 1
      BY <1>1, <1>2, <3>1, <3>4, <3>10, LargestMoves
    <3> QED
      BY <2>2, <3>3, <3>11
  <2>5. CASE \A w \in Workers : ~ FinishMerge(w)
    <3>1. CASE tree' = tree
      <4>1. IsLargest(tree, l + 1)
        BY <3>1
      <4>2. /\ ~ Outstanding
            /\ Rebuilding => IsLargest(CurrentFiles, l)
            /\ Cardinality(LevelFiles(l)) > LargerRuns => due[l] >= 1
        BY <1>4, <2>3, <4>1
      <4>3. \A u \in Threads : ~ Claim(u)
        <5>1. SUFFICES ASSUME NEW u \in Threads, Claim(u) PROVE FALSE
          OBVIOUS
        <5>2. pc[u] = "claim" /\ NextLevel(u)
          BY <5>1 DEF Claim
        <5>3. u # t => pc[t] = "idle"
          BY <1>1, <1>2, <5>2, ClaimSeesTree
        <5> QED
          BY <2>3, <5>2, <5>3
      <4>4. ~ Outstanding' /\ (Rebuilding' => Rebuilding)
        BY <1>1, <4>2, <4>3, StepsOfMerges
      <4>5. Cardinality(LevelFiles(l)') > LargerRuns => due'[l] >= 1
        BY <3>1, <4>2 DEF DueStep, LevelFiles
      <4> QED
        BY <2>2, <4>2, <4>4, <4>5
    <3>2. ASSUME NEW u \in FlushThreads, OnFlushCompleted(u) PROVE FALSE
      <4>1. PICK f : FlushThreads = {f}
        BY ThreadsAssumption, FS_Singleton DEF OneFlushThread
      <4>2. pc'[t] = "clear"
        BY <1>1, <3>2, <4>1 DEF OnFlushCompleted, TypeOK
      <4> QED
        BY <4>2
    <3> QED
      BY <1>1, <2>5, <3>1, <3>2, StepsOfTree
  <2> QED
    BY <2>4, <2>5
<1> QED
  BY <1>5, <1>6

(* What PickCompaction counts in a level is no more than the level has.     *)
LEMMA TriggeredHasTooMany ==
  ASSUME NEW files,
         \A L \in 1 .. NumLevels - 1 : \A f, g \in files[L] : f = g,
         NEW l \in LazyLevels, IsFiniteSet(FilesOf(files, l)), NEW busy,
         NEW largest, Triggered(l, largest, NumLiveRuns(files, busy, l))
  PROVE  Triggered(l, largest, Cardinality(FilesOf(files, l)))
<1>1. RunsOf(files, l) = {{f} : f \in FilesOf(files, l)}
  BY RunsAreFiles
<1>2. {run \in RunsOf(files, l) : run \cap busy = {}}
        = {{f} : f \in FilesOf(files, l) \ busy}
  BY <1>1
<1>3. IsFiniteSet(FilesOf(files, l) \ busy)
  BY FS_Difference
<1>4. NumLiveRuns(files, busy, l) = Cardinality(FilesOf(files, l) \ busy)
  BY <1>2, <1>3, CountSingletons DEF NumLiveRuns
<1>5. /\ Cardinality(FilesOf(files, l) \ busy) <= Cardinality(FilesOf(files, l))
      /\ Cardinality(FilesOf(files, l) \ busy) \in Nat
      /\ Cardinality(FilesOf(files, l)) \in Nat
  <2>1. FilesOf(files, l) \ busy \subseteq FilesOf(files, l)
    OBVIOUS
  <2> QED
    BY <1>3, <2>1, FS_Subset, FS_CardinalityType
<1> QED
  BY <1>4, <1>5, ParametersType DEF Triggered

(* A walk collects from a level that the view shows with too many runs, or  *)
(* that was the largest when it began.                                      *)
LEMMA CollectsDue ==
  ASSUME SafeInv, OneFlushThread, Sequential, TreeInv, FilesShaped, ViewShaped,
         ViewLag, PickLag, DueType, DueInView, DueBeforeLargest, ~ ub,
         NEW t \in FlushThreads, Examine(t), ~ ub', pc'[t] = "collect"
  PROVE  due[pick[t].lvl] >= 1 /\ (Outstanding => due[pick[t].lvl] >= 2)
<1>1. /\ TypeOK /\ t \in Threads /\ pc[t] = "examine" /\ pick[t] \in Pick
      /\ ViewCurrent
  BY DEF SafeInv, BaseInv, TypeOK, Threads, Examine, TreeInv
<1>2. PICK l \in LazyLevels, p \in LazyLevels :
        l = pick[t].lvl /\ p = pick[t].largest
  BY <1>1 DEF Pick
<1>3. l \in Nat /\ p \in Nat /\ due[l] \in Int
  BY LevelsOfRocksDB DEF DueType
<1>4. ~ Racing /\ mutex = NoThread /\ lazy.files = CurrentFiles
  BY DEF Examine, Racing, CurrentFiles
<1>5. Triggered(l, p, NumLiveRuns(lazy.files, lazy.busy, l))
  <2>1. ~ NextLevel(t)
    BY <1>1 DEF NextLevel, TypeOK
  <2> QED
    BY <1>2, <1>4, <2>1 DEF Examine, ReadableViews
<1>6. PICK n : n = Cardinality(FilesOf(CurrentFiles, l))
  OBVIOUS
<1>7. Triggered(l, p, n)
  <2>1. /\ \A L \in 1 .. NumLevels - 1 :
             \A f, g \in lazy.files[L] : f = g
        /\ IsFiniteSet(FilesOf(lazy.files, l))
    BY <1>4 DEF ViewShaped
  <2> QED
    BY <1>1, <1>4, <1>5, <1>6, <2>1, TriggeredHasTooMany
<1>8. /\ l <= p
      /\ \E k, m \in LazyLevels :
           /\ IsLargest(CurrentFiles, k) /\ IsLargest(tree, m)
           /\ p <= k /\ (m = p \/ m = p + 1)
  BY <1>1, <1>2 DEF PickLag, Walking
<1>9. PICK k \in LazyLevels, m \in LazyLevels :
        /\ IsLargest(CurrentFiles, k) /\ IsLargest(tree, m)
        /\ p <= k /\ (m = p \/ m = p + 1)
  BY <1>8
<1>10. k \in Nat /\ m \in Nat
  BY LevelsOfRocksDB
<1>11. m = k \/ (m = k + 1 /\ Rebuilding)
  <2>1. PICK j \in LazyLevels, i \in LazyLevels :
          /\ IsLargest(CurrentFiles, j) /\ IsLargest(tree, i)
          /\ i = j \/ (i = j + 1 /\ Rebuilding)
    BY DEF ViewLag
  <2>2. j = k /\ i = m
    BY <1>9, <2>1, LargestUnique
  <2> QED
    BY <2>1, <2>2
<1>12. Rebuilding => ~ Outstanding
  BY DEF Rebuilding, Outstanding, Merging, Sequential
<1>13. ASSUME Triggered(l, k, n)
       PROVE  due[l] >= 1 /\ (Outstanding => due[l] >= 2)
  <2>1. TooMany(CurrentFiles, l)
    BY <1>6, <1>9, <1>13 DEF TooMany
  <2> QED
    BY <1>12, <2>1 DEF DueInView
<1>14. CASE l < p
  <2>1. Triggered(l, k, n)
    BY <1>3, <1>7, <1>9, <1>10, <1>14 DEF Triggered
  <2> QED
    BY <1>2, <1>13, <2>1
<1>15. CASE l = p /\ k = p
  BY <1>2, <1>7, <1>13, <1>15
<1>16. CASE l = p /\ k # p
  <2>1. k = p + 1 /\ m = l + 1
    BY <1>3, <1>9, <1>10, <1>11, <1>16
  <2>2. /\ ~ Outstanding
        /\ Rebuilding => IsLargest(CurrentFiles, l)
        /\ Cardinality(LevelFiles(l)) > LargerRuns => due[l] >= 1
    BY <1>1, <1>2, <1>9, <1>16, <2>1 DEF DueBeforeLargest
  <2>3. ~ Rebuilding
    BY <1>3, <1>9, <1>16, <2>2, LargestUnique
  <2>4. CurrentFiles = tree
    <3>1. PICK f : FlushThreads = {f}
      BY ThreadsAssumption, FS_Singleton DEF OneFlushThread
    <3>2. \A u \in Threads : pc[u] # "clear"
      BY <1>1, <2>3, <3>1 DEF Rebuilding, Threads
    <3> QED
      BY <1>1, <3>2 DEF ViewCurrent
  <2>5. Cardinality(LevelFiles(l)) > LargerRuns
    BY <1>3, <1>6, <1>7, <1>16, <2>4 DEF Triggered, LevelFiles
  <2> QED
    BY <1>2, <2>2, <2>5
<1> QED
  BY <1>3, <1>8, <1>14, <1>15, <1>16

LEMMA ExamineBegins ==
  ASSUME TypeOK, NEW t \in FlushThreads, [Next]_vars, pc[t] = "examine",
         pc'[t] \in Walking \ {"examine"}
  PROVE  Examine(t) /\ pc'[t] = "collect"
<1>1. t \in Threads /\ t \notin Workers
  BY ThreadsAssumption DEF Threads
<1>2. pc'[t] # pc[t]
  OBVIOUS
<1>3. ASSUME NEW w \in Workers, WorkerStep(w) PROVE FALSE
  BY <1>1, <1>2, <1>3 DEF WorkerStep, StartMerge, RejectMerge, FinishMerge,
                          FailMerge, Release, TypeOK
<1>4. ASSUME NEW u \in FlushThreads, OnFlushCompleted(u) PROVE FALSE
  BY <1>1, <1>2, <1>4 DEF OnFlushCompleted, TypeOK
<1>5. ASSUME SealMemtable \/ UNCHANGED vars PROVE FALSE
  BY <1>2, <1>5 DEF SealMemtable, vars
<1>6. ASSUME NEW u \in Threads, PickStep(u) \/ Crash(u) PROVE Examine(t)
  <2>1. u = t
    BY <1>1, <1>2, <1>6, PickStepMoves DEF TypeOK
  <2> QED
    BY <1>2, <1>6, <2>1 DEF PickStep, BuildBegin, BuildEnd, Scan,
         AddFilesToCompaction, Measure, CheckPermit, Claim, Crash
<1>7. Examine(t)
  BY <1>3, <1>4, <1>5, <1>6 DEF Next
<1>8. pc'[t] = "collect"
  BY <1>1, <1>7 DEF Examine, NextLevel, TypeOK, Walking
<1> QED
  BY <1>7, <1>8

LEMMA DueInPickNext ==
  ASSUME SafeInv, OneFlushThread, Sequential, TreeInv, FilesShaped, ViewShaped,
         ViewLag, PickLag, DueType, DueType', DueInView, DueBeforeLargest,
         DueInPick, [Next]_vars, DueStep
  PROVE  DueInPick'
<1> SUFFICES ASSUME ~ ub', NEW t \in FlushThreads,
                    pc'[t] \in Walking \ {"examine"}
             PROVE  /\ due'[pick'[t].lvl] >= 1
                    /\ Outstanding' => due'[pick'[t].lvl] >= 2
  BY DEF DueInPick
<1>1. ~ ub /\ TypeOK /\ t \in Threads /\ t \notin Workers
  BY InvalidForGood, ThreadsAssumption DEF SafeInv, BaseInv, Threads
<1>2. PICK l \in LazyLevels : l = pick[t].lvl
  BY <1>1 DEF TypeOK, Pick
<1>3. due[l] \in Int /\ due'[l] \in Int
  BY DEF DueType
<1>4. \A u \in Threads : ~ Claim(u)
  <2>1. SUFFICES ASSUME NEW u \in Threads, Claim(u) PROVE FALSE
    OBVIOUS
  <2>2. pc[u] = "claim" /\ NextLevel(u)
    BY <2>1 DEF Claim
  <2>3. u # t => pc[t] = "idle"
    BY <1>1, <2>2, ClaimSeesTree DEF TreeInv
  <2> QED
    BY <1>1, <2>2, <2>3 DEF NextLevel, TypeOK, Walking
<1>5. Outstanding' => Outstanding
  BY <1>1, <1>4, StepsOfMerges
<1>6. ASSUME due[l] >= 1, Outstanding => due[l] >= 2, pick'[t].lvl = l
      PROVE  /\ due'[pick'[t].lvl] >= 1
             /\ Outstanding' => due'[pick'[t].lvl] >= 2
  <2>1. CASE \E w \in Workers : FinishMerge(w)
    <3>1. Outstanding /\ ~ Outstanding'
      BY <1>1, <2>1, MergeEnds
    <3>2. due'[l] >= due[l] - 1
      BY DEF DueStep
    <3> QED
      BY <1>3, <1>6, <3>1, <3>2
  <2>2. CASE \A w \in Workers : ~ FinishMerge(w)
    <3>1. due'[l] >= due[l]
      BY <2>2 DEF DueStep
    <3> QED
      BY <1>3, <1>5, <1>6, <3>1
  <2> QED
    BY <2>1, <2>2
<1>7. CASE Examine(t) /\ pc'[t] = "collect"
  <2>1. pick'[t].lvl = l
    <3>1. pick' = pick
      BY <1>1, <1>7 DEF Examine, NextLevel, TypeOK
    <3> QED
      BY <1>2, <3>1
  <2> QED
    BY <1>1, <1>2, <1>6, <1>7, <2>1, CollectsDue
<1>8. CASE pc[t] \in Walking \ {"examine"} /\ pick'[t].lvl = pick[t].lvl
  BY <1>1, <1>2, <1>6, <1>8 DEF DueInPick
<1>9. CASE pc'[t] = pc[t] /\ pick'[t] = pick[t]
  BY <1>8, <1>9
<1>10. CASE WalksOn(t) /\ pc[t] # "examine"
  BY <1>8, <1>10 DEF WalksOn, Walking
<1>11. CASE WalksOn(t) /\ pc[t] = "examine"
  BY <1>1, <1>7, <1>11, ExamineBegins DEF WalksOn
<1>12. ~ BuildBegin(t) /\ ~ BuildEnd(t) /\ ~ Scan(t)
       /\ pc'[t] \notin {"clear", "idle"}
  BY <1>1 DEF BuildBegin, BuildEnd, Scan, Walking, TypeOK
<1> QED
  BY <1>1, <1>9, <1>10, <1>11, <1>12, StepsOfWalk

-----------------------------------------------------------------------------
(* The theorems.                                                           *)

LEMMA TierInit == TreeInit => TierInv
<1> SUFFICES ASSUME TreeInit PROVE TierInv
  OBVIOUS
<1>1. /\ lazy = EmptyView /\ snapshot = EmptyView /\ tree = EmptyTree
      /\ queue = <<>> /\ mutex = NoThread /\ flushed = 0
      /\ \A t \in Threads : pc[t] = "idle"
      /\ \A L \in RocksDBLevels : tree[L] = {}
      /\ due = [lvl \in LazyLevels |-> 0]
  BY DEF TreeInit, Init, EmptyTree
<1>2. \A lvl : LevelFiles(lvl) = {}
  BY <1>1, LevelFilesAre DEF LevelFiles
<1>3. AllFiles = {}
  BY <1>1 DEF AllFiles
<1>4. Covered
  BY <1>1, <1>3 DEF Covered
<1>5. FilesShaped
  BY <1>1, LevelsOfRocksDB DEF FilesShaped, Older
<1>6. ViewsOlder /\ BusyFlushed
  BY <1>1 DEF ViewsOlder, BusyFlushed, BusyIsOlder, Older, EmptyView
<1>7. BusyGone
  BY <1>3 DEF BusyGone
<1>8. ViewLag
  <2>1. CurrentFiles = tree
    BY <1>1 DEF CurrentFiles, EmptyView
  <2>2. IsLargest(tree, 0)
    BY <1>2, LargestIs, LevelsOfRocksDB DEF LevelFiles
  <2> QED
    BY <2>1, <2>2, LevelsOfRocksDB DEF ViewLag
<1>9. ViewShaped
  <2>1. CurrentFiles = tree
    BY <1>1 DEF CurrentFiles, EmptyView
  <2> QED
    BY <1>1, <1>2, <2>1, LevelsOfRocksDB, FS_EmptySet
       DEF ViewShaped, LevelFiles
<1>10. PickLag /\ DueInPick
  BY <1>1 DEF PickLag, DueInPick, Threads, Walking
<1>11. DueType /\ DueInTree /\ DueInView /\ DueBeforeLargest
  <2>1. CurrentFiles = tree
    BY <1>1 DEF CurrentFiles, EmptyView
  <2>2. \A l \in LazyLevels : ~ TooMany(tree, l)
    <3>1. Cardinality({}) = 0
      BY FS_EmptySet
    <3>2. \A l \in LazyLevels : FilesOf(tree, l) = {}
      BY <1>2 DEF LevelFiles
    <3> QED
      BY <3>1, <3>2, ParametersType DEF TooMany, Triggered
  <2>3. DueType
    BY <1>1 DEF DueType
  <2>4. DueBeforeLargest
    BY <1>1 DEF DueBeforeLargest, Threads
  <2>5. DueInTree
    BY <2>2 DEF DueInTree
  <2>6. DueInView
    BY <2>1, <2>2 DEF DueInView
  <2> QED
    BY <2>3, <2>4, <2>5, <2>6
<1>12. TasksCompact /\ JobsCompact
  BY <1>1 DEF TasksCompact, JobsCompact, Merging, Threads
<1> QED
  BY <1>4, <1>5, <1>6, <1>7, <1>8, <1>9, <1>10, <1>11, <1>12
     DEF TierInv, DueInv

(* With one flush thread, every task that waits for a worker and every      *)
(* merge is a compaction that its level can expect: the level has, or had   *)
(* when the view was last built, too many runs, has not been compacted      *)
(* twice since, and what is taken of it are its oldest runs.                *)
THEOREM TierInvariant ==
  ASSUME OneFlushThread
  PROVE  TreeSpec => []TierInv
<1>1. SafeInv /\ TreeInv /\ TierInv /\ [TreeNext]_treeVars => TierInv'
  <2> SUFFICES ASSUME SafeInv, TreeInv, TierInv, [TreeNext]_treeVars
               PROVE  TierInv'
    OBVIOUS
  <2>1. Sequential /\ TypeOK /\ [Next]_vars
    BY SafeIsSequential DEF SafeInv, BaseInv, TreeNext, treeVars, vars
  <2>2. /\ FilesDisjoint /\ JobsOfTree /\ IdleWithoutJob /\ ViewCurrent
        /\ PicksFit /\ JobsFit
    BY DEF TreeInv
  <2>3. /\ Covered /\ FilesShaped
        /\ ViewsOlder /\ BusyFlushed /\ BusyGone
        /\ ViewLag /\ ViewShaped /\ PickLag
        /\ DueType /\ DueInTree /\ DueInView /\ DueBeforeLargest /\ DueInPick
        /\ TasksCompact /\ JobsCompact
    BY DEF TierInv, DueInv
  <2>4. Covered' /\ FilesShaped'
    BY <2>1, <2>2, <2>3, CoveredNext, FilesShapedNext
  <2>5. ViewsOlder' /\ BusyFlushed' /\ BusyGone'
    BY <2>1, <2>2, <2>3, ViewsOlderNext, BusyFlushedNext, BusyGoneNext
  <2>6. DueType'
    BY <2>3, DueTypeNext
  <2>7. ViewLag' /\ ViewShaped' /\ PickLag'
    BY <2>1, <2>2, <2>3, ViewLagNext, ViewShapedNext, PickLagNext
  <2>8. CASE ub'
    BY <2>4, <2>5, <2>6, <2>7, <2>8
       DEF TierInv, DueInv, DueInTree, DueInView, DueBeforeLargest, DueInPick,
           TasksCompact, JobsCompact
  <2>9. CASE ~ ub'
    <3>1. ~ ub
      BY <2>1, <2>9, InvalidForGood
    <3>2. DueStep
      BY <2>1, <2>3, <2>4, <2>9, <3>1, DueSteps
    <3>3. DueInTree' /\ DueBeforeLargest' /\ DueInPick'
      BY <2>1, <2>2, <2>3, <2>6, <3>2, DueInTreeNext, DueBeforeLargestNext,
         DueInPickNext
    <3>4. DueInView'
      BY <2>1, <2>3, <2>6, <3>2, <3>3, DueInViewNext
    <3>5. TasksCompact' /\ JobsCompact'
      BY <2>1, <2>2, <2>3, <2>6, <3>2, TasksCompactNext, JobsCompactNext
    <3> QED
      BY <2>4, <2>5, <2>6, <2>7, <3>3, <3>4, <3>5 DEF TierInv, DueInv
  <2> QED
    BY <2>8, <2>9
<1>2. TreeInit => Init
  BY DEF TreeInit
<1>3. [TreeNext]_treeVars => [Next]_vars
  BY DEF TreeNext, treeVars, vars
<1> QED
  BY <1>1, <1>2, <1>3, TierInit, SafeInvariant, TreeInvariant, PTL
     DEF Spec, TreeSpec

LEMMA FlushRefines ==
  ASSUME TypeOK, Covered, NEW t \in FlushThreads, OnFlushCompleted(t),
         Levels = [lvl \in LazyLevels |-> LevelFiles(lvl)],
         Levels' = [lvl \in LazyLevels |-> LevelFiles(lvl)']
  PROVE  Tree!Flush
<1>1. PICK n, r, s : n = flushed + 1 /\ r = Levels /\ s = Levels'
  OBVIOUS
<1>2. /\ r = [lvl \in LazyLevels |-> LevelFiles(lvl)]
      /\ s = [lvl \in LazyLevels |-> LevelFiles(lvl)']
  BY <1>1
<1>3. \A lvl \in LazyLevels :
        LevelFiles(lvl)' = LevelFiles(lvl) \cup (IF lvl = 0 THEN {{n}} ELSE {})
  BY <1>1, FlushedLevel
<1>4. s = [r EXCEPT ![0] = @ \cup {{n}}]
  <2>1. s = [lvl \in LazyLevels |->
               LevelFiles(lvl) \cup (IF lvl = 0 THEN {{n}} ELSE {})]
    BY <1>2, <1>3
  <2>2. /\ 0 \in LazyLevels /\ s[0] = r[0] \cup {{n}}
        /\ \A lvl \in LazyLevels : lvl # 0 => s[lvl] = r[lvl]
    BY <1>2, <2>1, LevelsOfRocksDB
  <2> QED
    BY <1>2, <2>1, <2>2
<1>5. UNION UNION {r[l] : l \in LazyLevels} = 1 .. flushed
  <2>1. UNION {r[l] : l \in LazyLevels} = AllFiles
    BY <1>2, FilesAreOfLevels
  <2> QED
    BY <2>1 DEF Covered
<1>6. Cardinality(1 .. flushed) = flushed
  <2>1. flushed \in Nat /\ 1 \in Int /\ flushed \in Int
    BY TreeType
  <2>2. Cardinality(1 .. flushed)
          = IF 1 > flushed THEN 0 ELSE flushed - 1 + 1
    BY <2>1, FS_Interval
  <2> QED
    BY <2>1, <2>2
<1>7. Tree!Flushed = 1 .. flushed
  BY <1>1, <1>5 DEF Tree!Flushed
<1>8. s = [r EXCEPT ![0] = @ \cup {{Cardinality(Tree!Flushed) + 1}}]
  BY <1>1, <1>4, <1>6, <1>7
<1>9. Levels' = [Levels EXCEPT ![0] = @ \cup {{Tree!Cardinality(Tree!Flushed) + 1}}]
  BY <1>1, <1>8, TreeCardinality
<1> QED
  BY <1>9 DEF Tree!Flush

(* Seen from the levels: what the end of a merge does to the runs.          *)
LEMMA MergedRuns ==
  ASSUME TypeOK, FilesDisjoint, NEW w \in Workers, FinishMerge(w),
         job[w].output \in RocksDBLevels,
         NEW c \in LazyLevels, NEW newest,
         Compacts(c, newest, job[w].inputs, job[w].output),
         Levels = [lvl \in LazyLevels |-> LevelFiles(lvl)],
         Levels' = [lvl \in LazyLevels |-> LevelFiles(lvl)']
  PROVE  LET S == job[w].inputs \cap Levels[c]
         IN  IF Cardinality(UNION newest) <= Capacity(c)
             THEN Levels' = [Levels EXCEPT ![c] = (@ \ S) \cup {UNION S}]
             ELSE /\ c + 1 \in LazyLevels
                  /\ \/ /\ Cardinality(Levels[c + 1]) <= SmallerRuns
                        /\ Levels' = [Levels EXCEPT ![c] = @ \ S,
                                               ![c + 1] = @ \cup {UNION S}]
                     \/ /\ Cardinality(Levels[c + 1]) > SmallerRuns
                        /\ Levels' = [Levels EXCEPT
                                      ![c] = @ \ S,
                                      ![c + 1] = {(UNION @) \cup UNION S}]
<1>1. PICK r, s, X, d, S, F, G :
        /\ r = Levels /\ s = Levels'
        /\ X = job[w].inputs /\ d = FluidLevel(job[w].output)
        /\ S = X \cap r[c] /\ F = r[c] /\ G = LevelFiles(c + 1)
  OBVIOUS
<1>2. /\ r = [lvl \in LazyLevels |-> LevelFiles(lvl)]
      /\ \A m \in LazyLevels : r[m] = LevelFiles(m)
      /\ F = LevelFiles(c)
  BY <1>1
<1>3. ASSUME NEW m \in LazyLevels, NEW g
      PROVE  g \in s[m] <=> g \in r[m] \ X \/ (m = d /\ g = UNION X)
  <2>1. s[m] = LevelFiles(m)'
    BY <1>1
  <2>2. g \in LevelFiles(m)' <=> \/ g \in LevelFiles(m) \ X
                                 \/ m = d /\ g = UNION X
    BY <1>1, MergedLevel
  <2> QED
    BY <1>2, <2>1, <2>2
<1>4. \A m \in LazyLevels : s[m] = (r[m] \ X) \cup (IF m = d THEN {UNION X} ELSE {})
  BY <1>3
<1>0. s = [lvl \in LazyLevels |-> s[lvl]]
  BY <1>1
<1>5. c + 1 # c /\ c \in Nat
  BY LevelsOfRocksDB
<1>6. ASSUME Cardinality(UNION newest) <= Capacity(c)
      PROVE  s = [r EXCEPT ![c] = (@ \ S) \cup {UNION S}]
  <2>1. X = S /\ d = c
    BY <1>1, <1>2, <1>6 DEF Compacts
  <2>2. \A m \in LazyLevels : m # c => r[m] \cap X = {}
    BY <1>1, <1>2, <2>1, LevelsDisjoint
  <2>3. ASSUME NEW m \in LazyLevels, m # c PROVE s[m] = r[m]
    <3>1. r[m] \cap X = {} /\ s[m] = r[m] \ X
      BY <1>4, <2>1, <2>2, <2>3
    <3> QED
      BY <3>1
  <2>4. s[c] = (r[c] \ S) \cup {UNION S}
    BY <1>4, <2>1
  <2> QED
    BY <1>0, <1>2, <2>3, <2>4
<1>7. ASSUME ~ (Cardinality(UNION newest) <= Capacity(c))
      PROVE  /\ c + 1 \in LazyLevels
             /\ \/ /\ Cardinality(r[c + 1]) <= SmallerRuns
                   /\ s = [r EXCEPT ![c] = @ \ S, ![c + 1] = @ \cup {UNION S}]
                \/ /\ Cardinality(r[c + 1]) > SmallerRuns
                   /\ s = [r EXCEPT ![c] = @ \ S,
                                    ![c + 1] = {(UNION @) \cup UNION S}]
  <2>1. /\ c + 1 \in LazyLevels /\ d = c + 1
        /\ \/ Cardinality(G) <= SmallerRuns /\ X = S
           \/ Cardinality(G) > SmallerRuns /\ X = S \cup G
    BY <1>1, <1>2, <1>7 DEF Compacts
  <2>2. r[c + 1] = G
    BY <1>1, <1>2, <2>1
  <2>3. \A m \in LazyLevels : m # c /\ m # c + 1 => r[m] \cap X = {}
    BY <1>1, <1>2, <2>1, LevelsDisjoint
  <2>4. ASSUME NEW m \in LazyLevels, m # c /\ m # c + 1 PROVE s[m] = r[m]
    <3>1. r[m] \cap X = {} /\ s[m] = r[m] \ X
      BY <1>4, <2>1, <2>3, <2>4
    <3> QED
      BY <3>1
  <2>5. F \cap G = {}
    BY <1>1, <1>2, <1>5, LevelsDisjoint
  <2>6. s[c] = F \ S
    BY <1>1, <1>4, <1>5, <2>1, <2>5
  <2>7. CASE Cardinality(G) <= SmallerRuns /\ X = S
    <3>1. s[c + 1] = G \cup {UNION S}
      BY <1>1, <1>4, <2>1, <2>2, <2>5, <2>7
    <3>2. s = [r EXCEPT ![c] = @ \ S, ![c + 1] = @ \cup {UNION S}]
      BY <1>0, <1>1, <1>2, <1>5, <2>1, <2>2, <2>4, <2>6, <3>1
    <3> QED
      BY <2>1, <2>2, <2>7, <3>2
  <2>8. CASE Cardinality(G) > SmallerRuns /\ X = S \cup G
    <3>1. UNION X = (UNION G) \cup UNION S
      BY <2>8
    <3>2. s[c + 1] = {(UNION G) \cup UNION S}
      BY <1>1, <1>4, <2>1, <2>2, <2>8, <3>1
    <3>3. s = [r EXCEPT ![c] = @ \ S, ![c + 1] = {(UNION @) \cup UNION S}]
      BY <1>0, <1>1, <1>2, <1>5, <2>1, <2>2, <2>4, <2>6, <3>2
    <3> QED
      BY <2>1, <2>2, <2>8, <3>3
  <2> QED
    BY <2>1, <2>7, <2>8
<1> QED
  BY <1>1, <1>6, <1>7

LEMMA CompactRefines ==
  ASSUME TypeOK, FilesDisjoint, JobsOfTree, JobsCompact, DueType, ~ ub,
         NEW w \in Workers, FinishMerge(w),
         Levels = [lvl \in LazyLevels |-> LevelFiles(lvl)],
         Levels' = [lvl \in LazyLevels |-> LevelFiles(lvl)']
  PROVE  \E l \in LazyLevels : \E S \in SUBSET Levels[l] :
           \E newest \in SUBSET S : Tree!Compact(l, S, newest)
<1>1. w \in Merging /\ job[w].output \in RocksDBLevels
  BY DEF Merging, JobsOfTree, FinishMerge
<1>2. PICK c \in LazyLevels, newest \in SUBSET job[w].inputs :
        Compacts(c, newest, job[w].inputs, job[w].output)
  BY <1>1 DEF JobsCompact
<1>3. PICK r, s, S : r = Levels /\ s = Levels' /\ S = job[w].inputs \cap r[c]
  OBVIOUS
<1>4. /\ r = [lvl \in LazyLevels |-> LevelFiles(lvl)]
      /\ s = [lvl \in LazyLevels |-> LevelFiles(lvl)']
  BY <1>3
<1>5. r[c] = LevelFiles(c)
  BY <1>4
<1>6. S \in SUBSET r[c] /\ newest \in SUBSET S
  BY <1>2, <1>3, <1>5 DEF Compacts
<1>7. /\ newest = S \/ (Errors # {} /\ Tree!Older(S \ newest, newest))
      /\ Tree!Older(S, r[c] \ S)
  BY <1>2, <1>3, <1>5 DEF Compacts, Older, Tree!Older
<1>8. due[c] > 0
  <2>1. due[c] \in Int /\ due[c] >= 1
    BY <1>2 DEF Compacts, DueType
  <2> QED
    BY <2>1
<1>9. Tree!Fits(c, UNION newest) <=> Cardinality(UNION newest) <= Capacity(c)
  BY TreeCardinality DEF Tree!Fits, Tree!Room, Capacity
<1>10. IF Cardinality(UNION newest) <= Capacity(c)
       THEN s = [r EXCEPT ![c] = (@ \ S) \cup {UNION S}]
       ELSE /\ c + 1 \in LazyLevels
            /\ \/ /\ Cardinality(r[c + 1]) <= SmallerRuns
                  /\ s = [r EXCEPT ![c] = @ \ S,
                                   ![c + 1] = @ \cup {UNION S}]
               \/ /\ Cardinality(r[c + 1]) > SmallerRuns
                  /\ s = [r EXCEPT ![c] = @ \ S,
                                   ![c + 1] = {(UNION @) \cup UNION S}]
  BY <1>1, <1>2, <1>3, MergedRuns
<1>11. IF Tree!Fits(c, UNION newest)
       THEN Tree!Stay(c, S)
       ELSE c + 1 \in LazyLevels /\ (Tree!PushBeside(c, S) \/ Tree!PushInto(c, S))
  <2>1. CASE Tree!Fits(c, UNION newest)
    <3>1. Levels' = [Levels EXCEPT ![c] = (@ \ S) \cup {UNION S}]
      BY <1>3, <1>9, <1>10, <2>1
    <3> QED
      BY <2>1, <3>1 DEF Tree!Stay
  <2>2. CASE ~ Tree!Fits(c, UNION newest)
    <3>1. c + 1 \in LazyLevels
      BY <1>9, <1>10, <2>2
    <3>2. CASE /\ Cardinality(r[c + 1]) <= SmallerRuns
               /\ s = [r EXCEPT ![c] = @ \ S, ![c + 1] = @ \cup {UNION S}]
      <4>1. /\ Tree!Cardinality(Levels[c + 1]) <= SmallerRuns
            /\ Levels' = [Levels EXCEPT ![c] = @ \ S, ![c + 1] = @ \cup {UNION S}]
        BY <1>3, <3>2, TreeCardinality
      <4>2. Tree!PushBeside(c, S)
        BY <4>1 DEF Tree!PushBeside
      <4> QED
        BY <2>2, <3>1, <4>2
    <3>3. CASE /\ Cardinality(r[c + 1]) > SmallerRuns
               /\ s = [r EXCEPT ![c] = @ \ S,
                                ![c + 1] = {(UNION @) \cup UNION S}]
      <4>1. /\ Tree!Cardinality(Levels[c + 1]) > SmallerRuns
            /\ Levels' = [Levels EXCEPT ![c] = @ \ S,
                                    ![c + 1] = {(UNION @) \cup UNION S}]
        BY <1>3, <3>3, TreeCardinality
      <4>2. Tree!PushInto(c, S)
        BY <4>1 DEF Tree!PushInto
      <4> QED
        BY <2>2, <3>1, <4>2
    <3> QED
      BY <1>9, <1>10, <2>2, <3>2, <3>3
  <2> QED
    BY <2>1, <2>2
<1>12. Tree!Compact(c, S, newest)
  <2>1. Tree!Older(S, Levels[c] \ S)
    BY <1>3, <1>7
  <2> QED
    BY <1>7, <1>8, <1>11, <2>1 DEF Tree!Compact
<1> QED
  BY <1>3, <1>6, <1>12

LEMMA TreeInitRefined == TreeInit => Tree!Init
<1> SUFFICES ASSUME TreeInit PROVE Tree!Init
  OBVIOUS
<1>1. /\ tree = EmptyTree /\ ub = FALSE
      /\ due = [lvl \in LazyLevels |-> 0]
  BY DEF TreeInit, Init
<1>2. \A lvl \in LazyLevels : RunsOf(tree, lvl) = {}
  BY <1>1, LevelsOfRocksDB DEF RunsOf, RunLevels, EmptyTree
<1>3. \A lvl \in LazyLevels : {UNION run : run \in RunsOf(tree, lvl)} = {}
  BY <1>2
<1>4. Levels = [lvl \in LazyLevels |-> {}]
  BY <1>3 DEF Levels
<1> QED
  BY <1>1, <1>4 DEF Tree!Init

LEMMA TreeStepRefined ==
  ASSUME SafeInv, TreeInv, TierInv, SafeInv', TierInv', [TreeNext]_treeVars
  PROVE  [Tree!Next]_(Tree!vars)
<1>1. TypeOK /\ TypeOK' /\ [Next]_vars
  BY DEF SafeInv, BaseInv, TreeNext, treeVars, vars
<1>2. ub \in BOOLEAN /\ ub' \in BOOLEAN
  BY <1>1 DEF TypeOK
<1>3. CASE ub'
  BY <1>3 DEF Tree!Next
<1>4. CASE ~ ub'
  <2>1. ~ ub
    BY <1>1, <1>4, InvalidForGood
  <2>2. UNCHANGED ub
    BY <1>2, <1>4, <2>1, Zenon
  <2>3. PICK view, result : view = tree /\ result = tree'
    OBVIOUS
  <2>4. /\ \A L \in 1 .. NumLevels - 1 : \A f, g \in view[L] : f = g
        /\ \A L \in 1 .. NumLevels - 1 : \A f, g \in result[L] : f = g
    BY <1>4, <2>1, <2>3 DEF TierInv, FilesShaped
  <2>5. Levels = [lvl \in LazyLevels |-> LevelFiles(lvl)]
    BY <2>3, <2>4, RunsAre DEF Levels, LevelFiles
  <2>6. Levels' = [lvl \in LazyLevels |-> LevelFiles(lvl)']
    BY <2>3, <2>4, RunsAre DEF Levels, LevelFiles
  <2>7. CASE tree' = tree
    <3>1. UNCHANGED Levels
      BY <2>7 DEF Levels
    <3>2. UNCHANGED due
      BY <2>7 DEF TreeNext, treeVars
    <3> QED
      BY <2>2, <3>1, <3>2 DEF Tree!vars
  <2>8. CASE tree' # tree
    <3>1. Tree!Account
      BY <2>8 DEF TreeNext, treeVars, vars
    <3>2. ASSUME NEW t \in FlushThreads, OnFlushCompleted(t) PROVE Tree!Next
      <4>1. Tree!Flush
        BY <1>1, <2>5, <2>6, <3>2, FlushRefines DEF TierInv
      <4> QED
        BY <2>1, <2>2, <3>1, <4>1 DEF Tree!Next
    <3>3. ASSUME NEW w \in Workers, FinishMerge(w) PROVE Tree!Next
      <4>1. \E l \in LazyLevels : \E S \in SUBSET Levels[l] :
              \E newest \in SUBSET S : Tree!Compact(l, S, newest)
        BY <1>1, <2>1, <2>5, <2>6, <3>3, CompactRefines
           DEF TierInv, DueInv, TreeInv
      <4> QED
        BY <2>1, <2>2, <3>1, <4>1 DEF Tree!Next
    <3> QED
      BY <1>1, <2>8, <3>2, <3>3, StepsOfTree
  <2> QED
    BY <2>7, <2>8
<1> QED
  BY <1>3, <1>4

(* What the threads of FluidLSM do with views, permits and tasks is, seen   *)
(* from the files, what a fluid LSM-tree does: OnFlushCompleted adds a run, *)
(* and the compactions that PickCompaction chooses, ScheduleCompaction      *)
(* places and CompactFiles executes each take the oldest runs of a level    *)
(* that can expect one - at most two from each time that it has too many    *)
(* runs - and put one run where its size sends it, whatever was refused,    *)
(* failed or flushed in between.                                            *)
THEOREM TreeImplemented ==
  ASSUME OneFlushThread
  PROVE  TreeSpec => TreeIsTiered
<1>1. TreeInit => Tree!Init
  BY TreeInitRefined
<1>2. SafeInv /\ TreeInv /\ TierInv /\ SafeInv' /\ TierInv'
        /\ [TreeNext]_treeVars
        => [Tree!Next]_(Tree!vars)
  BY TreeStepRefined
<1>3. TreeInit => Init
  BY DEF TreeInit
<1>4. [TreeNext]_treeVars => [Next]_vars
  BY DEF TreeNext, treeVars, vars
<1> QED
  BY <1>1, <1>2, <1>3, <1>4, SafeInvariant, TreeInvariant, TierInvariant, PTL
     DEF Spec, TreeSpec, TreeIsTiered, Tree!Spec

=============================================================================
