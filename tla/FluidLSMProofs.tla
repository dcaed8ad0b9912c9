--------------------------- MODULE FluidLSMProofs ---------------------------
(***************************************************************************)
(* Proofs about FluidLSM, for any number of threads and any size of the    *)
(* tree.                                                                   *)
(***************************************************************************)
EXTENDS FluidLSM, FiniteSetTheorems, TLAPS

(* The union of files is a file.                                            *)
LEMMA UnionIsFile ==
  ASSUME NEW files, files \subseteq File, files # {}
  PROVE  UNION files \in File
<1>1. PICK f \in files : f # {} /\ f \subseteq 1 .. MaxBatches
  BY DEF File
<1>2. UNION files \subseteq 1 .. MaxBatches
  BY DEF File
<1>3. UNION files # {}
  BY <1>1, Zenon
<1> QED
  BY <1>2, <1>3 DEF File

(* Every file a run of fluid level lvl holds is a file of the view.         *)
LEMMA FilesOfType ==
  ASSUME NEW view \in [RocksDBLevels -> SUBSET File], NEW lvl
  PROVE  FilesOf(view, lvl) \subseteq File
<1>1. /\ 0 \in RocksDBLevels
      /\ RunLevels(lvl) \subseteq RocksDBLevels
  BY LevelsAssumption, SMT DEF RocksDBLevels, RunLevels
<1>2. view[0] \subseteq File /\ \A L \in RunLevels(lvl) : view[L] \subseteq File
  BY <1>1
<1> QED
  BY <1>2 DEF FilesOf, RunsOf

(* What a thread may read as the view, racing or not, is typed.             *)
LEMMA ReadableViewsType ==
  ASSUME TypeOK
  PROVE  ReadableViews \subseteq View
<1>1. ASSUME NEW n \in 0 .. NumLevels
      PROVE  Prefix(snapshot, n) \in View
  BY <1>1 DEF TypeOK, View, Prefix
<1> QED
  BY <1>1 DEF TypeOK, ReadableViews

(* What DB::CompactFiles merges are files of the tree.                      *)
LEMMA WidenedType ==
  ASSUME TypeOK, NEW files, files \subseteq AllFiles, NEW output
  PROVE  Widened(files, output) \subseteq File
<1>1. \A L \in RocksDBLevels : tree[L] \subseteq File
  BY DEF TypeOK
<1>2. 0 \in RocksDBLevels
  BY LevelsAssumption DEF RocksDBLevels
<1>3. AllFiles \subseteq File
  BY <1>1 DEF AllFiles
<1> QED
  BY <1>1, <1>2, <1>3 DEF Widened

(* The loop step keeps the types of the walk's locals.                      *)
LEMMA NextLevelType ==
  ASSUME TypeOK, NEW t \in Threads, NextLevel(t)
  PROVE  /\ pick' \in [Threads -> Pick]
         /\ stale' \subseteq Threads
         /\ pc' \in [Threads -> PCs]
<1> USE DEF TypeOK
<1>1. NoPick \in Pick
  BY LevelsAssumption, SMT DEF NoPick, Pick, LazyLevels
<1>2. CASE pick[t].lvl = 0
  BY <1>1, <1>2 DEF NextLevel, PCs
<1>3. CASE pick[t].lvl # 0
  <2>1. pick[t] \in Pick
    OBVIOUS
  <2>2. pick[t].lvl - 1 \in LazyLevels
    BY <1>3, <2>1, LevelsAssumption, SMT DEF Pick, LazyLevels
  <2>3. [NoPick EXCEPT !.lvl = pick[t].lvl - 1, !.largest = pick[t].largest]
          \in Pick
    BY <2>1, <2>2 DEF NoPick, Pick
  <2> QED
    BY <1>3, <2>3 DEF NextLevel, PCs
<1> QED
  BY <1>2, <1>3

LEMMA TypeInit == Init => TypeOK
<1> SUFFICES ASSUME Init PROVE TypeOK
  OBVIOUS
<1>1. EmptyTree \in [RocksDBLevels -> SUBSET File]
  BY DEF EmptyTree
<1>2. EmptyView \in View
  BY <1>1 DEF EmptyView, View
<1>3. NoPick \in Pick
  BY LevelsAssumption, SMT DEF NoPick, Pick, LazyLevels
<1>4. NoTask \in Merge
  BY DEF NoTask, Merge
<1>5. /\ sealed \in 0 .. MaxWriteBuffers - 1
      /\ flushed \in 0 .. MaxBatches
      /\ flushed + sealed <= MaxBatches
      /\ running \in Int
  BY BoundsAssumption, SMT DEF Init
<1>6. /\ queue \in Seq(Task)
      /\ stale \subseteq Threads
  BY DEF Init
<1>7. /\ job \in [Workers -> Merge]
      /\ pc \in [Threads -> PCs]
      /\ pick \in [Threads -> Pick]
  BY <1>3, <1>4 DEF Init, PCs
<1>8. /\ mutex \in Threads \cup {NoThread}
      /\ alive \in BOOLEAN
      /\ ub \in BOOLEAN
  BY DEF Init
<1>9. /\ tree \in [RocksDBLevels -> SUBSET File]
      /\ lazy \in View
      /\ snapshot \in View
  BY <1>1, <1>2 DEF Init
<1> QED
  BY <1>5, <1>6, <1>7, <1>8, <1>9 DEF TypeOK

(* A merge has something to merge, so what it writes is a file.             *)
MergesSomething == \A w \in Workers : pc[w] = "merging" => job[w].inputs # {}

LEMMA MergesSomethingNext ==
  TypeOK /\ MergesSomething /\ [Next]_vars => MergesSomething'
<1> SUFFICES ASSUME TypeOK, MergesSomething, [Next]_vars
             PROVE  MergesSomething'
  OBVIOUS
<1> USE DEF TypeOK, MergesSomething, dbVars
<1>1. ASSUME NEW w \in Workers, StartMerge(w) PROVE MergesSomething'
  <2>1. Head(queue) \in Task /\ Head(queue).inputs # {}
    BY <1>1 DEF StartMerge, Rejected
  <2>2. job'[w].inputs # {}
    BY <1>1, <2>1 DEF StartMerge, Task, Widened
  <2> QED
    BY <1>1, <2>2 DEF StartMerge, Threads
<1>2. ASSUME NEW w \in Workers, FinishMerge(w) \/ FailMerge(w)
      PROVE  MergesSomething'
  BY <1>2 DEF FinishMerge, FailMerge, Threads
<1>3. ASSUME NEW w \in Workers, RejectMerge(w) \/ Release(w)
      PROVE  MergesSomething'
  BY <1>3 DEF RejectMerge, Release, Threads
<1>4. ASSUME NEW t \in Threads, PickStep(t) \/ Crash(t)
      PROVE  MergesSomething'
  BY <1>4 DEF PickStep, BuildBegin, BuildEnd, Scan, Examine,
              AddFilesToCompaction, Measure, CheckPermit, Claim, NextLevel,
              Crash, Threads
<1>5. ASSUME NEW t \in FlushThreads, OnFlushCompleted(t)
      PROVE  MergesSomething'
  BY <1>5 DEF OnFlushCompleted, Threads
<1>6. CASE SealMemtable \/ UNCHANGED vars
  BY <1>6 DEF SealMemtable, vars
<1> QED
  BY <1>1, <1>2, <1>3, <1>4, <1>5, <1>6 DEF Next, WorkerStep

LEMMA TypeNext == TypeOK /\ MergesSomething /\ [Next]_vars => TypeOK'
<1> SUFFICES ASSUME TypeOK, MergesSomething, [Next]_vars PROVE TypeOK'
  OBVIOUS
<1> USE DEF TypeOK, dbVars, viewVars
<1>1. CASE SealMemtable
  BY <1>1, BoundsAssumption DEF SealMemtable
<1>2. ASSUME NEW t \in FlushThreads, OnFlushCompleted(t) PROVE TypeOK'
  <2>1. /\ sealed' \in 0 .. MaxWriteBuffers - 1
        /\ flushed' \in 0 .. MaxBatches
        /\ flushed' + sealed' <= MaxBatches
        /\ flushed + 1 \in 1 .. MaxBatches
    BY <1>2, BoundsAssumption, SMT DEF OnFlushCompleted
  <2>2. PICK n \in 1 .. MaxBatches : n = flushed + 1
    BY <2>1
  <2>3. {n} \in File /\ 0 \in RocksDBLevels
    <3>1. {n} \in File
      BY Zenon DEF File
    <3>2. 0 \in RocksDBLevels
      BY LevelsAssumption, SMT DEF RocksDBLevels
    <3> QED
      BY <3>1, <3>2
  <2>4. tree' \in [RocksDBLevels -> SUBSET File]
    BY <1>2, <2>2, <2>3 DEF OnFlushCompleted
  <2>5. pc' \in [Threads -> PCs]
    BY <1>2 DEF OnFlushCompleted, Threads, PCs
  <2> QED
    BY <1>2, <2>1, <2>4, <2>5 DEF OnFlushCompleted
<1>3. ASSUME NEW t \in Threads, BuildBegin(t) PROVE TypeOK'
  <2>1. BeingCompacted \subseteq SUBSET (1 .. MaxBatches)
    BY DEF BeingCompacted, Merge, File
  <2>2. [files |-> tree, busy |-> BeingCompacted] \in View
    BY <2>1 DEF View
  <2>3. EmptyView \in View
    BY DEF EmptyView, EmptyTree, View
  <2> QED
    BY <1>3, <2>2, <2>3 DEF BuildBegin, PCs
<1>4. ASSUME NEW t \in Threads, BuildEnd(t) PROVE TypeOK'
  <2>1. EmptyView \in View
    BY DEF EmptyView, EmptyTree, View
  <2> QED
    BY <1>4, <2>1 DEF BuildEnd, PCs
<1>5. ASSUME NEW t \in Threads, Scan(t) PROVE TypeOK'
  <2>1. PICK l \in LazyLevels :
          pick' = [pick EXCEPT ![t] = [NoPick EXCEPT !.lvl = l, !.largest = l]]
    BY <1>5 DEF Scan
  <2>2. [NoPick EXCEPT !.lvl = l, !.largest = l] \in Pick
    BY DEF NoPick, Pick
  <2> QED
    BY <1>5, <2>1, <2>2 DEF Scan, PCs
<1>6. ASSUME NEW t \in Threads, Examine(t) PROVE TypeOK'
  <2>1. CASE NextLevel(t)
    BY <1>6, <2>1, NextLevelType DEF Examine
  <2>2. CASE ~ NextLevel(t)
    BY <1>6, <2>2 DEF Examine, PCs
  <2> QED
    BY <2>1, <2>2
<1>16. ASSUME NEW t \in Threads, AddFilesToCompaction(t) PROVE TypeOK'
  <2>1. PICK view \in ReadableViews :
          pick' = [pick EXCEPT ![t].inputs =
                     FilesOf(view.files, pick[t].lvl) \ view.busy]
    BY <1>16 DEF AddFilesToCompaction
  <2>2. view.files \in [RocksDBLevels -> SUBSET File]
    BY ReadableViewsType DEF View
  <2>3. FilesOf(view.files, pick[t].lvl) \ view.busy \subseteq File
    BY <2>2, FilesOfType
  <2>4. pick' \in [Threads -> Pick]
    BY <2>1, <2>3 DEF Pick
  <2> QED
    BY <1>16, <2>4 DEF AddFilesToCompaction, PCs
<1>17. ASSUME NEW t \in Threads, Measure(t) PROVE TypeOK'
  <2>1. pick[t] \in Pick /\ pick[t].lvl \in Nat
    BY LevelsAssumption, SMT DEF Pick, LazyLevels
  <2>2. PICK target \in {pick[t].lvl, pick[t].lvl + 1} :
          pick' = [pick EXCEPT ![t].target = target]
    BY <1>17 DEF Measure
  <2>3. target \in Nat
    BY <2>1
  <2>4. pick' \in [Threads -> Pick]
    BY <2>1, <2>2, <2>3 DEF Pick
  <2> QED
    BY <1>17, <2>4 DEF Measure, PCs
<1>7. ASSUME NEW t \in Threads, CheckPermit(t) PROVE TypeOK'
  <2>1. CASE NextLevel(t)
    BY <1>7, <2>1, NextLevelType DEF CheckPermit
  <2>2. CASE ~ NextLevel(t)
    BY <1>7, <2>2 DEF CheckPermit, PCs
  <2> QED
    BY <2>1, <2>2
<1>8. ASSUME NEW t \in Threads, Claim(t) PROVE TypeOK'
  <2>1. PICK i \in Slots(t), names \in Names(t) :
          /\ lazy' = [lazy EXCEPT !.busy = @ \cup names]
          /\ queue' = Append(queue, [inputs |-> names,
                                     output |-> SlotLevel(pick[t].target, i)])
    BY <1>8 DEF Claim
  <2>2. names \in SUBSET (SUBSET (1 .. MaxBatches))
    BY DEF Names, Pick, View, File, NoSuchFile
  <2>3. i \in Int
    BY LevelsAssumption DEF Slots, PushSlots, EmptySlots
  <2>4. pick[t].target \in Int
    BY DEF Pick
  <2>5. SlotLevel(pick[t].target, i) \in Int
    BY <2>3, <2>4, LevelsAssumption DEF SlotLevel
  <2>6. queue' \in Seq(Task)
    BY <2>1, <2>2, <2>5 DEF Task
  <2>7. lazy' \in View
    BY <2>1, <2>2 DEF View
  <2> QED
    BY <1>8, <2>6, <2>7, NextLevelType DEF Claim
<1>9. ASSUME NEW t \in Threads, Crash(t) PROVE TypeOK'
  BY <1>9 DEF Crash
<1>10. ASSUME NEW w \in Workers, StartMerge(w) PROVE TypeOK'
  <2>1. Head(queue) \in Task /\ Tail(queue) \in Seq(Task)
    BY <1>10 DEF StartMerge
  <2>2. Head(queue).inputs \subseteq AllFiles
    BY <1>10 DEF StartMerge, Rejected
  <2>3. [Head(queue) EXCEPT !.inputs = Widened(@, Head(queue).output)] \in Merge
    BY <2>1, <2>2, WidenedType DEF Task, Merge
  <2> QED
    BY <1>10, <2>1, <2>3 DEF StartMerge, PCs, Threads
<1>11. ASSUME NEW w \in Workers, RejectMerge(w) PROVE TypeOK'
  BY <1>11 DEF RejectMerge, PCs, Threads
<1>12. ASSUME NEW w \in Workers, FinishMerge(w) PROVE TypeOK'
  <2>1. job[w].inputs \subseteq File /\ job[w].inputs # {}
    BY <1>12 DEF FinishMerge, MergesSomething, Merge
  <2>2. UNION job[w].inputs \in File
    BY <2>1, UnionIsFile
  <2>3. tree' \in [RocksDBLevels -> SUBSET File]
    BY <1>12, <2>2 DEF FinishMerge
  <2>4. job' \in [Workers -> Merge]
    BY <1>12 DEF FinishMerge, NoTask, Merge
  <2>5. pc' \in [Threads -> PCs]
    BY <1>12 DEF FinishMerge, PCs, Threads
  <2> QED
    BY <1>12, <2>3, <2>4, <2>5 DEF FinishMerge
<1>13. ASSUME NEW w \in Workers, FailMerge(w) PROVE TypeOK'
  BY <1>13 DEF FailMerge, PCs, Threads, NoTask, Merge
<1>14. ASSUME NEW w \in Workers, Release(w) PROVE TypeOK'
  BY <1>14 DEF Release, PCs, Threads
<1>15. CASE UNCHANGED vars
  BY <1>15 DEF vars
<1> QED
  BY <1>1, <1>2, <1>3, <1>4, <1>5, <1>6, <1>7, <1>8, <1>9, <1>10, <1>11, <1>12,
     <1>13, <1>14, <1>15, <1>16, <1>17 DEF Next, PickStep, WorkerStep

-----------------------------------------------------------------------------
(* The permit.                                                             *)

BusyWorkers == {w \in Workers : pc[w] # "idle"}

LEMMA BusyWorkersFinite ==
  IsFiniteSet(BusyWorkers) /\ Cardinality(BusyWorkers) \in Nat
<1>1. BusyWorkers \subseteq Workers
  BY DEF BusyWorkers
<1> QED
  BY <1>1, ThreadsAssumption, FS_Subset, FS_CardinalityType

LEMMA PermitInit == Init => PermitAccounting
<1> SUFFICES ASSUME Init PROVE PermitAccounting
  OBVIOUS
<1>1. BusyWorkers = {}
  BY DEF Init, Threads, BusyWorkers
<1>2. Cardinality(BusyWorkers) = 0
  BY <1>1, FS_EmptySet
<1>3. running = 0 /\ Len(queue) = 0
  BY DEF Init
<1> QED
  BY <1>2, <1>3 DEF PermitAccounting, BusyWorkers

(* No step of a walk makes a worker idle or busy, and the one that takes a  *)
(* permit queues its task.                                                  *)
LEMMA PickStepKeepsBusy ==
  ASSUME TypeOK, NEW t \in Threads, PickStep(t) \/ Crash(t)
  PROVE  /\ BusyWorkers' = BusyWorkers
         /\ \/ UNCHANGED <<running, queue>>
            \/ running' = running + 1 /\ Len(queue') = Len(queue) + 1
<1> USE DEF TypeOK
<1>1. ASSUME NEW w \in Workers
      PROVE  pc'[w] # "idle" <=> pc[w] # "idle"
  BY DEF PickStep, BuildBegin, BuildEnd, Scan, Examine,
         AddFilesToCompaction, Measure, CheckPermit, Claim, NextLevel, Crash,
         Threads
<1>2. BusyWorkers' = BusyWorkers
  BY <1>1 DEF BusyWorkers
<1>3. CASE Claim(t)
  <2>1. PICK task : queue' = Append(queue, task)
    BY <1>3 DEF Claim
  <2>2. Len(queue') = Len(queue) + 1
    BY <2>1
  <2> QED
    BY <1>2, <1>3, <2>2 DEF Claim
<1>4. CASE ~ Claim(t)
  <2>1. UNCHANGED <<running, queue>>
    BY <1>4 DEF PickStep, BuildBegin, BuildEnd, Scan, Examine,
                AddFilesToCompaction, Measure, CheckPermit, Crash
  <2> QED
    BY <1>2, <2>1
<1> QED
  BY <1>3, <1>4

LEMMA PermitNext ==
  TypeOK /\ PermitAccounting /\ [Next]_vars => PermitAccounting'
<1> SUFFICES ASSUME TypeOK, PermitAccounting, [Next]_vars
             PROVE  PermitAccounting'
  OBVIOUS
<1> USE DEF TypeOK
<1>1. running = Len(queue) + Cardinality(BusyWorkers)
  BY DEF PermitAccounting, BusyWorkers
<1>2. Len(queue) \in Nat
  OBVIOUS
<1> SUFFICES running' = Len(queue') + Cardinality(BusyWorkers')
  BY DEF PermitAccounting, BusyWorkers
<1>3. ASSUME NEW w \in Workers, StartMerge(w) \/ RejectMerge(w)
      PROVE  running' = Len(queue') + Cardinality(BusyWorkers')
  <2>1. /\ BusyWorkers' = BusyWorkers \cup {w}
        /\ w \notin BusyWorkers
    BY <1>3 DEF StartMerge, RejectMerge, BusyWorkers, Threads
  <2>2. Cardinality(BusyWorkers') = Cardinality(BusyWorkers) + 1
    BY <2>1, BusyWorkersFinite, FS_AddElement
  <2>3. /\ Len(queue') = Len(queue) - 1
        /\ running' = running
    BY <1>3 DEF StartMerge, RejectMerge
  <2> QED
    BY <1>1, <1>2, <2>2, <2>3, BusyWorkersFinite
<1>4. ASSUME NEW w \in Workers, Release(w)
      PROVE  running' = Len(queue') + Cardinality(BusyWorkers')
  <2>1. /\ BusyWorkers' = BusyWorkers \ {w}
        /\ w \in BusyWorkers
    BY <1>4 DEF Release, BusyWorkers, Threads
  <2>2. Cardinality(BusyWorkers') = Cardinality(BusyWorkers) - 1
    BY <2>1, BusyWorkersFinite, FS_RemoveElement
  <2>3. /\ queue' = queue
        /\ running' = running - 1
    BY <1>4 DEF Release
  <2> QED
    BY <1>1, <1>2, <2>2, <2>3, BusyWorkersFinite
<1>5. ASSUME NEW w \in Workers, FinishMerge(w) \/ FailMerge(w)
      PROVE  running' = Len(queue') + Cardinality(BusyWorkers')
  <2>1. BusyWorkers' = BusyWorkers
    BY <1>5 DEF FinishMerge, FailMerge, BusyWorkers, Threads
  <2>2. UNCHANGED <<running, queue>>
    BY <1>5 DEF FinishMerge, FailMerge
  <2> QED
    BY <1>1, <2>1, <2>2
<1>6. ASSUME NEW t \in Threads, PickStep(t) \/ Crash(t)
      PROVE  running' = Len(queue') + Cardinality(BusyWorkers')
  <2>1. /\ BusyWorkers' = BusyWorkers
        /\ \/ running' = running /\ Len(queue') = Len(queue)
           \/ running' = running + 1 /\ Len(queue') = Len(queue) + 1
    BY <1>6, PickStepKeepsBusy
  <2>2. Cardinality(BusyWorkers') = Cardinality(BusyWorkers)
    BY <2>1
  <2> QED
    BY <1>1, <1>2, <2>1, <2>2, BusyWorkersFinite
<1>7. ASSUME NEW t \in FlushThreads, OnFlushCompleted(t)
      PROVE  running' = Len(queue') + Cardinality(BusyWorkers')
  <2>1. BusyWorkers' = BusyWorkers
    BY <1>7, ThreadsAssumption DEF OnFlushCompleted, BusyWorkers, Threads
  <2> QED
    BY <1>1, <1>7, <2>1 DEF OnFlushCompleted
<1>8. CASE SealMemtable \/ UNCHANGED vars
  <2>1. BusyWorkers' = BusyWorkers /\ UNCHANGED <<running, queue>>
    BY <1>8 DEF SealMemtable, BusyWorkers, vars
  <2> QED
    BY <1>1, <2>1
<1> QED
  BY <1>3, <1>4, <1>5, <1>6, <1>7, <1>8 DEF Next, WorkerStep

-----------------------------------------------------------------------------
(* The inductive invariant.                                                *)

BaseInv == TypeOK /\ MergesSomething /\ PermitAccounting

THEOREM BaseInvariant == Spec => []BaseInv
<1>1. Init => BaseInv
  <2>1. Init => MergesSomething
    BY DEF Init, MergesSomething, Threads
  <2> QED
    BY <2>1, TypeInit, PermitInit DEF BaseInv
<1>2. BaseInv /\ [Next]_vars => BaseInv'
  BY TypeNext, MergesSomethingNext, PermitNext DEF BaseInv
<1> QED
  BY <1>1, <1>2, PTL DEF Spec

(* Every variable keeps its type; in particular every run the scheduler     *)
(* builds is a file, and the walk over the levels stays among them.         *)
THEOREM TypeCorrect == Spec => []TypeOK
<1>1. BaseInv => TypeOK
  BY DEF BaseInv
<1> QED
  BY <1>1, BaseInvariant, PTL

(* No way through CompactFiles, and no refusal of RocksDB, loses a permit   *)
(* or gives one back twice.                                                 *)
THEOREM PermitsAccounted == Spec => []PermitAccounting
<1>1. BaseInv => PermitAccounting
  BY DEF BaseInv
<1> QED
  BY <1>1, BaseInvariant, PTL

-----------------------------------------------------------------------------
(* Who holds the permits.                                                  *)

(* A worker inside CompactFiles finds the permit of its own task taken.     *)
LEMMA BusyWorkerHoldsPermit ==
  ASSUME TypeOK, PermitAccounting, NEW w \in Workers, pc[w] # "idle"
  PROVE  running >= 1
<1>1. w \in BusyWorkers
  BY DEF BusyWorkers
<1>2. Cardinality(BusyWorkers) >= 1
  BY <1>1, BusyWorkersFinite, FS_EmptySet
<1>3. Len(queue) \in Nat
  BY DEF TypeOK
<1> QED
  BY <1>2, <1>3, BusyWorkersFinite DEF PermitAccounting, BusyWorkers

LEMMA WorkersNeverClaimNext ==
  BaseInv /\ WorkersNeverClaim /\ [Next]_vars => WorkersNeverClaim'
<1> SUFFICES ASSUME BaseInv, WorkersNeverClaim, [Next]_vars,
                    NEW w \in Workers
             PROVE  pc'[w] # "claim"
  BY DEF WorkersNeverClaim
<1> USE DEF BaseInv, TypeOK
<1>1. w \in Threads /\ pc[w] # "claim"
  BY DEF WorkersNeverClaim, Threads
<1>2. CASE \E t \in Threads : CheckPermit(t)
  <2>1. PICK t \in Threads : CheckPermit(t)
    BY <1>2
  <2>2. CASE t = w
    <3>1. running >= 1
      BY <2>1, <2>2, BusyWorkerHoldsPermit DEF CheckPermit
    <3> QED
      BY <2>1, <2>2, <3>1 DEF CheckPermit, Allowed, NextLevel
  <2>3. CASE t # w
    BY <1>1, <2>1, <2>3 DEF CheckPermit, NextLevel
  <2> QED
    BY <2>2, <2>3
<1>3. ASSUME NEW t \in Threads,
             \/ BuildBegin(t) \/ BuildEnd(t) \/ Scan(t) \/ Examine(t)
             \/ AddFilesToCompaction(t) \/ Measure(t) \/ Claim(t) \/ Crash(t)
      PROVE  pc'[w] # "claim"
  BY <1>1, <1>3 DEF BuildBegin, BuildEnd, Scan, Examine,
                    AddFilesToCompaction, Measure, Claim, NextLevel, Crash
<1>4. ASSUME NEW v \in Workers, WorkerStep(v)
      PROVE  pc'[w] # "claim"
  BY <1>1, <1>4 DEF WorkerStep, StartMerge, RejectMerge, FinishMerge,
                    FailMerge, Release
<1>5. ASSUME NEW t \in FlushThreads, OnFlushCompleted(t)
      PROVE  pc'[w] # "claim"
  BY <1>1, <1>5 DEF OnFlushCompleted
<1>6. CASE SealMemtable \/ UNCHANGED vars
  BY <1>1, <1>6 DEF SealMemtable, vars
<1> QED
  BY <1>2, <1>3, <1>4, <1>5, <1>6 DEF Next, PickStep

(* The pick that follows a compaction can never schedule another one.       *)
THEOREM WorkersNeverSchedule == Spec => []WorkersNeverClaim
<1>1. Init => WorkersNeverClaim
  BY DEF Init, WorkersNeverClaim, Threads
<1> QED
  BY <1>1, BaseInvariant, WorkersNeverClaimNext, PTL DEF Spec

Claiming == {t \in Threads : pc[t] = "claim"}

LEMMA ClaimingFinite ==
  ASSUME WorkersNeverClaim
  PROVE  /\ IsFiniteSet(Claiming)
         /\ Cardinality(Claiming) \in Nat
         /\ Cardinality(FlushThreads) \in Nat
         /\ Cardinality(Claiming) <= Cardinality(FlushThreads)
<1>1. Claiming \subseteq FlushThreads
  BY DEF Claiming, WorkersNeverClaim, Threads
<1> QED
  BY <1>1, ThreadsAssumption, FS_Subset, FS_CardinalityType

LEMMA OutstandingBoundNext ==
  /\ BaseInv /\ WorkersNeverClaim /\ WorkersNeverClaim'
  /\ OutstandingBound /\ [Next]_vars
  => OutstandingBound'
<1> SUFFICES ASSUME BaseInv, WorkersNeverClaim, WorkersNeverClaim',
                    OutstandingBound, [Next]_vars
             PROVE  running' + Cardinality(Claiming')
                      <= Cardinality(FlushThreads)
  BY DEF OutstandingBound, Claiming
<1> USE DEF BaseInv, TypeOK
<1>1. /\ running \in Int
      /\ Cardinality(Claiming) \in Nat
      /\ Cardinality(FlushThreads) \in Nat
      /\ running + Cardinality(Claiming) <= Cardinality(FlushThreads)
  BY ClaimingFinite DEF OutstandingBound, Claiming
<1>2. ASSUME Claiming' \subseteq Claiming, running' \in Int,
             running' <= running
      PROVE  running' + Cardinality(Claiming') <= Cardinality(FlushThreads)
  <2>1. /\ Cardinality(Claiming') <= Cardinality(Claiming)
        /\ Cardinality(Claiming') \in Nat
    BY <1>2, ClaimingFinite, FS_Subset, FS_CardinalityType
  <2> QED
    BY <1>1, <1>2, <2>1
<1>3. CASE \E t \in Threads : CheckPermit(t)
  <2>1. PICK t \in Threads : CheckPermit(t)
    BY <1>3
  <2>2. running' = running
    BY <2>1 DEF CheckPermit, viewVars
  <2>3. CASE Allowed > running
    <3>1. running <= 0
      BY <1>1, <2>3 DEF Allowed
    <3>2. /\ Cardinality(Claiming') \in Nat
          /\ Cardinality(Claiming') <= Cardinality(FlushThreads)
      <4>1. Claiming' \subseteq FlushThreads
        BY DEF Claiming, WorkersNeverClaim, Threads
      <4> QED
        BY <4>1, ThreadsAssumption, FS_Subset, FS_CardinalityType
    <3> QED
      BY <1>1, <2>2, <3>1, <3>2
  <2>4. CASE ~ (Allowed > running)
    <3>1. Claiming' \subseteq Claiming
      BY <2>1, <2>4 DEF CheckPermit, NextLevel, Claiming
    <3> QED
      BY <1>1, <1>2, <2>2, <3>1
  <2> QED
    BY <2>3, <2>4
<1>4. CASE \E t \in Threads : Claim(t)
  <2>1. PICK t \in Threads : Claim(t)
    BY <1>4
  <2>2. /\ running' = running + 1
        /\ Claiming' = Claiming \ {t}
        /\ t \in Claiming
    BY <2>1 DEF Claim, NextLevel, Claiming
  <2>3. Cardinality(Claiming') = Cardinality(Claiming) - 1
    BY <2>2, ClaimingFinite, FS_RemoveElement
  <2> QED
    BY <1>1, <2>2, <2>3
<1>5. ASSUME NEW t \in Threads,
             \/ BuildBegin(t) \/ BuildEnd(t) \/ Scan(t) \/ Examine(t)
             \/ AddFilesToCompaction(t) \/ Measure(t) \/ Crash(t)
      PROVE  running' + Cardinality(Claiming') <= Cardinality(FlushThreads)
  <2>1. Claiming' \subseteq Claiming
    BY <1>5 DEF BuildBegin, BuildEnd, Scan, Examine, AddFilesToCompaction,
                Measure, NextLevel, Crash, Claiming
  <2>2. running' = running
    BY <1>5 DEF BuildBegin, BuildEnd, Scan, Examine, AddFilesToCompaction,
                Measure, Crash
  <2> QED
    BY <1>1, <1>2, <2>1, <2>2
<1>6. ASSUME NEW w \in Workers, WorkerStep(w)
      PROVE  running' + Cardinality(Claiming') <= Cardinality(FlushThreads)
  <2>1. Claiming' \subseteq Claiming
    BY <1>6 DEF WorkerStep, StartMerge, RejectMerge, FinishMerge, FailMerge,
                Release, Claiming
  <2>2. running' = running \/ running' = running - 1
    BY <1>6 DEF WorkerStep, StartMerge, RejectMerge, FinishMerge, FailMerge,
                Release
  <2> QED
    BY <1>1, <1>2, <2>1, <2>2
<1>7. ASSUME NEW t \in FlushThreads, OnFlushCompleted(t)
      PROVE  running' + Cardinality(Claiming') <= Cardinality(FlushThreads)
  <2>1. Claiming' \subseteq Claiming /\ running' = running
    BY <1>7 DEF OnFlushCompleted, Claiming
  <2> QED
    BY <1>1, <1>2, <2>1
<1>8. CASE SealMemtable \/ UNCHANGED vars
  <2>1. Claiming' \subseteq Claiming /\ running' = running
    BY <1>8 DEF SealMemtable, vars, Claiming
  <2> QED
    BY <1>1, <1>2, <2>1
<1> QED
  BY <1>3, <1>4, <1>5, <1>6, <1>7, <1>8 DEF Next, PickStep

(* Taken and about to be taken, there are never more permits than flush     *)
(* threads.                                                                 *)
THEOREM OutstandingBounded == Spec => []OutstandingBound
<1>1. Init => OutstandingBound
  <2>1. ASSUME Init PROVE Claiming = {} /\ running = 0
    BY <2>1 DEF Init, Claiming
  <2>2. Cardinality(FlushThreads) \in Nat
    BY ThreadsAssumption, FS_CardinalityType
  <2> QED
    BY <2>1, <2>2, FS_EmptySet DEF OutstandingBound, Claiming
<1> QED
  BY <1>1, BaseInvariant, WorkersNeverSchedule, OutstandingBoundNext, PTL
     DEF Spec

-----------------------------------------------------------------------------
(* lazy_levels_mutex_.                                                     *)

(* The mutex is held exactly while a thread is between the snapshot and the *)
(* unlock of BuildStructure.                                                *)
MutexInv ==
  /\ \A t \in Threads : pc[t] = "fill" => mutex = t
  /\ mutex # NoThread => mutex \in Threads /\ pc[mutex] = "fill"

LEMMA MutexNext == TypeOK /\ MutexInv /\ [Next]_vars => MutexInv'
<1> SUFFICES ASSUME TypeOK, MutexInv, [Next]_vars PROVE MutexInv'
  OBVIOUS
<1> USE DEF TypeOK
<1>1. ASSUME mutex' = mutex,
             \A t \in Threads : pc'[t] = "fill" <=> pc[t] = "fill"
      PROVE  MutexInv'
  BY <1>1 DEF MutexInv
<1>2. ASSUME NEW t \in Threads, BuildBegin(t) PROVE MutexInv'
  BY <1>2, ThreadsAssumption DEF BuildBegin, MutexInv
<1>3. ASSUME NEW t \in Threads, BuildEnd(t) PROVE MutexInv'
  BY <1>3, ThreadsAssumption DEF BuildEnd, MutexInv
<1>4. ASSUME NEW t \in Threads,
             \/ Scan(t) \/ Examine(t) \/ AddFilesToCompaction(t) \/ Measure(t)
             \/ CheckPermit(t) \/ Claim(t) \/ Crash(t)
      PROVE  MutexInv'
  <2>1. mutex' = mutex
    BY <1>4 DEF Scan, Examine, AddFilesToCompaction, Measure, CheckPermit,
                Claim, Crash, viewVars
  <2>2. \A u \in Threads : pc'[u] = "fill" <=> pc[u] = "fill"
    BY <1>4 DEF Scan, Examine, AddFilesToCompaction, Measure, CheckPermit,
                Claim, NextLevel, Crash
  <2> QED
    BY <1>1, <2>1, <2>2
<1>5. ASSUME NEW w \in Workers, WorkerStep(w) PROVE MutexInv'
  <2>1. mutex' = mutex
    BY <1>5 DEF WorkerStep, StartMerge, RejectMerge, FinishMerge, FailMerge,
                Release, viewVars
  <2>2. \A u \in Threads : pc'[u] = "fill" <=> pc[u] = "fill"
    BY <1>5 DEF WorkerStep, StartMerge, RejectMerge, FinishMerge, FailMerge,
                Release
  <2> QED
    BY <1>1, <2>1, <2>2
<1>6. ASSUME NEW t \in FlushThreads, OnFlushCompleted(t) PROVE MutexInv'
  <2>1. \A u \in Threads : pc'[u] = "fill" <=> pc[u] = "fill"
    BY <1>6 DEF OnFlushCompleted
  <2> QED
    BY <1>1, <1>6, <2>1 DEF OnFlushCompleted
<1>7. CASE SealMemtable \/ UNCHANGED vars
  BY <1>1, <1>7 DEF SealMemtable, vars
<1> QED
  BY <1>2, <1>3, <1>4, <1>5, <1>6, <1>7 DEF Next, PickStep

THEOREM MutexInvariant == Spec => []MutexInv
<1>1. Init => MutexInv
  BY DEF Init, MutexInv, Threads
<1> QED
  BY <1>1, BaseInvariant, MutexNext, PTL DEF Spec, BaseInv

(* With one flush thread, the thread that passed the unlocked comparison of *)
(* ScheduleCompaction is alone with the view it indexes and writes to.      *)
THEOREM ClaimExclusive ==
  ASSUME Cardinality(FlushThreads) = 1
  PROVE  Spec => []ClaimIsExclusive
<1>1. BaseInv /\ WorkersNeverClaim /\ OutstandingBound /\ MutexInv
        => ClaimIsExclusive
  <2> SUFFICES ASSUME BaseInv, WorkersNeverClaim, OutstandingBound, MutexInv,
                      NEW t \in Threads, pc[t] = "claim"
               PROVE  /\ running = 0
                      /\ queue = <<>>
                      /\ ~ Racing
                      /\ \A w \in Workers : pc[w] = "idle"
    BY DEF ClaimIsExclusive
  <2> USE DEF BaseInv, TypeOK
  <2>1. Cardinality(Claiming) >= 1
    <3>1. t \in Claiming
      BY DEF Claiming
    <3> QED
      BY <3>1, ClaimingFinite, FS_EmptySet
  <2>2. /\ running + Cardinality(Claiming) <= 1
        /\ running = Len(queue) + Cardinality(BusyWorkers)
    BY DEF OutstandingBound, Claiming, PermitAccounting, BusyWorkers
  <2>3. Len(queue) \in Nat /\ Cardinality(BusyWorkers) \in Nat
    BY BusyWorkersFinite
  <2>4. running = 0 /\ Len(queue) = 0 /\ Cardinality(BusyWorkers) = 0
    BY <2>1, <2>2, <2>3, ClaimingFinite
  <2>5. BusyWorkers = {}
    BY <2>4, BusyWorkersFinite, FS_EmptySet
  <2>6. \A w \in Workers : pc[w] = "idle"
    BY <2>5 DEF BusyWorkers
  <2>7. queue = <<>>
    BY <2>4
  <2>8. PICK f : FlushThreads = {f}
    BY ThreadsAssumption, FS_Singleton
  <2>9. t = f
    BY <2>6, <2>8 DEF Threads
  <2>10. ~ Racing
    BY <2>6, <2>8, <2>9 DEF Racing, MutexInv, Threads
  <2> QED
    BY <2>4, <2>6, <2>7, <2>10
<1> QED
  BY <1>1, BaseInvariant, WorkersNeverSchedule, OutstandingBounded,
     MutexInvariant, PTL
=============================================================================
