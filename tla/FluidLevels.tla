---------------------------- MODULE FluidLevels ----------------------------
(***************************************************************************)
(* The shape of a fluid LSM-tree laid over the levels of RocksDB           *)
(* (fluid_lsm.h, fluid_lsm.cc).  RocksDB levels 0 and 1 form fluid level   *)
(* 0: every L0 file is a run, the files of L1 together are one run.  Each  *)
(* later fluid level owns SmallerRuns + 1 consecutive RocksDB levels, each *)
(* of them one run.                                                        *)
(*                                                                         *)
(* A file is the set of the memtables whose entries it holds, so a flushed *)
(* file is a singleton, a compaction unites files, and the size of a set   *)
(* of files, in units of write_buffer_size, is the number of memtables in  *)
(* it (every key is written once, as in workloads/w_01.spec.json).         *)
(***************************************************************************)
EXTENDS Integers, FiniteSets

CONSTANTS
  SizeRatio,     \* size_ratio_, T
  SmallerRuns,   \* smaller_lvl_runs_count_, K
  LargerRuns,    \* larger_lvl_runs_count_, Z
  NumLevels      \* options_.num_levels

ASSUME LevelsAssumption ==
  /\ SizeRatio \in Nat \ {0}
  /\ SmallerRuns \in Nat
  /\ LargerRuns \in Nat
  /\ NumLevels \in Nat \ {0, 1}

RocksDBLevels == 0 .. NumLevels - 1

(* The number of fluid levels lazy_levels_ has room for. *)
LazyLevels == 0 .. NumLevels - 1

(* The fluid level BuildStructure files RocksDB level L under:             *)
(* ceil((L - 1) / (K + 1)) beyond L1.                                      *)
FluidLevel(L) ==
  IF L < 2 THEN 0 ELSE (L - 1 + SmallerRuns) \div (SmallerRuns + 1)

(* The RocksDB levels that are the runs of a fluid level, L0 left out.     *)
RunLevels(lvl) == {L \in 1 .. NumLevels - 1 : FluidLevel(L) = lvl}

(* BuildStructure pushes the runs of a fluid level beyond 0 in the order   *)
(* of their RocksDB levels: the index of L in the vector of its runs.      *)
RunIndex(L) == Cardinality({M \in 2 .. L - 1 : FluidLevel(M) = FluidLevel(L)})

(* The RocksDB level ScheduleCompaction computes for the slot that is i    *)
(* runs above the last one of fluid level target.                          *)
SlotLevel(target, i) == 1 + target * (SmallerRuns + 1) - i

(* write_buffer_size * T^(lvl+1) * (T-1) / T, in write buffers.            *)
Capacity(lvl) == SizeRatio ^ lvl * (SizeRatio - 1)

-----------------------------------------------------------------------------
(* A view gives every RocksDB level its set of files.                      *)

(* The non-empty runs of a fluid level. *)
RunsOf(view, lvl) ==
  ({{f} : f \in IF lvl = 0 THEN view[0] ELSE {}}
     \cup {view[L] : L \in RunLevels(lvl)}) \ {{}}

FilesOf(view, lvl) == UNION RunsOf(view, lvl)

(* LazyLevel::NumLiveRuns: runs none of whose files is being compacted.    *)
NumLiveRuns(view, busy, lvl) ==
  Cardinality({run \in RunsOf(view, lvl) : run \cap busy = {}})

(* GetLargestOccupiedLevel returns the l for which this holds.             *)
IsLargestOccupiedLevel(view, l) ==
  /\ l = 0 \/ RunsOf(view, l) # {}
  /\ \A m \in LazyLevels : m > l => RunsOf(view, m) = {}

(* The condition under which PickCompaction compacts fluid level lvl.      *)
Triggered(lvl, largest, live) ==
  \/ lvl < largest /\ live > SmallerRuns
  \/ lvl = largest /\ live > LargerRuns

GetCompactionSize(files) == Cardinality(UNION files)

(* Mutant of GetCompactionTargetLevel: what just fits is moved down.        *)
TargetLevelOffByOne(origin, files) ==
  IF GetCompactionSize(files) >= Capacity(origin) THEN origin + 1 ELSE origin

GetCompactionTargetLevel(origin, files) ==
  IF GetCompactionSize(files) > Capacity(origin) THEN origin + 1 ELSE origin

(* lazy_levels_[target].runs has an element at index j.                    *)
HasRun(target, j) == j \in 0 .. Cardinality(RunLevels(target)) - 1

RunLevel(target, j) == CHOOSE L \in RunLevels(target) : RunIndex(L) = j

(* The slots i of the target level, counted from its last one, that hold   *)
(* no file.                                                                *)
EmptySlots(view, target) ==
  {i \in 0 .. SmallerRuns : view[RunLevel(target, SmallerRuns - i)] = {}}

(* Mutant of PushSlots: the search runs from the front.                    *)
PushSlotsFromFront(view, target) ==
  LET empty == EmptySlots(view, target)
  IN  IF empty = {} THEN {0} ELSE {i \in empty : \A j \in empty : j <= i}

(* Mutant of PushSlots: there is no search.                                *)
PushSlotsUnsearched(view, target) == {0}

(* A push takes the first empty slot from the end of the target level, and *)
(* the last slot when none is empty.                                       *)
PushSlots(view, target) ==
  LET empty == EmptySlots(view, target)
  IN  IF empty = {} THEN {0} ELSE {i \in empty : \A j \in empty : i <= j}

=============================================================================
