---------------------------- MODULE MCFluidLSM ----------------------------
(***************************************************************************)
(* FluidLSM for TLC: the symmetry of its thread pools, and what comments   *)
(* of the source say that the code does not do.  The values of the         *)
(* constants are in the cfg files.                                         *)
(***************************************************************************)
EXTENDS FluidLSM, TLC

Symmetry == Permutations(FlushThreads) \cup Permutations(Workers)

-----------------------------------------------------------------------------
(* What comments of fluid_lsm.h say and the code does not do.               *)

(* "Encapsulate comapction arguments required to call CompactFiles"         *)
(* (CompactionTask): a task names files of the tree.                        *)
TaskArgumentsValid ==
  \A k \in DOMAIN queue : NoSuchFile \notin queue[k].inputs

(* ScheduleCompaction assumes the layout drawn there, with "so on." at its  *)
(* end: the level it pushes into has as many runs as the levels above it.   *)
SlotExists == \A t \in Threads : pc[t] = "claim" => ~ SlotOutOfBounds(t)

(* "Prepare a compaction and schedule it to run" (PickCompaction): when a   *)
(* level has too many runs and L0 has so many that writes have stopped, a   *)
(* compaction is scheduled that lets them go on.                            *)
Overfull ==
  \E largest \in LazyLevels :
    /\ IsLargestOccupiedLevel(tree, largest)
    /\ \E lvl \in 0 .. largest :
         Triggered(lvl, largest, NumLiveRuns(tree, {}, lvl))

WritesStopped == Cardinality(tree[0]) >= Level0Stop

StoppedWritesResume == Overfull /\ WritesStopped ~> ~ WritesStopped \/ ub
=============================================================================
