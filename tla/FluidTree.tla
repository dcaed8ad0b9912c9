----------------------------- MODULE FluidTree -----------------------------
(***************************************************************************)
(* FluidLSM seen from its files: the threads with their views, permits and *)
(* tasks implement the fluid LSM-tree of TieredTree.                       *)
(*                                                                         *)
(* The code has nothing that corresponds to the abstract tree's due: it is *)
(* a history variable, kept beside the state of FluidLSM by the rule       *)
(* TieredTree has for it, and no step depends on it.                       *)
(***************************************************************************)
EXTENDS FluidLSM

VARIABLE due  \* how many compactions each level can expect

treeVars == <<vars, due>>

Levels == [lvl \in LazyLevels |-> {UNION run : run \in RunsOf(tree, lvl)}]

Tree ==
  INSTANCE TieredTree WITH
    T <- SizeRatio, K <- SmallerRuns, Z <- LargerRuns, Levels <- LazyLevels,
    MergesFail <- Errors # {}, runs <- Levels

TreeInit == Init /\ due = [lvl \in LazyLevels |-> 0]

TreeNext == Next /\ IF tree' = tree THEN UNCHANGED due ELSE Tree!Account

TreeSpec == TreeInit /\ [][TreeNext]_treeVars

FairTreeSpec == TreeSpec /\ Fairness

(* What the threads do with their views, permits and tasks is, seen from    *)
(* the files, a fluid LSM-tree: a compaction takes the oldest runs of a     *)
(* level that has, or had, too many and puts one run where its size sends   *)
(* it.  The runs are counted before the files are collected, and another    *)
(* compaction may fit in between, so a level may be compacted twice each    *)
(* time it has too many runs, and never more often.  A task that fails, is  *)
(* refused or is empty changes nothing.                                     *)
TreeIsTiered == Tree!Spec

=============================================================================
