----------------------------- MODULE TieredTree -----------------------------
(***************************************************************************)
(* A fluid LSM-tree as its levels of runs, with no threads, views, permits *)
(* or tasks.  A run is the set of the memtables merged into it.  A flush   *)
(* adds a run to level 0; a compaction takes, at once, the runs of a level *)
(* that can expect one, the oldest first, and leaves one run: on the same  *)
(* level as long as that has room for it, else on the next, beside the     *)
(* runs there or, if there is no place left, merged with all of them.      *)
(*                                                                         *)
(* A level can expect two compactions from each moment that it has too     *)
(* many runs: the one it needs, and another of whoever found it too full   *)
(* before the first was made and collects its runs after.                  *)
(*                                                                         *)
(* Merges that fail leave the tree alone, but not the next one: that may   *)
(* judge by a part of the runs it will merge, and leave more on a level    *)
(* than it has room for.                                                   *)
(*                                                                         *)
(* Once the implementation has touched invalid memory, nothing is promised.*)
(***************************************************************************)
EXTENDS Integers, FiniteSets

CONSTANTS
  T,       \* size ratio
  K,       \* runs of a level that is not the largest, beyond which it is full
  Z,       \* the same of the largest level
  Levels,  \* the levels, 0 .. n
  MergesFail  \* TRUE if a merge may fail

VARIABLES
  runs,    \* the runs of each level
  due,     \* how many compactions each level can expect
  ub       \* invalid memory has been touched

vars == <<runs, due, ub>>

Flushed == UNION UNION {runs[l] : l \in Levels}

Largest == CHOOSE l \in Levels :
  /\ l = 0 \/ runs[l] # {}
  /\ \A m \in Levels : m > l => runs[m] = {}

Overfull(l) ==
  \/ l < Largest /\ Cardinality(runs[l]) > K
  \/ l = Largest /\ Cardinality(runs[l]) > Z

(* The level a step compacts: of those that lose a run, the smallest.       *)
Lost(l) == ~ (runs[l] \subseteq runs'[l])

Compacted(l) == Lost(l) /\ \A m \in Levels : m < l => ~ Lost(m)

(* A level that a step leaves with too many runs can expect two more        *)
(* compactions; otherwise the one a step makes of it is one less to expect. *)
Account ==
  due' = [l \in Levels |->
            IF Overfull(l)' THEN 2
            ELSE IF Compacted(l) THEN due[l] - 1 ELSE due[l]]

Room(l) == T ^ l * (T - 1)

Fits(l, run) == Cardinality(run) <= Room(l)

Older(S, others) == \A r \in S, q \in others : \A m \in r, n \in q : m < n

Flush ==
  runs' = [runs EXCEPT ![0] = @ \cup {{Cardinality(Flushed) + 1}}]

Stay(l, S) == runs' = [runs EXCEPT ![l] = (@ \ S) \cup {UNION S}]

PushBeside(l, S) ==
  /\ Cardinality(runs[l + 1]) <= K
  /\ runs' = [runs EXCEPT ![l] = @ \ S, ![l + 1] = @ \cup {UNION S}]

PushInto(l, S) ==
  /\ Cardinality(runs[l + 1]) > K
  /\ runs' = [runs EXCEPT ![l] = @ \ S,
                          ![l + 1] = {(UNION @) \cup UNION S}]

Compact(l, S, newest) ==
  /\ due[l] > 0
  /\ newest = S \/ (MergesFail /\ Older(S \ newest, newest))
  /\ Older(S, runs[l] \ S)
  /\ IF Fits(l, UNION newest)
     THEN Stay(l, S)
     ELSE l + 1 \in Levels /\ (PushBeside(l, S) \/ PushInto(l, S))

Init == runs = [l \in Levels |-> {}] /\ due = [l \in Levels |-> 0] /\ ub = FALSE

Next ==
  \/ /\ ~ ub /\ UNCHANGED ub
     /\ Account
     /\ \/ Flush
        \/ \E l \in Levels : \E S \in SUBSET runs[l] :
             \E newest \in SUBSET S : Compact(l, S, newest)
  \/ ub'

Spec == Init /\ [][Next]_vars

=============================================================================
