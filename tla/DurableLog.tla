----------------------------- MODULE DurableLog -----------------------------
(***************************************************************************)
(* What a log promises its writer, whatever stream it is written through:  *)
(* records are numbered as they are logged, and those on disk only grow.   *)
(* Left alone, the disk takes the next records in order, and all of them   *)
(* by the time the log is closed.  After a fault (a failed write, a signal *)
(* in the middle of one) records may be written again and the last ones    *)
(* never, but none is on disk without its predecessor.  Only a signal      *)
(* handler on another thread, which races with the writer, may leave gaps. *)
(***************************************************************************)
EXTENDS Naturals, Sequences

CONSTANT Limit   \* bound: records of the log

VARIABLES
  logged,  \* the number of records so far
  disk,    \* the records in the file
  trouble, \* "none", "fault" or "race": the worst that has happened
  closed

vars == <<logged, disk, trouble, closed>>

Grows == Len(disk) <= Len(disk') /\ SubSeq(disk', 1, Len(disk)) = disk

(* No record comes without the one before it.                               *)
Gapless(d) ==
  \A i \in DOMAIN d : d[i] = 1 \/ \E j \in 1 .. i - 1 : d[j] = d[i] - 1

Log ==
  /\ ~closed /\ logged < Limit
  /\ logged' = logged + 1
  /\ UNCHANGED <<disk, trouble, closed>>

(* The records from the first that is not on disk.                          *)
Write ==
  /\ ~closed /\ trouble = "none"
  /\ \E n \in 1 .. logged - Len(disk) :
       disk' = disk \o [i \in 1 .. n |-> Len(disk) + i]
  /\ UNCHANGED <<logged, trouble, closed>>

WriteInTrouble ==
  /\ ~closed
  /\ trouble' \in {"fault", "race"} /\ (trouble = "race" => trouble' = "race")
  /\ Grows
  /\ \A i \in DOMAIN disk' : disk'[i] \in 1 .. logged
  /\ trouble' = "fault" => Gapless(disk')
  /\ UNCHANGED <<logged, closed>>

Meet(t) ==
  /\ ~closed /\ trouble # "race"
  /\ trouble' = t
  /\ UNCHANGED <<logged, disk, closed>>

Close ==
  /\ ~closed /\ closed' = TRUE
  /\ trouble = "none" => Len(disk) = logged
  /\ UNCHANGED <<logged, disk, trouble>>

Init == logged = 0 /\ disk = <<>> /\ trouble = "none" /\ closed = FALSE

Next ==
  \/ Log \/ Write \/ WriteInTrouble \/ Close
  \/ \E t \in {"fault", "race"} : Meet(t)

Spec == Init /\ [][Next]_vars

=============================================================================
