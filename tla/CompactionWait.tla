--------------------------- MODULE CompactionWait ---------------------------
(***************************************************************************)
(* WaitForCompactions and the CompactionsListner that is to end the wait   *)
(* (event_listners.h, event_listners.cc).                                  *)
(*                                                                         *)
(* A waiter polls three properties of the DB, one after the other, under   *)
(* mtx, and sleeps on cv between two polls for at most 10 ms.  Each        *)
(* compaction thread of RocksDB calls OnCompactionCompleted, which reads   *)
(* the same properties under mtx, when its compaction is installed and     *)
(* before it leaves the DB's count of running compactions.                 *)
(*                                                                         *)
(* Program counters of a waiter: outside, lock, test, running, bytes,      *)
(* pending, decide, wait, return; of a compaction thread: idle, compacting,*)
(* lock, running, bytes, pending, decide, leaving.  running, bytes and     *)
(* pending are the reads of the three properties.                          *)
(***************************************************************************)
EXTENDS Naturals, FiniteSets

CONSTANTS
  Waiters,         \* threads that call WaitForCompactions
  Workers,         \* compaction threads of RocksDB
  Nobody,          \* the owner of a free mutex
  LevelStyle,      \* the compaction style is kCompactionStyleLevel
  MaxCompactions   \* bound: compactions the tree comes to need

Threads == Waiters \cup Workers

ASSUME ThreadsAssumption ==
  /\ IsFiniteSet(Waiters)
  /\ IsFiniteSet(Workers)
  /\ Waiters \cap Workers = {}
  /\ Nobody \notin Threads

ASSUME ParametersAssumption ==
  /\ LevelStyle \in BOOLEAN
  /\ MaxCompactions \in Nat

VARIABLES
  needed,               \* compactions the tree needs, none running for them
  made,                 \* needs so far
  compaction_complete,
  mtx,                  \* owner of mtx
  pc,
  seen,                 \* threads that read some property as non-zero
  disturbed             \* waiters during whose reads a new need arose

vars == <<needed, made, compaction_complete, mtx, pc, seen, disturbed>>

dbVars == <<needed, made>>

-----------------------------------------------------------------------------
(* RocksDB.                                                                *)

Reading == {"running", "bytes", "pending", "decide"}

Compacting == {w \in Workers : pc[w] = "compacting"}

(* rocksdb.num-running-compactions counts a thread until its callbacks have *)
(* returned.                                                                *)
NumRunning == Cardinality({w \in Workers : pc[w] # "idle"})

(* rocksdb.estimate-pending-compaction-bytes is kept for the level style    *)
(* only, and covers the files of a compaction until it is installed.        *)
BytesPending == LevelStyle /\ (needed > 0 \/ Compacting # {})

(* rocksdb.compaction-pending leaves out what a compaction has picked.      *)
CompactionPending == needed > 0

(* Nothing runs and nothing will.                                           *)
Quiet == needed = 0 /\ Compacting = {}

Disturb == disturbed' = disturbed \cup {t \in Waiters : pc[t] \in Reading}

(* A flush makes the tree need one more compaction.                         *)
NeedCompaction ==
  /\ made < MaxCompactions
  /\ made' = made + 1
  /\ needed' = needed + 1
  /\ Disturb
  /\ UNCHANGED <<compaction_complete, mtx, pc, seen>>

(* Mutant of StartCompaction: a compaction starts that nothing needs.       *)
StartCompactionUnneeded(w) ==
  /\ pc[w] = "idle"
  /\ needed' = needed - 1
  /\ pc' = [pc EXCEPT ![w] = "compacting"]
  /\ UNCHANGED <<made, compaction_complete, mtx, seen, disturbed>>

StartCompaction(w) ==
  /\ pc[w] = "idle"
  /\ needed > 0
  /\ needed' = needed - 1
  /\ pc' = [pc EXCEPT ![w] = "compacting"]
  /\ UNCHANGED <<made, compaction_complete, mtx, seen, disturbed>>

(* The result may in turn overfill the next level.                          *)
InstallCompaction(w) ==
  /\ pc[w] = "compacting"
  /\ pc' = [pc EXCEPT ![w] = "lock"]
  /\ \/ UNCHANGED <<needed, made, disturbed>>
     \/ /\ made < MaxCompactions
        /\ made' = made + 1
        /\ needed' = needed + 1
        /\ Disturb
  /\ UNCHANGED <<compaction_complete, mtx, seen>>

LeaveCompaction(w) ==
  /\ pc[w] = "leaving"
  /\ pc' = [pc EXCEPT ![w] = "idle"]
  /\ UNCHANGED <<dbVars, compaction_complete, mtx, seen, disturbed>>

-----------------------------------------------------------------------------
(* The three reads, by a waiter or by a callback.                          *)

Lock(t) ==
  /\ pc[t] = "lock"
  /\ mtx = Nobody
  /\ mtx' = t
  /\ pc' = [pc EXCEPT ![t] = IF t \in Waiters THEN "test" ELSE "running"]
  /\ seen' = seen \ {t}
  /\ UNCHANGED <<dbVars, compaction_complete, disturbed>>

ReadProperty(t, property, nonzero, next) ==
  /\ pc[t] = property
  /\ seen' = IF nonzero THEN seen \cup {t} ELSE seen
  /\ pc' = [pc EXCEPT ![t] = next]
  /\ UNCHANGED <<dbVars, compaction_complete, mtx, disturbed>>

ReadRunning(t) == ReadProperty(t, "running", NumRunning > 0, "bytes")

(* Mutant of ReadBytes: the property is not read.                           *)
ReadBytesSkipped(t) == ReadProperty(t, "bytes", FALSE, "pending")

ReadBytes(t) == ReadProperty(t, "bytes", BytesPending, "pending")

ReadPending(t) == ReadProperty(t, "pending", CompactionPending, "decide")

-----------------------------------------------------------------------------
(* WaitForCompactions.                                                     *)

Call(t) ==
  /\ pc[t] = "outside"
  /\ pc' = [pc EXCEPT ![t] = "lock"]
  /\ UNCHANGED <<dbVars, compaction_complete, mtx, seen, disturbed>>

Test(t) ==
  /\ pc[t] = "test"
  /\ pc' = [pc EXCEPT ![t] = IF compaction_complete THEN "return"
                             ELSE "running"]
  /\ disturbed' = disturbed \ {t}
  /\ UNCHANGED <<dbVars, compaction_complete, mtx, seen>>

Break(t) ==
  /\ pc[t] = "decide"
  /\ t \notin seen
  /\ pc' = [pc EXCEPT ![t] = "return"]
  /\ UNCHANGED <<dbVars, compaction_complete, mtx, seen, disturbed>>

Sleep(t) ==
  /\ pc[t] = "decide"
  /\ t \in seen
  /\ mtx' = Nobody
  /\ pc' = [pc EXCEPT ![t] = "wait"]
  /\ UNCHANGED <<dbVars, compaction_complete, seen, disturbed>>

(* Mutant of Timeout: cv.wait(lock) instead of cv.wait_for(lock, 10 ms).    *)
TimeoutNever(t) ==
  /\ pc[t] = "wait"
  /\ UNCHANGED vars

Timeout(t) ==
  /\ pc[t] = "wait"
  /\ pc' = [pc EXCEPT ![t] = "lock"]
  /\ UNCHANGED <<dbVars, compaction_complete, mtx, seen, disturbed>>

Return(t) ==
  /\ pc[t] = "return"
  /\ mtx' = Nobody
  /\ pc' = [pc EXCEPT ![t] = "outside"]
  /\ UNCHANGED <<dbVars, compaction_complete, seen, disturbed>>

-----------------------------------------------------------------------------
(* The end of OnCompactionCompleted: the flag, notify_one, the unlock.      *)

Asleep == {t \in Waiters : pc[t] = "wait"}

NotifyOne(w) ==
  IF Asleep = {}
  THEN pc' = [pc EXCEPT ![w] = "leaving"]
  ELSE \E t \in Asleep : pc' = [pc EXCEPT ![w] = "leaving", ![t] = "lock"]

Signal(w) ==
  /\ pc[w] = "decide"
  /\ compaction_complete' = (compaction_complete \/ w \notin seen)
  /\ mtx' = Nobody
  /\ NotifyOne(w)
  /\ UNCHANGED <<dbVars, seen, disturbed>>

-----------------------------------------------------------------------------
Init ==
  /\ needed = 0
  /\ made = 0
  /\ compaction_complete = FALSE
  /\ mtx = Nobody
  /\ pc = [t \in Threads |-> IF t \in Waiters THEN "outside" ELSE "idle"]
  /\ seen = {}
  /\ disturbed = {}

ReadStep(t) == ReadRunning(t) \/ ReadBytes(t) \/ ReadPending(t)

WaiterStep(t) ==
  Test(t) \/ Break(t) \/ Sleep(t) \/ Timeout(t) \/ Return(t)

WorkerStep(w) ==
  \/ StartCompaction(w)
  \/ InstallCompaction(w)
  \/ Signal(w)
  \/ LeaveCompaction(w)

Next ==
  \/ NeedCompaction
  \/ \E t \in Waiters : Call(t) \/ WaiterStep(t)
  \/ \E w \in Workers : WorkerStep(w)
  \/ \E t \in Threads : Lock(t) \/ ReadStep(t)

Spec == Init /\ [][Next]_vars

(* Compactions end, a sleeping waiter times out, and a thread that wants    *)
(* mtx gets it in the end, since every waiter leaves it free while it       *)
(* sleeps.  Nobody has to call, and no compaction has to be needed.         *)
Fairness ==
  /\ \A t \in Waiters : WF_vars(WaiterStep(t))
  /\ \A w \in Workers : WF_vars(WorkerStep(w))
  /\ \A t \in Threads : WF_vars(ReadStep(t)) /\ SF_vars(Lock(t))

FairSpec == Spec /\ Fairness

-----------------------------------------------------------------------------
(* Properties.                                                             *)

PCs == Reading \cup {"outside", "idle", "compacting", "leaving", "lock", "test",
                    "wait", "return"}

TypeOK ==
  /\ needed \in 0 .. MaxCompactions
  /\ made \in 0 .. MaxCompactions
  /\ compaction_complete \in BOOLEAN
  /\ mtx \in Threads \cup {Nobody}
  /\ pc \in [Threads -> PCs]
  /\ seen \subseteq Threads
  /\ disturbed \subseteq Waiters

(* "Wait for compactions that are running (or will run)"                    *)
(* (WaitForCompactions): when the wait ends on what it read, the tree is at *)
(* rest, unless it came to need a compaction during the very reads.         *)
ReturnsAtRest ==
  [][\A t \in Waiters :
       pc[t] = "decide" /\ pc'[t] = "return" => Quiet \/ t \in disturbed]_vars

(* "After every compaction we check, if more compactions are required ...   *)
(* if not then it signals to close the db" (CompactionsListner): the        *)
(* callback of a compaction after which nothing is needed and nothing else  *)
(* runs sets compaction_complete.                                           *)
SignalsWhenDone ==
  [][\A w \in Workers :
       /\ pc[w] = "decide" /\ pc'[w] = "leaving"
       /\ needed = 0
       /\ \A v \in Workers \ {w} : pc[v] = "idle"
       => compaction_complete']_vars

(* A callback always counts its own compaction as running, so               *)
(* compaction_complete is never set: only the polling ends a wait.          *)
CompletionNeverSignalled == ~ compaction_complete

(* A wait ends when the compactions do, though the last notification comes  *)
(* before the compaction that sent it leaves the count, and none follows.   *)
WaitReturns == \A t \in Waiters : pc[t] = "lock" ~> pc[t] = "outside"
=============================================================================
