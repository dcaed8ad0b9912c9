------------------------ MODULE CompactionWaitProofs ------------------------
(***************************************************************************)
(* Proofs about CompactionWait, for any number of waiters and compaction   *)
(* threads and any number of compactions.                                  *)
(***************************************************************************)
EXTENDS CompactionWait, FiniteSetTheorems, TLAPS

(* What the proofs need of the types.                                       *)
Typed ==
  /\ pc \in [Threads -> PCs]
  /\ needed \in Nat
  /\ seen \subseteq Threads

LEMMA TypedNext == Typed /\ [Next]_vars => Typed'
<1> SUFFICES ASSUME Typed, [Next]_vars PROVE Typed'
  OBVIOUS
<1> USE DEF Typed, dbVars, Threads, PCs, Reading
<1>1. CASE NeedCompaction
  BY <1>1 DEF NeedCompaction
<1>2. ASSUME NEW t \in Waiters, Call(t) \/ WaiterStep(t) PROVE Typed'
  BY <1>2 DEF Call, WaiterStep, Test, Break, Sleep, Timeout, Return
<1>3. ASSUME NEW w \in Workers, WorkerStep(w) PROVE Typed'
  <2>1. CASE StartCompaction(w)
    BY <2>1 DEF StartCompaction
  <2>2. CASE InstallCompaction(w)
    BY <2>2 DEF InstallCompaction
  <2>3. CASE Signal(w)
    BY <2>3 DEF Signal, NotifyOne
  <2>4. CASE LeaveCompaction(w)
    BY <2>4 DEF LeaveCompaction
  <2> QED
    BY <1>3, <2>1, <2>2, <2>3, <2>4 DEF WorkerStep
<1>4. ASSUME NEW t \in Threads, Lock(t) \/ ReadStep(t) PROVE Typed'
  BY <1>4 DEF Lock, ReadStep, ReadRunning, ReadBytes, ReadPending, ReadProperty
<1>5. CASE UNCHANGED vars
  BY <1>5 DEF vars
<1> QED
  BY <1>1, <1>2, <1>3, <1>4, <1>5 DEF Next

LEMMA TypedInvariant == Spec => []Typed
<1>1. Init => Typed
  BY DEF Init, Typed, PCs, Reading
<1> QED
  BY <1>1, TypedNext, PTL DEF Spec

-----------------------------------------------------------------------------
(* compaction_complete.                                                    *)

(* A callback that has read the number of running compactions has found at  *)
(* least its own.                                                           *)
CallbackSeesItself ==
  /\ \A w \in Workers : pc[w] \in {"bytes", "pending", "decide"} => w \in seen
  /\ ~ compaction_complete

LEMMA CallbackNext ==
  Typed /\ CallbackSeesItself /\ [Next]_vars => CallbackSeesItself'
<1> SUFFICES ASSUME Typed, CallbackSeesItself, [Next]_vars
             PROVE  CallbackSeesItself'
  OBVIOUS
<1> USE DEF Typed, CallbackSeesItself, dbVars
<1>1. CASE NeedCompaction
  BY <1>1 DEF NeedCompaction
<1>2. ASSUME NEW t \in Waiters, Call(t) \/ WaiterStep(t)
      PROVE  CallbackSeesItself'
  BY <1>2, ThreadsAssumption
     DEF Call, WaiterStep, Test, Break, Sleep, Timeout, Return, Threads
<1>3. ASSUME NEW w \in Workers, WorkerStep(w) PROVE CallbackSeesItself'
  <2>1. CASE StartCompaction(w) \/ InstallCompaction(w) \/ LeaveCompaction(w)
    BY <2>1 DEF StartCompaction, InstallCompaction, LeaveCompaction, Threads
  <2>2. CASE Signal(w)
    BY <2>2, ThreadsAssumption DEF Signal, NotifyOne, Asleep, Threads
  <2> QED
    BY <1>3, <2>1, <2>2 DEF WorkerStep
<1>4. ASSUME NEW t \in Threads, Lock(t) PROVE CallbackSeesItself'
  BY <1>4 DEF Lock, Threads
<1>5. ASSUME NEW t \in Threads, ReadRunning(t) PROVE CallbackSeesItself'
  <2>1. CASE t \in Workers
    <3> DEFINE counted == {w \in Workers : pc[w] # "idle"}
    <3>1. t \in counted
      BY <1>5, <2>1 DEF ReadRunning, ReadProperty
    <3>2. IsFiniteSet(counted) /\ Cardinality(counted) \in Nat
      BY ThreadsAssumption, FS_Subset, FS_CardinalityType
    <3>3. NumRunning > 0
      BY <3>1, <3>2, FS_EmptySet DEF NumRunning
    <3> QED
      BY <1>5, <3>3 DEF ReadRunning, ReadProperty, Threads
  <2>2. CASE t \notin Workers
    BY <1>5, <2>2 DEF ReadRunning, ReadProperty, Threads
  <2> QED
    BY <2>1, <2>2
<1>6. ASSUME NEW t \in Threads, ReadBytes(t) \/ ReadPending(t)
      PROVE  CallbackSeesItself'
  BY <1>6 DEF ReadBytes, ReadPending, ReadProperty, Threads
<1>7. CASE UNCHANGED vars
  BY <1>7 DEF vars
<1> QED
  BY <1>1, <1>2, <1>3, <1>4, <1>5, <1>6, <1>7 DEF Next, ReadStep

(* No compaction ever signals that it was the last one.                     *)
THEOREM NeverSignalled == Spec => []CompletionNeverSignalled
<1>1. Init => CallbackSeesItself
  BY ThreadsAssumption DEF Init, CallbackSeesItself, Threads
<1>2. CallbackSeesItself => CompletionNeverSignalled
  BY DEF CallbackSeesItself, CompletionNeverSignalled
<1> QED
  BY <1>1, <1>2, TypedInvariant, CallbackNext, PTL DEF Spec

-----------------------------------------------------------------------------
(* What a wait that ends on its reads has seen.                             *)

(* In the level style the second read alone sees whether the tree is at     *)
(* rest, and it stays at rest until a new need disturbs the reads.          *)
RestSeen ==
  \A t \in Waiters :
    pc[t] \in {"pending", "decide"} /\ t \notin seen /\ t \notin disturbed
      => Quiet

LEMMA RestSeenNext ==
  ASSUME LevelStyle
  PROVE  Typed /\ RestSeen /\ [Next]_vars => RestSeen'
<1> SUFFICES ASSUME Typed, RestSeen, [Next]_vars, NEW t \in Waiters,
                    pc'[t] \in {"pending", "decide"}, t \notin seen',
                    t \notin disturbed'
             PROVE  Quiet'
  BY DEF RestSeen
<1> USE DEF Typed, dbVars
<1>1. CASE NeedCompaction
  BY <1>1 DEF NeedCompaction, Disturb, Reading
<1>2. ASSUME NEW u \in Waiters, Call(u) \/ WaiterStep(u) PROVE Quiet'
  <2>1. pc[t] = pc'[t] /\ t \notin seen /\ t \notin disturbed
    BY <1>2 DEF Call, WaiterStep, Test, Break, Sleep, Timeout, Return, Threads
  <2>2. Quiet
    BY <2>1 DEF RestSeen
  <2>3. needed' = needed /\ Compacting' = Compacting
    BY <1>2, ThreadsAssumption
       DEF Call, WaiterStep, Test, Break, Sleep, Timeout, Return, Compacting,
           Threads
  <2> QED
    BY <2>2, <2>3 DEF Quiet
<1>3. ASSUME NEW w \in Workers, WorkerStep(w) PROVE Quiet'
  <2>1. pc[t] = pc'[t] /\ t \notin seen
    BY <1>3, ThreadsAssumption
       DEF WorkerStep, StartCompaction, InstallCompaction, Signal, NotifyOne,
           LeaveCompaction, Asleep, Threads
  <2>2. t \notin disturbed
    BY <1>3 DEF WorkerStep, StartCompaction, InstallCompaction, Signal,
                LeaveCompaction, Disturb
  <2>3. Quiet
    BY <2>1, <2>2 DEF RestSeen
  <2>4. needed' = needed /\ Compacting' = Compacting
    BY <1>3, <2>3, ThreadsAssumption
       DEF WorkerStep, StartCompaction, InstallCompaction, Signal, NotifyOne,
           LeaveCompaction, Quiet, Compacting, Asleep, Threads
  <2> QED
    BY <2>3, <2>4 DEF Quiet
<1>4. ASSUME NEW u \in Threads, Lock(u) \/ ReadStep(u) PROVE Quiet'
  <2>1. needed' = needed /\ Compacting' = Compacting
    BY <1>4 DEF Lock, ReadStep, ReadRunning, ReadBytes, ReadPending,
                ReadProperty, Compacting, Threads
  <2>2. Quiet
    <3>1. CASE u = t /\ ReadBytes(t)
      BY <3>1 DEF ReadBytes, ReadProperty, BytesPending, Quiet
    <3>2. CASE u # t \/ ~ ReadBytes(t)
      <4>1. pc[t] \in {"pending", "decide"}
        BY <1>4, <3>2 DEF Lock, ReadStep, ReadRunning, ReadBytes, ReadPending,
                          ReadProperty, Threads
      <4>2. t \notin seen /\ t \notin disturbed
        BY <1>4, <4>1 DEF Lock, ReadStep, ReadRunning, ReadBytes, ReadPending,
                          ReadProperty, Threads
      <4> QED
        BY <4>1, <4>2 DEF RestSeen
    <3> QED
      BY <3>1, <3>2
  <2> QED
    BY <2>1, <2>2 DEF Quiet
<1>5. CASE UNCHANGED vars
  BY <1>5 DEF vars, RestSeen, Quiet, Compacting
<1> QED
  BY <1>1, <1>2, <1>3, <1>4, <1>5 DEF Next

(* In the level style a wait that ends on what it read leaves a tree at     *)
(* rest, unless the tree came to need a compaction during the reads.        *)
THEOREM LevelStyleReturnsAtRest ==
  ASSUME LevelStyle
  PROVE  Spec => ReturnsAtRest
<1>1. Init => RestSeen
  BY DEF Init, RestSeen, Threads
<1>2. Typed /\ RestSeen /\ [Next]_vars
        => [\A t \in Waiters :
              pc[t] = "decide" /\ pc'[t] = "return"
                => Quiet \/ t \in disturbed]_vars
  <2> SUFFICES ASSUME Typed, RestSeen, Next, NEW t \in Waiters,
                      pc[t] = "decide", pc'[t] = "return",
                      t \notin disturbed
               PROVE  Quiet
    BY DEF vars
  <2>1. t \notin seen
    <3> SUFFICES ASSUME t \in seen PROVE FALSE
      OBVIOUS
    <3>1. \A u \in Waiters : ~ (Call(u) \/ WaiterStep(u))
      BY ThreadsAssumption
         DEF Typed, Call, WaiterStep, Test, Break, Sleep, Timeout, Return,
             Threads
    <3>2. \A w \in Workers : ~ WorkerStep(w)
      BY ThreadsAssumption
         DEF Typed, WorkerStep, StartCompaction, InstallCompaction, Signal,
             NotifyOne, Asleep, LeaveCompaction, Threads
    <3>3. \A u \in Threads : ~ (Lock(u) \/ ReadStep(u))
      BY DEF Typed, Lock, ReadStep, ReadRunning, ReadBytes, ReadPending,
             ReadProperty, Threads
    <3> QED
      BY <3>1, <3>2, <3>3 DEF Next, NeedCompaction
  <2> QED
    BY <2>1 DEF RestSeen
<1> QED
  BY <1>1, <1>2, TypedInvariant, RestSeenNext, PTL DEF Spec, ReturnsAtRest

-----------------------------------------------------------------------------
(* Types and the mutex.                                                    *)

(* mtx is held from the lock to the sleep, the return or the end of a       *)
(* callback, and by nobody else.                                            *)
InSection(t) == pc[t] \in Reading \cup {"test", "return"}

WaitInv ==
  /\ made \in 0 .. MaxCompactions
  /\ needed \in 0 .. made
  /\ compaction_complete \in BOOLEAN
  /\ mtx \in Threads \cup {Nobody}
  /\ disturbed \subseteq Waiters
  /\ \A t \in Threads : InSection(t) <=> mtx = t

LEMMA WaitInvNext == Typed /\ WaitInv /\ [Next]_vars => WaitInv'
<1> SUFFICES ASSUME Typed, WaitInv, [Next]_vars PROVE WaitInv'
  OBVIOUS
<1> USE ThreadsAssumption, ParametersAssumption
        DEF Typed, WaitInv, InSection, dbVars, Reading
<1>1. CASE NeedCompaction
  BY <1>1 DEF NeedCompaction, Disturb
<1>2. ASSUME NEW t \in Waiters, Call(t) \/ WaiterStep(t) PROVE WaitInv'
  <2>1. CASE Call(t) \/ Timeout(t)
    BY <2>1 DEF Call, Timeout, Threads
  <2>2. CASE Test(t) \/ Break(t)
    BY <2>2 DEF Test, Break, Threads
  <2>3. CASE Sleep(t) \/ Return(t)
    BY <2>3 DEF Sleep, Return, Threads
  <2> QED
    BY <1>2, <2>1, <2>2, <2>3 DEF WaiterStep
<1>3. ASSUME NEW w \in Workers, WorkerStep(w) PROVE WaitInv'
  <2>1. CASE StartCompaction(w) \/ LeaveCompaction(w)
    BY <2>1 DEF StartCompaction, LeaveCompaction, Threads
  <2>2. CASE InstallCompaction(w)
    BY <2>2 DEF InstallCompaction, Disturb, Threads
  <2>3. CASE Signal(w)
    BY <2>3 DEF Signal, NotifyOne, Asleep, Threads
  <2> QED
    BY <1>3, <2>1, <2>2, <2>3 DEF WorkerStep
<1>4. ASSUME NEW t \in Threads, Lock(t) PROVE WaitInv'
  BY <1>4 DEF Lock
<1>5. ASSUME NEW t \in Threads, ReadStep(t) PROVE WaitInv'
  BY <1>5 DEF ReadStep, ReadRunning, ReadBytes, ReadPending, ReadProperty
<1>6. CASE UNCHANGED vars
  BY <1>6 DEF vars
<1> QED
  BY <1>1, <1>2, <1>3, <1>4, <1>5, <1>6 DEF Next

LEMMA WaitInvariant == Spec => [](Typed /\ WaitInv)
<1>1. Init => WaitInv
  <2> SUFFICES ASSUME Init PROVE WaitInv
    OBVIOUS
  <2>1. \A t \in Threads : ~ InSection(t) /\ mtx # t
    BY ThreadsAssumption DEF Init, InSection, Reading
  <2>2. made \in 0 .. MaxCompactions /\ needed \in 0 .. made
    BY ParametersAssumption DEF Init
  <2> QED
    BY <2>1, <2>2 DEF Init, WaitInv
<1> QED
  BY <1>1, TypedInvariant, WaitInvNext, PTL DEF Spec

(* Waiters and compaction threads keep the types they are declared with.    *)
THEOREM WaitTypeCorrect == Spec => []TypeOK
<1>1. Typed /\ WaitInv => TypeOK
  BY ParametersAssumption DEF Typed, WaitInv, TypeOK
<1> QED
  BY <1>1, WaitInvariant, PTL

(* Two threads are never both between the lock and the unlock of mtx: a     *)
(* callback decides on the three properties while no waiter polls them, and *)
(* no step releases a mutex that another thread holds.                      *)
THEOREM MutualExclusion ==
  Spec => [](\A t, u \in Threads : InSection(t) /\ InSection(u) => t = u)
<1>1. WaitInv => \A t, u \in Threads : InSection(t) /\ InSection(u) => t = u
  BY DEF WaitInv
<1> QED
  BY <1>1, WaitInvariant, PTL

=============================================================================
