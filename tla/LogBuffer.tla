----------------------------- MODULE LogBuffer -----------------------------
(***************************************************************************)
(* The buffered log files (buffer.h, buffer.cc) and the handler that       *)
(* flushes them when SIGTERM or SIGINT ends the program.                   *)
(*                                                                         *)
(* The main thread constructs the Buffer objects, writes records with      *)
(* operator<<, flushes, and destroys the objects in reverse order when     *)
(* runWorkload returns.  A signal handler runs on top of the thread that   *)
(* is given the signal, which stands still meanwhile; when that is a       *)
(* thread of RocksDB, the main thread goes on.                             *)
(*                                                                         *)
(* A record is its number in the order of its log; buffer_limit is counted *)
(* in records.  Every library call (an insertion into a stream, a write, a *)
(* flush, a reset) is one step, and a handler that comes in the middle of  *)
(* one may crash the program or wait for good.  A write to the disk may    *)
(* fail after a part of it; nobody looks at the state of output_file.      *)
(***************************************************************************)
EXTENDS Naturals, Sequences, FiniteSets

CONSTANTS
  NumBuffers,   \* Buffer objects of the program
  BufferLimit,  \* buffer_limit
  MaxRecords,   \* bound: records written to one log
  FallibleLogs, \* bound: logs whose disk may be full
  Signals,      \* signals with the handler; bound: each comes at most once
  Main,         \* the main thread, and what it runs itself
  OtherThreads, \* threads of RocksDB
  Nobody        \* the owner of a free mutex_

Buffers  == 1 .. NumBuffers
Threads  == OtherThreads \cup {Main}
Contexts == Signals \cup {Main}

ASSUME BuffersAssumption ==
  /\ NumBuffers \in Nat \ {0} /\ BufferLimit \in Nat /\ MaxRecords \in Nat
  /\ FallibleLogs \subseteq Buffers

(* How the process may end, unless a handler ends it: "no" if it has not.   *)
(* "blocked" is no end: a thread waits for good; what the others still do   *)
(* then is what they do while it is slow.                                   *)
Outcomes == {"no", "returned", "terminated", "aborted", "SIGFPE", "crashed",
             "blocked"}

ASSUME ContextsAssumption ==
  /\ Main \notin OtherThreads /\ Main \notin Signals
  /\ Nobody \notin Contexts
  /\ Signals \cap Outcomes = {}

VARIABLES
  logged,     \* records written to each log so far
  buffer,     \* the string stream of each Buffer
  stream,     \* what output_file holds back
  file,       \* the log files
  failed,     \* logs whose output_file has its badbit set
  instances,  \* instances_
  mutex,      \* owner of mutex_
  caught,     \* register_signals has been called
  leaving,    \* runWorkload returns: the Buffer objects are being destroyed
  stack,      \* what runs on each thread, the interrupted below
  pc,         \* next step of the main thread and of the handlers
  at,         \* the Buffer a context works on; for a handler, its place in
              \* instances_
  ended       \* an outcome, or the signal whose handler ended the process

vars == <<logged, buffer, stream, file, failed, instances, mutex, caught,
          leaving, stack, pc, at, ended>>

streams == <<buffer, stream, file, failed>>

Runs(c) ==
  /\ ended = "no"
  /\ \E t \in Threads : stack[t] # <<>> /\ stack[t][Len(stack[t])] = c

On(c) == IF c = Main THEN at[c] ELSE instances[at[c]]

Goto(c, label) == pc' = [pc EXCEPT ![c] = label]

-----------------------------------------------------------------------------
(* flush(): the test, output_file << buffer.str(), output_file.flush(), the *)
(* reset of the stream.                                                    *)

(* What follows flush() in its caller.                                     *)
FlushReturns(c) ==
  IF c = Main
  THEN /\ Goto(c, IF leaving THEN "close" ELSE "ready")
       /\ UNCHANGED at
  ELSE IF at[c] < Len(instances)
       THEN Goto(c, "flush") /\ at' = [at EXCEPT ![c] = @ + 1]
       ELSE Goto(c, "exit") /\ UNCHANGED at

(* Mutant of FlushWrite: the stream is reset before it is written.          *)
FlushWriteAfterReset(c) ==
  /\ Runs(c) /\ pc[c] = "flush"
  /\ IF buffer[On(c)] = <<>>
     THEN FlushReturns(c) /\ UNCHANGED <<buffer, stream>>
     ELSE /\ stream' = [stream EXCEPT ![On(c)] = @ \o buffer[On(c)]]
          /\ buffer' = [buffer EXCEPT ![On(c)] = <<>>]
          /\ Goto(c, "sync")
          /\ UNCHANGED at
  /\ UNCHANGED <<logged, file, failed, instances, mutex, caught, leaving, stack,
                 ended>>

(* A part of the records reaches the file of log b, and the badbit is set.  *)
WriteFails(b, records) ==
  /\ b \in FallibleLogs
  /\ \E n \in 0 .. Len(records) - 1 :
       file' = [file EXCEPT ![b] = @ \o SubSeq(records, 1, n)]
  /\ failed' = failed \cup {b}

(* output_file takes the records, holding them back or (many of them)       *)
(* writing them through, which may fail; a stream that has failed ignores   *)
(* them.                                                                   *)
FlushWrite(c) ==
  /\ Runs(c) /\ pc[c] = "flush"
  /\ LET b == On(c)
     IN  IF buffer[b] = <<>>
         THEN FlushReturns(c) /\ UNCHANGED <<stream, file, failed>>
         ELSE /\ Goto(c, "sync") /\ UNCHANGED at
              /\ \/ /\ b \notin failed
                    /\ stream' = [stream EXCEPT ![b] = @ \o buffer[b]]
                    /\ UNCHANGED <<file, failed>>
                 \/ /\ b \notin failed
                    /\ WriteFails(b, stream[b] \o buffer[b])
                    /\ UNCHANGED stream
                 \/ b \in failed /\ UNCHANGED <<stream, file, failed>>
  /\ UNCHANGED <<logged, buffer, instances, mutex, caught, leaving, stack,
                 ended>>

(* Writing out what is held back; what cannot be written stays there.       *)
WriteOut(c, label) ==
  /\ LET b == On(c)
     IN  \/ /\ file' = [file EXCEPT ![b] = @ \o stream[b]]
            /\ stream' = [stream EXCEPT ![b] = <<>>]
            /\ UNCHANGED failed
         \/ WriteFails(b, stream[b]) /\ UNCHANGED stream
  /\ Goto(c, label)
  /\ UNCHANGED <<logged, buffer, instances, mutex, caught, leaving, stack, at,
                 ended>>

(* Mutant of FlushSync: what cannot be written is dropped, and forgotten.   *)
FlushSyncForgets(c) ==
  /\ Runs(c) /\ pc[c] = "sync"
  /\ \/ file' = [file EXCEPT ![On(c)] = @ \o stream[On(c)]]
     \/ On(c) \in FallibleLogs /\ UNCHANGED file
  /\ stream' = [stream EXCEPT ![On(c)] = <<>>]
  /\ Goto(c, "clear")
  /\ UNCHANGED <<logged, buffer, failed, instances, mutex, caught, leaving, stack,
                 at, ended>>

(* flush() of a stream that has failed tries again or does nothing,         *)
(* depending on the library.                                               *)
FlushSync(c) ==
  /\ Runs(c) /\ pc[c] = "sync"
  /\ \/ WriteOut(c, "clear")
     \/ /\ On(c) \in failed
        /\ Goto(c, "clear")
        /\ UNCHANGED <<logged, streams, instances, mutex, caught, leaving, stack,
                       at, ended>>

FlushClear(c) ==
  /\ Runs(c) /\ pc[c] = "clear"
  /\ buffer' = [buffer EXCEPT ![On(c)] = <<>>]
  /\ FlushReturns(c)
  /\ UNCHANGED <<logged, stream, file, failed, instances, mutex, caught, leaving,
                 stack, ended>>

FlushStep(c) == FlushWrite(c) \/ FlushSync(c) \/ FlushClear(c)

-----------------------------------------------------------------------------
(* The main thread.                                                        *)

Ready == Runs(Main) /\ pc[Main] = "ready"

(* The constructor opens and truncates the file, or throws.                 *)
Construct ==
  /\ Ready
  /\ Len(instances) < NumBuffers
  /\ \/ /\ Goto(Main, "register")
        /\ at' = [at EXCEPT ![Main] = Len(instances) + 1]
        /\ UNCHANGED ended
     \/ ended' = "terminated" /\ UNCHANGED <<pc, at>>
  /\ UNCHANGED <<logged, streams, instances, mutex, caught, leaving, stack>>

(* Mutant of LockInstances: the list is changed without the mutex.          *)
LockInstancesUnguarded ==
  /\ Runs(Main) /\ pc[Main] \in {"register", "unregister"}
  /\ Goto(Main, IF pc[Main] = "register" THEN "push_back" ELSE "remove")
  /\ UNCHANGED <<logged, streams, instances, mutex, caught, leaving, stack, at,
                 ended>>

(* lock_guard in register_instance and unregister_instance.                 *)
LockInstances ==
  /\ Runs(Main) /\ pc[Main] \in {"register", "unregister"}
  /\ mutex = Nobody
  /\ mutex' = Main
  /\ Goto(Main, IF pc[Main] = "register" THEN "push_back" ELSE "remove")
  /\ UNCHANGED <<logged, streams, instances, caught, leaving, stack, at, ended>>

(* Mutant of PushBack: the mutex is not unlocked.                           *)
PushBackKeepsMutex ==
  /\ Runs(Main) /\ pc[Main] = "push_back"
  /\ instances' = Append(instances, at[Main])
  /\ Goto(Main, "register_signals")
  /\ UNCHANGED <<logged, streams, mutex, caught, leaving, stack, at, ended>>

PushBack ==
  /\ Runs(Main) /\ pc[Main] = "push_back"
  /\ instances' = Append(instances, at[Main])
  /\ mutex' = Nobody
  /\ Goto(Main, "register_signals")
  /\ UNCHANGED <<logged, streams, caught, leaving, stack, at, ended>>

RegisterSignals ==
  /\ Runs(Main) /\ pc[Main] = "register_signals"
  /\ caught' = TRUE
  /\ Goto(Main, "ready")
  /\ UNCHANGED <<logged, streams, instances, mutex, leaving, stack, at, ended>>

(* operator<< inserts the record, then flushes a buffer that is full.       *)
Put(b) ==
  /\ Ready
  /\ b \in {instances[i] : i \in DOMAIN instances}
  /\ logged[b] < MaxRecords
  /\ Goto(Main, "insert")
  /\ at' = [at EXCEPT ![Main] = b]
  /\ UNCHANGED <<logged, streams, instances, mutex, caught, leaving, stack,
                 ended>>

Insert ==
  /\ Runs(Main) /\ pc[Main] = "insert"
  /\ LET b == at[Main]
     IN  /\ logged' = [logged EXCEPT ![b] = @ + 1]
         /\ buffer' = [buffer EXCEPT ![b] = Append(@, logged[b] + 1)]
         /\ Goto(Main, IF Len(buffer[b]) + 1 >= BufferLimit THEN "flush"
                       ELSE "ready")
  /\ UNCHANGED <<stream, file, failed, instances, mutex, caught, leaving, stack,
                 at, ended>>

Flush(b) ==
  /\ Ready
  /\ b \in {instances[i] : i \in DOMAIN instances}
  /\ Goto(Main, "flush")
  /\ at' = [at EXCEPT ![Main] = b]
  /\ UNCHANGED <<logged, streams, instances, mutex, caught, leaving, stack,
                 ended>>

(* The scope of runWorkload ends: the last object is destroyed first.       *)
Leave ==
  /\ Ready
  /\ Len(instances) = NumBuffers
  /\ leaving' = TRUE
  /\ Goto(Main, "flush")
  /\ at' = [at EXCEPT ![Main] = instances[Len(instances)]]
  /\ UNCHANGED <<logged, streams, instances, mutex, caught, stack, ended>>

Close == Runs(Main) /\ pc[Main] = "close" /\ WriteOut(Main, "unregister")

(* instances_ without Buffer b, which it holds once.                        *)
Without(b) ==
  LET i == CHOOSE i \in DOMAIN instances : instances[i] = b
  IN  SubSeq(instances, 1, i - 1) \o SubSeq(instances, i + 1, Len(instances))

Remove ==
  /\ Runs(Main) /\ pc[Main] = "remove"
  /\ instances' = Without(at[Main])
  /\ mutex' = Nobody
  /\ IF Len(instances) > 1
     THEN /\ Goto(Main, "flush")
          /\ at' = [at EXCEPT ![Main] = instances[Len(instances) - 1]]
     ELSE Goto(Main, "return") /\ UNCHANGED at
  /\ UNCHANGED <<logged, streams, caught, leaving, stack, ended>>

Return ==
  /\ Runs(Main) /\ pc[Main] = "return"
  /\ ended' = "returned"
  /\ UNCHANGED <<logged, streams, instances, mutex, caught, leaving, stack, pc,
                 at>>

-----------------------------------------------------------------------------
(* handle_signal.                                                          *)

(* Before register_signals a signal just ends the process.                  *)
Deliver(s, t) ==
  /\ ended = "no"
  /\ caught
  /\ pc[s] = "none"
  /\ stack' = [stack EXCEPT ![t] = Append(@, s)]
  /\ Goto(s, "lock")
  /\ UNCHANGED <<logged, streams, instances, mutex, caught, leaving, at, ended>>

(* Mutant of LockInHandler: the list is counted from 0.                     *)
LockInHandlerFromZero(s) ==
  /\ Runs(s) /\ pc[s] = "lock"
  /\ mutex = Nobody
  /\ mutex' = s
  /\ Goto(s, IF instances = <<>> THEN "exit" ELSE "flush")
  /\ at' = [at EXCEPT ![s] = 0]
  /\ UNCHANGED <<logged, streams, instances, caught, leaving, stack, ended>>

(* Mutant of LockInHandler: the handler does not lock.                      *)
LockInHandlerUnguarded(s) ==
  /\ Runs(s) /\ pc[s] = "lock"
  /\ Goto(s, IF instances = <<>> THEN "exit" ELSE "flush")
  /\ at' = [at EXCEPT ![s] = 1]
  /\ UNCHANGED <<logged, streams, instances, mutex, caught, leaving, stack, ended>>

LockInHandler(s) ==
  /\ Runs(s) /\ pc[s] = "lock"
  /\ mutex = Nobody
  /\ mutex' = s
  /\ Goto(s, IF instances = <<>> THEN "exit" ELSE "flush")
  /\ at' = [at EXCEPT ![s] = 1]
  /\ UNCHANGED <<logged, streams, instances, caught, leaving, stack, ended>>

(* std::exit does not unwind: the lock_guard keeps mutex_ for good.         *)
Exit(s) ==
  /\ Runs(s) /\ pc[s] = "exit"
  /\ ended' = s
  /\ UNCHANGED <<logged, streams, instances, mutex, caught, leaving, stack, pc,
                 at>>

(* A thread stands still for good once a handler has interrupted it, since  *)
(* handlers do not return; it may hold locks of a library (the allocator,   *)
(* stdio, the database) and leave objects half changed.  So may the main    *)
(* thread inside a library call; "ready" stands for all that it does        *)
(* between those on its logs.                                               *)
LibraryCalls == {"ready", "insert", "flush", "sync", "clear", "push_back",
                 "close", "remove", "return"}

Disturbed(c) ==
  /\ pc[c] \in LibraryCalls
  /\ \/ \E t \in OtherThreads : stack[t] # <<>>
     \/ c # Main /\ pc[Main] \in LibraryCalls

(* A context uses what another has changed by half, or waits for a lock     *)
(* that an interrupted thread holds; std::exit runs static destructors,     *)
(* under whatever threads there are and waiting for some of them.           *)
Fail(c) ==
  /\ Runs(c)
  /\ Disturbed(c) \/ pc[c] = "exit"
  /\ ended' \in {"crashed", "blocked"}
  /\ UNCHANGED <<logged, streams, instances, mutex, caught, leaving, stack, pc,
                 at>>

-----------------------------------------------------------------------------
Init ==
  /\ logged = [b \in Buffers |-> 0]
  /\ buffer = [b \in Buffers |-> <<>>]
  /\ stream = [b \in Buffers |-> <<>>]
  /\ file = [b \in Buffers |-> <<>>]
  /\ failed = {}
  /\ instances = <<>>
  /\ mutex = Nobody
  /\ caught = FALSE
  /\ leaving = FALSE
  /\ stack = [t \in Threads |-> IF t = Main THEN <<Main>> ELSE <<>>]
  /\ pc = [c \in Contexts |-> IF c = Main THEN "ready" ELSE "none"]
  /\ at = [c \in Contexts |-> 1]
  /\ ended = "no"

MainStep ==
  \/ LockInstances \/ PushBack \/ RegisterSignals
  \/ Insert \/ FlushStep(Main)
  \/ Close \/ Remove \/ Return

HandlerStep(s) == LockInHandler(s) \/ FlushStep(s) \/ Exit(s)

Next ==
  \/ MainStep
  \/ Construct \/ Leave
  \/ \E b \in Buffers : Put(b) \/ Flush(b)
  \/ \E s \in Signals : HandlerStep(s)
  \/ \E c \in Contexts : Fail(c)
  \/ \E s \in Signals, t \in Threads : Deliver(s, t)

Spec == Init /\ [][Next]_vars

(* What has been called goes on; nobody has to write, leave or signal.      *)
Fairness == WF_vars(MainStep) /\ \A s \in Signals : WF_vars(HandlerStep(s))

FairSpec == Spec /\ Fairness

-----------------------------------------------------------------------------
(* Properties.                                                             *)

Records == Seq(1 .. MaxRecords)

PCs == {"ready", "register", "push_back", "register_signals", "insert", "flush",
        "sync", "clear", "close", "unregister", "remove", "return", "none",
        "lock", "exit"}

TypeOK ==
  /\ logged \in [Buffers -> 0 .. MaxRecords]
  /\ buffer \in [Buffers -> Records]
  /\ stream \in [Buffers -> Records]
  /\ file \in [Buffers -> Records]
  /\ failed \subseteq FallibleLogs
  /\ instances \in Seq(Buffers)
  /\ mutex \in Contexts \cup {Nobody}
  /\ caught \in BOOLEAN
  /\ leaving \in BOOLEAN
  /\ stack \in [Threads -> Seq(Contexts)]
  /\ pc \in [Contexts -> PCs]
  /\ at \in [Contexts -> Buffers]
  /\ ended \in Signals \cup Outcomes

(* The records of log b from number m on.                                   *)
RecordsFrom(b, m) == [i \in 1 .. logged[b] - m + 1 |-> m + i - 1]

(* When a handler on the main thread has ended the program, every log whose *)
(* disk did not fail is on disk in full and in order; if the signal came in *)
(* the middle of a flush, the last piece of it once more.                   *)
HandlerLosesNothing ==
  \A s \in Signals :
    ended = s /\ s \in {stack[Main][i] : i \in DOMAIN stack[Main]} =>
      \A b \in Buffers \ failed : \E m \in 1 .. logged[b] + 1 :
        file[b] = RecordsFrom(b, 1) \o RecordsFrom(b, m)

(* No record is in a file more than twice, whatever signals come on         *)
(* whatever threads, unless writing the file has failed: only one handler   *)
(* ever flushes, since std::exit leaves mutex_ locked.                      *)
WrittenAtMostTwice ==
  \A b \in Buffers \ failed : \A r \in 1 .. logged[b] :
    Cardinality({i \in DOMAIN file[b] : file[b][i] = r}) <= 2

(* A handler works through instances_ while no Buffer leaves it: it never   *)
(* flushes one that has been destroyed.                                     *)
HandlerSeesNoDestroyedBuffer ==
  \A s \in Signals :
    pc[s] \in {"flush", "sync", "clear"} => at[s] <= Len(instances)

(* A program that returned has written every log whose disk did not fail in *)
(* full and once, even if a handler began on another thread: the destructor *)
(* waits for it to exit.                                                    *)
ReturnedMeansWritten ==
  ended = "returned" =>
    \A b \in Buffers \ failed : file[b] = RecordsFrom(b, 1)

(* A handler has begun on thread t.                                         *)
Begun(t) == \E i \in DOMAIN stack[t] : stack[t][i] \in Signals

Raced == \E t \in OtherThreads : Begun(t)

(* No record comes without the one before it.                               *)
Gapless(d) ==
  \A i \in DOMAIN d : d[i] = 1 \/ \E j \in 1 .. i - 1 : d[j] = d[i] - 1

(* Whatever its disk does, no log has a gap, unless a handler on another    *)
(* thread raced with its writer: the last records may be missing, and some  *)
(* written again.                                                          *)
NoGaps == ~ Raced => \A b \in Buffers : Gapless(file[b])

(* The worst that has happened to log b.                                    *)
Trouble(b) ==
  IF Raced THEN "race"
  ELSE IF Begun(Main) \/ b \in failed THEN "fault"
  ELSE "none"

(* The signal interrupted the holder of mutex_, which its handler waits for. *)
SelfDeadlock ==
  \E t \in Threads : \E i, j \in DOMAIN stack[t] :
    i < j /\ stack[t][i] = mutex /\ pc[stack[t][j]] = "lock"

(* A signal ends the program, unless it interrupted the registration of a   *)
(* Buffer, or its end, or another handler on the same thread, or a thread   *)
(* is blocked: a handler in a library call (an allocation, say) or in the   *)
(* static destructors of std::exit, or the main thread by a thread of       *)
(* RocksDB that a handler interrupted.                                      *)
HandlerEndsProcess ==
  \A s \in Signals : pc[s] = "lock" ~> ended # "no" \/ SelfDeadlock

=============================================================================
