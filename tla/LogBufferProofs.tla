--------------------------- MODULE LogBufferProofs ---------------------------
(***************************************************************************)
(* Proofs about LogBuffer, for any number of logs, of threads and of       *)
(* signals, any limit of the buffers and any disks that fail.              *)
(***************************************************************************)
EXTENDS LogBuffer, SequenceTheorems, FiniteSetTheorems, TLAPS

(* A caller of the Buffers may end the process between two calls.           *)
EndedByCaller ==
  /\ ended = "no" /\ ended' \in Outcomes \ {"returned"}
  /\ UNCHANGED <<logged, streams, instances, mutex, caught, leaving, stack, pc,
                 at>>

LogStep == Next \/ EndedByCaller \/ UNCHANGED vars

(* A failure ends the process just so.                                      *)
LEMMA FailEnds == \A c \in Contexts : Fail(c) => EndedByCaller
BY DEF Fail, EndedByCaller, streams, Runs, Outcomes

-----------------------------------------------------------------------------
(* Who is where.                                                           *)

(* The Buffer objects are constructed in the order of their numbers.        *)
InstancesInv == \A i \in DOMAIN instances : instances[i] = i

MainInv ==
  /\ pc[Main] \notin {"none", "lock", "exit"}
  /\ pc[Main] \in {"register", "push_back", "register_signals", "ready",
                   "insert"} => ~ leaving
  /\ pc[Main] \in {"close", "unregister", "remove", "return"} => leaving
  /\ pc[Main] \in {"register", "push_back"} => at[Main] = Len(instances) + 1
  /\ pc[Main] \in {"insert", "flush", "sync", "clear"} =>
       at[Main] \in DOMAIN instances
  /\ pc[Main] = "insert" => logged[at[Main]] < MaxRecords
  /\ leaving => IF pc[Main] = "return"
                THEN instances = <<>>
                ELSE instances # <<>> /\ at[Main] = Len(instances)

(* The handler that has locked mutex_ keeps it, so it is the only one.      *)
HandlerInv ==
  /\ mutex = Main <=> pc[Main] \in {"push_back", "remove"}
  /\ \A s \in Signals :
       /\ pc[s] \in {"none", "lock", "flush", "sync", "clear", "exit"}
       /\ mutex = s <=> pc[s] \in {"flush", "sync", "clear", "exit"}
       /\ pc[s] \in {"flush", "sync", "clear"} => at[s] \in DOMAIN instances

(* The main thread is below its handlers; a handler that has begun is on a  *)
(* stack.                                                                  *)
StackInv ==
  /\ stack[Main] # <<>>
  /\ \A t \in Threads : \A i \in DOMAIN stack[t] :
       stack[t][i] = Main <=> t = Main /\ i = 1
  /\ \A s \in Signals :
       pc[s] # "none"
         <=> \E t \in Threads : \E i \in DOMAIN stack[t] : stack[t][i] = s

EndInv ==
  /\ \A s \in Signals : ended = s => pc[s] = "exit"
  /\ ended = "returned" => pc[Main] = "return"

PlaceInv == InstancesInv /\ MainInv /\ HandlerInv /\ StackInv /\ EndInv

BufferInv == TypeOK /\ PlaceInv

LEMMA ContextsType ==
  /\ Main \in Contexts /\ Main \notin Signals /\ Main \in Threads
  /\ Signals \subseteq Contexts /\ Nobody # Main /\ Nobody \notin Signals
  /\ "no" \notin Signals /\ \A s \in Signals : s \notin Outcomes
BY ContextsAssumption DEF Contexts, Threads, Outcomes

(* The Buffer a context works on.                                           *)
LEMMA OnType ==
  ASSUME BufferInv, NEW c \in Contexts,
         pc[c] \in {"flush", "sync", "clear"} \/ (c = Main /\ pc[c] = "close")
  PROVE  On(c) = at[c] /\ On(c) \in DOMAIN instances /\ On(c) \in Buffers
<1>1. at[c] \in Buffers
  BY DEF BufferInv, TypeOK
<1>2. CASE c = Main
  <2>1. Len(instances) \in Nat /\ DOMAIN instances = 1 .. Len(instances)
    BY DEF BufferInv, TypeOK
  <2>2. at[Main] \in DOMAIN instances
    BY <1>2, <2>1 DEF BufferInv, PlaceInv, MainInv, TypeOK
  <2> QED
    BY <1>1, <1>2, <2>2 DEF On
<1>3. CASE c # Main
  <2>1. c \in Signals
    BY <1>3 DEF Contexts
  <2>2. at[c] \in DOMAIN instances
    BY <1>3, <2>1 DEF BufferInv, PlaceInv, HandlerInv
  <2> QED
    BY <1>1, <1>3, <2>2 DEF On, BufferInv, PlaceInv, InstancesInv
<1> QED
  BY <1>2, <1>3

(* A thread runs what is on top of its stack; the main thread, only while   *)
(* no handler runs on it.                                                  *)
LEMMA MainRuns ==
  ASSUME BufferInv, Runs(Main)
  PROVE  ended = "no" /\ Len(stack[Main]) = 1
<1>1. PICK t \in Threads : stack[t] # <<>> /\ stack[t][Len(stack[t])] = Main
  BY DEF Runs
<1>2. stack[t] \in Seq(Contexts)
  BY DEF BufferInv, TypeOK
<1>3. Len(stack[t]) \in DOMAIN stack[t]
  BY <1>1, <1>2
<1>4. t = Main /\ Len(stack[t]) = 1
  BY <1>1, <1>3 DEF BufferInv, PlaceInv, StackInv
<1> QED
  BY <1>4 DEF Runs

-----------------------------------------------------------------------------
(* Types.                                                                  *)

LEMMA FlushReturnsType ==
  ASSUME BufferInv, NEW c \in Contexts, pc[c] \in {"flush", "sync", "clear"},
         FlushReturns(c)
  PROVE  /\ pc' \in [Contexts -> PCs] /\ at' \in [Contexts -> Buffers]
         /\ pc' = [pc EXCEPT ![c] = pc'[c]]
         /\ \A d \in Contexts : d # c => at'[d] = at[d]
<1>1. /\ pc \in [Contexts -> PCs] /\ at \in [Contexts -> Buffers]
      /\ instances \in Seq(Buffers)
  BY DEF BufferInv, TypeOK
<1>2. CASE c = Main
  BY <1>1, <1>2 DEF FlushReturns, Goto, PCs
<1>3. CASE c # Main /\ at[c] < Len(instances)
  <2>1. at[c] = On(c) /\ at[c] \in DOMAIN instances
    BY OnType
  <2>2. at[c] + 1 \in DOMAIN instances
    BY <1>1, <1>3, <2>1
  <2>3. at[c] + 1 \in Buffers
    <3>1. instances[at[c] + 1] = at[c] + 1
      BY <2>2 DEF BufferInv, PlaceInv, InstancesInv
    <3> QED
      BY <1>1, <2>2, <3>1
  <2> QED
    BY <1>1, <1>3, <2>3 DEF FlushReturns, Goto, PCs
<1>4. CASE c # Main /\ ~ (at[c] < Len(instances))
  BY <1>1, <1>4 DEF FlushReturns, Goto, PCs
<1> QED
  BY <1>2, <1>3, <1>4

LEMMA WriteFailsType ==
  ASSUME TypeOK, NEW b \in Buffers, NEW records \in Records,
         WriteFails(b, records)
  PROVE  file' \in [Buffers -> Records] /\ failed' \subseteq FallibleLogs
<1>1. PICK n \in 0 .. Len(records) - 1 :
        file' = [file EXCEPT ![b] = @ \o SubSeq(records, 1, n)]
  BY DEF WriteFails
<1>2. Len(records) \in Nat /\ \A i \in 1 .. Len(records) : records[i] \in 1 .. MaxRecords
  BY LenProperties, ElementOfSeq DEF Records
<1>3. \A i \in 1 .. n : records[i] \in 1 .. MaxRecords
  BY <1>2
<1>4. SubSeq(records, 1, n) \in Records
  BY <1>2, <1>3, SubSeqProperties DEF Records
<1>5. file[b] \o SubSeq(records, 1, n) \in Records
  BY <1>4, ConcatProperties DEF TypeOK, Records
<1> QED
  BY <1>1, <1>5 DEF TypeOK, WriteFails

LEMMA WriteOutType ==
  ASSUME BufferInv, NEW c \in Contexts, On(c) \in Buffers, NEW label \in PCs,
         WriteOut(c, label)
  PROVE  TypeOK'
<1>1. TypeOK
  BY DEF BufferInv
<1>2. stream[On(c)] \in Records /\ file[On(c)] \in Records
  BY <1>1 DEF TypeOK
<1>3. file[On(c)] \o stream[On(c)] \in Records /\ <<>> \in Records
  BY <1>2, ConcatProperties DEF Records
<1>4. pc' \in [Contexts -> PCs]
  BY <1>1 DEF WriteOut, Goto, TypeOK
<1>5. CASE /\ file' = [file EXCEPT ![On(c)] = @ \o stream[On(c)]]
           /\ stream' = [stream EXCEPT ![On(c)] = <<>>]
           /\ UNCHANGED failed
  BY <1>1, <1>3, <1>4, <1>5 DEF WriteOut, TypeOK
<1>6. CASE WriteFails(On(c), stream[On(c)]) /\ UNCHANGED stream
  BY <1>1, <1>2, <1>4, <1>6, WriteFailsType DEF WriteOut, TypeOK
<1> QED
  BY <1>5, <1>6 DEF WriteOut

LEMMA FlushStepType ==
  ASSUME BufferInv, NEW c \in Contexts, FlushStep(c)
  PROVE  TypeOK'
<1>1. TypeOK
  BY DEF BufferInv
<1>2. CASE FlushWrite(c)
  <2>1. On(c) \in Buffers /\ pc[c] = "flush"
    BY <1>2, OnType DEF FlushWrite
  <2> DEFINE b == On(c)
  <2>2. b \in Buffers
    BY <2>1
  <2>3. buffer[b] \in Records /\ stream[b] \in Records
    BY <1>1, <2>2 DEF TypeOK
  <2>4. stream[b] \o buffer[b] \in Records
    BY <2>3, ConcatProperties DEF Records
  <2>5. CASE buffer[b] = <<>>
    <3>1. FlushReturns(c) /\ UNCHANGED <<stream, file, failed>>
      BY <1>2, <2>5 DEF FlushWrite
    <3> QED
      BY <1>1, <1>2, <2>1, <3>1, FlushReturnsType DEF FlushWrite, TypeOK
  <2>6. CASE buffer[b] # <<>>
    <3>1. pc' \in [Contexts -> PCs] /\ at' = at
      BY <1>1, <1>2, <2>6 DEF FlushWrite, Goto, TypeOK, PCs
    <3>2. \/ /\ stream' = [stream EXCEPT ![b] = @ \o buffer[b]]
             /\ UNCHANGED <<file, failed>>
          \/ WriteFails(b, stream[b] \o buffer[b]) /\ UNCHANGED stream
          \/ UNCHANGED <<stream, file, failed>>
      BY <1>2, <2>6 DEF FlushWrite
    <3> HIDE DEF b
    <3>3. /\ stream' \in [Buffers -> Records] /\ file' \in [Buffers -> Records]
          /\ failed' \subseteq FallibleLogs
      <4>1. CASE stream' = [stream EXCEPT ![b] = @ \o buffer[b]]
                   /\ UNCHANGED <<file, failed>>
        BY <1>1, <2>4, <4>1 DEF TypeOK
      <4>2. CASE WriteFails(b, stream[b] \o buffer[b]) /\ UNCHANGED stream
        <5>1. PICK records \in Records : records = stream[b] \o buffer[b]
          BY <2>4
        <5> QED
          BY <1>1, <2>2, <4>2, <5>1, WriteFailsType DEF TypeOK
      <4>3. CASE UNCHANGED <<stream, file, failed>>
        BY <1>1, <4>3 DEF TypeOK
      <4> QED
        BY <3>2, <4>1, <4>2, <4>3
    <3> QED
      BY <1>1, <1>2, <3>1, <3>3 DEF FlushWrite, TypeOK
  <2> QED
    BY <2>5, <2>6
<1>3. CASE FlushSync(c)
  <2>1. On(c) \in Buffers
    BY <1>3, OnType DEF FlushSync
  <2>2. CASE WriteOut(c, "clear")
    BY <2>1, <2>2, WriteOutType DEF PCs
  <2>3. CASE ~ WriteOut(c, "clear")
    BY <1>1, <1>3, <2>3 DEF FlushSync, streams, Goto, TypeOK, PCs
  <2> QED
    BY <2>2, <2>3
<1>4. CASE FlushClear(c)
  <2>1. On(c) \in Buffers /\ pc[c] = "clear" /\ FlushReturns(c)
    BY <1>4, OnType DEF FlushClear
  <2>2. pc' \in [Contexts -> PCs] /\ at' \in [Contexts -> Buffers]
    BY <2>1, FlushReturnsType
  <2>3. buffer' \in [Buffers -> Records]
    BY <1>1, <1>4, <2>1 DEF FlushClear, TypeOK, Records
  <2> QED
    BY <1>1, <1>4, <2>2, <2>3 DEF FlushClear, TypeOK
<1> QED
  BY <1>2, <1>3, <1>4 DEF FlushStep

(* Removing the Buffer that was constructed last leaves the others.         *)
LEMMA RemoveLast ==
  ASSUME BufferInv, pc[Main] = "remove"
  PROVE  /\ Len(instances) \in Nat \ {0} /\ at[Main] = Len(instances)
         /\ Without(at[Main]) \in Seq(Buffers)
         /\ Len(Without(at[Main])) = Len(instances) - 1
         /\ \A i \in 1 .. Len(instances) - 1 : Without(at[Main])[i] = instances[i]
<1> DEFINE n == Len(instances)
<1>1. /\ instances \in Seq(Buffers) /\ n \in Nat \ {0} /\ at[Main] = n
      /\ DOMAIN instances = 1 .. n
  BY DEF BufferInv, TypeOK, PlaceInv, MainInv
<1>2. \A i \in 1 .. n : instances[i] = i /\ instances[i] \in Buffers
  BY <1>1 DEF BufferInv, PlaceInv, InstancesInv
<1>3. (CHOOSE i \in DOMAIN instances : instances[i] = n) = n
  <2>1. n \in DOMAIN instances /\ instances[n] = n
    BY <1>1, <1>2
  <2>2. \A i \in DOMAIN instances : instances[i] = n => i = n
    BY <1>1, <1>2
  <2> QED
    BY <2>1, <2>2
<1>4. Without(n) = SubSeq(instances, 1, n - 1) \o SubSeq(instances, n + 1, n)
  BY <1>3 DEF Without
<1> HIDE DEF n
<1>5. SubSeq(instances, n + 1, n) = <<>>
  BY <1>1, SubSeqEmpty
<1>6. /\ SubSeq(instances, 1, n - 1) \in Seq(Buffers)
      /\ Len(SubSeq(instances, 1, n - 1)) = n - 1
      /\ \A i \in 1 .. n - 1 : SubSeq(instances, 1, n - 1)[i] = instances[i]
  <2>1. \A i \in 1 .. n - 1 : instances[i] \in Buffers
    BY <1>1, <1>2
  <2>2. n - 1 \in Int /\ 1 \in Int
    BY <1>1
  <2>3. /\ SubSeq(instances, 1, n - 1) \in Seq(Buffers)
        /\ Len(SubSeq(instances, 1, n - 1))
             = IF 1 <= n - 1 THEN n - 1 - 1 + 1 ELSE 0
        /\ \A i \in 1 .. n - 1 - 1 + 1 :
             SubSeq(instances, 1, n - 1)[i] = instances[1 + i - 1]
    BY <2>1, <2>2, SubSeqProperties
  <2> QED
    BY <1>1, <2>3
<1>7. Without(n) = SubSeq(instances, 1, n - 1)
  BY <1>4, <1>5, <1>6, ConcatEmptySeq
<1> QED
  BY <1>1, <1>6, <1>7 DEF n

LEMMA LogTypeNext ==
  ASSUME BufferInv, LogStep
  PROVE  TypeOK'
<1>1. TypeOK
  BY DEF BufferInv
<1>2. Main \in Contexts /\ Main \in Threads
  BY ContextsType
<1>3. CASE LockInstances
  BY <1>1, <1>2, <1>3 DEF LockInstances, streams, Goto, TypeOK, PCs
<1>4. CASE PushBack
  <2>1. at[Main] \in Buffers
    BY <1>1, <1>2 DEF TypeOK
  <2> QED
    BY <1>1, <1>2, <1>4, <2>1 DEF PushBack, streams, Goto, TypeOK, PCs
<1>5. CASE RegisterSignals
  BY <1>1, <1>2, <1>5 DEF RegisterSignals, streams, Goto, TypeOK, PCs
<1>6. CASE Insert
  <2> DEFINE b == at[Main]
  <2>1. b \in Buffers /\ logged[b] < MaxRecords /\ MaxRecords \in Nat
    BY <1>1, <1>2, <1>6, BuffersAssumption
       DEF Insert, TypeOK, BufferInv, PlaceInv, MainInv
  <2>2. logged[b] + 1 \in 1 .. MaxRecords
    BY <1>1, <2>1 DEF TypeOK
  <2>3. Append(buffer[b], logged[b] + 1) \in Records
    BY <1>1, <2>1, <2>2, AppendProperties DEF TypeOK, Records
  <2> HIDE DEF b
  <2>4. /\ logged' = [logged EXCEPT ![b] = @ + 1]
        /\ buffer' = [buffer EXCEPT ![b] = Append(@, logged[b] + 1)]
    BY <1>6 DEF Insert, b
  <2>5. /\ logged' \in [Buffers -> 0 .. MaxRecords]
        /\ buffer' \in [Buffers -> Records]
    BY <1>1, <2>1, <2>2, <2>3, <2>4 DEF TypeOK
  <2>6. pc' \in [Contexts -> PCs]
    BY <1>1, <1>2, <1>6 DEF Insert, Goto, TypeOK, PCs
  <2> QED
    BY <1>1, <1>6, <2>5, <2>6 DEF Insert, TypeOK
<1>7. ASSUME NEW c \in Contexts, FlushStep(c) PROVE TypeOK'
  BY <1>7, FlushStepType
<1>8. CASE Close
  <2>1. On(Main) \in Buffers /\ WriteOut(Main, "unregister")
    BY <1>2, <1>8, OnType DEF Close
  <2> QED
    BY <1>2, <2>1, WriteOutType DEF PCs
<1>9. CASE Remove
  <2>1. instances' \in Seq(Buffers)
    BY <1>9, RemoveLast DEF Remove
  <2>2. at' \in [Contexts -> Buffers]
    <3>1. CASE Len(instances) > 1
      <4>1. instances[Len(instances) - 1] \in Buffers
        BY <1>1, <3>1 DEF TypeOK
      <4> QED
        BY <1>1, <1>9, <3>1, <4>1 DEF Remove, TypeOK
    <3>2. CASE ~ (Len(instances) > 1)
      BY <1>1, <1>9, <3>2 DEF Remove, TypeOK
    <3> QED
      BY <3>1, <3>2
  <2>3. pc' \in [Contexts -> PCs]
    BY <1>1, <1>2, <1>9 DEF Remove, Goto, TypeOK, PCs
  <2> QED
    BY <1>1, <1>9, <2>1, <2>2, <2>3 DEF Remove, streams, TypeOK
<1>10. CASE Return
  BY <1>1, <1>10 DEF Return, streams, TypeOK, Outcomes
<1>11. CASE Construct
  <2>1. Len(instances) + 1 \in Buffers
    BY <1>1, <1>11, BuffersAssumption DEF Construct, TypeOK, Buffers
  <2>2. CASE ended' = "terminated" /\ UNCHANGED <<pc, at>>
    BY <1>1, <1>11, <2>2 DEF Construct, streams, TypeOK, Outcomes
  <2>3. CASE /\ Goto(Main, "register")
             /\ at' = [at EXCEPT ![Main] = Len(instances) + 1]
             /\ UNCHANGED ended
    BY <1>1, <1>2, <1>11, <2>1, <2>3 DEF Construct, streams, Goto, TypeOK, PCs
  <2> QED
    BY <1>11, <2>2, <2>3 DEF Construct
<1>12. CASE Leave
  <2>1. instances[Len(instances)] \in Buffers
    BY <1>1, <1>12, BuffersAssumption DEF Leave, TypeOK
  <2> QED
    BY <1>1, <1>2, <1>12, <2>1 DEF Leave, streams, Goto, TypeOK, PCs
<1>13. ASSUME NEW b \in Buffers, Put(b) \/ Flush(b) PROVE TypeOK'
  BY <1>1, <1>2, <1>13 DEF Put, Flush, streams, Goto, TypeOK, PCs
<1>14. ASSUME NEW s \in Signals, LockInHandler(s) PROVE TypeOK'
  <2>1. CASE instances = <<>>
    <3>1. 1 \in Buffers
      BY BuffersAssumption DEF Buffers
    <3> QED
      BY <1>1, <1>14, <2>1, <3>1, ContextsType
         DEF LockInHandler, streams, Goto, TypeOK, PCs
  <2>2. CASE instances # <<>>
    <3>1. 1 \in Buffers
      BY BuffersAssumption DEF Buffers
    <3> QED
      BY <1>1, <1>14, <2>2, <3>1, ContextsType
         DEF LockInHandler, streams, Goto, TypeOK, PCs
  <2> QED
    BY <2>1, <2>2
<1>15. ASSUME NEW s \in Signals, Exit(s) PROVE TypeOK'
  BY <1>1, <1>15 DEF Exit, streams, TypeOK, Outcomes
<1>16. ASSUME NEW s \in Signals, NEW t \in Threads, Deliver(s, t) PROVE TypeOK'
  <2>1. s \in Contexts
    BY ContextsType
  <2>2. Append(stack[t], s) \in Seq(Contexts)
    BY <1>1, <2>1, AppendProperties DEF TypeOK
  <2> QED
    BY <1>1, <1>16, <2>1, <2>2 DEF Deliver, streams, Goto, TypeOK, PCs
<1>17. CASE EndedByCaller \/ UNCHANGED vars
  BY <1>1, <1>17 DEF EndedByCaller, streams, vars, TypeOK
<1> QED
  BY <1>2, <1>3, <1>4, <1>5, <1>6, <1>7, <1>8, <1>9, <1>10, <1>11, <1>12,
     <1>13, <1>14, <1>15, <1>16, <1>17, ContextsType, FailEnds
     DEF LogStep, Next, MainStep, HandlerStep

-----------------------------------------------------------------------------
(* Places.                                                                 *)

(* How a call of flush() goes on.                                           *)
LEMMA FlushStepMoves ==
  ASSUME BufferInv, NEW c \in Contexts, FlushStep(c)
  PROVE  /\ ended = "no" /\ pc[c] \in {"flush", "sync", "clear"}
         /\ UNCHANGED <<logged, instances, mutex, caught, leaving, stack, ended>>
         /\ pc' = [pc EXCEPT ![c] = pc'[c]]
         /\ \A d \in Contexts : d # c => at'[d] = at[d]
         /\ \/ pc'[c] \in {"sync", "clear"} /\ at'[c] = at[c]
            \/ /\ c = Main /\ at'[c] = at[c]
               /\ pc'[c] = IF leaving THEN "close" ELSE "ready"
            \/ /\ c # Main /\ pc'[c] = "flush"
               /\ at[c] < Len(instances) /\ at'[c] = at[c] + 1
            \/ /\ c # Main /\ pc'[c] = "exit"
               /\ at[c] = Len(instances) /\ at'[c] = at[c]
<1>1. /\ pc \in [Contexts -> PCs] /\ at \in [Contexts -> Buffers]
      /\ instances \in Seq(Buffers)
  BY DEF BufferInv, TypeOK
<1>2. /\ ended = "no" /\ pc[c] \in {"flush", "sync", "clear"}
      /\ UNCHANGED <<logged, instances, mutex, caught, leaving, stack, ended>>
  BY DEF FlushStep, FlushWrite, FlushSync, WriteOut, FlushClear, Runs
<1>3. at[c] \in DOMAIN instances
  BY <1>2, OnType
<1>4. CASE FlushReturns(c)
  <2>1. /\ pc' = [pc EXCEPT ![c] = pc'[c]]
        /\ \A d \in Contexts : d # c => at'[d] = at[d]
    BY <1>2, <1>4, FlushReturnsType
  <2>2. CASE c = Main
    BY <1>1, <1>2, <1>4, <2>1, <2>2 DEF FlushReturns, Goto
  <2>3. CASE c # Main /\ at[c] < Len(instances)
    <3>1. pc'[c] = "flush" /\ at'[c] = at[c] + 1
      BY <1>1, <1>4, <2>3 DEF FlushReturns, Goto
    <3> QED
      BY <1>2, <2>1, <2>3, <3>1
  <2>4. CASE c # Main /\ ~ (at[c] < Len(instances))
    <3>1. pc'[c] = "exit" /\ at'[c] = at[c]
      BY <1>1, <1>4, <2>4 DEF FlushReturns, Goto
    <3>2. at[c] = Len(instances)
      BY <1>1, <1>3, <2>4
    <3> QED
      BY <1>2, <2>1, <2>4, <3>1, <3>2
  <2> QED
    BY <2>2, <2>3, <2>4
<1>5. CASE ~ FlushReturns(c)
  <2>1. /\ \E label \in {"sync", "clear"} : pc' = [pc EXCEPT ![c] = label]
        /\ at' = at
    BY <1>5 DEF FlushStep, FlushWrite, FlushSync, WriteOut, FlushClear, Goto
  <2> QED
    BY <1>1, <1>2, <2>1
<1> QED
  BY <1>4, <1>5

LEMMA InstancesNext ==
  ASSUME BufferInv, LogStep
  PROVE  InstancesInv'
<1>1. ASSUME instances' = instances PROVE InstancesInv'
  BY <1>1 DEF BufferInv, PlaceInv, InstancesInv
<1>2. CASE PushBack
  <2>1. instances \in Seq(Buffers) /\ at[Main] = Len(instances) + 1
    BY <1>2 DEF PushBack, BufferInv, TypeOK, PlaceInv, MainInv
  <2>2. instances' = Append(instances, Len(instances) + 1)
    BY <1>2, <2>1 DEF PushBack
  <2> QED
    BY <2>1, <2>2 DEF BufferInv, PlaceInv, InstancesInv
<1>3. CASE Remove
  <2>1. /\ instances' \in Seq(Buffers)
        /\ Len(instances') = Len(instances) - 1 /\ Len(instances) \in Nat
        /\ \A i \in 1 .. Len(instances) - 1 : instances'[i] = instances[i]
    BY <1>3, RemoveLast DEF Remove
  <2>2. DOMAIN instances' = 1 .. Len(instances) - 1
    BY <2>1
  <2>3. \A i \in 1 .. Len(instances) - 1 : i \in DOMAIN instances
    BY <2>1 DEF BufferInv, TypeOK
  <2> QED
    BY <2>1, <2>2, <2>3 DEF BufferInv, PlaceInv, InstancesInv
<1>4. ASSUME NEW c \in Contexts, FlushStep(c) PROVE instances' = instances
  BY <1>4, FlushStepMoves
<1>5. CASE \/ LockInstances \/ RegisterSignals \/ Insert \/ Close \/ Return
           \/ Construct \/ Leave \/ EndedByCaller \/ UNCHANGED vars
  BY <1>1, <1>5 DEF LockInstances, RegisterSignals, Insert, Close, WriteOut,
     Return, Construct, Leave, EndedByCaller, vars
<1>6. ASSUME NEW b \in Buffers, Put(b) \/ Flush(b) PROVE instances' = instances
  BY <1>6 DEF Put, Flush
<1>7. ASSUME NEW s \in Signals, LockInHandler(s) \/ Exit(s)
      PROVE  instances' = instances
  BY <1>7 DEF LockInHandler, Exit
<1>8. ASSUME NEW s \in Signals, NEW t \in Threads, Deliver(s, t)
      PROVE  instances' = instances
  BY <1>8 DEF Deliver
<1> QED
  BY <1>1, <1>2, <1>3, <1>4, <1>5, <1>6, <1>7, <1>8, ContextsType, FailEnds
     DEF LogStep, Next, MainStep, HandlerStep

LEMMA MainNext ==
  ASSUME BufferInv, LogStep
  PROVE  MainInv'
<1>1. /\ pc \in [Contexts -> PCs] /\ at \in [Contexts -> Buffers]
      /\ instances \in Seq(Buffers) /\ Len(instances) \in Nat
      /\ DOMAIN instances = 1 .. Len(instances)
      /\ MainInv /\ Main \in Contexts /\ InstancesInv
  BY ContextsType DEF BufferInv, TypeOK, PlaceInv
<1>2. ASSUME UNCHANGED <<logged, instances, leaving>>,
             pc'[Main] = pc[Main], at'[Main] = at[Main]
      PROVE  MainInv'
  BY <1>1, <1>2 DEF MainInv
<1>3. CASE LockInstances
  BY <1>1, <1>3 DEF LockInstances, Goto, MainInv
<1>4. CASE PushBack
  <2>1. instances' = Append(instances, at[Main]) /\ pc'[Main] = "register_signals"
        /\ ~ leaving' /\ pc[Main] = "push_back"
    BY <1>1, <1>4 DEF PushBack, Goto, MainInv
  <2> QED
    BY <2>1 DEF MainInv
<1>5. CASE RegisterSignals \/ Insert
  BY <1>1, <1>5 DEF RegisterSignals, Insert, Goto, MainInv
<1>6. CASE FlushStep(Main)
  <2>1. /\ UNCHANGED <<logged, instances, leaving>> /\ at'[Main] = at[Main]
        /\ pc[Main] \in {"flush", "sync", "clear"}
        /\ \/ pc'[Main] \in {"sync", "clear"}
           \/ pc'[Main] = IF leaving THEN "close" ELSE "ready"
    BY <1>1, <1>6, FlushStepMoves
  <2> QED
    BY <1>1, <2>1 DEF MainInv
<1>7. CASE Close
  BY <1>1, <1>7 DEF Close, WriteOut, Goto, MainInv
<1>8. CASE Remove
  <2>1. /\ Len(instances') = Len(instances) - 1
        /\ instances' \in Seq(Buffers) /\ pc[Main] = "remove"
        /\ leaving' = leaving
    BY <1>8, RemoveLast DEF Remove
  <2>2. CASE Len(instances) > 1
    <3>1. pc'[Main] = "flush" /\ at'[Main] = instances[Len(instances) - 1]
      BY <1>1, <1>8, <2>2 DEF Remove, Goto
    <3>2. instances[Len(instances) - 1] = Len(instances) - 1
      BY <1>1, <2>2 DEF InstancesInv
    <3>3. /\ at'[Main] = Len(instances') /\ instances' # <<>>
          /\ at'[Main] \in DOMAIN instances'
      BY <1>1, <2>1, <2>2, <3>1, <3>2
    <3> QED
      BY <1>1, <2>1, <3>1, <3>3 DEF MainInv
  <2>3. CASE ~ (Len(instances) > 1)
    <3>1. pc'[Main] = "return"
      BY <1>1, <1>8, <2>3 DEF Remove, Goto
    <3>2. instances' = <<>>
      BY <1>1, <1>8, <2>1, <2>3, RemoveLast, EmptySeq
    <3> QED
      BY <1>1, <2>1, <3>1, <3>2 DEF MainInv
  <2> QED
    BY <2>2, <2>3
<1>9. CASE Return
  BY <1>2, <1>9 DEF Return
<1>10. CASE Construct
  BY <1>1, <1>10 DEF Construct, Ready, Goto, MainInv
<1>11. CASE Leave
  <2>1. Len(instances) >= 1 /\ instances # <<>>
    BY <1>1, <1>11, BuffersAssumption DEF Leave
  <2>2. instances[Len(instances)] = Len(instances)
    BY <1>1, <2>1 DEF InstancesInv
  <2> QED
    BY <1>1, <1>11, <2>1, <2>2 DEF Leave, Ready, Goto, MainInv
<1>12. ASSUME NEW b \in Buffers, Put(b) \/ Flush(b) PROVE MainInv'
  <2>1. b \in DOMAIN instances
    BY <1>1, <1>12 DEF Put, Flush, InstancesInv
  <2> QED
    BY <1>1, <1>12, <2>1 DEF Put, Flush, Ready, Goto, MainInv
<1>13. ASSUME NEW s \in Signals, HandlerStep(s) PROVE MainInv'
  <2>1. s \in Contexts /\ s # Main
    BY ContextsType
  <2>2. CASE FlushStep(s)
    <3>1. /\ UNCHANGED <<logged, instances, leaving>>
          /\ pc' = [pc EXCEPT ![s] = pc'[s]]
          /\ \A d \in Contexts : d # s => at'[d] = at[d]
      BY <2>1, <2>2, FlushStepMoves
    <3> QED
      BY <1>1, <1>2, <2>1, <3>1
  <2>3. CASE LockInHandler(s) \/ Exit(s)
    BY <1>1, <1>2, <2>1, <2>3 DEF LockInHandler, Exit, Goto
  <2> QED
    BY <1>13, <2>2, <2>3 DEF HandlerStep
<1>14. ASSUME NEW s \in Signals, NEW t \in Threads, Deliver(s, t) PROVE MainInv'
  BY <1>1, <1>2, <1>14, ContextsType DEF Deliver, Goto
<1>15. CASE EndedByCaller \/ UNCHANGED vars
  BY <1>2, <1>15 DEF EndedByCaller, vars
<1> QED
  BY <1>3, <1>4, <1>5, <1>6, <1>7, <1>8, <1>9, <1>10, <1>11, <1>12, <1>13,
     <1>14, <1>15, FailEnds
     DEF LogStep, Next, MainStep

LEMMA HandlerNext ==
  ASSUME BufferInv, LogStep
  PROVE  HandlerInv'
<1>1. /\ pc \in [Contexts -> PCs] /\ at \in [Contexts -> Buffers]
      /\ instances \in Seq(Buffers) /\ Len(instances) \in Nat
      /\ DOMAIN instances = 1 .. Len(instances)
      /\ MainInv /\ HandlerInv /\ Main \in Contexts
  BY ContextsType DEF BufferInv, TypeOK, PlaceInv
<1>2. ASSUME UNCHANGED <<mutex, instances>>,
             pc'[Main] \in {"push_back", "remove"}
               <=> pc[Main] \in {"push_back", "remove"},
             \A s \in Signals : pc'[s] = pc[s] /\ at'[s] = at[s]
      PROVE  HandlerInv'
  BY <1>1, <1>2 DEF HandlerInv
<1>3. ASSUME NEW label, pc' = [pc EXCEPT ![Main] = label]
      PROVE  /\ pc'[Main] = label
             /\ \A s \in Signals : pc'[s] = pc[s]
  BY <1>1, <1>3, ContextsType
<1>4. ASSUME NEW b, at' = [at EXCEPT ![Main] = b]
      PROVE  \A s \in Signals : at'[s] = at[s]
  BY <1>1, <1>4, ContextsType
<1>5. CASE LockInstances
  <2>1. /\ pc[Main] \in {"register", "unregister"} /\ mutex = Nobody
        /\ mutex' = Main
        /\ pc'[Main] \in {"push_back", "remove"}
        /\ \A s \in Signals : pc'[s] = pc[s]
        /\ UNCHANGED <<at, instances>>
    BY <1>3, <1>5 DEF LockInstances, Goto
  <2> QED
    BY <1>1, <2>1, ContextsType DEF HandlerInv
<1>6. CASE PushBack \/ Remove
  <2>1. /\ mutex = Main /\ mutex' = Nobody
        /\ pc'[Main] \notin {"push_back", "remove"}
        /\ \A s \in Signals : pc'[s] = pc[s] /\ mutex # s
    BY <1>1, <1>3, <1>6, ContextsType DEF PushBack, Remove, Goto, HandlerInv
  <2> QED
    BY <1>1, <2>1, ContextsType DEF HandlerInv
<1>7. CASE RegisterSignals \/ Insert \/ Close
  <2>1. /\ UNCHANGED <<mutex, instances, at>>
        /\ \A s \in Signals : pc'[s] = pc[s]
        /\ pc[Main] \notin {"push_back", "remove"}
        /\ pc'[Main] \notin {"push_back", "remove"}
    BY <1>3, <1>7 DEF RegisterSignals, Insert, Close, WriteOut, Goto
  <2> QED
    BY <1>2, <2>1
<1>8. CASE FlushStep(Main)
  <2>1. /\ UNCHANGED <<mutex, instances>>
        /\ pc[Main] \in {"flush", "sync", "clear"}
        /\ pc'[Main] \in {"sync", "clear", "close", "ready"}
        /\ pc' = [pc EXCEPT ![Main] = pc'[Main]]
        /\ \A d \in Contexts : d # Main => at'[d] = at[d]
    BY <1>1, <1>8, FlushStepMoves
  <2>2. \A s \in Signals : pc'[s] = pc[s] /\ at'[s] = at[s]
    BY <1>3, <2>1, ContextsType
  <2> QED
    BY <1>2, <2>1, <2>2
<1>9. CASE Return \/ EndedByCaller \/ UNCHANGED vars
  BY <1>2, <1>9 DEF Return, EndedByCaller, vars
<1>10. CASE Construct
  BY <1>2, <1>3, <1>4, <1>10 DEF Construct, Ready, Goto
<1>11. CASE Leave
  BY <1>2, <1>3, <1>4, <1>11 DEF Leave, Ready, Goto
<1>12. ASSUME NEW b \in Buffers, Put(b) \/ Flush(b) PROVE HandlerInv'
  BY <1>2, <1>3, <1>4, <1>12 DEF Put, Flush, Ready, Goto
<1>13. ASSUME NEW s \in Signals, LockInHandler(s) PROVE HandlerInv'
  <2>1. /\ pc[s] = "lock" /\ mutex = Nobody /\ mutex' = s
        /\ pc'[s] = IF instances = <<>> THEN "exit" ELSE "flush"
        /\ at'[s] = 1 /\ instances' = instances
        /\ \A d \in Contexts : d # s => pc'[d] = pc[d] /\ at'[d] = at[d]
    BY <1>1, <1>13, ContextsType DEF LockInHandler, Goto
  <2>2. pc'[Main] = pc[Main] /\ pc[Main] \notin {"push_back", "remove"}
    BY <1>1, <2>1, ContextsType DEF HandlerInv
  <2>3. instances # <<>> => 1 \in DOMAIN instances
    BY <1>1, EmptySeq
  <2>4. \A u \in Signals :
          u # s => /\ pc'[u] = pc[u] /\ at'[u] = at[u]
                   /\ pc[u] \in {"none", "lock"}
    BY <1>1, <2>1, ContextsType DEF HandlerInv
  <2> QED
    BY <2>1, <2>2, <2>3, <2>4, ContextsType DEF HandlerInv
<1>14. ASSUME NEW s \in Signals, FlushStep(s) PROVE HandlerInv'
  <2>1. s \in Contexts /\ s # Main
    BY ContextsType
  <2>2. /\ UNCHANGED <<mutex, instances>>
        /\ pc[s] \in {"flush", "sync", "clear"}
        /\ pc' = [pc EXCEPT ![s] = pc'[s]]
        /\ \A d \in Contexts : d # s => at'[d] = at[d]
        /\ \/ pc'[s] \in {"sync", "clear"} /\ at'[s] = at[s]
           \/ pc'[s] = "flush" /\ at[s] < Len(instances) /\ at'[s] = at[s] + 1
           \/ pc'[s] = "exit"
    BY <1>14, <2>1, FlushStepMoves
  <2>3. at[s] \in DOMAIN instances /\ mutex = s
    BY <1>1, <2>2 DEF HandlerInv
  <2>4. pc'[s] \in {"flush", "sync", "clear"} => at'[s] \in DOMAIN instances
    BY <1>1, <2>2, <2>3
  <2>5. \A d \in Contexts : d # s => pc'[d] = pc[d] /\ at'[d] = at[d]
    BY <1>1, <2>2
  <2>6. pc'[Main] = pc[Main]
    BY <1>1, <2>1, <2>5
  <2> QED
    BY <1>1, <2>2, <2>3, <2>4, <2>5, <2>6, ContextsType DEF HandlerInv
<1>15. ASSUME NEW s \in Signals, Exit(s) PROVE HandlerInv'
  BY <1>2, <1>15 DEF Exit
<1>16. ASSUME NEW s \in Signals, NEW t \in Threads, Deliver(s, t)
       PROVE  HandlerInv'
  <2>1. /\ pc[s] = "none" /\ pc'[s] = "lock" /\ UNCHANGED <<mutex, instances, at>>
        /\ \A d \in Contexts : d # s => pc'[d] = pc[d]
    BY <1>1, <1>16, ContextsType DEF Deliver, Goto
  <2>2. pc'[Main] = pc[Main]
    BY <1>1, <2>1, ContextsType
  <2> QED
    BY <1>1, <2>1, <2>2, ContextsType DEF HandlerInv
<1> QED
  BY <1>5, <1>6, <1>7, <1>8, <1>9, <1>10, <1>11, <1>12, <1>13, <1>14, <1>15,
     <1>16, FailEnds
     DEF LogStep, Next, MainStep, HandlerStep

(* A step leaves the stacks and what has begun alone, or delivers a signal. *)
LEMMA StepBegins ==
  ASSUME BufferInv, LogStep
  PROVE  \/ /\ stack' = stack
            /\ \A s \in Signals : pc'[s] = "none" <=> pc[s] = "none"
         \/ \E s \in Signals, t \in Threads : Deliver(s, t)
<1>1. /\ pc \in [Contexts -> PCs] /\ Main \in Contexts
      /\ \A s \in Signals : s # Main /\ s \in Contexts
  BY ContextsType DEF BufferInv, TypeOK
<1>2. ASSUME stack' = stack, NEW c \in Contexts, NEW label,
             pc' = [pc EXCEPT ![c] = label] \/ pc' = pc,
             c # Main => pc[c] # "none" /\ label # "none"
      PROVE  /\ stack' = stack
             /\ \A s \in Signals : pc'[s] = "none" <=> pc[s] = "none"
  BY <1>1, <1>2
<1>3. CASE \/ LockInstances \/ PushBack \/ RegisterSignals \/ Insert \/ Close
           \/ Remove \/ Construct \/ Leave
  <2>1. /\ stack' = stack
        /\ (\E label : pc' = [pc EXCEPT ![Main] = label]) \/ pc' = pc
    BY <1>3 DEF LockInstances, PushBack, RegisterSignals, Insert, Close,
                WriteOut, Remove, Construct, Leave, Goto
  <2> QED
    BY <1>1, <1>2, <2>1
<1>4. ASSUME NEW b \in Buffers, Put(b) \/ Flush(b)
      PROVE  /\ stack' = stack
             /\ \A s \in Signals : pc'[s] = "none" <=> pc[s] = "none"
  BY <1>1, <1>2, <1>4 DEF Put, Flush, Goto
<1>5. ASSUME NEW c \in Contexts, FlushStep(c)
      PROVE  /\ stack' = stack
             /\ \A s \in Signals : pc'[s] = "none" <=> pc[s] = "none"
  <2>1. /\ stack' = stack /\ pc' = [pc EXCEPT ![c] = pc'[c]]
        /\ pc[c] # "none" /\ pc'[c] # "none"
    BY <1>5, FlushStepMoves
  <2> QED
    BY <1>1, <1>2, <2>1
<1>6. ASSUME NEW s \in Signals, LockInHandler(s) \/ Exit(s)
      PROVE  /\ stack' = stack
             /\ \A u \in Signals : pc'[u] = "none" <=> pc[u] = "none"
  <2>1. /\ stack' = stack /\ pc[s] # "none"
        /\ \/ \E label \in {"exit", "flush"} : pc' = [pc EXCEPT ![s] = label]
           \/ pc' = pc
    BY <1>6 DEF LockInHandler, Exit, Goto
  <2> QED
    BY <1>1, <1>2, <2>1
<1>7. CASE Return \/ EndedByCaller \/ UNCHANGED vars
  BY <1>7 DEF Return, EndedByCaller, vars
<1> QED
  BY <1>1, <1>3, <1>4, <1>5, <1>6, <1>7, FailEnds
     DEF LogStep, Next, MainStep, HandlerStep

LEMMA StackNext ==
  ASSUME BufferInv, LogStep
  PROVE  StackInv'
<1>1. /\ StackInv /\ stack \in [Threads -> Seq(Contexts)]
      /\ pc \in [Contexts -> PCs]
  BY DEF BufferInv, TypeOK, PlaceInv
<1>2. CASE /\ stack' = stack
           /\ \A s \in Signals : pc'[s] = "none" <=> pc[s] = "none"
  BY <1>1, <1>2 DEF StackInv
<1>3. ASSUME NEW s \in Signals, NEW t \in Threads, Deliver(s, t)
      PROVE  StackInv'
  <2>1. /\ stack' = [stack EXCEPT ![t] = Append(@, s)]
        /\ pc' = [pc EXCEPT ![s] = "lock"]
        /\ s # Main /\ s \in Contexts
    BY <1>3, ContextsType DEF Deliver, Goto
  <2>2. \A u \in Threads : stack[u] \in Seq(Contexts) /\ Len(stack[u]) \in Nat
    BY <1>1
  <2>3. /\ Len(stack'[t]) = Len(stack[t]) + 1
        /\ stack'[t][Len(stack[t]) + 1] = s
        /\ \A i \in DOMAIN stack[t] : stack'[t][i] = stack[t][i]
        /\ DOMAIN stack'[t] = 1 .. Len(stack[t]) + 1
        /\ DOMAIN stack[t] = 1 .. Len(stack[t])
    BY <1>1, <2>1, <2>2
  <2>4. \A u \in Threads : u # t => stack'[u] = stack[u]
    BY <1>1, <2>1
  <2>5. \A u \in Threads : \A i \in DOMAIN stack'[u] :
          \/ i \in DOMAIN stack[u] /\ stack'[u][i] = stack[u][i]
          \/ u = t /\ i = Len(stack[t]) + 1 /\ stack'[u][i] = s
    BY <2>2, <2>3, <2>4
  <2>6. \A u \in Threads : \A i \in DOMAIN stack[u] :
          i \in DOMAIN stack'[u] /\ stack'[u][i] = stack[u][i]
    BY <2>2, <2>3, <2>4
  <2>7. stack'[Main] # <<>> /\ 1 \in DOMAIN stack[Main]
    <3>1. Main \in Threads /\ 1 \in DOMAIN stack[Main]
      BY <1>1, <2>2, ContextsType, EmptySeq DEF StackInv
    <3>2. 1 \in DOMAIN stack'[Main]
      BY <2>6, <3>1
    <3> QED
      BY <3>1, <3>2
  <2>8. ASSUME NEW u \in Threads, NEW i \in DOMAIN stack'[u]
        PROVE  stack'[u][i] = Main <=> u = Main /\ i = 1
    <3>1. CASE i \in DOMAIN stack[u] /\ stack'[u][i] = stack[u][i]
      BY <1>1, <3>1 DEF StackInv
    <3>2. CASE u = t /\ i = Len(stack[t]) + 1 /\ stack'[u][i] = s
      BY <2>1, <2>2, <2>3, <2>7, <3>2
    <3> QED
      BY <2>5, <3>1, <3>2
  <2>9. ASSUME NEW v \in Signals
        PROVE  pc'[v] # "none"
                 <=> \E u \in Threads : \E i \in DOMAIN stack'[u] : stack'[u][i] = v
    <3>1. CASE v = s
      BY <1>1, <2>1, <2>2, <2>3, <3>1
    <3>2. CASE v # s
      <4>1. pc'[v] = pc[v]
        BY <1>1, <2>1, <3>2, ContextsType
      <4>2. pc[v] # "none"
              <=> \E u \in Threads : \E i \in DOMAIN stack[u] : stack[u][i] = v
        BY <1>1 DEF StackInv
      <4> QED
        BY <2>5, <2>6, <3>2, <4>1, <4>2
    <3> QED
      BY <3>1, <3>2
  <2> QED
    BY <2>7, <2>8, <2>9 DEF StackInv
<1> QED
  BY <1>2, <1>3, StepBegins

LEMMA EndNext ==
  ASSUME BufferInv, LogStep
  PROVE  EndInv'
<1>1. ASSUME ended' \in Outcomes \ {"returned"} PROVE EndInv'
  BY <1>1, ContextsType DEF EndInv
<1>2. "no" \in Outcomes \ {"returned"} /\ "terminated" \in Outcomes \ {"returned"}
      /\ "crashed" \in Outcomes \ {"returned"}
  BY DEF Outcomes
<1>3. CASE \/ LockInstances \/ PushBack \/ RegisterSignals \/ Insert \/ Close
           \/ Remove \/ Construct \/ Leave \/ EndedByCaller
  <2>1. ended' = "no" \/ ended' = "terminated" \/ EndedByCaller
    BY <1>3 DEF LockInstances, PushBack, RegisterSignals, Insert, Close,
                WriteOut, Remove, Construct, Leave, Ready, Runs
  <2> QED
    BY <1>1, <1>2, <2>1 DEF EndedByCaller
<1>4. ASSUME NEW b \in Buffers, Put(b) \/ Flush(b) PROVE EndInv'
  BY <1>1, <1>2, <1>4 DEF Put, Flush, Ready, Runs
<1>5. ASSUME NEW c \in Contexts, FlushStep(c) PROVE EndInv'
  <2>1. ended' = "no"
    BY <1>5, FlushStepMoves
  <2> QED
    BY <1>1, <1>2, <2>1
<1>6. ASSUME NEW s \in Signals, LockInHandler(s) PROVE EndInv'
  BY <1>1, <1>2, <1>6 DEF LockInHandler, Runs
<1>7. ASSUME NEW s \in Signals, Exit(s) PROVE EndInv'
  <2>1. ended' = s /\ pc' = pc /\ pc[s] = "exit" /\ s # "returned"
    BY <1>7, ContextsType DEF Exit, Outcomes
  <2> QED
    BY <2>1 DEF EndInv
<1>8. ASSUME NEW s \in Signals, NEW t \in Threads, Deliver(s, t) PROVE EndInv'
  BY <1>1, <1>2, <1>8 DEF Deliver
<1>9. CASE Return
  <2>1. ended' = "returned" /\ pc' = pc /\ pc[Main] = "return"
    BY <1>9 DEF Return
  <2> QED
    BY <2>1, ContextsType DEF EndInv, Outcomes
<1>10. CASE UNCHANGED vars
  BY <1>10 DEF vars, BufferInv, PlaceInv, EndInv
<1> QED
  BY <1>3, <1>4, <1>5, <1>6, <1>7, <1>8, <1>9, <1>10, ContextsType, FailEnds
     DEF LogStep, Next, MainStep, HandlerStep

LEMMA BufferInit == Init => BufferInv
<1> SUFFICES ASSUME Init PROVE BufferInv
  OBVIOUS
<1>1. /\ pc[Main] = "ready" /\ \A s \in Signals : pc[s] = "none"
      /\ instances = <<>> /\ ~ leaving /\ mutex = Nobody /\ ended = "no"
      /\ Main \in Contexts /\ Main \in Threads
  BY ContextsType DEF Init
<1>2. TypeOK
  <2>1. <<>> \in Records /\ 0 \in 0 .. MaxRecords /\ 1 \in Buffers
    BY BuffersAssumption DEF Records, Buffers
  <2>2. stack \in [Threads -> Seq(Contexts)]
    <3>1. <<Main>> \in Seq(Contexts) /\ <<>> \in Seq(Contexts)
      BY <1>1
    <3> QED
      BY <3>1 DEF Init
  <2>3. /\ pc \in [Contexts -> PCs] /\ at \in [Contexts -> Buffers]
        /\ ended \in Signals \cup Outcomes
        /\ mutex \in Contexts \cup {Nobody} /\ instances \in Seq(Buffers)
    BY <2>1 DEF Init, PCs, Outcomes
  <2> QED
    BY <2>1, <2>2, <2>3 DEF Init, TypeOK
<1>3. InstancesInv /\ MainInv /\ HandlerInv
  BY <1>1, ContextsType DEF InstancesInv, MainInv, HandlerInv
<1>4. StackInv
  <2>1. stack[Main] = <<Main>> /\ \A t \in Threads : t # Main => stack[t] = <<>>
    BY <1>1 DEF Init
  <2>2. \A t \in Threads : \A i \in DOMAIN stack[t] :
          t = Main /\ i = 1 /\ stack[t][i] = Main
    BY <2>1
  <2> QED
    BY <1>1, <2>1, <2>2, ContextsType DEF StackInv
<1>5. EndInv
  BY <1>1, ContextsType DEF EndInv
<1> QED
  BY <1>2, <1>3, <1>4, <1>5 DEF BufferInv, PlaceInv

LEMMA BufferNext == BufferInv /\ LogStep => BufferInv'
BY LogTypeNext, InstancesNext, MainNext, HandlerNext, StackNext, EndNext
   DEF BufferInv, PlaceInv

THEOREM BufferInvariant == Spec => []BufferInv
<1>1. BufferInv /\ [Next]_vars => BufferInv'
  BY BufferNext DEF LogStep
<1> QED
  BY <1>1, BufferInit, PTL DEF Spec

(* Every variable keeps its type: no list of instances outgrows the Buffers *)
(* and no log the records written to it.                                    *)
THEOREM LogTypeCorrect == Spec => []TypeOK
<1>1. BufferInv => TypeOK
  BY DEF BufferInv
<1> QED
  BY <1>1, BufferInvariant, PTL

(* The handler that walks through instances_ never reaches past its end:    *)
(* mutex_ is taken for good, so no destructor removes a Buffer under it.    *)
THEOREM HandlerSeesLiveBuffers == Spec => []HandlerSeesNoDestroyedBuffer
<1>1. BufferInv => HandlerSeesNoDestroyedBuffer
  <2> SUFFICES ASSUME BufferInv, NEW s \in Signals,
                      pc[s] \in {"flush", "sync", "clear"}
               PROVE  at[s] <= Len(instances)
    BY DEF HandlerSeesNoDestroyedBuffer
  <2>1. at[s] \in DOMAIN instances
    BY DEF BufferInv, PlaceInv, HandlerInv
  <2>2. instances \in Seq(Buffers)
    BY DEF BufferInv, TypeOK
  <2> QED
    BY <2>1, <2>2
<1> QED
  BY <1>1, BufferInvariant, PTL

=============================================================================
